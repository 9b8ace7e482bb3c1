---------------------------- MODULE RaftLogSteps ----------------------------
(***************************************************************************)
(* Lemmas for the proofs about Raft: about sequences and the operators of  *)
(* Raft, about histories (RaftInvariants) and what follows from one, and   *)
(* about what a step of Raft keeps of each part of a history that explains *)
(* the state.                                                              *)
(*                                                                         *)
(* The last section has the steps of elections: each leads from a state    *)
(* that a history explains to one that a history explains, the same or,    *)
(* when a candidate wins, one that has its term.                           *)
(***************************************************************************)
EXTENDS RaftInvariants, TLAPS

(* Numbers.  With these, a step about the state of a server needs no arithmetic of its own. *)

\* The order of the natural numbers.
LEMMA NatOrder ==
    ASSUME NEW x \in Nat, NEW y \in Nat
    PROVE  /\ x <= x /\ (x >= y <=> y <= x) /\ (x > y <=> y < x) /\ (x > 0 <=> x # 0)
           /\ (x < y <=> x <= y /\ x # y) /\ (~ (x <= y) <=> y < x)
           /\ (x <= y /\ y <= x => x = y) /\ (x <= y /\ x # 0 => y # 0)
           /\ \A z \in Nat : /\ x <= y /\ y <= z => x <= z
                             /\ x < y /\ y <= z => x < z
BY SMTT(30)

\* The numbers up to n.
LEMMA InRange ==
    ASSUME NEW n \in Nat, NEW k
    PROVE  /\ k \in 1..n <=> k \in Nat /\ k # 0 /\ k <= n
           /\ k \in 0..n <=> k \in Nat /\ k <= n
           /\ k \in 1..n => n > 0
BY SMTT(30)

\* What Larger returns.
LEMMA LargerOf ==
    ASSUME NEW x \in Nat, NEW y \in Nat
    PROVE  /\ Larger(x, y) \in Nat /\ Larger(x, y) >= x /\ Larger(x, y) >= y
           /\ x <= Larger(x, y) /\ y <= Larger(x, y)
           /\ Larger(x, y) = x \/ Larger(x, y) = y
           /\ y <= x => Larger(x, y) = x
           /\ ~ (y <= x) => Larger(x, y) = y
BY SMTT(30) DEF Larger

\* The next number.
LEMMA Successor ==
    ASSUME NEW x \in Nat
    PROVE  x + 1 \in Nat /\ x <= x + 1 /\ ~ (x + 1 <= x) /\ x + 1 <= x + 1
BY SMTT(30)

\* What a pair holds.
LEMMA SecondOf ==
    ASSUME NEW S, NEW T, NEW a \in S \X T
    PROVE  a[2] \in T
BY SMTT(30)

(* Sequences.  SequenceTheorems has these facts too; here each is a leaf of its own. *)

\* A sequence is a function on 1..Len(seq).
LEMMA LenProperties ==
    ASSUME NEW S, NEW seq \in Seq(S)
    PROVE  Len(seq) \in Nat /\ seq \in [1..Len(seq) -> S] /\ DOMAIN seq = 1..Len(seq)
BY SMTT(30)

\* What a sequence over S holds is in S.
LEMMA ElementOfSeq ==
    ASSUME NEW S, NEW seq \in Seq(S), NEW n \in 1..Len(seq)
    PROVE  seq[n] \in S
BY SMTT(30)

\* The empty sequence is the one of length 0.
LEMMA EmptySeq ==
    ASSUME NEW S
    PROVE  /\ <<>> \in Seq(S) /\ Len(<<>>) = 0
           /\ \A seq \in Seq(S) : seq # <<>> => Len(seq) \in Nat \ {0}
BY SMTT(30)

\* Sequences with the same entries are equal.
LEMMA SeqEqual ==
    ASSUME NEW S, NEW s \in Seq(S), NEW t \in Seq(S), Len(s) = Len(t),
           \A i \in 1..Len(s) : s[i] = t[i]
    PROVE  s = t
BY SMTT(30)

\* What Append makes.
LEMMA AppendProperties ==
    ASSUME NEW S, NEW seq \in Seq(S), NEW elt \in S
    PROVE  /\ Append(seq, elt) \in Seq(S) /\ Append(seq, elt) # <<>>
           /\ Len(Append(seq, elt)) = Len(seq) + 1
           /\ \A i \in 1..Len(seq) : Append(seq, elt)[i] = seq[i]
           /\ Append(seq, elt)[Len(seq) + 1] = elt
BY SMTT(30)

\* What \o makes.
LEMMA ConcatProperties ==
    ASSUME NEW S, NEW s1 \in Seq(S), NEW s2 \in Seq(S)
    PROVE  /\ s1 \o s2 \in Seq(S) /\ Len(s1 \o s2) = Len(s1) + Len(s2)
           /\ \A i \in 1..Len(s1) + Len(s2) :
                 (s1 \o s2)[i] = IF i <= Len(s1) THEN s1[i] ELSE s2[i - Len(s1)]
BY SMTT(30)

\* What SubSeq makes.
LEMMA SubSeqProperties ==
    ASSUME NEW S, NEW s, NEW m \in Int, NEW n \in Int, \A i \in m..n : s[i] \in S
    PROVE  /\ SubSeq(s, m, n) \in Seq(S) /\ Len(SubSeq(s, m, n)) = IF m <= n THEN n - m + 1 ELSE 0
           /\ \A i \in 1..n - m + 1 : SubSeq(s, m, n)[i] = s[m + i - 1]
BY SMTT(30)

-----------------------------------------------------------------------------
(* The operators of Raft. *)

\* A non-empty bounded set of naturals has a greatest element.
LEMMA GreatestNatural ==
    ASSUME WellOrdered, NEW S, NEW b \in Nat, S \subseteq 0..b, S # {}
    PROVE  \E n \in S : \A k \in S : n >= k
<1> DEFINE T == {x \in 0..b : b - x \in S}
<1>1. T \subseteq Nat /\ T # {}
  <2>1. PICK s \in S : TRUE
    BY Zenon
  <2>2. s \in 0..b /\ b - (b - s) = s
    BY <2>1, SMTT(30)
  <2>3. b - s \in T
    BY <2>1, <2>2, SMTT(30)
  <2>4. T # {}
    BY <2>3, Zenon
  <2>5. \A x \in T : x \in Nat
    BY SMTT(30)
  <2> QED BY <2>4, <2>5, Zenon
<1>2. PICK t \in T : \A k \in T : t <= k
  BY <1>1, Zenon DEF WellOrdered
<1>3. \A k \in S : b - t >= k
  <2> SUFFICES ASSUME NEW k \in S PROVE b - t >= k
    BY Zenon
  <2>1. k \in 0..b /\ b - (b - k) = k
    BY SMTT(30)
  <2>2. b - k \in T
    BY <2>1, SMTT(30)
  <2>3. t <= b - k /\ t \in 0..b
    BY <2>2, <1>2, Zenon
  <2> QED BY <2>1, <2>3, SMTT(30)
<1> QED BY <1>2, <1>3, Zenon

\* lastIndex() is a natural number and is never below the snapshot's index.
LEMMA LastIndexType ==
    ASSUME TypeOK, NEW i \in Server
    PROVE  lastIndex(i) \in Nat /\ lastIndex(i) >= lastIncludedIndex[i]
BY LenProperties, SMTT(30) DEF TypeOK, lastIndex

\* termAt() answers a term for every index the log or its snapshot boundary holds, and
\* -1 for any other.
LEMMA TermAtType ==
    ASSUME TypeOK, NEW i \in Server, NEW index \in Int
    PROVE  /\ termAt(i, index) \in Nat \union {-1}
           /\ index \in lastIncludedIndex[i]..lastIndex(i) => termAt(i, index) \in Nat
<1>1. logs[i] \in Seq(Entry) /\ lastIncludedIndex[i] \in Nat /\ lastIncludedTerm[i] \in Nat
  BY Zenon DEF TypeOK
<1>2. \A k \in 1..Len(logs[i]) : logs[i][k] \in Entry
  BY <1>1, ElementOfSeq, Zenon
<1>3. Len(logs[i]) \in Nat
  BY <1>1, LenProperties, Zenon
<1>4. CASE index = lastIncludedIndex[i]
  BY <1>1, <1>4, Zenon DEF termAt
<1>5. CASE index # lastIncludedIndex[i] /\ index - lastIncludedIndex[i] \in 1..Len(logs[i])
  <2>1. logs[i][index - lastIncludedIndex[i]].Term \in Nat
    BY <1>2, <1>5, Zenon DEF Entry
  <2> QED BY <1>5, <2>1, Zenon DEF termAt
<1>6. CASE index # lastIncludedIndex[i] /\ index - lastIncludedIndex[i] \notin 1..Len(logs[i])
  <2>1. termAt(i, index) = -1
    BY <1>6, Zenon DEF termAt
  <2>2. index \notin lastIncludedIndex[i]..lastIndex(i)
    BY <1>1, <1>3, <1>6, SMTT(30) DEF lastIndex
  <2> QED BY <2>1, <2>2, Zenon
<1> QED BY <1>4, <1>5, <1>6, Zenon

\* The slice of the log that replicateToPeer sends, or a snapshot keeps, is a log.
LEMMA EntriesAfterType ==
    ASSUME TypeOK, NEW i \in Server, NEW index \in Int, index >= lastIncludedIndex[i]
    PROVE  EntriesAfter(i, index) \in Seq(Entry)
<1>1. logs[i] \in Seq(Entry) /\ lastIncludedIndex[i] \in Nat /\ Len(logs[i]) \in Nat
  BY LenProperties, Zenon DEF TypeOK
<1>2. \A k \in (index - lastIncludedIndex[i] + 1)..Len(logs[i]) : logs[i][k] \in Entry
  BY <1>1, ElementOfSeq, SMTT(30)
<1> QED BY <1>1, <1>2, SubSeqProperties, SMTT(30) DEF EntriesAfter

\* A follower's commit index stays a natural number.
LEMMA CommitAfterType ==
    ASSUME TypeOK, NEW i \in Server, NEW m \in AppendEntriesMessage
    PROVE  CommitAfter(i, m) \in Nat
<1>1. /\ m.PrevLogIndex \in Nat /\ m.LeaderCommitIndex \in Nat /\ m.Entries \in Seq(Entry)
      /\ commitIndex[i] \in Nat
  BY Zenon DEF TypeOK, AppendEntriesMessage
<1>2. Len(m.Entries) \in Nat
  BY <1>1, LenProperties, Zenon
<1> QED BY <1>1, <1>2, SMTT(30) DEF CommitAfter, Smaller

\* The fields of a message, by its type.
LEMMA MessageFields ==
    ASSUME NEW m \in Message
    PROVE  /\ m.from \in Server /\ m.to \in Server /\ m.Term \in Nat
           /\ m.type = "RequestVoteReply" => m.term \in Nat /\ m.VoteGranted \in BOOLEAN
           /\ m.type = "AppendEntries" => m \in AppendEntriesMessage
           /\ m.type = "AppendEntriesReply" => m.term \in Nat /\ m.Matched \in Nat
           /\ m.type = "InstallSnapshot" =>
                 /\ m.LastIncludedIndex \in Nat /\ m.LastIncludedTerm \in Nat
                 /\ m.Data \in Seq(Entry)
BY Zenon DEF Message, AppendEntriesMessage

\* The least of a set of naturals, where there is a history.
LEMMA Ordered == ASSUME History # {} PROVE WellOrdered
BY Zenon DEF History, Grounds

-----------------------------------------------------------------------------
(* Logs that share a prefix. *)

\* The entries of a log have terms, and it has a length.
LEMMA LogTypes ==
    ASSUME NEW s \in Seq(Entry)
    PROVE  Len(s) \in Nat /\ \A n \in 1..Len(s) : s[n] \in Entry /\ s[n].Term \in Nat
<1>1. \A n \in 1..Len(s) : s[n] \in Entry
  BY ElementOfSeq, Zenon
<1> QED BY <1>1, LenProperties, Zenon DEF Entry

\* The parts of a history have their types.
LEMMA HistoryTypes ==
    ASSUME NEW h \in History, NEW t \in Nat
    PROVE  /\ h.leader[t] \in Server \union {Nil} /\ h.log[t] \in Seq(Entry)
           /\ Len(h.log[t]) \in Nat
           /\ \A n \in 1..Len(h.log[t]) : h.log[t][n] \in Entry /\ h.log[t][n].Term \in Nat
           /\ \A u \in Server : h.held[u][t] \in Nat
<1>1. h.leader[t] \in Server \union {Nil} /\ h.log[t] \in Seq(Entry)
      /\ \A u \in Server : h.held[u][t] \in Nat
  BY SMTT(30) DEF History, HistoryRecord
<1> QED BY <1>1, LogTypes, Zenon

\* Sharing a prefix is symmetric and transitive, and holds of shorter prefixes.
LEMMA HoldsRules ==
    ASSUME NEW s \in Seq(Entry), NEW t \in Seq(Entry), NEW n \in Nat, Holds(s, t, n)
    PROVE  /\ Holds(t, s, n)
           /\ \A m \in Nat : m <= n => Holds(s, t, m)
           /\ \A r \in Seq(Entry) : Holds(t, r, n) => Holds(s, r, n)
<1>1. Len(s) \in Nat /\ Len(t) \in Nat /\ \A r \in Seq(Entry) : Len(r) \in Nat
  BY LenProperties, Zenon
<1> QED BY <1>1, SMTT(30) DEF Holds

\* No entries are held always, and all that a sequence has by itself.
LEMMA HoldsTrivially ==
    ASSUME NEW s \in Seq(Entry), NEW t \in Seq(Entry)
    PROVE  Holds(s, t, 0) /\ Holds(s, s, Len(s))
<1>1. Len(s) \in Nat /\ Len(t) \in Nat
  BY LenProperties, Zenon
<1> QED BY <1>1, SMTT(30) DEF Holds

\* What s has of t, it has of any continuation of t.
LEMMA HoldsLonger ==
    ASSUME NEW s \in Seq(Entry), NEW t \in Seq(Entry), NEW r \in Seq(Entry), NEW n \in Nat,
           Holds(s, t, n), Holds(r, t, Len(t))
    PROVE  Holds(s, r, n)
<1>1. Len(s) \in Nat /\ Len(t) \in Nat /\ Len(r) \in Nat
  BY LenProperties, Zenon
<1> QED BY <1>1, SMTT(30) DEF Holds

\* Two logs of one lineage that agree on the term of an entry agree up to it.
LEMMA LineageMatch ==
    ASSUME NEW h \in History, NEW s \in Seq(Entry), NEW t \in Seq(Entry),
           Lineage(h, s), Lineage(h, t), NEW n \in Nat, n > 0, n <= Len(s), n <= Len(t),
           s[n].Term = t[n].Term
    PROVE  Holds(s, t, n)
<1>1. Len(s) \in Nat /\ Len(t) \in Nat /\ n \in 1..Len(s) /\ n \in 1..Len(t)
  BY LenProperties, SMTT(30)
<1>2. s[n].Term \in Nat
  BY <1>1, LogTypes, Zenon
<1>3. Holds(s, h.log[s[n].Term], n) /\ Holds(t, h.log[s[n].Term], n)
  BY <1>1, Zenon DEF Lineage
<1> QED BY <1>1, <1>2, <1>3, Zenon DEF Holds

\* A log that has a prefix of one lineage is of that lineage so far.
LEMMA LineagePrefix ==
    ASSUME NEW h \in History, NEW s \in Seq(Entry), NEW t \in Seq(Entry), Lineage(h, t),
           Holds(s, t, Len(s))
    PROVE  Lineage(h, s)
<1> SUFFICES ASSUME NEW n \in 1..Len(s)
             PROVE  Elected(h, s[n].Term) /\ Holds(s, h.log[s[n].Term], n)
  BY Zenon DEF Lineage
<1>1. Len(s) \in Nat /\ Len(t) \in Nat /\ n \in 1..Len(t) /\ s[n] = t[n] /\ n \in Nat
  BY LenProperties, SMTT(30) DEF Holds
<1>2. Elected(h, t[n].Term) /\ Holds(t, h.log[t[n].Term], n)
  BY <1>1, Zenon DEF Lineage
<1>3. Holds(s, t, n)
  BY <1>1, SMTT(30) DEF Holds
<1> QED BY <1>1, <1>2, <1>3, Zenon DEF Holds

\* Within a lineage terms do not go down, where no leader's log goes above its term.
LEMMA LineageSorted ==
    ASSUME NEW h \in History, NEW s \in Seq(Entry), Lineage(h, s),
           \A t \in Nat : UpTo(h.log[t], t), NEW n \in 1..Len(s), NEW k \in 1..n
    PROVE  s[k].Term <= s[n].Term
<1>1. Len(s) \in Nat /\ s[n].Term \in Nat
  BY LogTypes, Zenon
<1>2. Holds(s, h.log[s[n].Term], n) /\ UpTo(h.log[s[n].Term], s[n].Term)
  BY <1>1, Zenon DEF Lineage
<1>3. Len(h.log[s[n].Term]) \in Nat
  BY <1>1, HistoryTypes, Zenon
<1>4. k \in 1..Len(h.log[s[n].Term]) /\ s[k] = h.log[s[n].Term][k]
  BY <1>1, <1>2, <1>3, SMTT(30) DEF Holds
<1> QED BY <1>2, <1>4, Zenon DEF UpTo

-----------------------------------------------------------------------------
(* Majorities. *)

\* Two majorities share a server.
LEMMA QuorumsMeet ==
    ASSUME History # {}, NEW Q \in SUBSET Server, NEW R \in SUBSET Server, Majority(Q), Majority(R)
    PROVE  \E v \in Server : v \in Q /\ v \in R
BY Zenon DEF History, Grounds

\* What contains a majority is one.
LEMMA QuorumGrows ==
    ASSUME History # {}, NEW Q \in SUBSET Server, NEW R \in SUBSET Server,
           Majority(Q), Q \subseteq R
    PROVE  Majority(R)
BY Zenon DEF History, Grounds

\* What a majority held is not blocked.
LEMMA ChosenNotBlocked ==
    ASSUME NEW h \in History, NEW terms, NEW c \in Nat, NEW n \in Nat, Chosen(h, c, n)
    PROVE  ~ Blocked(h, terms, c, n)
<1> SUFFICES ASSUME NEW Q \in SUBSET Server, Majority(Q),
                    \A u \in Q : terms[u] > c /\ h.held[u][c] < n
             PROVE  FALSE
  BY Zenon DEF Blocked
<1>1. PICK v \in Server : v \in Q /\ v \in {u \in Server : h.held[u][c] >= n}
  BY QuorumsMeet, Zenon DEF Chosen
<1>2. h.held[v][c] \in Nat
  BY HistoryTypes, Zenon
<1> QED BY <1>1, <1>2, SMTT(30)

\* A history continues itself.
LEMMA ContinuesSame ==
    ASSUME NEW h \in History, NEW terms
    PROVE  Continues(h, h, terms)
<1> SUFFICES ASSUME NEW t \in Nat
             PROVE  /\ Holds(h.log[t], h.log[t], Len(h.log[t]))
                    /\ \A u \in Server : h.held[u][t] >= h.held[u][t]
  BY Zenon DEF Continues
<1>1. Len(h.log[t]) \in Nat /\ \A u \in Server : h.held[u][t] \in Nat
  BY HistoryTypes, Zenon
<1> QED BY <1>1, SMTT(30) DEF Holds

\* A lineage stays one.
LEMMA LineageKept ==
    ASSUME NEW h \in History, NEW g \in History, NEW terms, Continues(h, g, terms),
           NEW s \in Seq(Entry), Lineage(h, s)
    PROVE  Lineage(g, s)
<1> SUFFICES ASSUME NEW n \in 1..Len(s)
             PROVE  Elected(g, s[n].Term) /\ Holds(s, g.log[s[n].Term], n)
  BY Zenon DEF Lineage
<1> DEFINE t == s[n].Term
<1>1. t \in Nat /\ Len(s) \in Nat
  BY LogTypes, Zenon
<1>2. Elected(h, t) /\ Holds(s, h.log[t], n)
  BY Zenon DEF Lineage
<1>3. Holds(g.log[t], h.log[t], Len(h.log[t])) /\ g.leader[t] = h.leader[t]
  BY <1>1, <1>2, Zenon DEF Continues
<1>4. Len(h.log[t]) \in Nat /\ Len(g.log[t]) \in Nat
  BY <1>1, HistoryTypes, Zenon
<1> HIDE DEF t
<1>5. Elected(g, t)
  BY <1>2, <1>3, Zenon DEF Elected
<1>6. Holds(s, g.log[t], n)
  BY <1>1, <1>2, <1>3, <1>4, SMTT(30) DEF Holds
<1> QED BY <1>5, <1>6, Zenon DEF t

\* An entry a leader appended stays, and the old ones are those within the old log.
LEMMA OwnKept ==
    ASSUME NEW h \in History, NEW g \in History, NEW terms, Continues(h, g, terms),
           NEW c \in Nat, NEW n \in Nat
    PROVE  /\ Own(h, c, n) => Own(g, c, n)
           /\ Own(g, c, n) /\ n <= Len(h.log[c]) => Own(h, c, n)
<1>1. Holds(g.log[c], h.log[c], Len(h.log[c]))
  BY Zenon DEF Continues
<1>2. Len(h.log[c]) \in Nat /\ Len(g.log[c]) \in Nat
  BY HistoryTypes, Zenon
<1> QED BY <1>1, <1>2, SMTT(30) DEF Holds, Own

\* What a majority held, it still has held.
LEMMA ChosenKept ==
    ASSUME NEW h \in History, NEW g \in History, NEW terms, Continues(h, g, terms),
           NEW c \in Nat, NEW n \in Nat, Chosen(h, c, n)
    PROVE  Chosen(g, c, n)
<1>1. Own(g, c, n)
  BY OwnKept, Zenon DEF Chosen
<1>2. \A u \in Server : /\ h.held[u][c] \in Nat /\ g.held[u][c] \in Nat
                        /\ g.held[u][c] >= h.held[u][c]
  BY HistoryTypes, Zenon DEF Continues
<1>3. {u \in Server : h.held[u][c] >= n} \subseteq {u \in Server : g.held[u][c] >= n}
  BY <1>2, SMTT(30)
<1>4. Majority({u \in Server : g.held[u][c] >= n})
  BY <1>3, QuorumGrows, Zenon DEF Chosen
<1> QED BY <1>1, <1>4, Zenon DEF Chosen

\* A majority that left a term without an entry stays without it.
LEMMA BlockedKept ==
    ASSUME NEW h \in History, NEW g \in History, NEW old \in [Server -> Nat],
           NEW new \in [Server -> Nat], \A u \in Server : new[u] >= old[u],
           Continues(h, g, new), NEW c \in Nat, NEW n \in Nat, Blocked(h, old, c, n)
    PROVE  Blocked(g, new, c, n)
<1>1. PICK Q \in SUBSET Server :
          Majority(Q) /\ \A u \in Q : old[u] > c /\ h.held[u][c] < n
  BY Zenon DEF Blocked
<1>2. ASSUME NEW u \in Q
      PROVE  new[u] > c /\ g.held[u][c] < n
  <2>1. new[u] > c
    BY <1>1, SMTT(30)
  <2>2. g.held[u][c] = h.held[u][c]
    BY <2>1, SMTT(30) DEF Continues
  <2> QED BY <1>1, <2>1, <2>2, Zenon
<1> QED BY <1>1, <1>2, Zenon DEF Blocked

\* A log that is safe for an entry stays so.
LEMMA SafeKept ==
    ASSUME NEW h \in History, NEW g \in History, NEW old \in [Server -> Nat],
           NEW new \in [Server -> Nat], \A u \in Server : new[u] >= old[u],
           Continues(h, g, new), NEW c \in Nat, NEW n \in Nat, NEW s \in Seq(Entry),
           Safe(h, old, s, c, n)
    PROVE  Safe(g, new, s, c, n)
<1>1. CASE Blocked(h, old, c, n)
  BY <1>1, BlockedKept, Zenon DEF Safe
<1>2. CASE Holds(s, h.log[c], n)
  <2>1. Holds(g.log[c], h.log[c], Len(h.log[c]))
    BY Zenon DEF Continues
  <2>2. h.log[c] \in Seq(Entry) /\ g.log[c] \in Seq(Entry)
    BY HistoryTypes, Zenon
  <2>3. Holds(s, g.log[c], n)
    BY <1>2, <2>1, <2>2, HoldsLonger, Zenon
  <2> QED BY <2>3, Zenon DEF Safe
<1> QED BY <1>1, <1>2, Zenon DEF Safe

\* What was committed stays so, in any log that has it and as of any later term.
LEMMA CommittedKept ==
    ASSUME NEW h \in History, NEW g \in History, NEW terms, Continues(h, g, terms),
           NEW t \in Nat, NEW u \in Nat, t <= u, NEW s \in Seq(Entry), NEW r \in Seq(Entry),
           NEW n \in Nat, NEW k \in Nat, CommittedBy(h, t, s, k), n <= k, Holds(r, s, n)
    PROVE  CommittedBy(g, u, r, n)
<1>1. CASE k = 0
  BY <1>1, SMTT(30) DEF CommittedBy
<1>2. CASE k # 0
  <2>1. PICK c \in 0..t : \E l \in Nat : Chosen(h, c, l) /\ k <= l /\ Holds(s, h.log[c], k)
    BY <1>2, Zenon DEF CommittedBy
  <2>2. PICK l \in Nat : Chosen(h, c, l) /\ k <= l /\ Holds(s, h.log[c], k)
    BY <2>1, Zenon
  <2>3. c \in Nat /\ c \in 0..u
    BY SMTT(30)
  <2>4. Chosen(g, c, l)
    BY <2>2, <2>3, ChosenKept, Zenon
  <2>5. Holds(g.log[c], h.log[c], Len(h.log[c]))
    BY <2>3, Zenon DEF Continues
  <2>6. h.log[c] \in Seq(Entry) /\ g.log[c] \in Seq(Entry)
    BY <2>3, HistoryTypes, Zenon
  <2>7. Holds(r, g.log[c], n)
    <3>1. Holds(s, h.log[c], n)
      BY <2>2, <2>6, HoldsRules, Zenon
    <3>2. Holds(r, h.log[c], n)
      BY <2>6, <3>1, HoldsRules, Zenon
    <3> QED BY <2>5, <2>6, <3>2, HoldsLonger, Zenon
  <2> QED BY <2>2, <2>3, <2>4, <2>7, SMTT(30) DEF CommittedBy
<1> QED BY <1>1, <1>2, Zenon

-----------------------------------------------------------------------------
(* Commitment. *)

\* A later leader has everything that was committed in an earlier term.
LEMMA ChosenHeld ==
    ASSUME NEW h \in History, SuccessionInv(h), NEW c \in Nat, NEW t \in Nat, c <= t,
           Elected(h, t), NEW n \in Nat, Chosen(h, c, n)
    PROVE  Holds(h.log[t], h.log[c], n)
<1>1. CASE c = t
  <2>1. n <= Len(h.log[c])
    BY SMTT(30) DEF Chosen, Own
  <2> QED BY <1>1, <2>1, Zenon DEF Holds
<1>2. CASE c # t
  <2>1. Own(h, c, n) /\ ~ Blocked(h, currentTerm, c, n) /\ c < t
    BY <1>2, ChosenNotBlocked, SMTT(30) DEF Chosen
  <2>2. Safe(h, currentTerm, h.log[t], c, n)
    BY <2>1, Zenon DEF SuccessionInv
  <2> QED BY <2>1, <2>2, Zenon DEF Safe
<1> QED BY <1>1, <1>2, Zenon

\* What was committed is in the log of every leader of a term from then on.
LEMMA CommittedHeld ==
    ASSUME NEW h \in History, SuccessionInv(h), NEW t \in Nat, NEW u \in Nat, t <= u,
           Elected(h, u), NEW s \in Seq(Entry), NEW n \in Nat, CommittedBy(h, t, s, n)
    PROVE  Holds(s, h.log[u], n)
<1>0. Len(h.log[u]) \in Nat /\ Len(s) \in Nat
  BY HistoryTypes, LenProperties, Zenon
<1>1. CASE n = 0
  BY <1>0, <1>1, SMTT(30) DEF Holds
<1>2. CASE n # 0
  <2>1. PICK c \in 0..t : \E l \in Nat : Chosen(h, c, l) /\ n <= l /\ Holds(s, h.log[c], n)
    BY <1>2, Zenon DEF CommittedBy
  <2>2. PICK l \in Nat : Chosen(h, c, l) /\ n <= l /\ Holds(s, h.log[c], n)
    BY <2>1, Zenon
  <2>3. c \in Nat /\ c <= u
    BY SMTT(30)
  <2>4. Holds(h.log[u], h.log[c], l)
    BY <2>2, <2>3, ChosenHeld, Zenon
  <2>5. h.log[c] \in Seq(Entry) /\ h.log[u] \in Seq(Entry)
    BY <2>3, HistoryTypes, Zenon
  <2>6. Holds(h.log[c], h.log[u], n)
    <3>1. Holds(h.log[u], h.log[c], n)
      BY <2>2, <2>4, <2>5, HoldsRules, Zenon
    <3> QED BY <2>5, <3>1, HoldsRules, Zenon
  <2> QED BY <2>2, <2>5, <2>6, HoldsRules, Zenon
<1> QED BY <1>1, <1>2, Zenon

\* A term in which something was committed had a leader.
LEMMA ChosenElected ==
    ASSUME NEW h \in History, TermInv(h), NEW c \in Nat, NEW n \in Nat, Own(h, c, n)
    PROVE  Elected(h, c)
<1>1. h.log[c] # <<>>
  BY HistoryTypes, EmptySeq, SMTT(30) DEF Own
<1> QED BY <1>1, Zenon DEF TermInv

\* Two committed prefixes agree: there is one sequence of committed entries.
LEMMA CommittedAgree ==
    ASSUME NEW h \in History, TermInv(h), SuccessionInv(h), NEW t \in Nat, NEW u \in Nat,
           NEW s \in Seq(Entry), NEW r \in Seq(Entry), NEW n \in Nat, NEW k \in Nat, n <= k,
           CommittedBy(h, t, s, n), CommittedBy(h, u, r, k)
    PROVE  Holds(s, r, n)
<1>0. Len(r) \in Nat /\ Len(s) \in Nat
  BY LenProperties, Zenon
<1>1. CASE n = 0
  BY <1>0, <1>1, SMTT(30) DEF Holds
<1>2. CASE n # 0
  <2>1. PICK c \in 0..t : \E l \in Nat : Chosen(h, c, l) /\ n <= l /\ Holds(s, h.log[c], n)
    BY <1>2, Zenon DEF CommittedBy
  <2>2. PICK l \in Nat : Chosen(h, c, l) /\ n <= l /\ Holds(s, h.log[c], n)
    BY <2>1, Zenon
  <2>3. PICK d \in 0..u : \E l2 \in Nat : Chosen(h, d, l2) /\ k <= l2 /\ Holds(r, h.log[d], k)
    BY <1>2, SMTT(30) DEF CommittedBy
  <2>4. PICK l2 \in Nat : Chosen(h, d, l2) /\ k <= l2 /\ Holds(r, h.log[d], k)
    BY <2>3, Zenon
  <2>5. c \in Nat /\ d \in Nat
    BY SMTT(30)
  <2>6. h.log[c] \in Seq(Entry) /\ h.log[d] \in Seq(Entry) /\ n <= l2
    <3>1. h.log[c] \in Seq(Entry) /\ h.log[d] \in Seq(Entry)
      BY <2>5, HistoryTypes, Zenon
    <3>2. n <= l2
      BY <2>4, SMTT(30)
    <3> QED BY <3>1, <3>2, SMTT(30)
  <2>7. Holds(h.log[d], r, n)
    <3>1. Holds(r, h.log[d], n)
      BY <2>4, <2>6, HoldsRules, Zenon
    <3> QED BY <2>6, <3>1, HoldsRules, Zenon
  <2>8. CASE c <= d
    <3>1. Elected(h, d)
      BY <2>4, <2>5, ChosenElected, Zenon DEF Chosen
    <3>2. Holds(h.log[d], h.log[c], l)
      BY <2>2, <2>5, <2>8, <3>1, ChosenHeld, Zenon
    <3>3. Holds(h.log[d], h.log[c], n)
      BY <2>2, <2>6, <3>2, HoldsRules, Zenon
    <3>4. Holds(h.log[c], h.log[d], n)
      BY <2>6, <3>3, HoldsRules, Zenon
    <3>5. Holds(h.log[c], r, n)
      BY <2>6, <2>7, <3>4, HoldsRules, Zenon
    <3> QED BY <2>2, <2>6, <3>5, HoldsRules, Zenon
  <2>9. CASE ~ (c <= d)
    <3>1. d <= c
      BY <2>5, <2>9, SMTT(30)
    <3>2. Elected(h, c)
      BY <2>2, <2>5, ChosenElected, Zenon DEF Chosen
    <3>3. Holds(h.log[c], h.log[d], l2)
      BY <2>4, <2>5, <3>1, <3>2, ChosenHeld, Zenon
    <3>4. Holds(h.log[c], h.log[d], n)
      BY <2>6, <3>3, HoldsRules, Zenon
    <3>5. Holds(h.log[c], r, n)
      BY <2>6, <2>7, <3>4, HoldsRules, Zenon
    <3> QED BY <2>2, <2>6, <3>5, HoldsRules, Zenon
  <2> QED BY <2>8, <2>9, Zenon
<1> QED BY <1>1, <1>2, Zenon

\* What s has of t, r has.
LEMMA AdoptsHolds ==
    ASSUME NEW s \in Seq(Entry), NEW r \in Seq(Entry), NEW t \in Seq(Entry), NEW k \in Nat,
           Adopts(s, r, t, k), NEW n \in Nat
    PROVE  /\ Holds(r, t, k)
           /\ Holds(s, t, n) => Holds(r, t, n)
<1>1. Len(s) \in Nat /\ Len(r) \in Nat /\ Len(t) \in Nat
  BY LenProperties, Zenon
<1>2. CASE r = s /\ Holds(s, t, k)
  BY <1>2, Zenon
<1>3. CASE Len(r) = k /\ Holds(r, t, k) /\ ~ Holds(s, t, k)
  <2>1. ASSUME Holds(s, t, n) PROVE n <= k
    BY <1>1, <1>3, <2>1, SMTT(30) DEF Holds
  <2> QED BY <1>1, <1>3, <2>1, SMTT(30) DEF Holds
<1> QED BY <1>2, <1>3, Zenon DEF Adopts

\* Where two logs agree as far as it takes over, it takes over from either.
LEMMA AdoptsEither ==
    ASSUME NEW s \in Seq(Entry), NEW r \in Seq(Entry), NEW t \in Seq(Entry), NEW k \in Nat,
           Adopts(s, r, t, k), NEW x \in Seq(Entry), Holds(x, t, k)
    PROVE  Adopts(s, r, x, k)
<1>1. Len(s) \in Nat /\ Len(r) \in Nat /\ Len(t) \in Nat /\ Len(x) \in Nat
  BY LenProperties, Zenon
<1> QED BY <1>1, Zenon DEF Adopts, Holds

\* Taking over from a leader's log loses nothing that may yet be committed.
LEMMA AdoptsSafe ==
    ASSUME NEW h \in History, NEW terms, NEW s \in Seq(Entry), NEW r \in Seq(Entry),
           NEW t \in Seq(Entry), NEW k \in Nat, Adopts(s, r, t, k), NEW c \in Nat, NEW n \in Nat,
           Safe(h, terms, s, c, n), Safe(h, terms, t, c, n)
    PROVE  Safe(h, terms, r, c, n)
<1>1. CASE Blocked(h, terms, c, n)
  BY <1>1, Zenon DEF Safe
<1>2. CASE Holds(s, h.log[c], n) /\ Holds(t, h.log[c], n)
  <2>1. h.log[c] \in Seq(Entry)
    BY HistoryTypes, Zenon
  <2>2. Holds(s, t, n)
    BY <1>2, <2>1, Zenon DEF Holds
  <2>3. Holds(r, t, n)
    BY <2>2, AdoptsHolds, Zenon
  <2>4. Holds(r, h.log[c], n)
    BY <1>2, <2>1, <2>3, HoldsRules, Zenon
  <2> QED BY <2>4, Zenon DEF Safe
<1> QED BY <1>1, <1>2, Zenon DEF Safe

\* Taking over from what was committed loses nothing that may yet be committed.
LEMMA AdoptsCommitted ==
    ASSUME NEW h \in History, TermInv(h), SuccessionInv(h), NEW s \in Seq(Entry),
           NEW r \in Seq(Entry), NEW t \in Seq(Entry), Adopts(s, r, t, Len(t)), NEW u \in Nat,
           CommittedBy(h, u, t, Len(t)), NEW c \in Nat, NEW n \in Nat, Own(h, c, n),
           Safe(h, currentTerm, s, c, n)
    PROVE  Safe(h, currentTerm, r, c, n)
<1>0. Len(s) \in Nat /\ Len(r) \in Nat /\ Len(t) \in Nat
  BY LenProperties, Zenon
<1>1. CASE Len(t) = 0
  <2>1. r = s
    BY <1>0, <1>1, SMTT(30) DEF Adopts, Holds
  <2> QED BY <2>1, Zenon
<1>2. CASE Len(t) # 0
  <2>1. PICK d \in 0..u : \E l \in Nat :
            Chosen(h, d, l) /\ Len(t) <= l /\ Holds(t, h.log[d], Len(t))
    BY <1>2, Zenon DEF CommittedBy
  <2>2. PICK l \in Nat : Chosen(h, d, l) /\ Len(t) <= l /\ Holds(t, h.log[d], Len(t))
    BY <2>1, Zenon
  <2>0. d \in Nat
    BY SMTT(30)
  <2>3. d \in Nat /\ h.log[d] \in Seq(Entry) /\ h.log[c] \in Seq(Entry)
    BY <2>0, HistoryTypes, Zenon
  <2>4. Elected(h, c) /\ Elected(h, d)
    BY <2>2, <2>3, ChosenElected, Zenon DEF Chosen
  <2>5. Adopts(s, r, h.log[d], Len(t))
    <3>1. Holds(h.log[d], t, Len(t))
      BY <1>0, <2>2, <2>3, HoldsRules, Zenon
    <3> QED BY <1>0, <2>3, <3>1, AdoptsEither, Zenon
  <2>6. CASE c < d
    <3>1. Safe(h, currentTerm, h.log[d], c, n)
      BY <2>3, <2>4, <2>6, Zenon DEF SuccessionInv
    <3> QED BY <1>0, <2>3, <2>5, <3>1, AdoptsSafe, Zenon
  <2>7. CASE ~ (c < d)
    <3>1. Holds(h.log[c], h.log[d], l)
      BY <2>2, <2>3, <2>4, <2>7, ChosenHeld, SMTT(30)
    <3>2. Holds(h.log[c], h.log[d], Len(t))
      BY <1>0, <2>2, <2>3, <3>1, HoldsRules, Zenon
    <3>3. Adopts(s, r, h.log[c], Len(t))
      BY <1>0, <2>3, <2>5, <3>2, AdoptsEither, Zenon
    <3>4. Len(h.log[c]) \in Nat /\ n <= Len(h.log[c])
      BY HistoryTypes, SMTT(30) DEF Own
    <3>5. Safe(h, currentTerm, h.log[c], c, n)
      BY <3>4, Zenon DEF Safe, Holds
    <3> QED BY <1>0, <2>3, <3>3, <3>5, AdoptsSafe, Zenon
  <2> QED BY <2>6, <2>7, Zenon
<1> QED BY <1>1, <1>2, Zenon

-----------------------------------------------------------------------------
(* What a step keeps of a history. *)

\* The log with its snapshot is a log, as long as lastIndex() says.
LEMMA FullLogType ==
    ASSUME StorageInv, NEW i \in Server
    PROVE  /\ FullLog(i) \in Seq(Entry) /\ Len(FullLog(i)) = lastIndex(i)
           /\ Len(FullLog(i)) \in Nat /\ lastIncludedIndex[i] \in Nat
           /\ lastIncludedIndex[i] <= Len(FullLog(i))
           /\ \A n \in 1..Len(FullLog(i)) :
                 FullLog(i)[n] = IF n <= lastIncludedIndex[i] THEN persister[i].snapshot[n]
                                 ELSE logs[i][n - lastIncludedIndex[i]]
<1>1. /\ persister[i].snapshot \in Seq(Entry) /\ logs[i] \in Seq(Entry)
      /\ Len(persister[i].snapshot) = lastIncludedIndex[i]
  BY Zenon DEF StorageInv, TypeOK, Saved, SnapshotLength
<1>2. /\ FullLog(i) \in Seq(Entry)
      /\ Len(FullLog(i)) = Len(persister[i].snapshot) + Len(logs[i])
      /\ \A n \in 1..(Len(persister[i].snapshot) + Len(logs[i])) :
            FullLog(i)[n] = IF n <= Len(persister[i].snapshot) THEN persister[i].snapshot[n]
                            ELSE logs[i][n - Len(persister[i].snapshot)]
  BY <1>1, ConcatProperties, Zenon DEF FullLog
<1>3. Len(logs[i]) \in Nat /\ Len(persister[i].snapshot) \in Nat
  BY <1>1, LenProperties, Zenon
<1> QED BY <1>1, <1>2, <1>3, SMTT(30) DEF lastIndex

\* The types a step starts and ends with.
LEMMA StepTypes ==
    ASSUME NEW h, NEW g, Step(h, g)
    PROVE  /\ currentTerm \in [Server -> Nat] /\ currentTerm' \in [Server -> Nat]
           /\ \A u \in Server : currentTerm'[u] >= currentTerm[u]
           /\ \A k \in Server : FullLog(k) \in Seq(Entry) /\ FullLog(k)' \in Seq(Entry)
           /\ rpcs \subseteq Message
<1>1. StorageInv /\ StorageInv'
  BY Zenon DEF Step, ElectionInv
<1>2. \A k \in Server : FullLog(k) \in Seq(Entry)
  BY <1>1, FullLogType, Zenon
<1>3. \A k \in Server : FullLog(k)' \in Seq(Entry)
  <2> SUFFICES ASSUME NEW k \in Server PROVE FullLog(k)' \in Seq(Entry)
    BY Zenon
  <2>1. persister'[k].snapshot \in Seq(Entry) /\ logs'[k] \in Seq(Entry)
    BY <1>1, Zenon DEF StorageInv, TypeOK, Saved
  <2> QED BY <2>1, ConcatProperties, Zenon DEF FullLog
<1>4. \A u \in Server : currentTerm'[u] >= currentTerm[u]
  BY Zenon DEF Step, ElectionStep, VoteStep
<1> QED BY <1>1, <1>2, <1>3, <1>4, Zenon DEF StorageInv, TypeOK

\* A log that does not change stays safe.
LEMMA SafeStepSame ==
    ASSUME NEW h, NEW g, Step(h, g), NEW k \in Server, FullLog(k)' = FullLog(k)
    PROVE  SafeStep(h, g, k)
<1> SUFFICES ASSUME NEW c \in Nat, NEW n \in Nat, Safe(h, currentTerm, FullLog(k), c, n)
             PROVE  Safe(g, currentTerm', FullLog(k)', c, n)
  BY Zenon DEF SafeStep
<1>1. FullLog(k) \in Seq(Entry) /\ currentTerm \in [Server -> Nat]
      /\ currentTerm' \in [Server -> Nat] /\ \A u \in Server : currentTerm'[u] >= currentTerm[u]
  BY StepTypes, Zenon
<1>2. Safe(g, currentTerm', FullLog(k), c, n)
  BY <1>1, SafeKept, Zenon DEF Step
<1> QED BY <1>2, Zenon

\* Terms keep their leaders' logs, and nobody holds more of one than there is.
LEMMA TermStep ==
    ASSUME NEW h, NEW g, Step(h, g),
           \A t \in Nat : \/ g.leader[t] = h.leader[t] /\ g.log[t] = h.log[t]
                          \/ Elected(g, t) /\ Lineage(g, g.log[t]) /\ UpTo(g.log[t], t),
           \A t \in Nat : \A u \in Server : g.held[u][t] <= Len(g.log[t])
    PROVE  TermInv(g)'
<1> SUFFICES ASSUME NEW t \in Nat
             PROVE  /\ ~ Elected(g, t) => g.log[t] = <<>>
                    /\ Lineage(g, g.log[t]) /\ UpTo(g.log[t], t)
                    /\ \A u \in Server : g.held[u][t] > 0 => t <= currentTerm'[u]
  BY Zenon DEF TermInv
<1>1. h \in History /\ g \in History /\ Continues(h, g, currentTerm') /\ TermInv(h)
  BY Zenon DEF Step, Explains
<1>2. h.log[t] \in Seq(Entry)
  BY <1>1, HistoryTypes, Zenon
<1>3. /\ ~ Elected(h, t) => h.log[t] = <<>>
      /\ Lineage(h, h.log[t]) /\ UpTo(h.log[t], t)
      /\ \A u \in Server : h.held[u][t] > 0 => t <= currentTerm[u]
  BY <1>1, Zenon DEF TermInv
<1>4. Lineage(g, h.log[t])
  BY <1>1, <1>2, <1>3, LineageKept, Zenon
<1>5. ASSUME NEW u \in Server, g.held[u][t] > 0
      PROVE  t <= currentTerm'[u]
  <2>1. currentTerm[u] \in Nat /\ currentTerm'[u] \in Nat /\ currentTerm'[u] >= currentTerm[u]
    BY StepTypes, Zenon
  <2>2. g.held[u][t] # h.held[u][t] => currentTerm'[u] = t
    BY <1>1, Zenon DEF Continues
  <2> QED BY <1>3, <1>5, <2>1, <2>2, SMTT(30)
<1> QED BY <1>3, <1>4, <1>5, Zenon DEF Elected

\* A term's electors remember it.
LEMMA ElectedByKept ==
    ASSUME ElectionInv, StorageInv', ElectionStep, NEW l \in Server, NEW t \in Nat, ElectedBy(l, t)
    PROVE  ElectedBy(l, t)'
<1>1. PICK Q \in SUBSET Server :
          /\ Majority(Q)
          /\ \A v \in Q : Voted(v, t, l) /\ \A c \in Server : Ballot(v, t, c) => c = l
  BY Zenon DEF ElectedBy
<1>2. \A v \in Server : currentTerm[v] \in Nat /\ currentTerm'[v] \in Nat
  BY Zenon DEF ElectionInv, StorageInv, TypeOK
<1>3. l # Nil
  BY ServerAssumption, Zenon
<1>4. ASSUME NEW v \in Q PROVE Voted(v, t, l)'
  BY <1>1, <1>2, <1>3, SMTT(30) DEF Voted, ElectionStep, VoteStep
<1>5. ASSUME NEW v \in Q, NEW c \in Server, Ballot(v, t, c)' PROVE c = l
  <2>1. CASE Ballot(v, t, c)
    BY <1>1, <2>1, Zenon
  <2>2. CASE Fresh(v, t, c)
    BY <1>1, <1>2, <1>3, <2>2, SMTT(30) DEF Fresh, Voted
  <2> QED BY <1>5, <2>1, <2>2, Zenon DEF ElectionStep, BallotStep
<1>6. t <= currentTerm'[l]
  BY <1>2, SMTT(30) DEF ElectedBy, ElectionStep, VoteStep
<1>7. Majority(Q)'
  BY <1>1, Zenon DEF Majority
<1>8. \E R \in SUBSET Server :
          /\ Majority(R)'
          /\ \A v \in R : Voted(v, t, l)' /\ \A c \in Server : Ballot(v, t, c)' => c = l
  BY <1>4, <1>5, <1>7, Zenon
<1> QED BY <1>6, <1>8, Zenon DEF ElectedBy

\* No election is lost or made up.
LEMMA ElectorStep ==
    ASSUME NEW h, NEW g, Step(h, g),
           \A t \in Nat : Elected(g, t) => Elected(h, t) \/ ElectedBy(g.leader[t], t)'
    PROVE  ElectorInv(g)'
<1> SUFFICES ASSUME NEW t \in Nat, Elected(g, t), Elected(h, t)
             PROVE  ElectedBy(g.leader[t], t)'
  BY Zenon DEF ElectorInv
<1>1. ElectedBy(h.leader[t], t) /\ g.leader[t] = h.leader[t]
  BY Zenon DEF Step, Explains, ElectorInv, Continues
<1>2. h.leader[t] \in Server
  BY HistoryTypes, Zenon DEF Step, Elected
<1>3. \A l \in Server : ElectedBy(l, t) => ElectedBy(l, t)'
  BY ElectedByKept, Zenon DEF Step
<1> QED BY <1>1, <1>2, <1>3, Zenon

\* What is appended in a term that a majority has left can never be committed.
LEMMA NewIsBlocked ==
    ASSUME NEW h, NEW g, Step(h, g), NEW t \in Nat, Elected(h, t), NEW c \in Nat, c < t,
           NEW n \in Nat, n > Len(h.log[c])
    PROVE  Blocked(g, currentTerm', c, n)
<1>1. h \in History /\ g \in History /\ Continues(h, g, currentTerm') /\ TermInv(h)
      /\ ElectedBy(h.leader[t], t)
  BY Zenon DEF Step, Explains, ElectorInv
<1>2. PICK Q \in SUBSET Server : Majority(Q) /\ \A v \in Q : Voted(v, t, h.leader[t])
  BY <1>1, Zenon DEF ElectedBy
<1>3. ASSUME NEW u \in Q
      PROVE  currentTerm'[u] > c /\ g.held[u][c] < n
  <2>1. currentTerm[u] \in Nat /\ currentTerm'[u] \in Nat /\ currentTerm'[u] >= currentTerm[u]
    BY StepTypes, Zenon
  <2>2. currentTerm'[u] > c
    BY <1>2, <2>1, SMTT(30) DEF Voted
  <2>3. g.held[u][c] = h.held[u][c] /\ h.held[u][c] <= Len(h.log[c])
    BY <1>1, <2>1, <2>2, SMTT(30) DEF Continues, TermInv
  <2>4. h.held[u][c] \in Nat /\ Len(h.log[c]) \in Nat
    BY <1>1, HistoryTypes, Zenon
  <2> QED BY <2>2, <2>3, <2>4, SMTT(30)
<1> QED BY <1>2, <1>3, Zenon DEF Blocked

\* A leader that was elected before has what may yet be committed in an earlier term.
LEMMA SuccessionStep ==
    ASSUME NEW h, NEW g, Step(h, g), NEW t \in Nat, Elected(h, t), NEW c \in Nat, c < t,
           NEW n \in Nat, Own(g, c, n)
    PROVE  Safe(g, currentTerm', g.log[t], c, n)
<1>1. h \in History /\ g \in History /\ Continues(h, g, currentTerm') /\ SuccessionInv(h)
  BY Zenon DEF Step, Explains
<1>2. /\ h.log[t] \in Seq(Entry) /\ g.log[t] \in Seq(Entry) /\ g.log[c] \in Seq(Entry)
      /\ Len(h.log[c]) \in Nat /\ Len(h.log[t]) \in Nat
  BY <1>1, HistoryTypes, Zenon
<1>3. CASE ~ (n <= Len(h.log[c]))
  <2>1. n > Len(h.log[c])
    BY <1>2, <1>3, SMTT(30)
  <2>2. Blocked(g, currentTerm', c, n)
    BY <2>1, NewIsBlocked, Zenon
  <2> QED BY <2>2, Zenon DEF Safe
<1>4. CASE n <= Len(h.log[c])
  <2>1. Own(h, c, n)
    BY <1>1, <1>4, OwnKept, Zenon
  <2>2. Safe(h, currentTerm, h.log[t], c, n)
    BY <1>1, <2>1, Zenon DEF SuccessionInv
  <2>3. Safe(g, currentTerm', h.log[t], c, n)
    BY <1>1, <1>2, <2>2, StepTypes, SafeKept, Zenon
  <2>4. CASE Holds(h.log[t], g.log[c], n)
    <3>1. Holds(g.log[t], h.log[t], Len(h.log[t]))
      BY <1>1, Zenon DEF Continues
    <3>2. Holds(g.log[t], h.log[t], n)
      BY <1>2, <2>4, <3>1, HoldsRules, SMTT(30) DEF Holds
    <3>3. Holds(g.log[t], g.log[c], n)
      BY <1>2, <2>4, <3>2, HoldsRules, Zenon
    <3> QED BY <3>3, Zenon DEF Safe
  <2> QED BY <2>3, <2>4, Zenon DEF Safe
<1> QED BY <1>3, <1>4, Zenon

\* A server whose log does not change keeps it explained, whatever its term.
LEMMA LogOfStep ==
    ASSUME NEW h, NEW g, Step(h, g), NEW k \in Server, FullLog(k)' = FullLog(k),
           \A c \in Nat : g.held[k][c] = h.held[k][c]
    PROVE  LogOf(g, k)'
<1> DEFINE log == FullLog(k)
           now == currentTerm'[k]
<1>1. /\ h \in History /\ g \in History /\ Continues(h, g, currentTerm') /\ TermInv(h)
      /\ LogOf(h, k)
  BY Zenon DEF Step, Explains
<1>2. /\ currentTerm[k] \in Nat /\ now \in Nat /\ now >= currentTerm[k] /\ log \in Seq(Entry)
      /\ Len(log) \in Nat
  BY StepTypes, LenProperties, Zenon
<1>3. Lineage(g, log)
  BY <1>1, <1>2, LineageKept, Zenon DEF LogOf
<1>4. UpTo(log, now)
  <2>1. \A n \in 1..Len(log) : log[n].Term \in Nat
    BY <1>2, LogTypes, Zenon
  <2> QED BY <1>1, <1>2, <2>1, SMTT(30) DEF LogOf, UpTo
<1>5. Holds(log, g.log[now], g.held[k][now])
  <2>1. /\ h.held[k][now] \in Nat /\ h.log[now] \in Seq(Entry) /\ g.log[now] \in Seq(Entry)
        /\ Len(g.log[now]) \in Nat /\ g.held[k][now] = h.held[k][now]
    BY <1>1, <1>2, HistoryTypes, Zenon
  <2>2. CASE now = currentTerm[k]
    <3>1. Holds(log, h.log[now], h.held[k][now])
      BY <1>1, <2>2, Zenon DEF LogOf
    <3>2. Holds(g.log[now], h.log[now], Len(h.log[now]))
      BY <1>1, <1>2, Zenon DEF Continues
    <3> QED BY <1>2, <2>1, <3>1, <3>2, HoldsLonger, Zenon
  <2>3. CASE now # currentTerm[k]
    <3>1. h.held[k][now] = 0
      <4>1. ~ (h.held[k][now] > 0)
        BY <1>1, <1>2, <2>3, SMTT(30) DEF TermInv
      <4> QED BY <2>1, <4>1, SMTT(30)
    <3> QED BY <1>2, <2>1, <3>1, SMTT(30) DEF Holds
  <2> QED BY <2>2, <2>3, Zenon
<1>6. ASSUME NEW c \in Nat, NEW n \in 1..g.held[k][c], Own(g, c, n)
      PROVE  Safe(g, currentTerm', log, c, n)
  <2>1. /\ h.held[k][c] \in Nat /\ Len(h.log[c]) \in Nat /\ h.held[k][c] <= Len(h.log[c])
        /\ g.held[k][c] = h.held[k][c]
    BY <1>1, HistoryTypes, Zenon DEF TermInv
  <2>2. n \in Nat /\ n <= Len(h.log[c]) /\ n \in 1..h.held[k][c]
    BY <2>1, SMTT(30)
  <2>3. Own(h, c, n)
    BY <1>1, <1>6, <2>2, OwnKept, Zenon
  <2>4. Safe(h, currentTerm, FullLog(k), c, n)
    BY <1>1, <2>2, <2>3, Zenon DEF LogOf
  <2>5. Safe(g, currentTerm', FullLog(k)', c, n)
    BY <2>2, <2>3, <2>4, SafeStepSame, Zenon DEF SafeStep
  <2> QED BY <2>5, Zenon
<1> QED BY <1>3, <1>4, <1>5, <1>6, Zenon DEF LogOf

\* A follower, or a server that keeps its role and log, keeps its role explained.
LEMMA RoleOfStep ==
    ASSUME NEW h, NEW g, Step(h, g), NEW k \in Server, Steady(k), FullLog(k)' = FullLog(k),
           \A t \in Nat : g.leader[t] = h.leader[t] \/ g.leader[t] # k,
           state[k] = Leader => /\ g.log[currentTerm[k]] = h.log[currentTerm[k]]
                                /\ g.held[k][currentTerm[k]] = h.held[k][currentTerm[k]]
    PROVE  RoleOf(g, k)'
<1>1. RoleOf(h, k) /\ Continues(h, g, currentTerm')
  BY Zenon DEF Step, Explains
<1>2. CASE state'[k] = Follower
  BY <1>2, Zenon DEF RoleOf, Follower, Candidate, Leader
<1>3. CASE state'[k] = state[k] /\ currentTerm'[k] = currentTerm[k]
  <2>1. currentTerm[k] \in Nat
    BY StepTypes, Zenon
  <2>2. CASE state[k] = Leader
    <3>1. /\ h.leader[currentTerm[k]] = k /\ h.log[currentTerm[k]] = FullLog(k)
          /\ h.held[k][currentTerm[k]] = Len(FullLog(k))
      BY <1>1, <2>2, Zenon DEF RoleOf
    <3>2. Elected(h, currentTerm[k])
      BY <3>1, ServerAssumption, Zenon DEF Elected
    <3>3. g.leader[currentTerm[k]] = k
      BY <1>1, <2>1, <3>1, <3>2, Zenon DEF Continues
    <3> QED BY <1>3, <2>2, <3>1, <3>3, Zenon DEF RoleOf, Candidate, Leader
  <2>3. CASE state[k] = Candidate
    <3>1. h.leader[currentTerm[k]] # k
      BY <1>1, <2>3, Zenon DEF RoleOf
    <3>2. g.leader[currentTerm[k]] # k
      BY <2>1, <3>1, Zenon
    <3> QED BY <1>3, <2>3, <3>2, Zenon DEF RoleOf, Candidate, Leader
  <2>4. CASE state[k] # Leader /\ state[k] # Candidate
    BY <1>3, <2>4, Zenon DEF RoleOf
  <2> QED BY <2>2, <2>3, <2>4, Zenon
<1> QED BY <1>2, <1>3, Zenon DEF Steady

\* A server that starts no candidacy and keeps its log.
LEMMA SteadyCandidacy ==
    ASSUME NEW h, NEW g, Step(h, g), NEW k \in Server, Steady(k), FullLog(k)' = FullLog(k)
    PROVE  CandidacyStep(h, g, k)
BY SafeStepSame, Zenon DEF Steady, CandidacyStep, Follower, Candidate

\* A request sent before stays true.
LEMMA RequestOfStep ==
    ASSUME NEW h, NEW g, Step(h, g), NEW m \in rpcs, m.type = "RequestVote",
           CandidacyStep(h, g, m.from)
    PROVE  RequestOf(g, m)'
<1> DEFINE i == m.from
           last == m.LastLogIndex
           lastTerm == m.LastLogTerm
<1>1. h \in History /\ g \in History /\ Continues(h, g, currentTerm') /\ RequestOf(h, m)
  BY Zenon DEF Step, Explains, MessageOf
<1>2. i \in Server /\ m.Term \in Nat /\ last \in Nat
  BY StepTypes, Zenon DEF Message
<1>3. currentTerm[i] \in Nat /\ currentTerm'[i] \in Nat /\ currentTerm'[i] >= currentTerm[i]
  BY <1>2, StepTypes, Zenon
<1>4. /\ m.Term <= currentTerm[i]
      /\ IF last = 0 THEN lastTerm = 0
         ELSE lastTerm \in Nat /\ Elected(h, lastTerm) /\ last <= Len(h.log[lastTerm])
  BY <1>1, Zenon DEF RequestOf
<1>5. ASSUME last # 0
      PROVE  Elected(g, lastTerm) /\ last <= Len(g.log[lastTerm])
  <2>1. lastTerm \in Nat /\ Elected(h, lastTerm) /\ last <= Len(h.log[lastTerm])
    BY <1>4, <1>5, Zenon
  <2>2. /\ g.leader[lastTerm] = h.leader[lastTerm]
        /\ Holds(g.log[lastTerm], h.log[lastTerm], Len(h.log[lastTerm]))
    BY <1>1, <2>1, Zenon DEF Continues
  <2>3. Len(h.log[lastTerm]) \in Nat /\ Len(g.log[lastTerm]) \in Nat
    BY <1>1, <2>1, HistoryTypes, Zenon
  <2> QED BY <1>2, <2>1, <2>2, <2>3, SMTT(30) DEF Holds, Elected
<1>6. ASSUME state'[i] = Candidate, currentTerm'[i] = m.Term, NEW c \in Nat, NEW n \in Nat,
             Own(g, c, n), AtLeast(lastTerm, last, c, n)
      PROVE  Safe(g, currentTerm', FullLog(i)', c, n)
  <2>1. state[i] = Candidate /\ currentTerm'[i] = currentTerm[i] /\ SafeStep(h, g, i)
    BY <1>2, <1>3, <1>4, <1>6, SMTT(30) DEF CandidacyStep
  <2>2. Len(h.log[c]) \in Nat
    BY <1>1, HistoryTypes, Zenon
  <2>3. CASE n <= Len(h.log[c])
    <3>1. Own(h, c, n)
      BY <1>1, <1>6, <2>3, OwnKept, Zenon
    <3>2. Safe(h, currentTerm, FullLog(i), c, n)
      BY <1>1, <1>6, <2>1, <3>1, Zenon DEF RequestOf
    <3> QED BY <2>1, <3>1, <3>2, Zenon DEF SafeStep
  <2>4. CASE ~ (n <= Len(h.log[c]))
    <3>1. n > Len(h.log[c]) /\ n > 0
      BY <2>2, <2>4, SMTT(30)
    <3>2. last # 0
      BY <1>4, <1>6, <3>1, SMTT(30) DEF AtLeast
    <3>3. lastTerm \in Nat /\ Elected(h, lastTerm) /\ last <= Len(h.log[lastTerm])
      BY <1>4, <3>2, Zenon
    <3>4. lastTerm # c
      BY <1>2, <1>6, <2>2, <3>1, <3>3, SMTT(30) DEF AtLeast
    <3>5. c < lastTerm
      BY <1>6, <3>3, <3>4, Zenon DEF AtLeast
    <3>6. Blocked(g, currentTerm', c, n)
      BY <3>1, <3>3, <3>5, NewIsBlocked, Zenon
    <3> QED BY <3>6, Zenon DEF Safe
  <2> QED BY <2>3, <2>4, Zenon
<1>7. m.Term <= currentTerm'[i]
  BY <1>2, <1>3, <1>4, SMTT(30)
<1> QED BY <1>4, <1>5, <1>6, <1>7, Zenon DEF RequestOf

\* A ballot cast before stays true.
LEMMA BallotOfStep ==
    ASSUME NEW h, NEW g, Step(h, g), NEW v \in Server, NEW i \in Server,
           CandidacyStep(h, g, i), Ballot(v, currentTerm'[i], i)
    PROVE  BallotOf(g, v, i)'
<1>1. /\ h \in History /\ g \in History /\ Continues(h, g, currentTerm') /\ TermInv(h)
      /\ BallotOf(h, v, i) /\ AskedTerms
  BY Zenon DEF Step, Explains
<1>2. /\ currentTerm[i] \in Nat /\ currentTerm'[i] \in Nat
      /\ currentTerm[v] \in Nat /\ currentTerm'[v] \in Nat /\ currentTerm'[v] >= currentTerm[v]
  BY StepTypes, Zenon
<1>3. currentTerm'[i] <= currentTerm[i] /\ Voted(v, currentTerm'[i], i)
  BY <1>1, <1>2, Zenon DEF AskedTerms, Step, ElectionInv, BallotVoted
<1> SUFFICES ASSUME state'[i] = Candidate, NEW c \in Nat, NEW n \in 1..g.held[v][c],
                    c < currentTerm'[i], Own(g, c, n)
             PROVE  Safe(g, currentTerm', FullLog(i)', c, n)
  BY Zenon DEF BallotOf
<1>4. state[i] = Candidate /\ currentTerm'[i] = currentTerm[i] /\ SafeStep(h, g, i)
  BY <1>2, <1>3, SMTT(30) DEF CandidacyStep
<1>5. g.held[v][c] = h.held[v][c]
  BY <1>1, <1>2, <1>3, SMTT(30) DEF Continues, Voted
<1>6. h.held[v][c] \in Nat /\ Len(h.log[c]) \in Nat /\ h.held[v][c] <= Len(h.log[c])
  BY <1>1, HistoryTypes, Zenon DEF TermInv
<1>7. n \in Nat /\ n \in 1..h.held[v][c] /\ n <= Len(h.log[c])
  BY <1>5, <1>6, SMTT(30)
<1>8. Own(h, c, n)
  BY <1>1, <1>7, OwnKept, Zenon
<1>9. Safe(h, currentTerm, FullLog(i), c, n)
  BY <1>1, <1>4, <1>7, <1>8, Zenon DEF BallotOf
<1> QED BY <1>4, <1>7, <1>8, <1>9, Zenon DEF SafeStep

\* A snapshot stays committed, and as of any later term.
LEMMA SnapshotOfStep ==
    ASSUME NEW h, NEW g, Step(h, g), NEW t \in Nat, NEW u \in Nat, t <= u, NEW s \in Seq(Entry),
           NEW term, SnapshotOf(h, t, s, term)
    PROVE  SnapshotOf(g, u, s, term)
<1>1. h \in History /\ g \in History /\ Continues(h, g, currentTerm')
  BY Zenon DEF Step
<1>2. Len(s) \in Nat /\ Holds(s, s, Len(s))
  BY LenProperties, SMTT(30) DEF Holds
<1>3. CommittedBy(h, t, s, Len(s)) /\ Lineage(h, s)
  BY Zenon DEF SnapshotOf
<1>4. Lineage(g, s)
  BY <1>1, <1>3, LineageKept, Zenon
<1>5. CommittedBy(g, u, s, Len(s))
  BY <1>1, <1>2, <1>3, CommittedKept, SMTT(30)
<1> QED BY <1>4, <1>5, Zenon DEF SnapshotOf

\* What a server has committed, with the snapshots it is handed.
LEMMA CommitOfChange ==
    ASSUME NEW h, NEW g, Step(h, g), NEW k \in Server,
           CommittedBy(g, currentTerm'[k], FullLog(k)', commitIndex'[k]),
           lastIncludedIndex'[k] <= commitIndex'[k],
           lastIncludedTerm'[k] = LastTerm(persister'[k].snapshot),
           \A s \in handed'[k] :
               s \in handed[k] \/ SnapshotOf(g, currentTerm'[k], s.Snapshot, s.SnapshotTerm)
    PROVE  CommitOf(g, k)'
<1>1. CommitOf(h, k)
  BY Zenon DEF Step, Explains
<1>2. currentTerm[k] \in Nat /\ currentTerm'[k] \in Nat /\ currentTerm[k] <= currentTerm'[k]
  BY StepTypes, Zenon
<1>3. ASSUME NEW s \in handed[k]
      PROVE  SnapshotOf(g, currentTerm'[k], s.Snapshot, s.SnapshotTerm)
  <2>1. SnapshotOf(h, currentTerm[k], s.Snapshot, s.SnapshotTerm)
    BY <1>1, Zenon DEF CommitOf
  <2>2. s.Snapshot \in Seq(Entry)
    BY SMTT(30) DEF Step, ElectionInv, StorageInv, TypeOK, Handed
  <2> QED BY <1>2, <2>1, <2>2, SnapshotOfStep, Zenon
<1> QED BY <1>3, Zenon DEF CommitOf

\* What a server that keeps its log has committed stays committed.
LEMMA CommittedStep ==
    ASSUME NEW h, NEW g, Step(h, g), NEW k \in Server, FullLog(k)' = FullLog(k), NEW n \in Nat,
           n <= commitIndex[k]
    PROVE  CommittedBy(g, currentTerm'[k], FullLog(k)', n)
<1>1. /\ h \in History /\ g \in History /\ Continues(h, g, currentTerm') /\ CommitOf(h, k)
  BY Zenon DEF Step, Explains
<1>2. /\ currentTerm[k] \in Nat /\ currentTerm'[k] \in Nat /\ currentTerm[k] <= currentTerm'[k]
      /\ FullLog(k) \in Seq(Entry)
  BY StepTypes, Zenon
<1>3. commitIndex[k] \in Nat /\ Len(FullLog(k)) \in Nat
  BY <1>2, LenProperties, Zenon DEF Step, ElectionInv, StorageInv, TypeOK
<1>4. CASE n = 0
  BY <1>4, Zenon DEF CommittedBy
<1>5. CASE n # 0
  <2>1. Holds(FullLog(k), FullLog(k), n)
    BY <1>1, <1>3, <1>5, SMTT(30) DEF CommitOf, CommittedBy, Holds
  <2>2. CommittedBy(h, currentTerm[k], FullLog(k), commitIndex[k])
    BY <1>1, Zenon DEF CommitOf
  <2> QED BY <1>1, <1>2, <1>3, <2>1, <2>2, CommittedKept, SMTT(30)
<1> QED BY <1>4, <1>5, Zenon

\* A server that keeps its log and what it has of snapshots.
LEMMA CommitOfStep ==
    ASSUME NEW h, NEW g, Step(h, g), NEW k \in Server, FullLog(k)' = FullLog(k),
           commitIndex'[k] = commitIndex[k], lastIncludedIndex'[k] = lastIncludedIndex[k],
           lastIncludedTerm'[k] = lastIncludedTerm[k],
           persister'[k].snapshot = persister[k].snapshot, handed'[k] \subseteq handed[k]
    PROVE  CommitOf(g, k)'
<1>1. CommitOf(h, k) /\ commitIndex[k] \in Nat
  BY Zenon DEF Step, Explains, ElectionInv, StorageInv, TypeOK
<1>2. CommittedBy(g, currentTerm'[k], FullLog(k)', commitIndex'[k])
  BY <1>1, CommittedStep, SMTT(30)
<1>3. /\ lastIncludedIndex'[k] <= commitIndex'[k]
      /\ lastIncludedTerm'[k] = LastTerm(persister'[k].snapshot)
  BY <1>1, Zenon DEF CommitOf
<1> QED BY <1>2, <1>3, CommitOfChange, Zenon

\* A leader that keeps its term and its table keeps them explained.
LEMMA MatchOfStep ==
    ASSUME NEW h, NEW g, Step(h, g), NEW k \in Server,
           state'[k] = Leader => /\ state[k] = Leader /\ currentTerm'[k] = currentTerm[k]
                                 /\ matchIndex'[k] = matchIndex[k]
                                 /\ commitIndex'[k] = commitIndex[k]
    PROVE  MatchOf(g, k)'
<1>1. MatchOf(h, k) /\ h \in History /\ g \in History /\ Continues(h, g, currentTerm')
  BY Zenon DEF Step, Explains
<1>2. currentTerm[k] \in Nat
  BY StepTypes, Zenon
<1>3. matchIndex \in [Server -> [Server -> Nat]]
  BY Zenon DEF Step, ElectionInv, StorageInv, TypeOK
<1> SUFFICES ASSUME state'[k] = Leader, NEW j \in Server, ~ (matchIndex[k][j] <= commitIndex[k])
             PROVE  matchIndex[k][j] <= g.held[j][currentTerm[k]]
  BY Zenon DEF MatchOf
<1>4. matchIndex[k][j] <= h.held[j][currentTerm[k]]
  BY <1>1, Zenon DEF MatchOf
<1>5. /\ h.held[j][currentTerm[k]] \in Nat /\ g.held[j][currentTerm[k]] \in Nat
      /\ g.held[j][currentTerm[k]] >= h.held[j][currentTerm[k]]
  BY <1>1, <1>2, HistoryTypes, Zenon DEF Continues
<1> QED BY <1>3, <1>4, <1>5, SMTT(30)

\* A piece of a leader's log stays one.
LEMMA AppendOfStep ==
    ASSUME NEW h, NEW g, Step(h, g), NEW m \in AppendEntriesMessage, AppendOf(h, m)
    PROVE  AppendOf(g, m)
<1> DEFINE log == h.log[m.Term]
           new == g.log[m.Term]
<1>1. h \in History /\ g \in History /\ Continues(h, g, currentTerm')
  BY Zenon DEF Step
<1>2. m.Term \in Nat /\ m.PrevLogIndex \in Nat /\ m.LeaderCommitIndex \in Nat
      /\ m.Entries \in Seq(Entry) /\ Len(m.Entries) \in Nat
  BY LenProperties, Zenon DEF AppendEntriesMessage
<1>3. /\ log \in Seq(Entry) /\ new \in Seq(Entry) /\ Len(log) \in Nat /\ Len(new) \in Nat
  BY <1>1, <1>2, HistoryTypes, Zenon
<1>4. Holds(new, log, Len(log)) /\ (Elected(h, m.Term) => g.leader[m.Term] = h.leader[m.Term])
  BY <1>1, <1>2, Zenon DEF Continues
<1>5. /\ Elected(h, m.Term) /\ CommittedBy(h, m.Term, log, m.LeaderCommitIndex)
      /\ m.PrevLogTerm # -1 =>
            /\ m.PrevLogIndex + Len(m.Entries) <= Len(log)
            /\ \A k \in 1..Len(m.Entries) : m.Entries[k] = log[m.PrevLogIndex + k]
            /\ m.PrevLogTerm = IF m.PrevLogIndex = 0 THEN 0 ELSE log[m.PrevLogIndex].Term
  BY Zenon DEF AppendOf
<1>6. Elected(g, m.Term)
  BY <1>4, <1>5, Zenon DEF Elected
<1>7. CommittedBy(g, m.Term, new, m.LeaderCommitIndex)
  <2>1. CASE m.LeaderCommitIndex = 0
    BY <2>1, Zenon DEF CommittedBy
  <2>2. CASE m.LeaderCommitIndex # 0
    <3>1. m.LeaderCommitIndex <= Len(log)
      BY <1>5, <2>2, Zenon DEF CommittedBy, Holds
    <3>2. Holds(new, log, m.LeaderCommitIndex)
      BY <1>2, <1>3, <1>4, <3>1, HoldsRules, Zenon
    <3> QED BY <1>1, <1>2, <1>3, <1>5, <3>2, CommittedKept, SMTT(30)
  <2> QED BY <2>1, <2>2, Zenon
<1> HIDE DEF log, new
<1>8. ASSUME m.PrevLogTerm # -1
      PROVE  /\ m.PrevLogIndex + Len(m.Entries) <= Len(new)
             /\ \A k \in 1..Len(m.Entries) : m.Entries[k] = new[m.PrevLogIndex + k]
             /\ m.PrevLogTerm = IF m.PrevLogIndex = 0 THEN 0 ELSE new[m.PrevLogIndex].Term
  <2>1. m.PrevLogIndex + Len(m.Entries) <= Len(log) /\ Len(log) <= Len(new)
    BY <1>2, <1>3, <1>4, <1>5, <1>8, Zenon DEF Holds
  <2>2. \A n \in 1..Len(log) : new[n] = log[n]
    BY <1>4, Zenon DEF Holds
  <2>3. ASSUME NEW k \in 1..Len(m.Entries) PROVE m.Entries[k] = new[m.PrevLogIndex + k]
    <3>1. m.PrevLogIndex + k \in 1..Len(log)
      BY <1>2, <1>3, <2>1, SMTT(30)
    <3> QED BY <1>5, <1>8, <2>2, <3>1, Zenon
  <2>4. m.PrevLogIndex # 0 => m.PrevLogIndex \in 1..Len(log)
    BY <1>2, <1>3, <2>1, SMTT(30)
  <2> QED BY <1>2, <1>3, <1>5, <1>8, <2>1, <2>2, <2>3, <2>4, SMTT(30)
<1> QED BY <1>6, <1>7, <1>8, Zenon DEF AppendOf, new

\* A message sent before stays true.
LEMMA MessageOfStep ==
    ASSUME NEW h, NEW g, Step(h, g), \A k \in Server : CandidacyStep(h, g, k), NEW m \in rpcs
    PROVE  MessageOf(g, m)'
<1>1. MessageOf(h, m) /\ h \in History /\ g \in History /\ Continues(h, g, currentTerm')
  BY Zenon DEF Step, Explains
<1>2. m \in Message
  BY StepTypes, Zenon
<1>3. m.type = "RequestVote" => RequestOf(g, m)'
  <2>1. m.from \in Server
    BY <1>2, MessageFields, Zenon
  <2> QED BY <2>1, RequestOfStep, Zenon
<1>4. m.type = "InstallSnapshot" => SnapshotOf(g, m.Term, m.Data, m.LastIncludedTerm)
  <2>1. m.type = "InstallSnapshot" => m.Data \in Seq(Entry) /\ m.Term \in Nat
    BY <1>2, MessageFields, Zenon
  <2> QED BY <1>1, <2>1, SnapshotOfStep, SMTT(30) DEF MessageOf
<1>5. m.type = "AppendEntries" => AppendOf(g, m)
  BY <1>1, <1>2, MessageFields, AppendOfStep, Zenon DEF MessageOf
<1>6. m.type = "AppendEntriesReply" /\ m.Success => m.Matched <= g.held[m.from][m.term]
  <2> SUFFICES ASSUME m.type = "AppendEntriesReply", m.Success
               PROVE  m.Matched <= g.held[m.from][m.term]
    BY Zenon
  <2>1. m.from \in Server /\ m.term \in Nat /\ m.Matched \in Nat
    BY <1>2, MessageFields, Zenon
  <2>2. m.Matched <= h.held[m.from][m.term]
    BY <1>1, Zenon DEF MessageOf
  <2>3. /\ h.held[m.from][m.term] \in Nat /\ g.held[m.from][m.term] \in Nat
        /\ g.held[m.from][m.term] >= h.held[m.from][m.term]
    BY <1>1, <2>1, HistoryTypes, Zenon DEF Continues
  <2> QED BY <2>1, <2>2, <2>3, SMTT(30)
<1> QED BY <1>3, <1>4, <1>5, <1>6, Zenon DEF MessageOf

\* The history with the leader l of term t, its log, and what i holds of it written down.
Record(h, i, t, l, log, n) ==
    [leader |-> [h.leader EXCEPT ![t] = l], log |-> [h.log EXCEPT ![t] = log],
     held |-> [h.held EXCEPT ![i] = [h.held[i] EXCEPT ![t] = n]]]

\* g has these, and is as h otherwise.
Recorded(h, g, i, t, l, log, n) ==
    /\ g.leader[t] = l /\ g.log[t] = log /\ g.held[i][t] = n
    /\ \A c \in Nat \ {t} : g.leader[c] = h.leader[c] /\ g.log[c] = h.log[c]
    /\ \A u \in Server : \A c \in Nat : (u = i /\ c = t) \/ g.held[u][c] = h.held[u][c]

\* It is a history that differs there only.
LEMMA RecordType ==
    ASSUME NEW h \in History, NEW i \in Server, NEW t \in Nat, NEW l \in Server \union {Nil},
           NEW log \in Seq(Entry), NEW n \in Nat, NEW g, g = Record(h, i, t, l, log, n)
    PROVE  g \in History /\ Recorded(h, g, i, t, l, log, n)
<1>1. /\ h.leader \in [Nat -> Server \union {Nil}] /\ h.log \in [Nat -> Seq(Entry)]
      /\ h.held \in [Server -> [Nat -> Nat]]
  BY Zenon DEF History, HistoryRecord
<1> DEFINE row == [h.held[i] EXCEPT ![t] = n]
<1>2. /\ g.leader = [h.leader EXCEPT ![t] = l] /\ g.log = [h.log EXCEPT ![t] = log]
      /\ g.held = [h.held EXCEPT ![i] = row]
  BY Zenon DEF Record
<1>3. g = [leader |-> g.leader, log |-> g.log, held |-> g.held]
  BY Zenon DEF Record
<1>4. h.held[i] \in [Nat -> Nat]
  BY <1>1, Zenon
<1>5. /\ row \in [Nat -> Nat] /\ row[t] = n
      /\ \A c \in Nat : c = t \/ row[c] = h.held[i][c]
  BY <1>4, Zenon
<1> HIDE DEF row
<1>6. g.held \in [Server -> [Nat -> Nat]]
  BY <1>1, <1>2, <1>5, ZenonT(30)
<1>7. g.held[i] = row /\ \A u \in Server : u = i \/ g.held[u] = h.held[u]
  BY <1>1, <1>2, Zenon
<1>8. /\ g.leader \in [Nat -> Server \union {Nil}] /\ g.log \in [Nat -> Seq(Entry)]
      /\ g.leader[t] = l /\ g.log[t] = log
      /\ \A c \in Nat \ {t} : g.leader[c] = h.leader[c] /\ g.log[c] = h.log[c]
  <2>1. /\ g.leader \in [Nat -> Server \union {Nil}] /\ g.leader[t] = l
        /\ \A c \in Nat \ {t} : g.leader[c] = h.leader[c]
    BY <1>1, <1>2, ZenonT(30)
  <2>2. /\ g.log \in [Nat -> Seq(Entry)] /\ g.log[t] = log
        /\ \A c \in Nat \ {t} : g.log[c] = h.log[c]
    BY <1>1, <1>2, ZenonT(30)
  <2> QED BY <2>1, <2>2, Zenon
<1>9. g \in History
  BY <1>3, <1>6, <1>8, Zenon DEF History, HistoryRecord
<1>10. g.held[i][t] = n
  BY <1>5, <1>7, Zenon
<1>11. ASSUME NEW u \in Server, NEW c \in Nat, ~ (u = i /\ c = t)
       PROVE  g.held[u][c] = h.held[u][c]
  BY <1>5, <1>7, <1>11, Zenon
<1> QED BY <1>8, <1>9, <1>10, <1>11, Zenon DEF Recorded

\* It continues the history if it takes nothing back, and i is in term t.
LEMMA RecordContinues ==
    ASSUME NEW h \in History, NEW i \in Server, NEW t \in Nat, NEW l \in Server \union {Nil},
           NEW log \in Seq(Entry), NEW n \in Nat, NEW g, g = Record(h, i, t, l, log, n),
           Elected(h, t) => l = h.leader[t], Holds(log, h.log[t], Len(h.log[t])),
           n >= h.held[i][t], NEW terms, terms[i] = t
    PROVE  Continues(h, g, terms)
<1> SUFFICES ASSUME NEW c \in Nat
             PROVE  /\ Elected(h, c) => g.leader[c] = h.leader[c]
                    /\ Holds(g.log[c], h.log[c], Len(h.log[c]))
                    /\ \A u \in Server : /\ g.held[u][c] >= h.held[u][c]
                                         /\ g.held[u][c] # h.held[u][c] => terms[u] = c
  BY Zenon DEF Continues
<1>1. Len(h.log[c]) \in Nat /\ \A u \in Server : h.held[u][c] \in Nat
  BY HistoryTypes, Zenon
<1>2. /\ g.leader[t] = l /\ g.log[t] = log /\ g.held[i][t] = n
      /\ \A d \in Nat \ {t} : g.leader[d] = h.leader[d] /\ g.log[d] = h.log[d]
      /\ \A u \in Server : \A d \in Nat : (u = i /\ d = t) \/ g.held[u][d] = h.held[u][d]
  <2>1. Recorded(h, g, i, t, l, log, n)
    BY RecordType, Zenon
  <2> QED BY <2>1, Zenon DEF Recorded
<1>3. Elected(h, c) => g.leader[c] = h.leader[c]
  BY <1>2, Zenon
<1>4. Holds(g.log[c], h.log[c], Len(h.log[c]))
  BY <1>1, <1>2, SMTT(30) DEF Holds
<1>5. \A u \in Server : /\ g.held[u][c] >= h.held[u][c]
                        /\ g.held[u][c] # h.held[u][c] => terms[u] = c
  BY <1>1, <1>2, SMTT(30)
<1> QED BY <1>3, <1>4, <1>5, Zenon

\* A step without election activity casts no ballot.
LEMMA QuietBallots ==
    ASSUME NoNewVote, \A k \in Server : Quiet(k)
    PROVE  NoNewBallot
BY Zenon DEF Quiet, NoNewVote, NoNewBallot, Ballot

\* Every ballot stays explained where none is cast.
LEMMA OldBallots ==
    ASSUME NEW h, NEW g, Step(h, g), \A k \in Server : CandidacyStep(h, g, k), NoNewBallot
    PROVE  \A v, i \in Server : BallotOf(g, v, i)'
<1> SUFFICES ASSUME NEW v \in Server, NEW i \in Server PROVE BallotOf(g, v, i)'
  BY Zenon
<1>1. CASE Ballot(v, currentTerm'[i], i)
  BY <1>1, BallotOfStep, Zenon
<1>2. CASE ~ Ballot(v, currentTerm'[i], i)
  <2>1. currentTerm'[i] \in Nat
    BY StepTypes, Zenon
  <2>2. ~ Ballot(v, currentTerm[i], i)'
    BY <1>2, <2>1, Zenon DEF NoNewBallot
  <2> QED BY <2>2, Zenon DEF BallotOf
<1> QED BY <1>1, <1>2, Zenon

\* The requests to send and the ballots stay within their candidates' terms.
LEMMA AskedStep ==
    ASSUME NEW h, NEW g, Step(h, g), \A k \in Server : asking'[k] \subseteq asking[k], NoNewBallot
    PROVE  AskedTerms'
<1>1. \A k \in Server : /\ currentTerm[k] \in Nat /\ currentTerm'[k] \in Nat
                        /\ currentTerm'[k] >= currentTerm[k]
  BY StepTypes, Zenon
<1>2. asking \in [Server -> SUBSET (Server \X Nat)]
  BY Zenon DEF Step, ElectionInv, StorageInv, TypeOK
<1>3. AskedTerms
  BY Zenon DEF Step, Explains
<1>4. ASSUME NEW i \in Server, NEW a \in asking'[i] PROVE a[2] <= currentTerm'[i]
  <2>1. a \in asking[i] /\ a[2] \in Nat
    BY <1>2, SMTT(30)
  <2> QED BY <1>1, <1>3, <2>1, SMTT(30) DEF AskedTerms
<1>5. ASSUME NEW v \in Server, NEW i \in Server, NEW t \in Nat, Ballot(v, t, i)'
      PROVE  t <= currentTerm'[i]
  BY <1>1, <1>3, <1>5, SMTT(30) DEF AskedTerms, NoNewBallot
<1> QED BY <1>4, <1>5, Zenon DEF AskedTerms

\* A step that leaves roles and logs alone keeps the history, if the ballots it casts, what
\* it commits and what it sends are explained.
LEMMA VotingStep ==
    ASSUME NEW h, Step(h, h), AskedTerms', \A v, k \in Server : BallotOf(h, v, k)',
           \A k \in Server : /\ Steady(k) /\ FullLog(k)' = FullLog(k)
                             /\ CommitOf(h, k)' /\ MatchOf(h, k)',
           \A m \in rpcs' : m \in rpcs \/ MessageOf(h, m)'
    PROVE  Explains(h)'
<1>1. h \in History /\ TermInv(h)
  BY Zenon DEF Step, Explains
<1>2. \A k \in Server : CandidacyStep(h, h, k)
  BY SteadyCandidacy, Zenon
<1>3. TermInv(h)'
  <2>1. \A t \in Nat : \A u \in Server : h.held[u][t] <= Len(h.log[t])
    BY <1>1, Zenon DEF TermInv
  <2> QED BY <2>1, TermStep, Zenon
<1>4. ElectorInv(h)'
  BY ElectorStep, Zenon
<1>5. SuccessionInv(h)'
  BY SuccessionStep, Zenon DEF SuccessionInv
<1>6. \A k \in Server : RoleOf(h, k)' /\ LogOf(h, k)'
  BY RoleOfStep, LogOfStep, Zenon
<1>7. \A m \in rpcs' : MessageOf(h, m)'
  BY <1>2, MessageOfStep, Zenon
<1> QED BY <1>1, <1>3, <1>4, <1>5, <1>6, <1>7, Zenon DEF Explains

\* So does a step that casts no ballot either.
LEMMA SteadyStep ==
    ASSUME NEW h, Step(h, h), NoNewBallot,
           \A k \in Server : /\ Steady(k) /\ FullLog(k)' = FullLog(k)
                             /\ asking'[k] \subseteq asking[k]
                             /\ CommitOf(h, k)' /\ MatchOf(h, k)',
           \A m \in rpcs' : m \in rpcs \/ MessageOf(h, m)'
    PROVE  Explains(h)'
<1>1. \A k \in Server : CandidacyStep(h, h, k)
  BY SteadyCandidacy, Zenon
<1>2. \A v, k \in Server : BallotOf(h, v, k)'
  BY <1>1, OldBallots, Zenon
<1>3. AskedTerms'
  BY AskedStep, Zenon
<1> QED BY <1>2, <1>3, VotingStep, Zenon

\* Saving the raft state leaves the stored snapshots alone.
LEMMA SnapshotStays ==
    ASSUME TypeOK, Saves, NEW k \in Server
    PROVE  persister'[k].snapshot = persister[k].snapshot
<1>1. persister \in [Server -> Saved]
  BY Zenon DEF TypeOK
<1>2. CASE UNCHANGED persister
  BY <1>2, Zenon
<1>3. CASE \E i \in Server : persist(i)
  BY <1>1, <1>3, SMTT(30) DEF persist
<1> QED BY <1>2, <1>3, Zenon DEF Saves

\* A section that saves and does not touch a log keeps it.
LEMMA LogStays ==
    ASSUME TypeOK, Saves, NEW k \in Server, logs'[k] = logs[k]
    PROVE  FullLog(k)' = FullLog(k) /\ persister'[k].snapshot = persister[k].snapshot
BY SnapshotStays, Zenon DEF FullLog

\* The history continues itself.
LEMMA SameHistory ==
    ASSUME NEW h, Explained(h)
    PROVE  Step(h, h)
BY ContinuesSame, Zenon DEF Explained, Step

\* The same one will do.
LEMMA StaysSame ==
    ASSUME NEW h, Explained(h), Explains(h)'
    PROVE  StaysExplained(h)
BY ContinuesSame, Zenon DEF Explained, StaysExplained

\* Back to Follower in a higher term, with the log as it was.
LEMMA StepDownExplained ==
    ASSUME NEW h, Explained(h), NEW i \in Server, NEW term, StepDown(i, term), rpcs' \subseteq rpcs
    PROVE  Explains(h)'
<1>1. Step(h, h) /\ TypeOK
  BY SameHistory, Zenon DEF Explained, ElectionInv, StorageInv
<1>2. /\ state' = [state EXCEPT ![i] = Follower]
      /\ currentTerm' = [currentTerm EXCEPT ![i] = term]
      /\ UNCHANGED <<logs, lastIncludedIndex, lastIncludedTerm>>
      /\ UNCHANGED <<commitIndex, matchIndex, asking, votes, handed>>
      /\ persist(i)
  BY Zenon DEF StepDown, logVars, leaderVars
<1>3. \A k \in Server : Steady(k)
  BY <1>1, <1>2, Zenon DEF Steady, TypeOK
<1>4. NoNewBallot
  BY <1>1, <1>2, Zenon DEF NoNewBallot, Ballot, TypeOK
<1>5. \A k \in Server : FullLog(k)' = FullLog(k) /\ persister'[k].snapshot = persister[k].snapshot
  BY <1>1, <1>2, LogStays, Zenon DEF Saves
<1>6. \A k \in Server : CommitOf(h, k)'
  BY <1>1, <1>2, <1>5, CommitOfStep, Zenon
<1>7. \A k \in Server : MatchOf(h, k)'
  <2> SUFFICES ASSUME NEW k \in Server PROVE MatchOf(h, k)'
    BY Zenon
  <2>1. state'[k] = Leader => state[k] = Leader /\ currentTerm'[k] = currentTerm[k]
    BY <1>1, <1>2, Zenon DEF TypeOK, Follower, Leader
  <2> QED BY <1>1, <1>2, <2>1, MatchOfStep, Zenon
<1> QED BY <1>1, <1>2, <1>3, <1>4, <1>5, <1>6, <1>7, SteadyStep, Zenon

\* termAt() is the term of the entry, compacted or not, and -1 above the log.
LEMMA TermAtLog ==
    ASSUME StorageInv, NEW i \in Server, lastIncludedTerm[i] = LastTerm(persister[i].snapshot),
           NEW index \in Nat
    PROVE  /\ lastIncludedIndex[i] <= index /\ index <= Len(FullLog(i)) =>
                 termAt(i, index) = IF index = 0 THEN 0 ELSE FullLog(i)[index].Term
           /\ index > Len(FullLog(i)) => termAt(i, index) = -1
<1>1. /\ FullLog(i) \in Seq(Entry) /\ Len(FullLog(i)) = lastIndex(i)
      /\ Len(FullLog(i)) \in Nat /\ lastIncludedIndex[i] \in Nat
      /\ \A n \in 1..Len(FullLog(i)) :
            FullLog(i)[n] = IF n <= lastIncludedIndex[i] THEN persister[i].snapshot[n]
                            ELSE logs[i][n - lastIncludedIndex[i]]
  BY FullLogType, Zenon
<1>2. Len(persister[i].snapshot) = lastIncludedIndex[i] /\ logs[i] \in Seq(Entry)
  BY Zenon DEF StorageInv, SnapshotLength, TypeOK
<1>3. Len(logs[i]) \in Nat /\ Len(FullLog(i)) = lastIncludedIndex[i] + Len(logs[i])
  BY <1>1, <1>2, LenProperties, Zenon DEF lastIndex
<1>4. ASSUME lastIncludedIndex[i] <= index, index <= Len(FullLog(i))
      PROVE  termAt(i, index) = IF index = 0 THEN 0 ELSE FullLog(i)[index].Term
  <2>1. CASE index = lastIncludedIndex[i]
    BY <1>1, <1>2, <1>4, <2>1, SMTT(30) DEF termAt, LastTerm
  <2>2. CASE index # lastIncludedIndex[i]
    <3>1. index - lastIncludedIndex[i] \in 1..Len(logs[i]) /\ index \in 1..Len(FullLog(i))
      BY <1>1, <1>3, <1>4, <2>2, SMTT(30)
    <3>2. FullLog(i)[index] = logs[i][index - lastIncludedIndex[i]] /\ index # 0
      BY <1>1, <1>4, <2>2, <3>1, SMTT(30)
    <3> QED BY <2>2, <3>1, <3>2, Zenon DEF termAt
  <2> QED BY <2>1, <2>2, Zenon
<1>5. ASSUME index > Len(FullLog(i)) PROVE termAt(i, index) = -1
  BY <1>1, <1>3, <1>5, SMTT(30) DEF termAt
<1> QED BY <1>4, <1>5, Zenon

\* The last entry of a server's log vouches for everything before it.
LEMMA LastEntry ==
    ASSUME NEW h, h \in History, StorageInv, Explains(h), NEW i \in Server
    PROVE  LET last == lastIndex(i)
               term == termAt(i, last)
           IN  /\ last \in Nat /\ last = Len(FullLog(i))
               /\ term = IF last = 0 THEN 0 ELSE FullLog(i)[last].Term
               /\ last # 0 => /\ term \in Nat /\ Elected(h, term)
                              /\ Holds(FullLog(i), h.log[term], last)
               /\ \A c, n \in Nat : Own(h, c, n) /\ AtLeast(term, last, c, n) =>
                      Safe(h, currentTerm, FullLog(i), c, n)
<1> DEFINE last == lastIndex(i)
           term == termAt(i, last)
           log == FullLog(i)
<1>1. TermInv(h) /\ SuccessionInv(h) /\ LogOf(h, i) /\ CommitOf(h, i)
  BY Zenon DEF Explains
<1>2. /\ log \in Seq(Entry) /\ Len(log) = last /\ Len(log) \in Nat
      /\ lastIncludedIndex[i] \in Nat /\ lastIncludedIndex[i] <= Len(log)
  BY FullLogType, Zenon
<1>3. term = IF last = 0 THEN 0 ELSE log[last].Term
  <2>1. lastIncludedTerm[i] = LastTerm(persister[i].snapshot)
    BY <1>1, Zenon DEF CommitOf
  <2> QED BY <1>2, <2>1, TermAtLog, SMTT(30)
<1> HIDE DEF last, term, log
<1>4. ASSUME last # 0
      PROVE  term \in Nat /\ Elected(h, term) /\ Holds(log, h.log[term], last)
  <2>1. last \in 1..Len(log)
    BY <1>2, <1>4, SMTT(30)
  <2>2. Lineage(h, log)
    BY <1>1, Zenon DEF LogOf, log
  <2>3. log[last].Term \in Nat
    BY <1>2, <2>1, LogTypes, Zenon
  <2> QED BY <1>3, <1>4, <2>1, <2>2, <2>3, Zenon DEF Lineage
<1>5. ASSUME NEW c \in Nat, NEW n \in Nat, Own(h, c, n), AtLeast(term, last, c, n)
      PROVE  Safe(h, currentTerm, log, c, n)
  <2>1. n \in 1..Len(h.log[c]) /\ Len(h.log[c]) \in Nat /\ h.log[c] \in Seq(Entry)
    BY <1>5, HistoryTypes, Zenon DEF Own
  <2>2. last # 0
    BY <1>2, <1>3, <1>5, <2>1, SMTT(30) DEF AtLeast
  <2>3. term \in Nat /\ Elected(h, term) /\ Holds(log, h.log[term], last)
    BY <1>4, <2>2, Zenon
  <2>4. h.log[term] \in Seq(Entry) /\ Len(h.log[term]) \in Nat
    BY <2>3, HistoryTypes, Zenon
  <2>5. CASE term = c /\ last >= n
    <3>1. Holds(log, h.log[c], n)
      BY <1>2, <2>3, <2>4, <2>5, HoldsRules, Zenon
    <3> QED BY <3>1, Zenon DEF Safe
  <2>6. CASE term > c
    <3>1. Safe(h, currentTerm, h.log[term], c, n)
      BY <1>1, <1>5, <2>3, <2>6, Zenon DEF SuccessionInv
    <3>2. CASE Holds(h.log[term], h.log[c], n)
      \* Entry last of the later leader is of its own term: it is not one of c's.
      <4>1. n <= last
        <5> SUFFICES ASSUME ~ (n <= last) PROVE FALSE
          BY Zenon
        <5>1. last \in 1..n /\ last \in 1..last /\ last \in 1..Len(h.log[c])
          BY <1>2, <2>1, <2>2, SMTT(30)
        <5>2. h.log[term][last] = h.log[c][last] /\ log[last] = h.log[term][last]
          BY <2>3, <3>2, <5>1, Zenon DEF Holds
        <5>3. h.log[c][last].Term <= c
          BY <1>1, <5>1, Zenon DEF TermInv, UpTo
        <5> QED BY <1>3, <2>2, <2>3, <2>6, <5>2, <5>3, SMTT(30)
      <4>2. Holds(log, h.log[term], n)
        BY <1>2, <2>3, <2>4, <4>1, HoldsRules, Zenon
      <4>3. Holds(log, h.log[c], n)
        BY <1>2, <2>1, <2>4, <3>2, <4>2, HoldsRules, Zenon
      <4> QED BY <4>3, Zenon DEF Safe
    <3> QED BY <3>1, <3>2, Zenon DEF Safe
  <2> QED BY <1>5, <2>5, <2>6, Zenon DEF AtLeast
<1>6. last \in Nat /\ last = Len(log)
  BY <1>2, Zenon
<1> QED BY <1>3, <1>4, <1>5, <1>6, Zenon DEF last, term, log

\* The slice of the log above an index it holds.
LEMMA EntriesAfterLog ==
    ASSUME StorageInv, NEW i \in Server, NEW index \in Nat, lastIncludedIndex[i] <= index,
           index <= Len(FullLog(i))
    PROVE  /\ EntriesAfter(i, index) \in Seq(Entry)
           /\ Len(EntriesAfter(i, index)) = Len(FullLog(i)) - index
           /\ \A k \in 1..(Len(FullLog(i)) - index) :
                 EntriesAfter(i, index)[k] = FullLog(i)[index + k]
<1> DEFINE base == lastIncludedIndex[i]
           from == index - base + 1
<1>1. /\ Len(FullLog(i)) = base + Len(logs[i]) /\ Len(FullLog(i)) \in Nat /\ base \in Nat
      /\ \A n \in 1..Len(FullLog(i)) :
            FullLog(i)[n] = IF n <= base THEN persister[i].snapshot[n] ELSE logs[i][n - base]
  BY FullLogType, Zenon DEF lastIndex
<1>2. logs[i] \in Seq(Entry) /\ Len(logs[i]) \in Nat /\ TypeOK
  BY LenProperties, Zenon DEF StorageInv, TypeOK
<1>3. EntriesAfter(i, index) \in Seq(Entry)
  BY <1>1, <1>2, EntriesAfterType, SMTT(30)
<1>4. \A k \in from..Len(logs[i]) : logs[i][k] \in Entry
  BY <1>1, <1>2, ElementOfSeq, SMTT(30)
<1> DEFINE size == Len(logs[i])
<1>5. from \in Int /\ size \in Int /\ EntriesAfter(i, index) = SubSeq(logs[i], from, size)
  BY <1>1, <1>2, SMTT(30) DEF EntriesAfter
<1>6. from = index - base + 1 /\ base <= index /\ index <= base + size /\ size \in Nat
  BY <1>1, <1>2, Zenon
<1> HIDE DEF from, base, size
<1>7. /\ Len(EntriesAfter(i, index)) = IF from <= size THEN size - from + 1 ELSE 0
      /\ \A k \in 1..(size - from + 1) : EntriesAfter(i, index)[k] = logs[i][from + k - 1]
  <2>1. \A k \in from..size : logs[i][k] \in Entry
    BY <1>4, Zenon DEF size
  <2> QED BY <1>5, <2>1, SubSeqProperties, SMTT(30)
<1>8. PICK all : all = Len(FullLog(i)) /\ all = base + size /\ base \in Nat
  BY <1>1, Zenon DEF size
<1>9. Len(EntriesAfter(i, index)) = Len(FullLog(i)) - index
  <2>1. Len(EntriesAfter(i, index)) = IF from <= size THEN size - from + 1 ELSE 0
    BY <1>7, Zenon
  <2>2. (IF from <= size THEN size - from + 1 ELSE 0) = all - index
    BY <1>6, <1>8, SMTT(30)
  <2> QED BY <1>8, <2>1, <2>2, Zenon
<1>10. ASSUME NEW k \in 1..(Len(FullLog(i)) - index)
       PROVE  EntriesAfter(i, index)[k] = FullLog(i)[index + k]
  <2>1. k \in 1..(all - index)
    BY <1>8, Zenon
  <2>2. k \in 1..(size - from + 1) /\ index + k \in 1..all
    BY <1>6, <1>8, <2>1, SMTT(30)
  <2>3. from + k - 1 = (index + k) - base /\ ~ (index + k <= base)
    BY <1>6, <1>8, <2>1, SMTT(30)
  <2>4. EntriesAfter(i, index)[k] = logs[i][(index + k) - base]
    BY <1>7, <2>2, <2>3, Zenon
  <2>5. FullLog(i)[index + k] = logs[i][(index + k) - base]
    <3>1. index + k \in 1..Len(FullLog(i))
      BY <1>8, <2>2, Zenon
    <3>2. FullLog(i)[index + k] = IF index + k <= base THEN persister[i].snapshot[index + k]
                                  ELSE logs[i][(index + k) - base]
      BY <1>1, <3>1, Zenon
    <3> QED BY <2>3, <3>2, Zenon
  <2> QED BY <2>4, <2>5, Zenon
<1> QED BY <1>3, <1>9, <1>10, Zenon

\* What was committed is so in any log that has it.
LEMMA CommittedPrefix ==
    ASSUME NEW h \in History, NEW t \in Nat, NEW s \in Seq(Entry), NEW r \in Seq(Entry),
           NEW n \in Nat, NEW k \in Nat, CommittedBy(h, t, s, k), n <= k, Holds(r, s, n),
           NEW u \in Nat, t <= u
    PROVE  CommittedBy(h, u, r, n)
BY ContinuesSame, CommittedKept, Zenon

-----------------------------------------------------------------------------
(* What a step does to what is committed. *)

\* No log and no commit index changes.
CommitsStay ==
    \A k \in Server : FullLog(k)' = FullLog(k) /\ commitIndex'[k] = commitIndex[k]

\* Those of i may: it keeps its log or does not go back.
CommitsOf(i) ==
    /\ \A k \in Server \ {i} : FullLog(k)' = FullLog(k) /\ commitIndex'[k] = commitIndex[k]
    /\ FullLog(i)' = FullLog(i) \/ commitIndex'[i] >= commitIndex[i]

CommitStep == CommitsStay \/ \E i \in Server : CommitsOf(i)

\* A section that saves, and touches neither.
LEMMA SavesStay ==
    ASSUME TypeOK, Saves, UNCHANGED <<logs, commitIndex>>
    PROVE  CommitStep
<1>1. \A k \in Server : FullLog(k)' = FullLog(k)
  BY LogStays, Zenon
<1> QED BY <1>1, Zenon DEF CommitStep, CommitsStay

\* One that changes the log of i.
LEMMA LogChanges ==
    ASSUME TypeOK, Saves, NEW i \in Server, NEW log, NEW n \in Nat, n >= commitIndex[i],
           logs' = [logs EXCEPT ![i] = log], commitIndex' = [commitIndex EXCEPT ![i] = n]
    PROVE  CommitStep
<1>1. ASSUME NEW k \in Server \ {i}
      PROVE  FullLog(k)' = FullLog(k) /\ commitIndex'[k] = commitIndex[k]
  <2>1. logs'[k] = logs[k] /\ commitIndex'[k] = commitIndex[k]
    BY Zenon DEF TypeOK
  <2> QED BY <2>1, LogStays, Zenon
<1>2. commitIndex'[i] >= commitIndex[i]
  BY Zenon DEF TypeOK
<1> QED BY <1>1, <1>2, Zenon DEF CommitStep, CommitsOf

\* One that installs a snapshot.
LEMMA CompactCommits ==
    ASSUME TypeOK, NEW i \in Server, NEW index \in Nat, NEW term, NEW kept, NEW data,
           Compact(i, index, term, kept, data)
    PROVE  CommitStep
<1>1. commitIndex[i] \in Nat
  BY Zenon DEF TypeOK
<1>2. /\ logs' = [logs EXCEPT ![i] = kept]
      /\ commitIndex' = [commitIndex EXCEPT ![i] = Larger(index, commitIndex[i])]
      /\ persistWithSnapshot(i, data)
  BY Zenon DEF Compact
<1>3. ASSUME NEW k \in Server \ {i}
      PROVE  FullLog(k)' = FullLog(k) /\ commitIndex'[k] = commitIndex[k]
  <2>1. /\ logs'[k] = logs[k] /\ commitIndex'[k] = commitIndex[k]
        /\ persister'[k] = persister[k]
    BY <1>2, Zenon DEF TypeOK, persistWithSnapshot
  <2> QED BY <2>1, Zenon DEF FullLog
<1>4. commitIndex'[i] >= commitIndex[i]
  <2>1. commitIndex'[i] = Larger(index, commitIndex[i])
    BY <1>2, Zenon DEF TypeOK
  <2> QED BY <1>1, <2>1, SMTT(30) DEF Larger
<1> QED BY <1>3, <1>4, Zenon DEF CommitStep, CommitsOf

\* Every step is one of these.
LEMMA NextCommits ==
    ASSUME StorageInv, [Next]_vars
    PROVE  CommitStep
<1>0. TypeOK
  BY Zenon DEF StorageInv
<1>1. ASSUME NEW i \in Campaigning, NEW asked, Election(i, asked) PROVE CommitStep
  BY <1>0, <1>1, BoundAssumption, SavesStay, Zenon DEF Election, logVars, Saves
<1>2. ASSUME NEW i, NEW j, NEW term, RequestVote(i, j, term) PROVE CommitStep
  BY <1>0, <1>2, SavesStay, Zenon DEF RequestVote, logVars, Saves
<1>3. ASSUME NEW m \in rpcs, RequestVoteHandle(m) PROVE CommitStep
  <2>1. m.to \in Server
    BY <1>0, MessageFields, Zenon DEF TypeOK
  <2> QED BY <1>0, <1>3, <2>1, SavesStay, Zenon DEF RequestVoteHandle, logVars, Saves
<1>4. ASSUME NEW m \in rpcs, StepDown(m.to, m.Term) PROVE CommitStep
  <2>1. m.to \in Server
    BY <1>0, MessageFields, Zenon DEF TypeOK
  <2> QED BY <1>0, <1>4, <2>1, SavesStay, Zenon DEF StepDown, logVars, Saves
<1>5. ASSUME NEW m \in rpcs, RequestVoteReply(m) PROVE CommitStep
  BY <1>0, <1>4, <1>5, SavesStay, Zenon DEF RequestVoteReply, logVars, Saves
<1>6. ASSUME NEW i \in Server, NEW c, Start(i, c) PROVE CommitStep
  <2>1. commitIndex' = [commitIndex EXCEPT ![i] = commitIndex[i]] /\ commitIndex[i] \in Nat
    BY <1>0, <1>6, Zenon DEF Start, TypeOK
  <2>2. /\ logs' = [logs EXCEPT ![i] = Append(logs[i], [Command |-> c, Term |-> currentTerm[i]])]
        /\ Saves
    BY <1>6, Zenon DEF Start, Saves
  <2>3. commitIndex[i] >= commitIndex[i]
    BY <2>1, SMTT(30)
  <2> QED BY <1>0, <2>1, <2>2, <2>3, LogChanges, Zenon
<1>7. ASSUME NEW i, NEW j, ReplicateToPeer(i, j) PROVE CommitStep
  BY <1>0, <1>7, SavesStay, Zenon DEF ReplicateToPeer, logVars, Saves
<1>8. ASSUME NEW m \in rpcs, AppendEntriesHandler(m) PROVE CommitStep
  <2>0. PICK i, matches : /\ i = m.to
                          /\ matches = (m.Term >= currentTerm[m.to] /\ PrevMatches(m.to, m))
    BY Zenon
  <2>1. i \in Server /\ m \in AppendEntriesMessage /\ commitIndex[i] \in Nat
    BY <1>0, <1>8, <2>0, MessageFields, Zenon DEF TypeOK, AppendEntriesHandler
  <2>2. PICK n, log : /\ n = IF matches THEN CommitAfter(i, m) ELSE commitIndex[i]
                      /\ log = IF matches THEN MergeEntries(i, m) ELSE logs[i]
    BY Zenon
  <2>3. /\ logs' = [logs EXCEPT ![i] = log] /\ commitIndex' = [commitIndex EXCEPT ![i] = n]
        /\ Saves
    BY <1>8, <2>0, <2>1, <2>2, Zenon DEF AppendEntriesHandler, Saves
  <2>4. CommitAfter(i, m) \in Nat /\ CommitAfter(i, m) >= commitIndex[i]
    <3>1. CommitAfter(i, m) \in Nat
      BY <1>0, <2>1, CommitAfterType, Zenon
    <3> QED BY <2>1, <3>1, SMTT(30) DEF CommitAfter
  <2>5. n \in Nat /\ n >= commitIndex[i]
    BY <2>1, <2>2, <2>4, SMTT(30)
  <2> QED BY <1>0, <2>1, <2>3, <2>5, LogChanges, Zenon
<1>9. ASSUME NEW m \in rpcs, AppendEntriesReply(m) PROVE CommitStep
  <2>1. m.to \in Server
    BY <1>0, MessageFields, Zenon DEF TypeOK
  <2>2. CASE StepDown(m.to, m.Term)
    BY <1>4, <2>2, Zenon
  <2>3. CASE ~ StepDown(m.to, m.Term)
    <3>1. /\ UNCHANGED <<logs, persister>>
          /\ \A k \in Server \ {m.to} : commitIndex'[k] = commitIndex[k]
      BY <1>0, <1>9, <2>1, <2>3, Zenon DEF AppendEntriesReply, logVars, TypeOK
    <3>2. \A k \in Server : FullLog(k)' = FullLog(k)
      BY <3>1, Zenon DEF FullLog
    <3> QED BY <2>1, <3>1, <3>2, Zenon DEF CommitStep, CommitsOf
  <2> QED BY <2>2, <2>3, Zenon
<1>10. ASSUME NEW m \in rpcs, InstallSnapshot(m) PROVE CommitStep
  <2>1. m.to \in Server
    BY <1>0, MessageFields, Zenon DEF TypeOK
  <2> QED BY <1>0, <1>10, <2>1, SavesStay, Zenon DEF InstallSnapshot, logVars, Saves
<1>11. ASSUME NEW m \in rpcs, InstallSnapshotReply(m) PROVE CommitStep
  BY <1>0, <1>4, <1>11, SavesStay, Zenon DEF InstallSnapshotReply, logVars, Saves
<1>12. ASSUME NEW i \in Server, NEW s \in handed[i], CondInstallSnapshot(i, s) PROVE CommitStep
  <2>1. CASE UNCHANGED <<serverVars, logVars, commitIndex, persister>>
    BY <1>0, <2>1, SavesStay, Zenon DEF logVars, Saves
  <2>2. CASE ~ UNCHANGED <<serverVars, logVars, commitIndex, persister>>
    <3>1. Compact(i, s.SnapshotIndex, s.SnapshotTerm,
                  KeptAfter(i, s.SnapshotIndex, s.SnapshotTerm), s.Snapshot)
      BY <1>12, <2>2, Zenon DEF CondInstallSnapshot
    <3>2. s.SnapshotIndex \in Nat
      BY <1>0, SMTT(30) DEF TypeOK, Handed
    <3> QED BY <1>0, <3>1, <3>2, CompactCommits, Zenon
  <2> QED BY <2>1, <2>2, Zenon
<1>13. ASSUME NEW i \in Server, NEW index \in SnapshotIndexes, Snapshot(i, index)
       PROVE  CommitStep
  BY <1>0, <1>13, BoundAssumption, CompactCommits, Zenon DEF Snapshot
<1>14. ASSUME NEW i \in Crashing, Restart(i) PROVE CommitStep
  <2>1. i \in Server
    BY BoundAssumption, Zenon
  <2>2. UNCHANGED <<logs, persister>> /\ \A k \in Server \ {i} : commitIndex'[k] = commitIndex[k]
    BY <1>0, <1>14, <2>1, Zenon DEF Restart, StorageInv, DurableState, TypeOK
  <2>3. \A k \in Server : FullLog(k)' = FullLog(k)
    BY <2>2, Zenon DEF FullLog
  <2> QED BY <2>1, <2>2, <2>3, Zenon DEF CommitStep, CommitsOf
<1>15. ASSUME NEW m \in rpcs, Lose(m) PROVE CommitStep
  BY <1>0, <1>15, SavesStay, Zenon DEF Lose, logVars, Saves
<1>16. CASE UNCHANGED vars
  BY <1>0, <1>16, SavesStay, Zenon DEF vars, logVars, Saves
<1> QED BY <1>1, <1>2, <1>3, <1>5, <1>6, <1>7, <1>8, <1>9, <1>10, <1>11, <1>12, <1>13, <1>14,
           <1>15, <1>16, Zenon DEF Next

-----------------------------------------------------------------------------
(* The steps of elections. *)

\* A lost message changes nothing that a history explains.
LEMMA LoseExplained ==
    ASSUME NEW h, Explained(h), NEW m \in rpcs, Lose(m)
    PROVE  Explains(h)'
<1>1. Step(h, h) /\ TypeOK
  BY SameHistory, Zenon DEF Explained, ElectionInv, StorageInv
<1>2. /\ UNCHANGED <<state, currentTerm, votedFor, logs, lastIncludedIndex, lastIncludedTerm>>
      /\ UNCHANGED <<commitIndex, matchIndex, asking, votes, handed, persister>>
      /\ rpcs' \subseteq rpcs
  BY Zenon DEF Lose, Receive, serverVars, logVars, leaderVars
<1>3. NoNewBallot
  BY <1>2, Zenon DEF NoNewBallot, Ballot
<1>4. \A k \in Server : Steady(k) /\ FullLog(k)' = FullLog(k)
  BY <1>2, Zenon DEF Steady, FullLog
<1>5. \A k \in Server : CommitOf(h, k)' /\ MatchOf(h, k)'
  BY <1>1, <1>2, <1>4, CommitOfStep, MatchOfStep, Zenon
<1> QED BY <1>1, <1>2, <1>3, <1>4, <1>5, SteadyStep, Zenon

\* Neither does a step that leaves everything as it is.
LEMMA StutterExplained ==
    ASSUME NEW h, Explained(h), UNCHANGED vars
    PROVE  Explains(h)'
<1>1. Step(h, h) /\ TypeOK
  BY SameHistory, Zenon DEF Explained, ElectionInv, StorageInv
<1>2. /\ UNCHANGED <<state, currentTerm, votedFor, logs, lastIncludedIndex, lastIncludedTerm>>
      /\ UNCHANGED <<commitIndex, matchIndex, asking, votes, handed, persister, rpcs>>
  BY Zenon DEF vars, serverVars, logVars, leaderVars
<1>3. NoNewBallot
  BY <1>2, Zenon DEF NoNewBallot, Ballot
<1>4. \A k \in Server : Steady(k) /\ FullLog(k)' = FullLog(k)
  BY <1>2, Zenon DEF Steady, FullLog
<1>5. \A k \in Server : CommitOf(h, k)' /\ MatchOf(h, k)'
  BY <1>1, <1>2, <1>4, CommitOfStep, MatchOfStep, Zenon
<1> QED BY <1>1, <1>2, <1>3, <1>4, <1>5, SteadyStep, Zenon

\* A request claims the candidate's last entry, read when it is sent.
LEMMA RequestVoteExplained ==
    ASSUME NEW h, Explained(h), NEW i \in Server, NEW j \in Server, NEW term \in Nat,
           RequestVote(i, j, term)
    PROVE  Explains(h)'
<1>0. PICK m : m = [type |-> "RequestVote", from |-> i, to |-> j, Term |-> term,
                    LastLogIndex |-> lastIndex(i), LastLogTerm |-> termAt(i, lastIndex(i))]
  BY Zenon
<1>1. Step(h, h) /\ StorageInv /\ Explains(h) /\ h \in History
  BY SameHistory, Zenon DEF Explained, ElectionInv
<1>2. /\ UNCHANGED <<state, currentTerm, votedFor, logs, lastIncludedIndex, lastIncludedTerm>>
      /\ UNCHANGED <<commitIndex, matchIndex, votes, handed, persister>>
      /\ rpcs' = rpcs \union {m} /\ <<j, term>> \in asking[i]
      /\ asking' = [asking EXCEPT ![i] = @ \ {<<j, term>>}]
  BY <1>0, Zenon DEF RequestVote, Send, serverVars, logVars, leaderVars
<1>3. NoNewBallot
  <2>1. NoNewVote /\ \A k \in Server : Quiet(k)
    BY <1>0, <1>2, SMTT(30) DEF NoNewVote, Quiet
  <2> QED BY <2>1, QuietBallots, Zenon
<1>4. \A k \in Server : Steady(k) /\ FullLog(k)' = FullLog(k)
  BY <1>2, Zenon DEF Steady, FullLog
<1>5. \A k \in Server : CommitOf(h, k)' /\ MatchOf(h, k)'
  BY <1>1, <1>2, <1>4, CommitOfStep, MatchOfStep, Zenon
<1>6. \A k \in Server : asking'[k] \subseteq asking[k]
  BY <1>1, <1>2, Zenon DEF StorageInv, TypeOK
<1>7. term <= currentTerm[i]
  BY <1>1, <1>2, Zenon DEF Explains, AskedTerms
<1>8. RequestOf(h, m)'
  <2> DEFINE last == lastIndex(i)
             lastTerm == termAt(i, last)
  <2>1. /\ last \in Nat /\ last = Len(FullLog(i))
        /\ lastTerm = IF last = 0 THEN 0 ELSE FullLog(i)[last].Term
        /\ last # 0 => /\ lastTerm \in Nat /\ Elected(h, lastTerm)
                       /\ Holds(FullLog(i), h.log[lastTerm], last)
        /\ \A c, n \in Nat : Own(h, c, n) /\ AtLeast(lastTerm, last, c, n) =>
               Safe(h, currentTerm, FullLog(i), c, n)
    BY <1>1, LastEntry, Zenon
  <2>2. m.from = i /\ m.Term = term /\ m.LastLogIndex = last /\ m.LastLogTerm = lastTerm
    BY <1>0, Zenon
  <2> HIDE DEF last, lastTerm
  <2>3. last # 0 => last <= Len(h.log[lastTerm])
    BY <2>1, Zenon DEF Holds
  <2>4. RequestOf(h, m)
    BY <1>7, <2>1, <2>2, <2>3, Zenon DEF RequestOf
  <2>5. FullLog(m.from)' = FullLog(m.from) /\ UNCHANGED <<state, currentTerm>>
    BY <1>2, <1>4, <2>2, Zenon
  <2> QED BY <2>4, <2>5, Zenon DEF RequestOf
<1>9. MessageOf(h, m)'
  BY <1>0, <1>8, Zenon DEF MessageOf
<1>10. \A r \in rpcs' : r \in rpcs \/ MessageOf(h, r)'
  BY <1>2, <1>9, Zenon
<1> QED BY <1>1, <1>3, <1>4, <1>5, <1>6, <1>10, SteadyStep, Zenon

\* Nobody else won the term of a candidate with the ballots of a majority.
LEMMA TermUnclaimed ==
    ASSUME NEW h, h \in History, StorageInv, Explains(h), NEW i \in Server, state[i] = Candidate,
           NEW Q \in SUBSET Server, Majority(Q), \A v \in Q : Ballot(v, currentTerm[i], i)
    PROVE  LET t == currentTerm[i]
           IN  ~ Elected(h, t) /\ h.log[t] = <<>> /\ \A u \in Server : h.held[u][t] = 0
<1> DEFINE t == currentTerm[i]
<1>1. t \in Nat /\ TermInv(h) /\ ElectorInv(h) /\ RoleOf(h, i)
  BY Zenon DEF StorageInv, TypeOK, Explains
<1>2. ~ Elected(h, t)
  <2> SUFFICES ASSUME Elected(h, t) PROVE FALSE
    BY Zenon
  <2>1. ElectedBy(h.leader[t], t)
    BY <1>1, Zenon DEF ElectorInv
  <2>2. PICK R \in SUBSET Server :
            Majority(R) /\ \A v \in R : \A c \in Server : Ballot(v, t, c) => c = h.leader[t]
    BY <2>1, Zenon DEF ElectedBy
  <2>3. PICK v \in Server : v \in Q /\ v \in R
    BY <2>2, QuorumsMeet, Zenon
  <2>4. h.leader[t] = i
    BY <2>2, <2>3, Zenon
  <2> QED BY <1>1, <2>4, Zenon DEF RoleOf
<1>3. h.log[t] = <<>> /\ \A u \in Server : h.held[u][t] <= Len(h.log[t])
  BY <1>1, <1>2, Zenon DEF TermInv
<1>4. \A u \in Server : h.held[u][t] \in Nat
  BY <1>1, HistoryTypes, Zenon
<1>5. Len(<<>>) = 0
  BY Zenon
<1> HIDE DEF t
<1>6. \A u \in Server : h.held[u][t] = 0
  BY <1>3, <1>4, <1>5, SMTT(30)
<1> QED BY <1>2, <1>3, <1>6, Zenon DEF t

\* A candidate with the ballots of a majority has what may yet be committed, and leads.
LEMMA WinExplained ==
    ASSUME NEW h, Explained(h), NEW i \in Server, NEW counted \in SUBSET Server,
           \A v \in counted : Ballot(v, currentTerm[i], i), Majority(counted),
           state[i] = Candidate, BecomeLeader(i), votes' = [votes EXCEPT ![i] = counted],
           rpcs' \subseteq rpcs,
           UNCHANGED <<currentTerm, votedFor, logVars, commitIndex, asking, handed, persister>>
    PROVE  StaysExplained(h)
<1>0. PICK t, log : t = currentTerm[i] /\ log = FullLog(i)
  BY Zenon
<1>1. /\ StorageInv /\ StorageInv' /\ ElectionInv /\ ElectionStep /\ Explains(h)
      /\ h \in History /\ TypeOK /\ TypeOK'
  BY Zenon DEF Explained, ElectionInv, StorageInv
<1>2. /\ UNCHANGED <<currentTerm, votedFor, logs, lastIncludedIndex, lastIncludedTerm>>
      /\ UNCHANGED <<commitIndex, asking, handed, persister>>
  BY Zenon DEF logVars
<1>3. /\ state'[i] = Leader /\ votes'[i] = counted
      /\ \A j \in Server : matchIndex'[i][j] = IF j = i THEN lastIndex(i)
                                               ELSE lastIncludedIndex[i]
      /\ \A k \in Server \ {i} : /\ state'[k] = state[k] /\ votes'[k] = votes[k]
                                 /\ matchIndex'[k] = matchIndex[k]
  BY <1>1, SMTT(30) DEF BecomeLeader, TypeOK
<1>4. t \in Nat /\ log \in Seq(Entry) /\ Len(log) \in Nat /\ Len(log) = lastIndex(i)
  BY <1>0, <1>1, FullLogType, Zenon DEF TypeOK
<1>5. ~ Elected(h, t) /\ h.log[t] = <<>> /\ \A u \in Server : h.held[u][t] = 0
  BY <1>0, <1>1, TermUnclaimed, Zenon
<1>6. \A k \in Server : FullLog(k)' = FullLog(k)
  BY <1>2, Zenon DEF FullLog
<1>7. LogOf(h, i) /\ TermInv(h) /\ SuccessionInv(h)
  BY <1>1, Zenon DEF Explains
<1>8. \A v \in counted : v \in Server /\ Ballot(v, t, i)
  BY <1>0, Zenon
<1>9. NoNewBallot
  <2> SUFFICES ASSUME NEW v \in Server, NEW c \in Server, NEW u \in Nat, Ballot(v, u, c)'
               PROVE  Ballot(v, u, c)
    BY Zenon DEF NoNewBallot
  <2>1. CASE c = i /\ u = t /\ v \in counted
    BY <1>8, <2>1, Zenon
  <2>2. CASE ~ (c = i /\ u = t /\ v \in counted)
    BY <1>0, <1>2, <1>3, <2>2, Zenon DEF Ballot
  <2> QED BY <2>1, <2>2, Zenon
<1>10. PICK g : g = Record(h, i, t, i, log, Len(log))
  BY Zenon
<1>11. /\ g \in History /\ g.leader[t] = i /\ g.log[t] = log /\ g.held[i][t] = Len(log)
       /\ \A c \in Nat \ {t} : g.leader[c] = h.leader[c] /\ g.log[c] = h.log[c]
       /\ \A u \in Server : \A c \in Nat : (u = i /\ c = t) \/ g.held[u][c] = h.held[u][c]
  <2>1. i \in Server \union {Nil} /\ h \in History
    BY <1>1, Zenon
  <2>2. g \in History /\ Recorded(h, g, i, t, i, log, Len(log))
    BY <1>4, <1>10, <2>1, RecordType, Zenon
  <2> QED BY <2>2, Zenon DEF Recorded
<1>12. currentTerm' = currentTerm /\ i # Nil
  BY <1>2, ServerAssumption, Zenon
<1>13. FullLog(i)' = log /\ currentTerm'[i] = t
  BY <1>0, <1>6, <1>12, Zenon
<1>14. Elected(g, t)
  BY <1>11, <1>12, Zenon DEF Elected
<1>15. Continues(h, g, currentTerm')
  <2>1. Len(h.log[t]) = 0 /\ h.held[i][t] = 0
    BY <1>5, ZenonT(30)
  <2>2. Holds(log, h.log[t], Len(h.log[t]))
    BY <1>4, <2>1, SMTT(30) DEF Holds
  <2>3. Len(log) >= h.held[i][t]
    BY <1>4, <2>1, SMTT(30)
  <2>4. currentTerm'[i] = t /\ (Elected(h, t) => i = h.leader[t]) /\ i \in Server \union {Nil}
    BY <1>0, <1>5, <1>12, Zenon
  <2> QED BY <1>1, <1>4, <1>10, <2>2, <2>3, <2>4, RecordContinues, Zenon
<1>16. Step(h, g)
  BY <1>1, <1>11, <1>15, Zenon DEF Step
<1>17. \A k \in Server : k # i => Steady(k)
  BY <1>3, <1>12, Zenon DEF Steady
<1>18. \A k \in Server : CandidacyStep(h, g, k)
  <2> SUFFICES ASSUME NEW k \in Server PROVE CandidacyStep(h, g, k)
    BY Zenon
  <2>1. CASE k = i
    BY <1>3, <2>1, Zenon DEF CandidacyStep, Leader, Candidate
  <2>2. CASE k # i
    BY <1>6, <1>16, <1>17, <2>2, SteadyCandidacy, Zenon
  <2> QED BY <2>1, <2>2, Zenon
<1>19. Lineage(g, log) /\ UpTo(log, t) /\ Holds(log, log, Len(log))
  <2>1. Lineage(h, log) /\ UpTo(log, t)
    BY <1>0, <1>7, Zenon DEF LogOf
  <2> QED BY <1>1, <1>4, <1>11, <1>15, <2>1, LineageKept, SMTT(30) DEF Holds
<1>20. \A c, n \in Nat : c # t /\ Own(g, c, n) => Own(h, c, n)
  BY <1>11, Zenon DEF Own
<1>21. ASSUME NEW c \in Nat, NEW n \in Nat, Safe(h, currentTerm, log, c, n)
       PROVE  Safe(g, currentTerm', log, c, n)
  <2>1. currentTerm \in [Server -> Nat] /\ \A u \in Server : currentTerm'[u] >= currentTerm[u]
    BY <1>1, <1>12, SMTT(30) DEF TypeOK
  <2>2. currentTerm' \in [Server -> Nat] /\ h \in History /\ g \in History
    BY <1>1, <1>11, Zenon DEF TypeOK
  <2> QED BY <1>4, <1>15, <1>21, <2>1, <2>2, SafeKept, Zenon
<1>22. TermInv(g)'
  <2>1. ASSUME NEW c \in Nat
        PROVE  \/ g.leader[c] = h.leader[c] /\ g.log[c] = h.log[c]
               \/ Elected(g, c) /\ Lineage(g, g.log[c]) /\ UpTo(g.log[c], c)
    BY <1>11, <1>14, <1>19, Zenon
  <2>2. ASSUME NEW c \in Nat, NEW u \in Server PROVE g.held[u][c] <= Len(g.log[c])
    <3>1. h.held[u][c] <= Len(h.log[c]) /\ h.held[u][c] \in Nat
      BY <1>1, <1>7, HistoryTypes, ZenonT(30) DEF TermInv
    <3>2. CASE c = t
      <4>1. g.held[u][t] = IF u = i THEN Len(log) ELSE 0
        BY <1>4, <1>5, <1>11, Zenon
      <4>2. Len(log) \in Nat /\ g.log[t] = log
        BY <1>4, <1>11, Zenon
      <4>3. 0 <= Len(log) /\ Len(log) <= Len(log)
        BY ONLY <4>2, SMTT(30)
      <4>4. g.held[u][t] <= Len(g.log[t])
        BY <4>1, <4>2, <4>3, Zenon
      <4> QED BY <3>2, <4>4, Zenon
    <3>3. CASE c # t
      BY <1>11, <3>1, <3>3, Zenon
    <3> QED BY <3>2, <3>3, Zenon
  <2> QED BY <1>16, <2>1, <2>2, TermStep, Zenon
<1>23. \A v \in counted : /\ Voted(v, t, i)' /\ currentTerm[v] \in Nat /\ currentTerm[v] >= t
                          /\ \A c \in Server : Ballot(v, t, c)' => c = i
  <2>1. BallotVoted' /\ BallotUnique'
    BY Zenon DEF Explained, ElectionInv
  <2>2. \A v \in counted : Ballot(v, t, i)'
    BY <1>3, <1>13, Zenon DEF Ballot, Leader, Follower
  <2>3. \A v \in counted : Voted(v, t, i)'
    BY <1>4, <1>8, <2>1, <2>2, Zenon DEF BallotVoted
  <2>4. \A v \in counted : \A c \in Server : Ballot(v, t, c)' => c = i
    BY <1>4, <1>8, <2>1, <2>2, Zenon DEF BallotUnique
  <2>5. \A v \in counted : currentTerm[v] \in Nat
    BY <1>1, <1>8, Zenon DEF TypeOK
  <2>6. \A v \in counted : currentTerm[v] >= t
    BY <1>4, <1>12, <2>3, <2>5, SMTT(30) DEF Voted
  <2> QED BY <2>3, <2>4, <2>5, <2>6, Zenon
<1>24. ElectorInv(g)'
  <2>1. ElectedBy(i, t)'
    <3>1. t <= currentTerm'[i]
      BY <1>4, <1>13, NatOrder, Zenon
    <3>2. Majority(counted)'
      BY Zenon DEF Majority
    <3>3. counted \in SUBSET Server
      BY Zenon
    <3> QED BY <1>23, <3>1, <3>2, <3>3, Zenon DEF ElectedBy
  <2>2. ASSUME NEW c \in Nat, Elected(g, c) PROVE Elected(h, c) \/ ElectedBy(g.leader[c], c)'
    BY <1>11, <2>1, <2>2, Zenon DEF Elected
  <2> QED BY <1>16, <2>2, ElectorStep, Zenon
<1>25. SuccessionInv(g)'
  <2> SUFFICES ASSUME NEW u \in Nat, NEW c \in Nat, Elected(g, u), c < u, NEW n \in Nat,
                      Own(g, c, n)
               PROVE  Safe(g, currentTerm', g.log[u], c, n)
    BY Zenon DEF SuccessionInv
  <2>1. CASE u # t
    <3>1. Elected(h, u)
      BY <1>11, <2>1, Zenon DEF Elected
    <3> QED BY <1>16, <3>1, SuccessionStep, Zenon
  <2>2. CASE u = t
    <3>1. Own(h, c, n) /\ c # t
      BY <1>4, <1>20, <2>2, SMTT(30)
    <3>2. CASE \E v \in counted : h.held[v][c] >= n
      <4>1. PICK v \in counted : h.held[v][c] >= n
        BY <3>2, Zenon
      <4>2. v \in Server /\ h.held[v][c] \in Nat /\ Len(h.log[c]) \in Nat
        BY <1>1, HistoryTypes, Zenon
      <4>3. n \in 1..h.held[v][c]
        BY <3>1, <4>1, <4>2, SMTT(30) DEF Own
      <4>4. BallotOf(h, v, i)
        BY <1>1, <4>2, Zenon DEF Explains
      <4>5. Safe(h, currentTerm, FullLog(i), c, n)
        BY <1>0, <1>8, <2>2, <3>1, <4>3, <4>4, Zenon DEF BallotOf
      <4> QED BY <1>11, <1>21, <2>2, <4>5, <1>0, Zenon
    <3>3. CASE ~ \E v \in counted : h.held[v][c] >= n
      <4>1. \A v \in counted : g.held[v][c] = h.held[v][c] /\ h.held[v][c] \in Nat
        BY <1>1, <1>8, <1>11, <3>1, HistoryTypes, Zenon
      <4>2. \A v \in counted : currentTerm'[v] > c
        <5> QED BY <1>4, <1>12, <1>23, <2>2, NatOrder, Zenon
      <4>3. \A v \in counted : g.held[v][c] < n
        BY <3>3, <4>1, NatOrder, Zenon
      <4>4. Blocked(g, currentTerm', c, n)
        BY <4>2, <4>3, Zenon DEF Blocked
      <4> QED BY <4>4, Zenon DEF Safe
    <3> QED BY <3>2, <3>3, Zenon
  <2> QED BY <2>1, <2>2, Zenon
<1>26. AskedTerms'
  BY <1>2, <1>9, <1>16, AskedStep, Zenon
<1>27. ASSUME NEW k \in Server
       PROVE  RoleOf(g, k)' /\ LogOf(g, k)' /\ CommitOf(g, k)' /\ MatchOf(g, k)'
  <2>1. CommitOf(g, k)'
    BY <1>2, <1>6, <1>16, CommitOfStep, Zenon
  <2>2. CASE k # i
    <3>1. \A c \in Nat : g.leader[c] = h.leader[c] \/ g.leader[c] # k
      BY <1>11, <2>2, Zenon
    <3>2. currentTerm[k] \in Nat /\ k # Nil /\ RoleOf(h, k)
      BY <1>1, ServerAssumption, ZenonT(30) DEF Explains, TypeOK
    <3>3. state[k] = Leader => currentTerm[k] # t
      BY <1>5, <3>2, Zenon DEF RoleOf, Elected
    <3>4. state[k] = Leader => g.log[currentTerm[k]] = h.log[currentTerm[k]]
      BY <1>11, <3>2, <3>3, Zenon
    <3>5. \A c \in Nat : g.held[k][c] = h.held[k][c]
      BY <1>11, <2>2, ZenonT(30)
    <3>6. RoleOf(g, k)'
      <4>1. Step(h, g) /\ Steady(k) /\ FullLog(k)' = FullLog(k)
        BY <1>6, <1>16, <1>17, <2>2, Zenon
      <4>2. state[k] = Leader => /\ g.log[currentTerm[k]] = h.log[currentTerm[k]]
                                 /\ g.held[k][currentTerm[k]] = h.held[k][currentTerm[k]]
        BY <3>2, <3>4, <3>5, Zenon
      <4> QED BY <3>1, <4>1, <4>2, RoleOfStep, Zenon
    <3>7. LogOf(g, k)'
      BY <1>6, <1>16, <3>5, LogOfStep, SMTT(30)
    <3>8. MatchOf(g, k)'
      BY <1>2, <1>3, <1>16, <2>2, MatchOfStep, Zenon
    <3> QED BY <2>1, <3>6, <3>7, <3>8, Zenon
  <2>3. CASE k = i
    <3>1. RoleOf(g, i)'
      BY <1>3, <1>11, <1>13, Zenon DEF RoleOf, Leader, Candidate
    <3>2. LogOf(g, i)'
      <4>1. ASSUME NEW c \in Nat, NEW n \in 1..g.held[i][c], Own(g, c, n)
            PROVE  Safe(g, currentTerm', log, c, n)
        <5>1. g.held[i][c] \in Nat /\ n \in Nat
          <6>1. g \in History
            BY <1>11, Zenon
          <6>2. g.held[i][c] \in Nat
            BY <6>1, HistoryTypes, Zenon
          <6> QED BY <6>2, SMTT(30)
        <5>2. CASE c = t
          <6>1. Holds(log, log, n)
            BY <1>4, <1>11, <5>2, SMTT(30) DEF Holds
          <6> QED BY <1>11, <5>2, <6>1, ZenonT(30) DEF Safe
        <5>3. CASE c # t
          <6>1. n \in 1..h.held[i][c] /\ Own(h, c, n)
            BY <1>11, <1>20, <4>1, <5>1, <5>3, Zenon
          <6>2. Safe(h, currentTerm, log, c, n)
            BY <1>0, <1>7, <6>1, Zenon DEF LogOf
          <6> QED BY <1>21, <5>1, <6>2, Zenon
        <5> QED BY <5>2, <5>3, Zenon
      <4> QED BY <1>11, <1>13, <1>19, <4>1, Zenon DEF LogOf
    <3>3. MatchOf(g, i)'
      <4>1. lastIncludedIndex[i] <= commitIndex[i]
        BY <1>1, Zenon DEF Explains, CommitOf
      <4>2. \A j \in Server : \/ matchIndex'[i][j] <= commitIndex'[i]
                              \/ matchIndex'[i][j] <= g.held[j][t]
        <5> SUFFICES ASSUME NEW j \in Server
                     PROVE  \/ matchIndex'[i][j] <= commitIndex'[i]
                            \/ matchIndex'[i][j] <= g.held[j][t]
          BY Zenon
        <5>1. CASE j = i
          <6>1. matchIndex'[i][i] = Len(log) /\ g.held[i][t] = Len(log) /\ Len(log) \in Nat
            BY <1>3, <1>4, <1>11, Zenon
          <6> QED BY <5>1, <6>1, SMTT(30)
        <5>2. CASE j # i
          BY <1>2, <1>3, <4>1, <5>2, Zenon
        <5> QED BY <5>1, <5>2, Zenon
      <4> QED BY <1>13, <4>2, Zenon DEF MatchOf
    <3> QED BY <2>1, <2>3, <3>1, <3>2, <3>3, Zenon
  <2> QED BY <2>2, <2>3, Zenon
<1>28. \A v, k \in Server : BallotOf(g, v, k)'
  BY <1>9, <1>16, <1>18, OldBallots, Zenon
<1>29. \A m \in rpcs' : MessageOf(g, m)'
  BY <1>16, <1>18, MessageOfStep, Zenon
<1>30. Explains(g)'
  BY <1>11, <1>22, <1>24, <1>25, <1>26, <1>27, <1>28, <1>29, Zenon DEF Explains
<1> QED BY <1>11, <1>15, <1>30, Zenon DEF StaysExplained

\* A vote is counted: the candidate may win, or learn of a higher term.
LEMMA RequestVoteReplyExplained ==
    ASSUME NEW h, Explained(h), NEW m \in rpcs, RequestVoteReply(m)
    PROVE  StaysExplained(h)
<1> DEFINE i == m.to
           counted == votes[i] \union {m.from}
<1>1. Step(h, h) /\ TypeOK /\ h \in History
  BY SameHistory, Zenon DEF Explained, ElectionInv, StorageInv
<1>2. /\ i \in Server /\ m.from \in Server /\ rpcs' \subseteq rpcs /\ m.type = "RequestVoteReply"
      /\ currentTerm[i] \in Nat
  BY <1>1, MessageFields, Zenon DEF RequestVoteReply, TypeOK, Receive
<1>3. CASE StepDown(i, m.Term)
  BY <1>2, <1>3, StepDownExplained, StaysSame, Zenon
<1>4. CASE ~ StepDown(i, m.Term)
  <2>1. /\ Counts(i, m) /\ votes' = [votes EXCEPT ![i] = counted]
        /\ IF Majority(counted) THEN BecomeLeader(i) ELSE UNCHANGED <<state, leaderVars>>
        /\ UNCHANGED <<currentTerm, votedFor, logVars, commitIndex, asking, handed, persister>>
    BY <1>4, Zenon DEF RequestVoteReply
  <2>2. \A v \in counted : Ballot(v, currentTerm[i], i)
    BY <1>2, <2>1, Zenon DEF Ballot, Counts, Candidate, Follower
  <2>3. counted \in SUBSET Server
    BY <1>1, <1>2, Zenon DEF TypeOK
  <2>4. CASE Majority(counted)
    <3> HIDE DEF counted
    <3> QED BY <1>2, <2>1, <2>2, <2>3, <2>4, WinExplained, Zenon DEF Counts
  <2>5. CASE ~ Majority(counted)
    <3>1. /\ UNCHANGED <<state, currentTerm, votedFor, logs, lastIncludedIndex>>
          /\ UNCHANGED <<lastIncludedTerm, commitIndex, matchIndex, asking, handed, persister>>
      BY <2>1, <2>5, Zenon DEF logVars, leaderVars
    <3>2. /\ votes'[i] = counted
          /\ \A k \in Server \ {i} : votes'[k] = votes[k]
      BY <1>1, <1>2, <2>1, Zenon DEF TypeOK
    <3>3. NoNewBallot
      <4> SUFFICES ASSUME NEW v \in Server, NEW c \in Server, NEW u \in Nat, Ballot(v, u, c)'
                   PROVE  Ballot(v, u, c)
        BY Zenon DEF NoNewBallot
      <4>1. CASE c = i /\ u = currentTerm[i] /\ v \in counted
        BY <2>2, <4>1, Zenon
      <4>2. CASE ~ (c = i /\ u = currentTerm[i] /\ v \in counted)
        BY <1>2, <3>1, <3>2, <4>2, Zenon DEF Ballot
      <4> QED BY <4>1, <4>2, Zenon
    <3>4. \A k \in Server : Steady(k) /\ FullLog(k)' = FullLog(k)
      BY <3>1, Zenon DEF Steady, FullLog
    <3>5. \A k \in Server : CommitOf(h, k)' /\ MatchOf(h, k)'
      BY <1>1, <3>1, <3>4, CommitOfStep, MatchOfStep, Zenon
    <3>6. Explains(h)'
      BY <1>1, <1>2, <3>1, <3>3, <3>4, <3>5, SteadyStep, Zenon
    <3> QED BY <3>6, StaysSame, Zenon
  <2> QED BY <2>4, <2>5, Zenon
<1> QED BY <1>3, <1>4, Zenon

\* A voter grants its vote to a log at least as up to date as its own.
LEMMA GrantIsSafe ==
    ASSUME NEW h, h \in History, StorageInv, Explains(h), NEW m \in rpcs, m.type = "RequestVote",
           UpToDate(m.to, m), state[m.from] = Candidate, currentTerm[m.from] = m.Term,
           NEW c \in Nat, NEW n \in 1..h.held[m.to][c], Own(h, c, n)
    PROVE  Safe(h, currentTerm, FullLog(m.from), c, n)
<1> DEFINE i == m.to
           log == FullLog(i)
           last == lastIndex(i)
           term == termAt(i, last)
<1>1. i \in Server /\ m.LastLogIndex \in Nat
  <2>1. m \in Message
    BY Zenon DEF StorageInv, TypeOK
  <2> QED BY <2>1, Zenon DEF Message
<1>2. LogOf(h, i) /\ TermInv(h) /\ RequestOf(h, m) /\ m.LastLogTerm \in Nat
  BY <1>1, Zenon DEF Explains, MessageOf, RequestOf
<1>3. h.held[i][c] \in Nat /\ n \in Nat
  <2>1. h.held[i][c] \in Nat
    BY <1>1, HistoryTypes, Zenon
  <2> QED BY <2>1, InRange, Zenon
<1>4. Safe(h, currentTerm, log, c, n)
  BY <1>2, Zenon DEF LogOf
<1>5. CASE Blocked(h, currentTerm, c, n)
  BY <1>5, Zenon DEF Safe
<1>6. CASE Holds(log, h.log[c], n)
  <2>1. /\ last \in Nat /\ last = Len(log)
        /\ term = IF last = 0 THEN 0 ELSE log[last].Term
        /\ last # 0 => term \in Nat
    BY <1>1, LastEntry, Zenon
  <2>2. log \in Seq(Entry)
    BY <1>1, FullLogType, Zenon
  <2>3. /\ n \in 1..Len(log) /\ last \in 1..Len(log) /\ last # 0 /\ n \in 1..last
        /\ n \in 1..n
    <3>1. n <= Len(log) /\ n # 0
      BY <1>3, <1>6, InRange, Zenon DEF Holds
    <3>2. PICK x, y : x = n /\ y = last
      BY Zenon
    <3>3. x \in Nat /\ y \in Nat /\ x <= y /\ x # 0
      BY <1>3, <2>1, <3>1, <3>2, Zenon
    <3>4. y # 0 /\ x \in 1..y /\ y \in 1..y /\ x \in 1..x
      BY ONLY <3>3, SMTT(30)
    <3> QED BY <2>1, <3>2, <3>4, Zenon
  <2>4. log[n].Term = c
    BY <1>6, <2>3, Zenon DEF Holds, Own
  <2>5. Lineage(h, log) /\ \A t \in Nat : UpTo(h.log[t], t)
    BY <1>2, Zenon DEF LogOf, TermInv
  <2>6. UpToDate(i, m)
    BY Zenon
  <2> HIDE DEF log
  <2>7. log[n].Term <= log[last].Term
    BY <2>2, <2>3, <2>5, LineageSorted, Zenon
  <2>8. /\ m.LastLogTerm > term \/ (m.LastLogTerm = term /\ m.LastLogIndex >= last)
    BY <2>6, Zenon DEF UpToDate
  <2> HIDE DEF i, last, term
  <2>9. term >= c /\ term \in Nat
    BY <2>1, <2>3, <2>4, <2>7, ZenonT(30)
  <2>10. AtLeast(m.LastLogTerm, m.LastLogIndex, c, n)
    BY <1>1, <1>2, <1>3, <2>1, <2>3, <2>8, <2>9, SMTT(30) DEF AtLeast
  <2> QED BY <1>2, <1>3, <2>10, Zenon DEF RequestOf
<1> QED BY <1>4, <1>5, <1>6, Zenon DEF Safe

\* A vote is granted or refused.
LEMMA RequestVoteHandleExplained ==
    ASSUME NEW h, Explained(h), NEW m \in rpcs, RequestVoteHandle(m)
    PROVE  Explains(h)'
<1>0. PICK i : i = m.to
  BY Zenon
<1>1. Step(h, h) /\ StorageInv /\ Explains(h) /\ h \in History /\ TypeOK /\ TypeOK'
  BY SameHistory, Zenon DEF Explained, ElectionInv, StorageInv
<1>2. /\ i \in Server /\ m.from \in Server /\ m.Term \in Nat /\ m.type = "RequestVote"
      /\ currentTerm[i] \in Nat
  BY <1>0, <1>1, MessageFields, Zenon DEF RequestVoteHandle, TypeOK
<1>3. PICK grant : grant = (/\ m.Term >= currentTerm[i]
                            /\ m.Term > currentTerm[i] \/ votedFor[i] \in {Nil, m.from}
                            /\ UpToDate(i, m))
  BY Zenon
<1>4. PICK reply : reply = [type |-> "RequestVoteReply", from |-> i, to |-> m.from,
                            term |-> m.Term, Term |-> currentTerm[i], VoteGranted |-> grant]
  BY Zenon
<1>5. /\ UNCHANGED <<logs, lastIncludedIndex, lastIncludedTerm>>
      /\ UNCHANGED <<commitIndex, matchIndex, asking, votes, handed>> /\ Saves
      /\ \A k \in Server \ {i} : state'[k] = state[k] /\ currentTerm'[k] = currentTerm[k]
      /\ currentTerm'[i] = Larger(m.Term, currentTerm[i])
      /\ state'[i] = IF m.Term > currentTerm[i] THEN Follower ELSE state[i]
  BY <1>0, <1>1, <1>2, ZenonT(30) DEF RequestVoteHandle, TypeOK, Saves, logVars, leaderVars
<1>6. rpcs' \subseteq rpcs \union {reply}
  BY <1>0, <1>3, <1>4, Zenon DEF RequestVoteHandle, Reply
<1>7. state'[i] = Follower \/ (state'[i] = state[i] /\ currentTerm'[i] = currentTerm[i])
  BY <1>2, <1>5, Zenon DEF Larger
<1>8. \A k \in Server : Steady(k) /\ Quiet(k)
  BY <1>5, <1>7, Zenon DEF Steady, Quiet
<1>9. \A k \in Server : FullLog(k)' = FullLog(k) /\ persister'[k].snapshot = persister[k].snapshot
  BY <1>1, <1>5, LogStays, Zenon
<1>10. ASSUME NEW v \in Server, NEW c \in Server, NEW t \in Nat, Ballot(v, t, c)',
              ~ Ballot(v, t, c)
       PROVE  v = i /\ t = m.Term /\ c = m.from /\ UpToDate(i, m)
  <2>1. ~ (state'[c] # Follower /\ currentTerm'[c] = t /\ v \in votes'[c])
    BY <1>8, <1>10, Zenon DEF Ballot, Quiet
  <2>2. PICK r \in rpcs' : /\ r.type = "RequestVoteReply" /\ r.VoteGranted
                           /\ r.from = v /\ r.term = t /\ r.to = c
    BY <1>10, <2>1, Zenon DEF Ballot
  <2>3. r = reply
    BY <1>6, <1>10, <2>2, Zenon DEF Ballot
  <2> QED BY <1>3, <1>4, <2>2, <2>3, Zenon
<1>11. \A k \in Server : CommitOf(h, k)'
  BY <1>1, <1>5, <1>9, CommitOfStep, Zenon
<1>12. ASSUME NEW k \in Server PROVE MatchOf(h, k)'
  <2>1. state'[k] = Leader => state[k] = Leader /\ currentTerm'[k] = currentTerm[k]
    BY <1>8, Zenon DEF Steady, Follower, Leader
  <2> QED BY <1>1, <1>5, <2>1, MatchOfStep, Zenon
<1>13. \A k \in Server : /\ currentTerm[k] \in Nat /\ currentTerm'[k] \in Nat
                         /\ currentTerm'[k] >= currentTerm[k]
  BY <1>1, StepTypes, Zenon
<1>14. AskedTerms'
  <2>1. AskedTerms /\ m.Term <= currentTerm[m.from]
    BY <1>1, <1>2, Zenon DEF Explains, MessageOf, RequestOf
  <2>2. ASSUME NEW k \in Server, NEW a \in asking'[k] PROVE a[2] <= currentTerm'[k]
    <3>1. a \in asking[k] /\ a[2] \in Nat
      BY <1>1, <1>5, SecondOf, Zenon DEF TypeOK
    <3>2. a[2] <= currentTerm[k]
      BY <2>1, <3>1, Zenon DEF AskedTerms
    <3> QED BY <1>13, <3>1, <3>2, NatOrder, Zenon
  <2>3. ASSUME NEW v \in Server, NEW c \in Server, NEW t \in Nat, Ballot(v, t, c)'
        PROVE  t <= currentTerm'[c]
    <3>1. t <= currentTerm[c]
      BY <1>10, <2>1, <2>3, Zenon DEF AskedTerms
    <3> QED BY <1>13, <3>1, NatOrder, Zenon
  <2> QED BY <2>2, <2>3, Zenon DEF AskedTerms
<1>15. ASSUME NEW v \in Server, NEW k \in Server PROVE BallotOf(h, v, k)'
  <2>1. CASE Ballot(v, currentTerm'[k], k)
    <3>1. CandidacyStep(h, h, k)
      BY <1>1, <1>8, <1>9, SteadyCandidacy, ZenonT(30)
    <3> QED BY <1>1, <2>1, <3>1, BallotOfStep, Zenon
  <2>2. CASE ~ Ballot(v, currentTerm'[k], k)
    <3> SUFFICES ASSUME state'[k] = Candidate, Ballot(v, currentTerm[k], k)',
                        NEW c \in Nat, NEW n \in 1..h.held[v][c], Own(h, c, n)
                 PROVE  Safe(h, currentTerm', FullLog(k)', c, n)
      BY Zenon DEF BallotOf
    <3>1. PICK t \in Nat : t = currentTerm'[k]
      BY <1>13, Zenon
    <3>2. Ballot(v, t, k)' /\ ~ Ballot(v, t, k)
      BY <2>2, <3>1, Zenon
    <3>3. v = i /\ t = m.Term /\ k = m.from /\ UpToDate(i, m)
      BY <1>10, <3>2, Zenon
    <3>4. state[k] = Candidate /\ currentTerm'[k] = currentTerm[k]
      BY <1>8, Zenon DEF Steady, Candidate, Follower
    <3>5. Safe(h, currentTerm, FullLog(k), c, n)
      BY <1>0, <1>1, <1>2, <3>1, <3>3, <3>4, GrantIsSafe, Zenon
    <3>6. SafeStep(h, h, k) /\ h.held[v][c] \in Nat
      BY <1>1, <1>9, SafeStepSame, HistoryTypes, Zenon
    <3>7. n \in Nat
      BY <3>6, InRange, Zenon
    <3> QED BY <3>5, <3>6, <3>7, Zenon DEF SafeStep
  <2> QED BY <2>1, <2>2, Zenon
<1>16. \A r \in rpcs' : r \in rpcs \/ MessageOf(h, r)'
  <2>1. MessageOf(h, reply)'
    BY <1>4, Zenon DEF MessageOf
  <2> QED BY <1>6, <2>1, Zenon
<1> QED BY <1>1, <1>8, <1>9, <1>11, <1>12, <1>14, <1>15, <1>16, VotingStep, Zenon

\* A candidate starts with its own vote in a term it did not win before.
LEMMA ElectionExplained ==
    ASSUME NEW h, Explained(h), NEW i \in Server, NEW asked \in SUBSET Server, Election(i, asked)
    PROVE  Explains(h)'
<1>1. Step(h, h) /\ StorageInv /\ Explains(h) /\ h \in History /\ TypeOK /\ TypeOK'
  BY SameHistory, Zenon DEF Explained, ElectionInv, StorageInv
<1>2. PICK t \in Nat : t = currentTerm[i]
  BY <1>1, Zenon DEF TypeOK
<1>3. /\ UNCHANGED <<logs, lastIncludedIndex, lastIncludedTerm>>
      /\ UNCHANGED <<commitIndex, matchIndex, handed, rpcs>> /\ Saves
      /\ state'[i] = Candidate /\ currentTerm'[i] = t + 1 /\ votes'[i] = {i}
      /\ asking'[i] = asking[i] \union (asked \X {t + 1})
      /\ \A k \in Server \ {i} : /\ state'[k] = state[k] /\ currentTerm'[k] = currentTerm[k]
                                 /\ votes'[k] = votes[k] /\ asking'[k] = asking[k]
  BY <1>1, <1>2, SMTT(30) DEF Election, TypeOK, Saves, logVars, leaderVars
<1>4. \A k \in Server : FullLog(k)' = FullLog(k) /\ persister'[k].snapshot = persister[k].snapshot
  BY <1>1, <1>3, LogStays, Zenon
<1>5. \A k \in Server : k # i => Steady(k)
  BY <1>3, Zenon DEF Steady
<1>6. \A k \in Server : CandidacyStep(h, h, k)
  <2> SUFFICES ASSUME NEW k \in Server PROVE CandidacyStep(h, h, k)
    BY Zenon
  <2>1. CASE k = i
    <3>1. t + 1 > t
      BY SMTT(30)
    <3>2. currentTerm'[k] > currentTerm[k]
      BY <1>2, <1>3, <2>1, <3>1, Zenon
    <3> QED BY <3>2, Zenon DEF CandidacyStep
  <2>2. CASE k # i
    BY <1>1, <1>4, <1>5, <2>2, SteadyCandidacy, Zenon
  <2> QED BY <2>1, <2>2, Zenon
<1>7. TermInv(h) /\ ElectorInv(h) /\ AskedTerms /\ LogOf(h, i)
  BY <1>1, Zenon DEF Explains
<1>8. TermInv(h)'
  <2>1. \A c \in Nat : \A u \in Server : h.held[u][c] <= Len(h.log[c])
    BY <1>7, Zenon DEF TermInv
  <2> QED BY <1>1, <2>1, TermStep, Zenon
<1>9. ElectorInv(h)'
  BY <1>1, ElectorStep, Zenon
<1>10. SuccessionInv(h)'
  BY <1>1, SuccessionStep, Zenon DEF SuccessionInv
<1>11. \A k \in Server : LogOf(h, k)'
  BY <1>1, <1>4, LogOfStep, Zenon
<1>12. \A k \in Server : CommitOf(h, k)'
  BY <1>1, <1>3, <1>4, CommitOfStep, Zenon
<1>13. ASSUME NEW k \in Server PROVE RoleOf(h, k)' /\ MatchOf(h, k)'
  <2>1. CASE k # i
    <3>1. RoleOf(h, k)'
      BY <1>1, <1>4, <1>5, <2>1, RoleOfStep, Zenon
    <3>2. MatchOf(h, k)'
      BY <1>1, <1>3, <2>1, MatchOfStep, Zenon
    <3> QED BY <3>1, <3>2, Zenon
  <2>2. CASE k = i
    <3>1. h.leader[t + 1] # i
      <4> SUFFICES ASSUME h.leader[t + 1] = i PROVE FALSE
        BY Zenon
      <4>1. Elected(h, t + 1) /\ t + 1 \in Nat
        BY Successor, ServerAssumption, Zenon DEF Elected
      <4>2. t + 1 <= currentTerm[i]
        BY <1>7, <4>1, Zenon DEF ElectorInv, ElectedBy
      <4> QED BY <1>2, <4>2, Successor, Zenon
    <3> QED BY <1>3, <2>2, <3>1, ZenonT(30) DEF RoleOf, MatchOf, Candidate, Leader
  <2> QED BY <2>1, <2>2, Zenon
<1>14. ASSUME NEW v \in Server, NEW c \in Server, NEW u \in Nat, Ballot(v, u, c)',
              ~ Ballot(v, u, c)
       PROVE  v = i /\ u = t + 1 /\ c = i
  <2>1. c = i
    BY <1>3, <1>14, Zenon DEF Ballot
  <2> QED BY <1>3, <1>14, <2>1, Zenon DEF Ballot
<1>15. \A k \in Server : /\ currentTerm[k] \in Nat /\ currentTerm'[k] \in Nat
                         /\ currentTerm'[k] >= currentTerm[k]
  BY <1>1, StepTypes, Zenon
<1>16. AskedTerms'
  <2>1. ASSUME NEW k \in Server, NEW a \in asking'[k] PROVE a[2] <= currentTerm'[k]
    <3>1. CASE a \in asking[k]
      <4>1. a[2] \in Nat /\ a[2] <= currentTerm[k]
        BY <1>1, <1>7, <3>1, SecondOf, Zenon DEF TypeOK, AskedTerms
      <4> QED BY <1>15, <4>1, NatOrder, Zenon
    <3>2. CASE a \notin asking[k]
      <4>1. k = i /\ a \in asked \X {t + 1}
        BY <1>3, <2>1, <3>2, Zenon
      <4>2. a[2] = t + 1
        BY <4>1, Zenon
      <4> QED BY <1>3, <4>1, <4>2, Successor, Zenon
    <3> QED BY <3>1, <3>2, Zenon
  <2>2. ASSUME NEW v \in Server, NEW c \in Server, NEW u \in Nat, Ballot(v, u, c)'
        PROVE  u <= currentTerm'[c]
    <3>1. CASE Ballot(v, u, c)
      <4>1. u <= currentTerm[c]
        BY <1>7, <3>1, Zenon DEF AskedTerms
      <4> QED BY <1>15, <4>1, NatOrder, Zenon
    <3>2. CASE ~ Ballot(v, u, c)
      <4>1. u = t + 1 /\ c = i
        BY <1>14, <2>2, <3>2, Zenon
      <4>2. currentTerm'[i] = t + 1 /\ t + 1 <= t + 1
        BY <1>3, Successor, Zenon
      <4> QED BY <4>1, <4>2, Zenon
    <3> QED BY <3>1, <3>2, Zenon
  <2> QED BY <2>1, <2>2, Zenon DEF AskedTerms
<1>17. ASSUME NEW v \in Server, NEW k \in Server PROVE BallotOf(h, v, k)'
  <2>1. CASE Ballot(v, currentTerm'[k], k)
    BY <1>1, <1>6, <2>1, BallotOfStep, Zenon
  <2>2. CASE ~ Ballot(v, currentTerm'[k], k)
    <3> SUFFICES ASSUME Ballot(v, currentTerm[k], k)', NEW c \in Nat,
                        NEW n \in 1..h.held[v][c], Own(h, c, n)
                 PROVE  Safe(h, currentTerm', FullLog(k)', c, n)
      BY Zenon DEF BallotOf
    <3>1. PICK u \in Nat : u = currentTerm'[k]
      BY <1>15, Zenon
    <3>2. Ballot(v, u, k)' /\ ~ Ballot(v, u, k)
      BY <2>2, <3>1, Zenon
    <3>3. v = i /\ k = i
      BY <1>14, <3>2, Zenon
    <3>4. Safe(h, currentTerm, FullLog(i), c, n)
      BY <1>7, <3>3, Zenon DEF LogOf
    <3>5. SafeStep(h, h, i) /\ h.held[v][c] \in Nat
      BY <1>1, <1>4, SafeStepSame, HistoryTypes, Zenon
    <3>6. n \in Nat
      BY <3>5, InRange, Zenon
    <3> QED BY <3>3, <3>4, <3>5, <3>6, Zenon DEF SafeStep
  <2> QED BY <2>1, <2>2, Zenon
<1>18. \A m \in rpcs' : MessageOf(h, m)'
  BY <1>1, <1>3, <1>6, MessageOfStep, Zenon
<1> QED BY <1>1, <1>8, <1>9, <1>10, <1>11, <1>12, <1>13, <1>16, <1>17, <1>18, Zenon DEF Explains

\* A restart forgets how far the server had committed, down to its snapshot.
LEMMA RestartExplained ==
    ASSUME NEW h, Explained(h), NEW i \in Server, Restart(i)
    PROVE  Explains(h)'
<1>1. Step(h, h) /\ StorageInv /\ Explains(h) /\ h \in History /\ TypeOK
  BY SameHistory, Zenon DEF Explained, ElectionInv, StorageInv
<1>2. UNCHANGED <<currentTerm, logs, lastIncludedIndex, lastIncludedTerm, persister, rpcs>>
  BY <1>1, Zenon DEF Restart, StorageInv, DurableState, TypeOK
<1>3. /\ state'[i] = Follower /\ commitIndex'[i] = lastIncludedIndex[i]
      /\ asking'[i] = {} /\ handed'[i] = {}
  BY <1>1, Zenon DEF Restart, StorageInv, DurableState, TypeOK
<1>4. ASSUME NEW k \in Server, k # i
      PROVE  /\ state'[k] = state[k] /\ commitIndex'[k] = commitIndex[k]
             /\ asking'[k] = asking[k] /\ handed'[k] = handed[k] /\ votes'[k] = votes[k]
             /\ matchIndex'[k] = matchIndex[k]
  BY <1>1, <1>4, Zenon DEF Restart, TypeOK
<1>5. \A k \in Server : FullLog(k)' = FullLog(k)
  BY <1>2, Zenon DEF FullLog
<1>6. \A k \in Server : Steady(k) /\ Quiet(k) /\ asking'[k] \subseteq asking[k]
  BY <1>2, <1>3, <1>4, Zenon DEF Steady, Quiet
<1>7. NoNewBallot
  <2>1. NoNewVote
    BY <1>2, Zenon DEF NoNewVote
  <2> QED BY <1>6, <2>1, QuietBallots, Zenon
<1>8. ASSUME NEW k \in Server PROVE CommitOf(h, k)'
  <2>1. CASE k # i
    BY <1>1, <1>2, <1>4, <1>5, <2>1, CommitOfStep, Zenon
  <2>2. CASE k = i
    <3>1. CommitOf(h, i) /\ lastIncludedIndex[i] \in Nat
      BY <1>1, Zenon DEF Explains, TypeOK
    <3>2. CommittedBy(h, currentTerm'[i], FullLog(i)', commitIndex'[i])
      BY <1>1, <1>3, <1>5, <3>1, CommittedStep, Zenon DEF CommitOf
    <3>3. /\ lastIncludedIndex'[i] <= commitIndex'[i]
          /\ lastIncludedTerm'[i] = LastTerm(persister'[i].snapshot)
      BY <1>2, <1>3, <3>1, NatOrder, Zenon DEF CommitOf
    <3> QED BY <1>1, <1>3, <2>2, <3>2, <3>3, CommitOfChange, Zenon
  <2> QED BY <2>1, <2>2, Zenon
<1>9. ASSUME NEW k \in Server PROVE MatchOf(h, k)'
  <2>1. CASE k = i
    BY <1>3, <2>1, Zenon DEF MatchOf, Follower, Leader
  <2>2. CASE k # i
    BY <1>1, <1>2, <1>4, <2>2, MatchOfStep, Zenon
  <2> QED BY <2>1, <2>2, Zenon
<1> QED BY <1>1, <1>2, <1>5, <1>6, <1>7, <1>8, <1>9, SteadyStep, Zenon
=============================================================================
