---------------------------- MODULE KVRaftProofs -----------------------------
(***************************************************************************)
(* That the replicas of the key/value service agree and that the service   *)
(* implements one atomic store, for any servers, clerks, calls, terms,     *)
(* snapshots and restarts.                                                 *)
(*                                                                         *)
(* The argument: a replica's state is a function of how far it has come in *)
(* the decided log, so what a handler returns is what the command at its   *)
(* index returned there; and the duplicate table after the whole decided   *)
(* log tells which of a clerk's updates are in it, so an update counts     *)
(* where it stands first and nowhere else.                                 *)
(***************************************************************************)
EXTENDS KVRaft, NaturalsInduction, WellFoundedInduction, TLAPS

-----------------------------------------------------------------------------
(* Replay, as a function of the decided log. *)

OpRecord == [ClientID : Client, RequestID : Nat, OpType : {"Get", "Put", "Append"}]
Entry == [Command : OpRecord, Term : Nat]

IsReplay(f, d, n) ==
    f = [k \in 0..n |-> IF k = 0 THEN NoState ELSE Applied(f[k - 1], d[k].Command)]

ReplayOf(d) == CHOOSE f : IsReplay(f, d, Len(d))

\* A non-empty set of natural numbers has a least element.
LEMMA LeastNatural ==
    ASSUME NEW S \in SUBSET Nat, S # {}
    PROVE  \E n \in S : \A k \in S : n <= k
  <1> DEFINE R == OpToRel(<, Nat)
  <1>1. IsWellFoundedOn(R, Nat)
    BY NatLessThanWellFounded, Zenon
  <1>2. \A k, n \in Nat : k < n => <<k, n>> \in R
    BY Zenon DEF OpToRel
  <1> HIDE DEF R
  <1>3. PICK n \in S : \A k \in S : ~ (<<k, n>> \in R)
    BY <1>1, WFMin, Zenon
  <1>4. ASSUME NEW k \in S PROVE n <= k
    <2>1. k \in Nat /\ n \in Nat /\ ~ (<<k, n>> \in R)
      BY <1>3, Zenon
    <2> QED BY <1>2, <2>1, SMTT(30)
  <1> QED BY <1>4, Zenon

\* The commands of a log can be carried out one after the other, from its start to its end.
LEMMA ReplayExists ==
    ASSUME NEW d, NEW n \in Nat
    PROVE  \E f : IsReplay(f, d, n)
  <1> DEFINE S == {k \in Nat : ~ \E f : IsReplay(f, d, k)}
  <1> SUFFICES ASSUME S # {} PROVE FALSE
    BY Zenon
  <1>1. PICK k \in S : \A l \in S : k <= l
    BY LeastNatural, Zenon
  <1>2. k # 0
    <2>1. IsReplay([l \in 0..0 |-> NoState], d, 0)
      BY SMTT(30) DEF IsReplay
    <2> QED BY <2>1, Zenon
  <1>3. PICK f : IsReplay(f, d, k - 1)
    <2>1. k - 1 \in Nat /\ k - 1 \notin S
      BY <1>1, <1>2, SMTT(30)
    <2> QED BY <2>1, Zenon
  <1> DEFINE g == [l \in 0..k |-> IF l = k THEN Applied(f[k - 1], d[k].Command) ELSE f[l]]
  <1>4. IsReplay(g, d, k)
    <2> SUFFICES ASSUME NEW l \in 0..k
                 PROVE  g[l] = IF l = 0 THEN NoState ELSE Applied(g[l - 1], d[l].Command)
      BY Zenon DEF IsReplay
    <2>1. l # 0 => g[l - 1] = f[l - 1]
      BY <1>2, SMTT(30)
    <2>2. CASE l = k
      BY <1>2, <2>1, <2>2, Zenon
    <2>3. CASE l # k
      <3>1. l \in 0..(k - 1) /\ g[l] = f[l]
        BY <2>3, SMTT(30)
      <3> QED BY <1>3, <2>1, <3>1, Zenon DEF IsReplay
    <2> QED BY <2>2, <2>3, Zenon
  <1> QED BY <1>4, Zenon

\* What the commands lead to depends only on the commands up to there.
LEMMA ReplayUnique ==
    ASSUME NEW f, NEW g, NEW d, NEW e, NEW n \in Nat, NEW m \in Nat, n <= m,
           IsReplay(f, d, n), IsReplay(g, e, m), \A k \in 1..n : d[k] = e[k]
    PROVE  \A k \in 0..n : f[k] = g[k]
  <1> DEFINE S == {k \in 0..n : f[k] # g[k]}
  <1> SUFFICES ASSUME S # {} PROVE FALSE
    BY Zenon
  <1>0. S \in SUBSET Nat
    BY SMTT(30)
  <1>1. PICK k \in S : \A l \in S : k <= l
    BY <1>0, LeastNatural, Zenon
  <1>2. k \in 0..n /\ f[k] # g[k]
    BY <1>1, Zenon
  <1>a. k \in 0..m
    BY <1>2, SMTT(30)
  <1>3. CASE k = 0
    BY <1>2, <1>a, <1>3, Zenon DEF IsReplay
  <1>4. CASE k # 0
    <2>1. k - 1 \in 0..n /\ k - 1 \notin S
      BY <1>1, <1>2, <1>4, SMTT(30)
    <2>2. f[k - 1] = g[k - 1] /\ d[k] = e[k]
      BY <1>2, <1>4, <2>1, SMTT(30)
    <2>3. f[k] = Applied(f[k - 1], d[k].Command) /\ g[k] = Applied(g[k - 1], e[k].Command)
      BY <1>2, <1>a, <1>4, Zenon DEF IsReplay
    <2> QED BY <1>2, <2>2, <2>3, Zenon
  <1> QED BY <1>3, <1>4, Zenon

\* Replay as the module KVRaft defines it.
LEMMA ReplayIs == Replay = ReplayOf(decided)
  BY Zenon DEF Replay, ReplayOf, IsReplay

\* The same in the next state.
LEMMA ReplayIsNext == Replay' = ReplayOf(decided')
  <1>1. (Replay = ReplayOf(decided))'
    BY ReplayIs, PTL
  <1> QED BY <1>1, Zenon

\* The state after each decided command.
LEMMA ReplaySteps ==
    ASSUME NEW d \in Seq(Entry)
    PROVE  /\ IsReplay(ReplayOf(d), d, Len(d))
           /\ ReplayOf(d)[0] = NoState
           /\ \A k \in 1..Len(d) :
                 ReplayOf(d)[k] = Applied(ReplayOf(d)[k - 1], d[k].Command)
  <1>1. Len(d) \in Nat
    BY SMTT(30)
  <1>2. IsReplay(ReplayOf(d), d, Len(d))
    BY <1>1, ReplayExists, Zenon DEF ReplayOf
  <1>3. PICK f : f = ReplayOf(d)
    BY Zenon
  <1>4. f = [k \in 0..Len(d) |-> IF k = 0 THEN NoState ELSE Applied(f[k - 1], d[k].Command)]
    BY <1>2, <1>3, Zenon DEF IsReplay
  <1>5. ASSUME NEW k \in 0..Len(d)
        PROVE  f[k] = IF k = 0 THEN NoState ELSE Applied(f[k - 1], d[k].Command)
    BY <1>4, Zenon
  <1> QED BY <1>1, <1>2, <1>3, <1>5, SMTT(30)

\* A command that is decided leaves the states before it alone.
LEMMA ReplayGrows ==
    ASSUME NEW d \in Seq(Entry), NEW e \in Entry
    PROVE  /\ \A k \in 0..Len(d) : ReplayOf(Append(d, e))[k] = ReplayOf(d)[k]
           /\ ReplayOf(Append(d, e))[Len(d) + 1] = Applied(ReplayOf(d)[Len(d)], e.Command)
  <1> DEFINE x == Append(d, e)
  <1>1. x \in Seq(Entry) /\ Len(x) = Len(d) + 1 /\ Len(d) \in Nat
        /\ \A k \in 1..Len(d) : x[k] = d[k]
    BY SMTT(30)
  <1>2. x[Len(d) + 1] = e
    BY SMTT(30)
  <1> HIDE DEF x
  <1>3. IsReplay(ReplayOf(d), d, Len(d)) /\ IsReplay(ReplayOf(x), x, Len(x))
    BY <1>1, ReplaySteps, Zenon
  <1>4. \A k \in 0..Len(d) : ReplayOf(x)[k] = ReplayOf(d)[k]
    BY <1>1, <1>3, ReplayUnique, SMTT(30)
  <1>5. ReplayOf(x)[Len(d) + 1] = Applied(ReplayOf(x)[Len(d)], x[Len(d) + 1].Command)
    BY <1>1, ReplaySteps, SMTT(30)
  <1> QED BY <1>1, <1>2, <1>4, <1>5, SMTT(30) DEF x

-----------------------------------------------------------------------------
(* The invariant. *)

\* What the command at index i of the decided log returned, to whoever asked for it.
Outcome(i) == Result(Replay[i - 1], decided[i].Command)

\* The duplicate table after everything decided.
Table == Replay[Len(decided)].lastAppliedReq

\* A request that a clerk has made.
Made(op) ==
    /\ op \in OpRecord
    /\ op.RequestID \in 1..(nextReqID[op.ClientID] - 1)
    /\ op = Op(op.ClientID, op.RequestID)

\* The types of the group and of the clerks.
GroupTypes ==
    /\ logs \in [Server -> Seq(Entry)]
    /\ leads \in [Server -> Nat]
    /\ newest \in Nat
    /\ decided \in Seq(Entry)

ClerkTypes ==
    /\ nextReqID \in [Client -> Nat]
    /\ pending \in [Client -> OpRecord \union {Nothing}]
    /\ waitsFor \in [Client -> (Server \X Nat \X Nat) \union {Nothing}]
    /\ DOMAIN returned = Client /\ returned = [c \in Client |-> returned[c]]

\* The types of the rest, as far as the proofs need them.
ServerTypes ==
    /\ handlers \subseteq [server : Server, index : Index, term : Nat, op : OpRecord, ch : Nat]
    /\ lastApplied \in [Server -> Nat]
    /\ DOMAIN machine = Server /\ DOMAIN saved = Server
    /\ notify \in [Server -> [Index -> Nat]]
    /\ DOMAIN buffer = Server /\ DOMAIN appliedResults = Server
    /\ \A s \in Server : DOMAIN appliedResults[s] = Index

\* Replicas and snapshots are as far as they say they are.
Replayed ==
    \A s \in Server :
        /\ lastApplied[s] <= Len(decided) /\ machine[s] = Replay[lastApplied[s]]
        /\ saved[s].index \in 0..Len(decided) /\ saved[s].state = Replay[saved[s].index]

\* A result that waits for a handler is the outcome of the command at its index.
ResultsAreOutcomes ==
    \A s \in Server :
        /\ \A m \in buffer[s] : m.index \in 1..Len(decided) /\ m.res = Outcome(m.index)
        /\ \A i \in Index :
              appliedResults[s][i] # Nothing =>
                  i <= Len(decided) /\ appliedResults[s][i] = Outcome(i)

\* Logs hold what clerks have asked for; a clerk asks for its last request.
RequestsAreMade ==
    /\ \A s \in Server : \A i \in 1..Len(logs[s]) : Made(logs[s][i].Command)
    /\ \A i \in 1..Len(decided) : Made(decided[i].Command)
    /\ \A c \in Client : nextReqID[c] \in 1..(Len(Script[c]) + 1)
    /\ \A c \in Client : pending[c] # Nothing =>
          nextReqID[c] > 1 /\ pending[c] = Op(c, nextReqID[c] - 1)

\* The duplicate table after everything decided tells which updates are decided, and every
\* update that has returned is.
TableIsExact ==
    /\ Table \in [Client -> Nat]
    /\ \A c \in Client : Table[c] # 0 =>
          \E i \in 1..Len(decided) : decided[i].Command = Op(c, Table[c])
    /\ \A i \in 1..Len(decided) :
          LET op == decided[i].Command
          IN  op.OpType # "Get" => op.RequestID <= Table[op.ClientID]
    /\ \A c \in Client : \A n \in 1..(nextReqID[c] - 1) :
          Op(c, n) # pending[c] /\ Op(c, n).OpType # "Get" => n <= Table[c]

\* The handler whose reply a clerk waits for has the clerk's request; a term and an index
\* belong to one handler of a server.
WaitsForItsOwn ==
    /\ \A c \in Client : pending[c] = Nothing => waitsFor[c] = Nothing
    /\ \A s \in Server : leads[s] <= newest
    /\ \A h \in handlers :
          /\ h.term \in 1..newest
          /\ leads[h.server] = h.term => h.index <= Len(logs[h.server])
          /\ waitsFor[h.op.ClientID] = <<h.server, h.index, h.term>> =>
                 pending[h.op.ClientID] = h.op

KVInv ==
    /\ GroupTypes /\ ClerkTypes /\ ServerTypes
    /\ Replayed /\ ResultsAreOutcomes /\ RequestsAreMade /\ TableIsExact /\ WaitsForItsOwn

-----------------------------------------------------------------------------
(* Steps that decide nothing. *)

\* As long as nothing is decided, what was decided leads to the same states.
LEMMA SameReplay ==
    ASSUME UNCHANGED decided
    PROVE  Replay' = Replay /\ Table' = Table /\ \A i : Outcome(i)' = Outcome(i)
  <1>1. Replay' = Replay
    BY ReplayIs, ReplayIsNext, Zenon
  <1> QED BY <1>1, Zenon DEF Table, Outcome

\* The store sees what is decided, what clerks call for and what they were given.
LEMMA Unseen ==
    ASSUME UNCHANGED <<decided, pending, returned>>
    PROVE  UNCHANGED Store!vars
  <1>1. Replay' = Replay
    BY SameReplay, Zenon
  <1> QED BY <1>1, Zenon DEF Store!vars, Positions

\* What a step keeps that leaves the clerks and the group alone.
LEMMA ServerStep ==
    ASSUME KVInv, UNCHANGED <<groupVars, clerkVars>>,
           ServerTypes', Replayed', ResultsAreOutcomes',
           \A h \in handlers' : h \in handlers \/ \E g \in handlers :
               /\ h.server = g.server /\ h.index = g.index
               /\ h.term = g.term /\ h.op = g.op
    PROVE  KVInv' /\ UNCHANGED Store!vars
  <1>1. Replay' = Replay /\ Table' = Table
    BY SameReplay, Zenon DEF groupVars
  <1>2. GroupTypes' /\ ClerkTypes'
    BY Zenon DEF KVInv, GroupTypes, ClerkTypes, groupVars, clerkVars
  <1>3. RequestsAreMade'
    BY Zenon DEF KVInv, RequestsAreMade, Made, groupVars, clerkVars
  <1>4. TableIsExact'
    BY <1>1, Zenon DEF KVInv, TableIsExact, groupVars, clerkVars
  <1>5. WaitsForItsOwn'
    BY Zenon DEF KVInv, WaitsForItsOwn, groupVars, clerkVars
  <1>6. UNCHANGED Store!vars
    BY Unseen, Zenon DEF groupVars, clerkVars
  <1> QED BY <1>2, <1>3, <1>4, <1>5, <1>6, Zenon DEF KVInv

\* A handler gets its channel, with a result in it if there is one already.
LEMMA NotifyStep ==
    ASSUME KVInv, NEW h \in handlers, getNotifyCh(h)
    PROVE  KVInv' /\ UNCHANGED Store!vars
  <1> DEFINE s == h.server
             i == h.index
             cached == appliedResults[s][i]
  <1>1. /\ h \in [server : Server, index : Index, term : Nat, op : OpRecord, ch : Nat]
        /\ s \in Server /\ i \in Index /\ h.term \in Nat /\ notify[s][i] \in Nat
    BY Zenon DEF KVInv, ServerTypes
  <1>2. UNCHANGED <<groupVars, clerkVars, appliedResults, storeVars, restarts>>
    BY Zenon DEF getNotifyCh
  <1>3. Replay' = Replay /\ \A k : Outcome(k)' = Outcome(k)
    BY <1>2, SameReplay, Zenon DEF groupVars
  <1>4. PICK ch \in Nat : handlers' = (handlers \ {h}) \union {[h EXCEPT !.ch = ch]}
    BY <1>1, Zenon DEF getNotifyCh
  <1>5. \/ UNCHANGED <<notify, buffer>>
        \/ /\ notify' = [notify EXCEPT ![s][i] = h.term]
           /\ \/ UNCHANGED buffer
              \/ /\ cached # Nothing
                 /\ buffer' = [buffer EXCEPT ![s] = @ \union
                                 {[index |-> i, ch |-> h.term, res |-> cached]}]
    BY Zenon DEF getNotifyCh
  <1>6. ServerTypes'
    <2>1. handlers' \subseteq [server : Server, index : Index, term : Nat, op : OpRecord,
                               ch : Nat]
      BY <1>1, <1>4, Zenon DEF KVInv, ServerTypes
    <2>2. notify' \in [Server -> [Index -> Nat]]
      BY <1>1, <1>5, SMTT(30) DEF KVInv, ServerTypes
    <2>3. DOMAIN buffer' = Server
      BY <1>5, Zenon DEF KVInv, ServerTypes
    <2> QED BY <1>2, <2>1, <2>2, <2>3, Zenon DEF KVInv, ServerTypes, storeVars
  <1>7. Replayed'
    BY <1>2, <1>3, Zenon DEF KVInv, Replayed, groupVars, storeVars
  <1>8. ResultsAreOutcomes'
    <2>1. \A r \in Server : \A k \in Index : appliedResults'[r][k] # Nothing =>
              k <= Len(decided') /\ appliedResults'[r][k] = Outcome(k)'
      BY <1>2, <1>3, Zenon DEF KVInv, ResultsAreOutcomes, groupVars
    <2>2. ASSUME NEW r \in Server, NEW m \in buffer'[r]
          PROVE  m.index \in 1..Len(decided) /\ m.res = Outcome(m.index)
      <3>1. CASE m \in buffer[r]
        BY <3>1, Zenon DEF KVInv, ResultsAreOutcomes
      <3>2. CASE m \notin buffer[r]
        <4>1. m = [index |-> i, ch |-> h.term, res |-> cached] /\ cached # Nothing
          BY <1>1, <1>5, <3>2, SMTT(30) DEF KVInv, ServerTypes
        <4>2. i <= Len(decided) /\ cached = Outcome(i)
          BY <1>1, <4>1, Zenon DEF KVInv, ResultsAreOutcomes
        <4>3. i \in 1..Len(decided)
          BY <1>1, <4>2, SMTT(30) DEF Index, KVInv, GroupTypes
        <4> QED BY <4>1, <4>2, <4>3, Zenon
      <3> QED BY <3>1, <3>2, Zenon
    <2> QED BY <1>2, <1>3, <2>1, <2>2, Zenon DEF ResultsAreOutcomes, groupVars
  <1>9. \A g \in handlers' : g \in handlers \/ \E k \in handlers :
            g.server = k.server /\ g.index = k.index /\ g.term = k.term /\ g.op = k.op
    <2>1. /\ [h EXCEPT !.ch = ch].server = h.server /\ [h EXCEPT !.ch = ch].index = h.index
          /\ [h EXCEPT !.ch = ch].term = h.term /\ [h EXCEPT !.ch = ch].op = h.op
      BY <1>1, Zenon
    <2> QED BY <1>4, <2>1, Zenon
  <1> QED BY <1>2, <1>6, <1>7, <1>8, <1>9, ServerStep, Zenon

\* A replica carries out the next decided command.
LEMMA ApplyStep ==
    ASSUME KVInv, NEW s \in Server, Apply(s)
    PROVE  KVInv' /\ UNCHANGED Store!vars
  <1> DEFINE index == lastApplied[s] + 1
             op == decided[index].Command
             res == Result(machine[s], op)
             ch == notify[s][index]
  <1>1. /\ lastApplied[s] \in Nat /\ Len(decided) \in Nat /\ decided \in Seq(Entry)
        /\ machine[s] = Replay[lastApplied[s]]
    BY SMTT(30) DEF KVInv, ServerTypes, GroupTypes, Replayed
  <1>2. index \in 1..Len(decided)
    BY <1>1, SMTT(30) DEF Apply
  <1>3. UNCHANGED <<groupVars, clerkVars, handlers, notify, restarts>>
    BY Zenon DEF Apply
  <1>4. Replay' = Replay /\ \A k : Outcome(k)' = Outcome(k)
    BY <1>3, SameReplay, Zenon DEF groupVars
  <1>5. Replay[index] = Applied(machine[s], op) /\ res = Outcome(index)
    BY <1>1, <1>2, ReplayIs, ReplaySteps, SMTT(30) DEF Outcome
  <1>6. /\ lastApplied' = [lastApplied EXCEPT ![s] = index]
        /\ machine' = [machine EXCEPT ![s] = Applied(machine[s], op)]
        /\ appliedResults' = [appliedResults EXCEPT ![s][index] = res]
        /\ \/ buffer' = buffer
           \/ buffer' = [buffer EXCEPT ![s] = @ \union {[index |-> index, ch |-> ch, res |-> res]}]
        /\ \/ saved' = saved
           \/ saved' = [saved EXCEPT ![s] = [index |-> index, state |-> Applied(machine[s], op)]]
    BY Zenon DEF Apply, maybeSnapshot, encodeSnapshot
  <1> HIDE DEF index, op, res, ch
  <1>7. ServerTypes'
    BY <1>2, <1>3, <1>6, SMTT(30) DEF KVInv, ServerTypes
  <1>8. Replayed'
    <2> SUFFICES ASSUME NEW r \in Server
                 PROVE  /\ lastApplied'[r] <= Len(decided)
                        /\ machine'[r] = Replay[lastApplied'[r]]
                        /\ saved'[r].index \in 0..Len(decided)
                        /\ saved'[r].state = Replay[saved'[r].index]
      BY <1>3, <1>4, Zenon DEF Replayed, groupVars
    <2>1. CASE r # s
      BY <1>6, <2>1, Zenon DEF KVInv, Replayed, ServerTypes
    <2>2. CASE r = s
      <3>1. lastApplied'[s] = index /\ machine'[s] = Replay[index]
        BY <1>5, <1>6, Zenon DEF KVInv, ServerTypes
      <3>2. saved'[s] = saved[s] \/ saved'[s] = [index |-> index, state |-> Replay[index]]
        BY <1>5, <1>6, Zenon DEF KVInv, ServerTypes
      <3> QED BY <1>2, <2>2, <3>1, <3>2, SMTT(30) DEF KVInv, Replayed
    <2> QED BY <2>1, <2>2, Zenon
  <1>9. ResultsAreOutcomes'
    <2>1. ASSUME NEW r \in Server, NEW k \in Index, appliedResults'[r][k] # Nothing
          PROVE  k <= Len(decided) /\ appliedResults'[r][k] = Outcome(k)
      <3>1. CASE r = s /\ k = index
        BY <1>2, <1>5, <1>6, <3>1, SMTT(30) DEF KVInv, ServerTypes
      <3>2. CASE ~(r = s /\ k = index)
        <4>1. appliedResults'[r][k] = appliedResults[r][k]
          BY <1>6, <3>2, Zenon DEF KVInv, ServerTypes
        <4> QED BY <2>1, <4>1, Zenon DEF KVInv, ResultsAreOutcomes
      <3> QED BY <3>1, <3>2, Zenon
    <2>2. ASSUME NEW r \in Server, NEW m \in buffer'[r]
          PROVE  m.index \in 1..Len(decided) /\ m.res = Outcome(m.index)
      <3>1. CASE m \in buffer[r]
        BY <3>1, Zenon DEF KVInv, ResultsAreOutcomes
      <3>2. CASE m \notin buffer[r]
        <4>1. m = [index |-> index, ch |-> ch, res |-> res]
          BY <1>6, <3>2, SMTT(30) DEF KVInv, ServerTypes
        <4> QED BY <1>2, <1>5, <4>1, Zenon
      <3> QED BY <3>1, <3>2, Zenon
    <2> QED BY <1>3, <1>4, <2>1, <2>2, Zenon DEF ResultsAreOutcomes, groupVars
  <1> QED BY <1>3, <1>7, <1>8, <1>9, ServerStep, Zenon

\* A replica takes over another one's snapshot.
LEMMA InstallStep ==
    ASSUME KVInv, NEW s \in Server, NEW l \in Server, InstallSnapshot(s, l)
    PROVE  KVInv' /\ UNCHANGED Store!vars
  <1>1. UNCHANGED <<groupVars, clerkVars, handlers, buffer, restarts>>
    BY Zenon DEF InstallSnapshot
  <1>2. Replay' = Replay /\ \A k : Outcome(k)' = Outcome(k)
    BY <1>1, SameReplay, Zenon DEF groupVars
  <1>3. saved[l].index \in 0..Len(decided) /\ saved[l].state = Replay[saved[l].index]
    BY Zenon DEF KVInv, Replayed
  <1>4. /\ saved' = [saved EXCEPT ![s] = saved[l]]
        /\ machine' = [machine EXCEPT ![s] = saved[l].state]
        /\ lastApplied' = [lastApplied EXCEPT ![s] = saved[l].index]
    BY Zenon DEF InstallSnapshot, restoreSnapshot
  <1>5. /\ notify' = [notify EXCEPT ![s] = [i \in Index |->
                         IF i <= saved[l].index THEN 0 ELSE notify[s][i]]]
        /\ appliedResults' = [appliedResults EXCEPT ![s] = [i \in Index |->
                         IF i <= saved[l].index THEN Nothing ELSE appliedResults[s][i]]]
    BY Zenon DEF InstallSnapshot, trimNotifications
  <1>6. ServerTypes'
    <2>1. notify' \in [Server -> [Index -> Nat]]
      BY <1>5, Zenon DEF KVInv, ServerTypes
    <2>2. /\ DOMAIN appliedResults' = Server
          /\ \A r \in Server : DOMAIN appliedResults'[r] = Index
      BY <1>5, Zenon DEF KVInv, ServerTypes
    <2>3. /\ lastApplied' \in [Server -> Nat]
          /\ DOMAIN machine' = Server /\ DOMAIN saved' = Server
      BY <1>3, <1>4, SMTT(30) DEF KVInv, ServerTypes
    <2> QED BY <1>1, <2>1, <2>2, <2>3, Zenon DEF KVInv, ServerTypes
  <1>7. Replayed'
    <2> SUFFICES ASSUME NEW r \in Server
                 PROVE  /\ lastApplied'[r] <= Len(decided)
                        /\ machine'[r] = Replay[lastApplied'[r]]
                        /\ saved'[r].index \in 0..Len(decided)
                        /\ saved'[r].state = Replay[saved'[r].index]
      BY <1>1, <1>2, Zenon DEF Replayed, groupVars
    <2>1. CASE r # s
      BY <1>4, <2>1, Zenon DEF KVInv, Replayed, ServerTypes
    <2>2. CASE r = s
      <3>1. /\ lastApplied'[s] = saved[l].index /\ machine'[s] = saved[l].state
            /\ saved'[s] = saved[l]
        BY <1>4, Zenon DEF KVInv, ServerTypes
      <3> QED BY <1>3, <2>2, <3>1, SMTT(30)
    <2> QED BY <2>1, <2>2, Zenon
  <1>8. ResultsAreOutcomes'
    <2>1. \A r \in Server : \A k \in Index :
              appliedResults'[r][k] \in {Nothing, appliedResults[r][k]}
      BY <1>5, Zenon DEF KVInv, ServerTypes
    <2> QED BY <1>1, <1>2, <2>1, SMTT(30) DEF KVInv, ResultsAreOutcomes, groupVars
  <1> QED BY <1>1, <1>6, <1>7, <1>8, ServerStep, Zenon

\* A replica dies and comes back from its snapshot; its handlers are gone.
LEMMA RestartStep ==
    ASSUME KVInv, NEW s \in Server, Restart(s)
    PROVE  KVInv' /\ UNCHANGED Store!vars
  <1>1. /\ UNCHANGED <<logs, newest, decided, clerkVars, saved>>
        /\ leads' = [leads EXCEPT ![s] = 0] /\ handlers' \subseteq handlers
    BY Zenon DEF Restart
  <1>2. Replay' = Replay /\ Table' = Table /\ \A k : Outcome(k)' = Outcome(k)
    BY <1>1, SameReplay, Zenon
  <1>3. /\ machine' = [machine EXCEPT ![s] = saved[s].state]
        /\ lastApplied' = [lastApplied EXCEPT ![s] = saved[s].index]
        /\ notify' = [notify EXCEPT ![s] = [i \in Index |-> 0]]
        /\ buffer' = [buffer EXCEPT ![s] = {}]
        /\ appliedResults' = [appliedResults EXCEPT ![s] = [i \in Index |-> Nothing]]
    BY Zenon DEF Restart, restoreSnapshot
  <1>4. GroupTypes' /\ ClerkTypes'
    BY <1>1, Zenon DEF KVInv, GroupTypes, ClerkTypes, clerkVars
  <1>5. saved[s].index \in 0..Len(decided) /\ saved[s].state = Replay[saved[s].index]
    BY Zenon DEF KVInv, Replayed
  <1>6. ServerTypes'
    <2>1. lastApplied' \in [Server -> Nat] /\ notify' \in [Server -> [Index -> Nat]]
      BY <1>3, <1>5, SMTT(30) DEF KVInv, ServerTypes
    <2>2. /\ DOMAIN appliedResults' = Server
          /\ \A r \in Server : DOMAIN appliedResults'[r] = Index
      BY <1>3, Zenon DEF KVInv, ServerTypes
    <2> QED BY <1>1, <1>3, <2>1, <2>2, Zenon DEF KVInv, ServerTypes
  <1>7. Replayed'
    BY <1>1, <1>2, <1>3, <1>5, SMTT(30) DEF KVInv, Replayed, ServerTypes
  <1>8. ResultsAreOutcomes'
    <2>1. \A r \in Server : /\ buffer'[r] \subseteq buffer[r]
                            /\ \A k \in Index :
                                  appliedResults'[r][k] \in {Nothing, appliedResults[r][k]}
      BY <1>3, Zenon DEF KVInv, ServerTypes
    <2> QED BY <1>1, <1>2, <2>1, SMTT(30) DEF KVInv, ResultsAreOutcomes
  <1>9. RequestsAreMade' /\ TableIsExact'
    BY <1>1, <1>2, Zenon DEF KVInv, RequestsAreMade, Made, TableIsExact, clerkVars
  <1>10. WaitsForItsOwn'
    <2>1. \A r \in Server : leads'[r] = leads[r] \/ leads'[r] = 0
      BY <1>1, Zenon DEF KVInv, GroupTypes
    <2>2. \A h \in handlers' : h \in handlers /\ h.server # s
      BY Zenon DEF Restart
    <2>3. \A h \in handlers' : leads'[h.server] = leads[h.server]
      BY <1>1, <2>2, Zenon DEF KVInv, GroupTypes, ServerTypes
    <2> QED BY <1>1, <2>1, <2>2, <2>3, SMTT(30) DEF KVInv, WaitsForItsOwn, GroupTypes, clerkVars
  <1>11. UNCHANGED Store!vars
    BY <1>1, Unseen, Zenon DEF clerkVars
  <1> QED BY <1>4, <1>6, <1>7, <1>8, <1>9, <1>10, <1>11, Zenon DEF KVInv

-----------------------------------------------------------------------------
(* Steps of the clerks. *)

\* A request that a script asks for is one.
LEMMA OpIsRequest ==
    ASSUME NEW c \in Client, NEW n \in 1..Len(Script[c])
    PROVE  /\ Op(c, n) \in OpRecord /\ Op(c, n) # Nothing
           /\ Op(c, n).ClientID = c /\ Op(c, n).RequestID = n
  <1>1. Script[c] \in Seq({"Get", "Put", "Append"})
    BY ServiceAssumption, Zenon
  <1>2. Script[c][n] \in {"Get", "Put", "Append"}
    BY <1>1, SMTT(30)
  <1>3. n \in Nat
    BY <1>1, SMTT(30)
  <1>4. Op(c, n) \in OpRecord /\ Op(c, n).ClientID = c /\ Op(c, n).RequestID = n
    BY <1>2, <1>3, Zenon DEF Op, OpRecord
  <1> QED BY <1>4, ServiceAssumption, Zenon DEF OpRecord

\* A request is new to everyone when a clerk makes it.
LEMMA InvokeStep ==
    ASSUME KVInv, NEW c \in Client, Invoke(c)
    PROVE  KVInv' /\ Store!Next
  <1> DEFINE n == nextReqID[c]
             r == Op(c, n)
  <1>1. /\ pending[c] = Nothing
        /\ pending' = [pending EXCEPT ![c] = r]
        /\ nextReqID' = [nextReqID EXCEPT ![c] = n + 1]
        /\ UNCHANGED <<groupVars, waitsFor, returned, handlers, channelVars, storeVars, restarts>>
    BY Zenon DEF Invoke
  <1>2. n \in Nat /\ n \in 1..Len(Script[c])
    <2>1. Len(Script[c]) \in Nat
      BY ServiceAssumption, SMTT(30)
    <2> QED BY <2>1, SMTT(30) DEF Invoke, KVInv, RequestsAreMade, ClerkTypes
  <1>3. r \in OpRecord /\ r # Nothing /\ r.ClientID = c /\ r.RequestID = n
    BY <1>2, OpIsRequest, Zenon
  <1> HIDE DEF r
  <1>4. Replay' = Replay /\ Table' = Table /\ \A i : Outcome(i)' = Outcome(i)
    BY <1>1, SameReplay, Zenon DEF groupVars
  <1>5. GroupTypes' /\ ClerkTypes' /\ ServerTypes'
    BY <1>1, <1>2, <1>3, SMTT(30)
    DEF KVInv, GroupTypes, ClerkTypes, ServerTypes, groupVars, channelVars, storeVars
  <1>6. Replayed' /\ ResultsAreOutcomes'
    BY <1>1, <1>4, Zenon
    DEF KVInv, Replayed, ResultsAreOutcomes, groupVars, channelVars, storeVars
  <1>7. \A op : Made(op) => Made(op)'
    BY <1>1, <1>2, SMTT(30) DEF Made, KVInv, ClerkTypes, OpRecord
  <1>8. RequestsAreMade'
    <2>1. (/\ \A s \in Server : \A i \in 1..Len(logs[s]) : Made(logs[s][i].Command)
           /\ \A i \in 1..Len(decided) : Made(decided[i].Command))'
      BY <1>1, <1>7, Zenon DEF KVInv, RequestsAreMade, groupVars
    <2>2. \A k \in Client : nextReqID'[k] \in 1..(Len(Script[k]) + 1)
      BY <1>1, <1>2, SMTT(30) DEF KVInv, RequestsAreMade, ClerkTypes
    <2>3. \A k \in Client : pending'[k] # Nothing =>
              nextReqID'[k] > 1 /\ pending'[k] = Op(k, nextReqID'[k] - 1)
      BY <1>1, <1>2, SMTT(30) DEF KVInv, RequestsAreMade, ClerkTypes, r
    <2> QED BY <2>1, <2>2, <2>3, Zenon DEF RequestsAreMade
  <1>9. TableIsExact'
    <2>1. ASSUME NEW k \in Client, NEW j \in 1..(nextReqID'[k] - 1),
                 Op(k, j) # pending'[k], Op(k, j).OpType # "Get"
          PROVE  j <= Table[k]
      <3>1. CASE k # c
        BY <1>1, <2>1, <3>1, Zenon DEF KVInv, TableIsExact, ClerkTypes
      <3>2. CASE k = c
        <4>1. j \in 1..n /\ j # n
          BY <1>1, <1>2, <2>1, <3>2, SMTT(30) DEF KVInv, ClerkTypes, r
        <4>2. j \in 1..(nextReqID[c] - 1) /\ j \in 1..Len(Script[c])
          BY <1>2, <4>1, SMTT(30)
        <4>3. Op(c, j) # pending[c]
          BY <1>1, <4>2, OpIsRequest, Zenon
        <4> QED BY <2>1, <3>2, <4>2, <4>3, Zenon DEF KVInv, TableIsExact
      <3> QED BY <3>1, <3>2, Zenon
    <2> QED BY <1>1, <1>4, <2>1, Zenon DEF KVInv, TableIsExact, groupVars
  <1>10. WaitsForItsOwn'
    <2>1. waitsFor[c] = Nothing
      BY <1>1, Zenon DEF KVInv, WaitsForItsOwn
    <2>2. \A h \in handlers : waitsFor[c] # <<h.server, h.index, h.term>>
      <3> SUFFICES ASSUME NEW h \in handlers PROVE waitsFor[c] # <<h.server, h.index, h.term>>
        BY Zenon
      <3>1. <<h.server, h.index, h.term>> \in Server \X Nat \X Nat
        BY SMTT(30) DEF KVInv, ServerTypes, Index
      <3> QED BY <2>1, <3>1, ServiceAssumption, Zenon
    <2>3. \A k \in Client : k # c => pending'[k] = pending[k]
      BY <1>1, Zenon DEF KVInv, ClerkTypes
    <2>4. \A h \in handlers : h.op.ClientID \in Client
      BY Zenon DEF KVInv, ServerTypes, OpRecord
    <2>5. \A k \in Client : pending'[k] = Nothing => waitsFor[k] = Nothing
      BY <2>1, <2>3, Zenon DEF KVInv, WaitsForItsOwn
    <2> QED BY <1>1, <2>2, <2>3, <2>4, <2>5, Zenon DEF KVInv, WaitsForItsOwn, groupVars
  <1>11. Positions(c) = {} /\ Positions(c)' = {}
    <2>1. pending'[c] = r
      BY <1>1, Zenon DEF KVInv, ClerkTypes
    <2>2. ASSUME NEW i \in 1..Len(decided)
          PROVE  decided[i].Command # Nothing /\ decided[i].Command # r
      <3>1. Made(decided[i].Command)
        BY Zenon DEF KVInv, RequestsAreMade
      <3>2. decided[i].Command # Nothing
        BY <3>1, ServiceAssumption, Zenon DEF Made, OpRecord
      <3>3. decided[i].Command # r
        BY <1>2, <1>3, <3>1, SMTT(30) DEF Made
      <3> QED BY <3>2, <3>3, Zenon
    <2> QED BY <1>1, <2>1, <2>2, Zenon DEF Positions, groupVars
  <1>12. \A k \in Client : k # c => Positions(k)' = Positions(k) /\ pending'[k] = pending[k]
    BY <1>1, Zenon DEF Positions, KVInv, ClerkTypes, groupVars
  <1>13. Store!Invoke(c, r)
    <2>1. [k \in Client |-> Positions(k) # {}]' =
              [[k \in Client |-> Positions(k) # {}] EXCEPT ![c] = FALSE]
      BY <1>11, <1>12, Zenon
    <2>2. [k \in Client |-> {Answer(Replay[i - 1], pending[k]) : i \in Positions(k)}]' =
              [[k \in Client |-> {Answer(Replay[i - 1], pending[k]) : i \in Positions(k)}]
                  EXCEPT ![c] = {}]
      BY <1>4, <1>11, <1>12, SMTT(30) DEF Answer
    <2> QED BY <1>1, <1>4, <2>1, <2>2, Zenon DEF Store!Invoke, groupVars
  <1>14. Store!Next
    <2>1. r \in UNION {{Op(k, m) : m \in 1..Len(Script[k])} : k \in Client}
      BY <1>2, SMTT(30) DEF r
    <2> QED BY <1>13, <2>1, Zenon DEF Store!Next
  <1> QED BY <1>5, <1>6, <1>8, <1>9, <1>10, <1>14, Zenon DEF KVInv

\* The clerk's call makes a leader append its request to its log.
LEMMA CallStep ==
    ASSUME KVInv, NEW c \in Client, NEW s \in Server, Call(c, s)
    PROVE  KVInv' /\ UNCHANGED Store!vars
  <1> DEFINE i == StartIndex(s)
             t == leads[s]
             h == [server |-> s, index |-> i, term |-> t, op |-> pending[c], ch |-> 0]
             e == [Command |-> pending[c], Term |-> t]
  <1>1. /\ pending[c] # Nothing /\ t # 0 /\ Len(logs[s]) < MaxIndex
        /\ logs' = [logs EXCEPT ![s] = Append(logs[s], e)]
        /\ UNCHANGED <<leads, newest, decided>>
        /\ handlers' = handlers \union {h}
        /\ waitsFor' = [waitsFor EXCEPT ![c] = <<s, i, t>>]
        /\ UNCHANGED <<nextReqID, pending, returned, channelVars, storeVars, restarts>>
    BY Zenon DEF Call, Start
  <1>2. Replay' = Replay /\ Table' = Table /\ \A k : Outcome(k)' = Outcome(k)
    BY <1>1, SameReplay, Zenon
  <1>3. /\ pending[c] \in OpRecord /\ t \in Nat /\ logs[s] \in Seq(Entry)
        /\ Len(logs[s]) \in Nat
    BY <1>1, SMTT(30) DEF KVInv, ClerkTypes, GroupTypes
  <1>4. i \in Index /\ i = Len(logs[s]) + 1
    BY <1>1, <1>3, GroupAssumption, SMTT(30) DEF StartIndex, Index
  <1>5. pending[c].ClientID = c /\ Made(pending[c])
    <2>1. nextReqID[c] - 1 \in 1..Len(Script[c]) /\ pending[c] = Op(c, nextReqID[c] - 1)
      <3>1. Len(Script[c]) \in Nat
        BY ServiceAssumption, SMTT(30)
      <3> QED BY <1>1, <3>1, SMTT(30) DEF KVInv, RequestsAreMade, ClerkTypes
    <2>2. pending[c].ClientID = c /\ pending[c].RequestID = nextReqID[c] - 1
      BY <2>1, OpIsRequest, SMTT(30)
    <2> QED BY <1>3, <2>1, <2>2, SMTT(30) DEF Made
  <1>6. e \in Entry /\ e.Command = pending[c]
    BY <1>3, Zenon DEF Entry
  <1>7. h \in [server : Server, index : Index, term : Nat, op : OpRecord, ch : Nat]
        /\ h.server = s /\ h.index = i /\ h.term = t /\ h.op = pending[c]
    BY <1>3, <1>4, Zenon
  <1> HIDE DEF h, e, i, t
  <1>8. Append(logs[s], e) \in Seq(Entry) /\ Len(Append(logs[s], e)) = Len(logs[s]) + 1
        /\ Append(logs[s], e)[Len(logs[s]) + 1] = e
        /\ \A k \in 1..Len(logs[s]) : Append(logs[s], e)[k] = logs[s][k]
    BY <1>3, <1>6, SMTT(30)
  <1>9. GroupTypes' /\ ClerkTypes' /\ ServerTypes'
    <2>1. <<s, i, t>> \in Server \X Nat \X Nat
      BY <1>3, <1>4, SMTT(30) DEF Index
    <2>2. GroupTypes'
      BY <1>1, <1>8, Zenon DEF KVInv, GroupTypes
    <2>3. ClerkTypes'
      BY <1>1, <2>1, Zenon DEF KVInv, ClerkTypes
    <2>4. ServerTypes'
      BY <1>1, <1>7, Zenon DEF KVInv, ServerTypes, channelVars, storeVars
    <2> QED BY <2>2, <2>3, <2>4, Zenon
  <1>10. Replayed' /\ ResultsAreOutcomes'
    BY <1>1, <1>2, Zenon DEF KVInv, Replayed, ResultsAreOutcomes, channelVars, storeVars
  <1>11. RequestsAreMade'
    <2>1. \A op : Made(op)' <=> Made(op)
      BY <1>1, Zenon DEF Made
    <2>2. ASSUME NEW r \in Server, NEW k \in 1..Len(logs'[r])
          PROVE  Made(logs'[r][k].Command)
      <3>1. CASE r = s
        <4>1. logs'[s] = Append(logs[s], e)
          BY <1>1, Zenon DEF KVInv, GroupTypes
        <4>2. CASE k = Len(logs[s]) + 1
          BY <1>5, <1>6, <1>8, <3>1, <4>1, <4>2, Zenon
        <4>3. CASE k # Len(logs[s]) + 1
          <5>1. k \in 1..Len(logs[s])
            BY <1>3, <1>8, <2>2, <3>1, <4>1, <4>3, SMTT(30)
          <5> QED BY <1>8, <3>1, <4>1, <5>1, Zenon DEF KVInv, RequestsAreMade
        <4> QED BY <4>2, <4>3, Zenon
      <3>2. CASE r # s
        BY <1>1, <2>2, <3>2, Zenon DEF KVInv, RequestsAreMade, GroupTypes
      <3> QED BY <3>1, <3>2, Zenon
    <2> QED BY <1>1, <2>1, <2>2, Zenon DEF KVInv, RequestsAreMade
  <1>12. TableIsExact'
    BY <1>1, <1>2, Zenon DEF KVInv, TableIsExact
  <1>13. WaitsForItsOwn'
    <2>1. \A k \in Client : pending'[k] = Nothing => waitsFor'[k] = Nothing
      BY <1>1, Zenon DEF KVInv, WaitsForItsOwn, ClerkTypes
    <2>2. \A r \in Server : leads'[r] <= newest'
      BY <1>1, Zenon DEF KVInv, WaitsForItsOwn
    <2>3. t \in 1..newest
      BY <1>1, <1>3, SMTT(30) DEF KVInv, WaitsForItsOwn, GroupTypes, t
    <2>4. \A r \in Server : Len(logs[r]) <= Len(logs'[r])
      BY <1>1, <1>8, SMTT(30) DEF KVInv, GroupTypes
    <2>5. ASSUME NEW g \in handlers
          PROVE  /\ g.term \in 1..newest
                 /\ leads[g.server] = g.term => g.index <= Len(logs'[g.server])
                 /\ waitsFor'[g.op.ClientID] = <<g.server, g.index, g.term>> =>
                        pending[g.op.ClientID] = g.op
      <3>1. /\ g.server \in Server /\ g.index \in Nat /\ g.term \in Nat
            /\ g.op.ClientID \in Client
        BY SMTT(30) DEF KVInv, ServerTypes, OpRecord, Index
      <3>2. /\ g.term \in 1..newest
            /\ leads[g.server] = g.term => g.index <= Len(logs[g.server])
            /\ waitsFor[g.op.ClientID] = <<g.server, g.index, g.term>> =>
                        pending[g.op.ClientID] = g.op
        BY Zenon DEF KVInv, WaitsForItsOwn
      <3>3. leads[g.server] = g.term => g.index <= Len(logs'[g.server])
        <4>1. Len(logs[g.server]) \in Nat /\ Len(logs'[g.server]) \in Nat
          BY <1>9, <3>1, SMTT(30) DEF KVInv, GroupTypes
        <4> QED BY <2>4, <3>1, <3>2, <4>1, SMTT(30)
      <3>4. <<g.server, g.index, g.term>> # <<s, i, t>>
        <4>1. g.server = s /\ g.term = t => g.index <= Len(logs[s])
          BY <3>2, Zenon DEF t
        <4> QED BY <1>3, <1>4, <3>1, <4>1, SMTT(30)
      <3>5. waitsFor'[g.op.ClientID] = <<g.server, g.index, g.term>> =>
                waitsFor[g.op.ClientID] = <<g.server, g.index, g.term>>
        BY <1>1, <3>1, <3>4, Zenon DEF KVInv, ClerkTypes
      <3> QED BY <3>2, <3>3, <3>5, Zenon
    <2>6. Len(logs'[s]) = i
      BY <1>1, <1>4, <1>8, Zenon DEF KVInv, GroupTypes
    <2>7. /\ h.term \in 1..newest
          /\ h.index <= Len(logs'[h.server])
          /\ pending[h.op.ClientID] = h.op
      BY <1>3, <1>4, <1>5, <1>7, <2>3, <2>6, SMTT(30)
    <2> QED BY <1>1, <2>1, <2>2, <2>5, <2>7, Zenon DEF WaitsForItsOwn
  <1>14. UNCHANGED Store!vars
    BY <1>1, Unseen, Zenon
  <1> QED BY <1>9, <1>10, <1>11, <1>12, <1>13, <1>14, Zenon DEF KVInv

-----------------------------------------------------------------------------
(* Handlers that return. *)

\* A handler that returns to the clerk that waits for it gives it what the command at the
\* handler's index returned, and only if that command is the clerk's.
LEMMA ReplyStep ==
    ASSUME KVInv, NEW h \in handlers, NEW ok \in BOOLEAN, NEW value,
           Leave(h), ReplyTo(h, ok, value), UNCHANGED <<groupVars, storeVars, restarts>>,
           DOMAIN buffer' = Server, \A s \in Server : buffer'[s] \subseteq buffer[s],
           ok => /\ h.index \in 1..Len(decided) /\ decided[h.index].Command = h.op
                 /\ value = Outcome(h.index).Value
    PROVE  KVInv' /\ [Store!Next]_(Store!vars)
  <1> DEFINE c == h.op.ClientID
             waiting == waitsFor[c] = <<h.server, h.index, h.term>>
  <1>1. /\ h.server \in Server /\ h.index \in Index /\ h.term \in Nat
        /\ h.op \in OpRecord /\ c \in Client
    BY Zenon DEF KVInv, ServerTypes, OpRecord
  <1>2. /\ handlers' = handlers \ {h}
        /\ notify' = [notify EXCEPT ![h.server][h.index] = 0]
        /\ appliedResults' = [appliedResults EXCEPT ![h.server][h.index] = Nothing]
    BY Zenon DEF Leave
  <1>3. /\ waitsFor' = IF waiting THEN [waitsFor EXCEPT ![c] = Nothing] ELSE waitsFor
        /\ pending' = IF waiting /\ ok THEN [pending EXCEPT ![c] = Nothing] ELSE pending
        /\ returned' = IF waiting /\ ok THEN [returned EXCEPT ![c] = value] ELSE returned
        /\ UNCHANGED nextReqID
    BY Zenon DEF ReplyTo
  <1>4. Replay' = Replay /\ Table' = Table /\ \A i : Outcome(i)' = Outcome(i)
    BY SameReplay, Zenon DEF groupVars
  <1>5. <<h.server, h.index, h.term>> # Nothing
    <2>1. <<h.server, h.index, h.term>> \in Server \X Nat \X Nat
      BY <1>1, SMTT(30) DEF Index
    <2> QED BY <2>1, ServiceAssumption, Zenon
  <1>6. waiting => pending[c] = h.op
    BY Zenon DEF KVInv, WaitsForItsOwn
  <1>7. h.op # Nothing
    BY <1>1, ServiceAssumption, Zenon DEF OpRecord
  <1> HIDE DEF c, waiting
  <1>8. GroupTypes' /\ ClerkTypes' /\ ServerTypes'
    <2>1. GroupTypes'
      BY Zenon DEF KVInv, GroupTypes, groupVars
    <2>2. ClerkTypes'
      <3>1. waitsFor' \in [Client -> (Server \X Nat \X Nat) \union {Nothing}]
        BY <1>1, <1>3, Zenon DEF KVInv, ClerkTypes
      <3>2. pending' \in [Client -> OpRecord \union {Nothing}]
        BY <1>1, <1>3, Zenon DEF KVInv, ClerkTypes
      <3>3. DOMAIN returned' = Client /\ returned' = [k \in Client |-> returned'[k]]
        BY <1>1, <1>3, Zenon DEF KVInv, ClerkTypes
      <3> QED BY <1>3, <3>1, <3>2, <3>3, Zenon DEF KVInv, ClerkTypes
    <2>3. ServerTypes'
      <3>1. notify' \in [Server -> [Index -> Nat]]
        BY <1>1, <1>2, Zenon DEF KVInv, ServerTypes
      <3>2. /\ DOMAIN appliedResults' = Server
            /\ \A s \in Server : DOMAIN appliedResults'[s] = Index
        BY <1>1, <1>2, Zenon DEF KVInv, ServerTypes
      <3> QED BY <1>2, <3>1, <3>2, Zenon DEF KVInv, ServerTypes, storeVars
    <2> QED BY <2>1, <2>2, <2>3, Zenon
  <1>9. Replayed'
    BY <1>4, Zenon DEF KVInv, Replayed, groupVars, storeVars
  <1>10. ResultsAreOutcomes'
    <2>1. \A s \in Server : \A k \in Index :
              appliedResults'[s][k] \in {Nothing, appliedResults[s][k]}
      BY <1>1, <1>2, Zenon DEF KVInv, ServerTypes
    <2> QED BY <1>4, <2>1, SMTT(30) DEF KVInv, ResultsAreOutcomes, groupVars
  <1>11. \A k \in Client : pending'[k] = pending[k] \/ pending'[k] = Nothing
    BY <1>1, <1>3, Zenon DEF KVInv, ClerkTypes
  <1>12. RequestsAreMade'
    BY <1>3, <1>11, Zenon DEF KVInv, RequestsAreMade, Made, groupVars
  <1>13. TableIsExact'
    <2>1. ASSUME NEW k \in Client, NEW n \in 1..(nextReqID[k] - 1),
                 Op(k, n) # pending'[k], Op(k, n).OpType # "Get"
          PROVE  n <= Table[k]
      <3>1. CASE Op(k, n) # pending[k]
        BY <2>1, <3>1, Zenon DEF KVInv, TableIsExact
      <3>2. CASE Op(k, n) = pending[k]
        <4>1. k = c /\ waiting /\ ok
          BY <1>1, <1>3, <2>1, <3>2, Zenon DEF KVInv, ClerkTypes
        <4>2. h.op = Op(k, n) /\ decided[h.index].Command = Op(k, n)
              /\ h.index \in 1..Len(decided)
          BY <1>6, <3>2, <4>1, Zenon
        <4>3. Op(k, n).RequestID <= Table[Op(k, n).ClientID]
          BY <2>1, <4>2, Zenon DEF KVInv, TableIsExact
        <4> QED BY <4>3, Zenon DEF Op
      <3> QED BY <3>1, <3>2, Zenon
    <2> QED BY <1>3, <1>4, <2>1, Zenon DEF KVInv, TableIsExact, groupVars
  <1>14. WaitsForItsOwn'
    <2>1. \A k \in Client : pending'[k] = Nothing => waitsFor'[k] = Nothing
      BY <1>1, <1>3, Zenon DEF KVInv, WaitsForItsOwn, ClerkTypes
    <2>2. ASSUME NEW g \in handlers,
                 waitsFor'[g.op.ClientID] = <<g.server, g.index, g.term>>
          PROVE  pending'[g.op.ClientID] = g.op
      <3>1. /\ g.op.ClientID \in Client
            /\ <<g.server, g.index, g.term>> \in Server \X Nat \X Nat
        <4>1. /\ g.op \in OpRecord /\ g.server \in Server /\ g.term \in Nat
              /\ g.index \in Index
          BY Zenon DEF KVInv, ServerTypes
        <4>2. g.index \in Nat
          BY <4>1, SMTT(30) DEF Index
        <4> QED BY <4>1, <4>2, SMTT(30) DEF OpRecord
      <3>2. waitsFor'[g.op.ClientID] # Nothing
        BY <2>2, <3>1, ServiceAssumption, Zenon
      <3>3. ~ (waiting /\ g.op.ClientID = c)
        BY <1>1, <1>3, <3>2, Zenon DEF KVInv, ClerkTypes
      <3>4. /\ waitsFor'[g.op.ClientID] = waitsFor[g.op.ClientID]
            /\ pending'[g.op.ClientID] = pending[g.op.ClientID]
        BY <1>1, <1>3, <3>1, <3>3, Zenon DEF KVInv, ClerkTypes
      <3> QED BY <2>2, <3>4, Zenon DEF KVInv, WaitsForItsOwn
    <2> QED BY <1>2, <2>1, <2>2, Zenon DEF KVInv, WaitsForItsOwn, groupVars
  <1>15. KVInv'
    BY <1>8, <1>9, <1>10, <1>12, <1>13, <1>14, Zenon DEF KVInv
  <1>16. CASE waiting /\ ok
    <2>1. /\ pending' = [pending EXCEPT ![c] = Nothing]
          /\ returned' = [returned EXCEPT ![c] = value]
          /\ pending[c] = h.op
      BY <1>3, <1>6, <1>16, Zenon
    <2>2. h.index \in Positions(c)
      BY <1>16, <2>1, Zenon DEF Positions
    <2>3. value = Answer(Replay[h.index - 1], pending[c])
      BY <1>16, <2>1, Zenon DEF Outcome, Answer
    <2>4. Positions(c)' = {}
      <3>1. \A i \in 1..Len(decided) : decided[i].Command # Nothing
        BY ServiceAssumption, Zenon DEF KVInv, RequestsAreMade, Made, OpRecord
      <3>2. pending'[c] = Nothing
        BY <1>1, <2>1, Zenon DEF KVInv, ClerkTypes
      <3> QED BY <3>1, <3>2, Zenon DEF Positions, groupVars
    <2>5. \A k \in Client : k # c => Positions(k)' = Positions(k) /\ pending'[k] = pending[k]
      BY <2>1, Zenon DEF Positions, KVInv, ClerkTypes, groupVars
    <2>6. [k \in Client |-> Positions(k) # {}]' =
              [[k \in Client |-> Positions(k) # {}] EXCEPT ![c] = FALSE]
      BY <2>4, <2>5, Zenon
    <2>7. [k \in Client |-> {Answer(Replay[i - 1], pending[k]) : i \in Positions(k)}]' =
              [[k \in Client |-> {Answer(Replay[i - 1], pending[k]) : i \in Positions(k)}]
                  EXCEPT ![c] = {}]
      <3> DEFINE S(k) == {Answer(Replay[i - 1], pending[k]) : i \in Positions(k)}
      <3>1. S(c)' = {}
        BY <2>4, Zenon
      <3>2. \A k \in Client : k # c => S(k)' = S(k)
        BY <1>4, <2>5, Zenon DEF Answer
      <3> HIDE DEF S
      <3>3. [k \in Client |-> S(k)'] = [[k \in Client |-> S(k)] EXCEPT ![c] = {}]
        BY <3>1, <3>2, Zenon
      <3> QED BY <3>3, Zenon DEF S
    <2>8. value \in [k \in Client |-> {Answer(Replay[i - 1], pending[k]) :
                                       i \in Positions(k)}][c]
      BY <1>1, <2>2, <2>3, Zenon
    <2>9. Store!Return(c, value)
      BY <1>4, <1>7, <2>1, <2>6, <2>7, <2>8, Zenon DEF Store!Return, groupVars
    <2>10. Store!Next
      BY <1>1, <2>8, <2>9, Zenon DEF Store!Next
    <2> QED BY <1>15, <2>10, Zenon
  <1>17. CASE ~ (waiting /\ ok)
    <2>1. UNCHANGED <<decided, pending, returned>>
      BY <1>3, <1>17, Zenon DEF groupVars
    <2> QED BY <1>15, <2>1, Unseen, Zenon
  <1> QED BY <1>16, <1>17, Zenon

\* A handler finds a result in its channel.
LEMMA ResultStep ==
    ASSUME KVInv, NEW h \in handlers, TakeResult(h)
    PROVE  KVInv' /\ [Store!Next]_(Store!vars)
  <1>1. PICK m \in buffer[h.server] :
            /\ m.index = h.index
            /\ buffer' = [buffer EXCEPT ![h.server] = @ \ {m}]
            /\ Leave(h) /\ ReplyTo(h, sameOp(m.res.Op, h.op), m.res.Value)
            /\ UNCHANGED <<groupVars, storeVars, restarts>>
    BY Zenon DEF TakeResult
  <1>2. h.server \in Server
    BY Zenon DEF KVInv, ServerTypes
  <1>3. m.index \in 1..Len(decided) /\ m.res = Outcome(m.index)
    BY <1>2, Zenon DEF KVInv, ResultsAreOutcomes
  <1>4. DOMAIN buffer' = Server /\ \A s \in Server : buffer'[s] \subseteq buffer[s]
    BY <1>1, <1>2, Zenon DEF KVInv, ServerTypes
  <1>5. Outcome(m.index).Op = decided[m.index].Command
    BY Zenon DEF Outcome, Result
  <1>6. sameOp(m.res.Op, h.op) \in BOOLEAN
    BY Zenon DEF sameOp
  <1>7. sameOp(m.res.Op, h.op) =>
            /\ h.index \in 1..Len(decided) /\ decided[h.index].Command = h.op
            /\ m.res.Value = Outcome(h.index).Value
    BY <1>1, <1>3, <1>5, Zenon DEF sameOp
  <1> QED BY <1>1, <1>4, <1>6, <1>7, ReplyStep, Zenon

\* A handler finds that its leadership is over.
LEMMA LeadershipStep ==
    ASSUME KVInv, NEW h \in handlers, LeadershipOver(h)
    PROVE  KVInv' /\ [Store!Next]_(Store!vars)
  <1>1. /\ Leave(h) /\ ReplyTo(h, FALSE, Nothing)
        /\ UNCHANGED <<groupVars, buffer, storeVars, restarts>>
    BY Zenon DEF LeadershipOver
  <1>2. DOMAIN buffer' = Server /\ \A s \in Server : buffer'[s] \subseteq buffer[s]
    BY <1>1, Zenon DEF KVInv, ServerTypes
  <1> QED BY <1>1, <1>2, ReplyStep, Zenon

-----------------------------------------------------------------------------
(* Steps of Raft. *)

\* What a step keeps that only moves logs and leaders.
LEMMA GroupStep ==
    ASSUME KVInv, UNCHANGED <<decided, clerkVars, handlers, channelVars, storeVars, restarts>>,
           GroupTypes',
           \A s \in Server : \A i \in 1..Len(logs'[s]) :
               \E r \in Server : \E k \in 1..Len(logs[r]) : logs'[s][i] = logs[r][k],
           newest <= newest', \A s \in Server : leads'[s] <= newest',
           \A s \in Server : \/ leads'[s] = leads[s] /\ logs'[s] = logs[s]
                             \/ leads'[s] = 0
                             \/ leads'[s] > newest
    PROVE  KVInv' /\ UNCHANGED Store!vars
  <1>1. Replay' = Replay /\ Table' = Table /\ \A i : Outcome(i)' = Outcome(i)
    BY SameReplay, Zenon
  <1>2. ClerkTypes' /\ ServerTypes'
    BY Zenon DEF KVInv, ClerkTypes, ServerTypes, clerkVars, channelVars, storeVars
  <1>3. Replayed' /\ ResultsAreOutcomes'
    BY <1>1, Zenon DEF KVInv, Replayed, ResultsAreOutcomes, channelVars, storeVars
  <1>4. RequestsAreMade'
    <2>1. \A op : Made(op)' <=> Made(op)
      BY Zenon DEF Made, clerkVars
    <2>2. \A s \in Server : \A i \in 1..Len(logs'[s]) : Made(logs'[s][i].Command)
      BY Zenon DEF KVInv, RequestsAreMade
    <2> QED BY <2>1, <2>2, Zenon DEF KVInv, RequestsAreMade, clerkVars
  <1>5. TableIsExact'
    BY <1>1, Zenon DEF KVInv, TableIsExact, clerkVars
  <1>6. WaitsForItsOwn'
    <2>1. ASSUME NEW h \in handlers
          PROVE  /\ h.term \in 1..newest'
                 /\ leads'[h.server] = h.term => h.index <= Len(logs'[h.server])
      <3>1. h.term \in 1..newest /\ newest \in Nat /\ newest' \in Nat /\ h.server \in Server
        BY Zenon DEF KVInv, WaitsForItsOwn, GroupTypes, ServerTypes
      <3>2. leads'[h.server] = h.term =>
                leads'[h.server] = leads[h.server] /\ logs'[h.server] = logs[h.server]
        BY <3>1, SMTT(30)
      <3> QED BY <3>1, <3>2, SMTT(30) DEF KVInv, WaitsForItsOwn
    <2> QED BY <2>1, Zenon DEF KVInv, WaitsForItsOwn, clerkVars
  <1>7. UNCHANGED Store!vars
    BY Unseen, Zenon DEF clerkVars
  <1> QED BY <1>2, <1>3, <1>4, <1>5, <1>6, <1>7, Zenon DEF KVInv

\* A server wins an election.
LEMMA LeadStep ==
    ASSUME KVInv, NEW s \in Server, Lead(s),
           UNCHANGED <<clerkVars, handlers, channelVars, storeVars, restarts>>
    PROVE  KVInv' /\ UNCHANGED Store!vars
  <1>1. /\ newest' = newest + 1 /\ leads' = [leads EXCEPT ![s] = newest + 1]
        /\ UNCHANGED <<logs, decided>>
    BY Zenon DEF Lead
  <1>2. GroupTypes'
    BY <1>1, SMTT(30) DEF KVInv, GroupTypes
  <1>3. newest <= newest' /\ \A r \in Server : leads'[r] <= newest'
    BY <1>1, SMTT(30) DEF KVInv, GroupTypes, WaitsForItsOwn
  <1>4. \A r \in Server : \/ leads'[r] = leads[r] /\ logs'[r] = logs[r]
                          \/ leads'[r] > newest
    BY <1>1, SMTT(30) DEF KVInv, GroupTypes
  <1> QED BY <1>1, <1>2, <1>3, <1>4, GroupStep, Zenon

\* A leader hears of a newer one.
LEMMA StepDownStep ==
    ASSUME KVInv, NEW s \in Server, StepDown(s),
           UNCHANGED <<clerkVars, handlers, channelVars, storeVars, restarts>>
    PROVE  KVInv' /\ UNCHANGED Store!vars
  <1>1. leads' = [leads EXCEPT ![s] = 0] /\ UNCHANGED <<logs, newest, decided>>
    BY Zenon DEF StepDown
  <1>2. GroupTypes'
    BY <1>1, Zenon DEF KVInv, GroupTypes
  <1>3. newest <= newest' /\ \A r \in Server : leads'[r] <= newest'
    BY <1>1, SMTT(30) DEF KVInv, GroupTypes, WaitsForItsOwn
  <1>4. \A r \in Server : \/ leads'[r] = leads[r] /\ logs'[r] = logs[r]
                          \/ leads'[r] = 0
    BY <1>1, Zenon DEF KVInv, GroupTypes
  <1> QED BY <1>1, <1>2, <1>3, <1>4, GroupStep, Zenon

\* A server takes over the leader's entries.
LEMMA FollowStep ==
    ASSUME KVInv, NEW s \in Server, NEW l \in Server, NEW n \in 1..MaxIndex, Follow(s, l, n),
           UNCHANGED <<clerkVars, handlers, channelVars, storeVars, restarts>>
    PROVE  KVInv' /\ UNCHANGED Store!vars
  <1> DEFINE new == SubSeq(logs[l], 1, n)
  <1>1. /\ logs' = [logs EXCEPT ![s] = new] /\ leads' = [leads EXCEPT ![s] = 0]
        /\ UNCHANGED <<newest, decided>> /\ n <= Len(logs[l])
    BY Zenon DEF Follow
  <1>2. n \in Nat /\ logs[l] \in Seq(Entry)
    BY GroupAssumption, SMTT(30) DEF KVInv, GroupTypes
  <1>3. new \in Seq(Entry) /\ Len(new) = n /\ \A i \in 1..n : new[i] = logs[l][i]
    BY <1>1, <1>2, SMTT(30)
  <1> HIDE DEF new
  <1>4. GroupTypes'
    BY <1>1, <1>3, Zenon DEF KVInv, GroupTypes
  <1>5. newest <= newest' /\ \A r \in Server : leads'[r] <= newest'
    BY <1>1, SMTT(30) DEF KVInv, GroupTypes, WaitsForItsOwn
  <1>6. \A r \in Server : \/ leads'[r] = leads[r] /\ logs'[r] = logs[r]
                          \/ leads'[r] = 0
    BY <1>1, Zenon DEF KVInv, GroupTypes
  <1>7. ASSUME NEW r \in Server, NEW i \in 1..Len(logs'[r])
        PROVE  \E q \in Server : \E k \in 1..Len(logs[q]) : logs'[r][i] = logs[q][k]
    <2>1. CASE r = s
      <3>1. logs'[s] = new /\ i \in 1..n
        BY <1>1, <1>3, <2>1, Zenon DEF KVInv, GroupTypes
      <3>2. i \in 1..Len(logs[l]) /\ logs'[r][i] = logs[l][i]
        BY <1>1, <1>2, <1>3, <2>1, <3>1, SMTT(30)
      <3> QED BY <3>2, Zenon
    <2>2. CASE r # s
      <3>1. logs'[r] = logs[r]
        BY <1>1, <2>2, Zenon DEF KVInv, GroupTypes
      <3> QED BY <3>1, Zenon
    <2> QED BY <2>1, <2>2, Zenon
  <1> QED BY <1>1, <1>4, <1>5, <1>6, <1>7, GroupStep, Zenon

-----------------------------------------------------------------------------
(* The step that decides. *)

\* What a decided command adds: its state, its outcome and its position.
LEMMA Decided ==
    ASSUME KVInv, NEW e \in Entry, decided' = Append(decided, e), UNCHANGED pending
    PROVE  /\ Len(decided') = Len(decided) + 1 /\ decided'[Len(decided) + 1] = e
           /\ \A k \in 1..Len(decided) : decided'[k] = decided[k]
           /\ \A k \in 0..Len(decided) : Replay'[k] = Replay[k]
           /\ Replay'[Len(decided) + 1] = Applied(Replay[Len(decided)], e.Command)
           /\ \A k \in 1..Len(decided) : Outcome(k)' = Outcome(k)
           /\ \A c \in Client : Positions(c)' =
                 IF pending[c] = e.Command THEN Positions(c) \union {Len(decided) + 1}
                 ELSE Positions(c)
           /\ decided' \in Seq(Entry)
  <1>1. decided \in Seq(Entry) /\ Len(decided) \in Nat
    BY SMTT(30) DEF KVInv, GroupTypes
  <1>2. /\ Len(decided') = Len(decided) + 1 /\ decided'[Len(decided) + 1] = e
        /\ \A k \in 1..Len(decided) : decided'[k] = decided[k]
        /\ decided' \in Seq(Entry)
    BY <1>1, SMTT(30)
  <1>3. /\ \A k \in 0..Len(decided) : Replay'[k] = Replay[k]
        /\ Replay'[Len(decided) + 1] = Applied(Replay[Len(decided)], e.Command)
    BY <1>1, ReplayIs, ReplayIsNext, ReplayGrows, Zenon
  <1>4. ASSUME NEW k \in 1..Len(decided) PROVE Outcome(k)' = Outcome(k)
    <2>1. k - 1 \in 0..Len(decided)
      BY <1>1, SMTT(30)
    <2> QED BY <1>2, <1>3, <2>1, Zenon DEF Outcome
  <1>5. ASSUME NEW c \in Client
        PROVE  Positions(c)' = IF pending[c] = e.Command
                               THEN Positions(c) \union {Len(decided) + 1} ELSE Positions(c)
    <2>1. 1..Len(decided') = (1..Len(decided)) \union {Len(decided) + 1}
      BY <1>1, <1>2, SMTT(30)
    <2> QED BY <1>2, <2>1, Zenon DEF Positions
  <1> QED BY <1>2, <1>3, <1>4, <1>5, Zenon

\* The duplicate table lets an update through exactly when it is the first time that it is
\* decided, and that is while its clerk waits for it.
LEMMA FirstTime ==
    ASSUME KVInv, NEW op, Made(op), op.OpType # "Get"
    PROVE  /\ op.ClientID \in Client /\ op.RequestID \in Nat /\ Table \in [Client -> Nat]
           /\ pending[op.ClientID] # op => op.RequestID <= Table[op.ClientID]
           /\ pending[op.ClientID] = op =>
                 (op.RequestID <= Table[op.ClientID] <=> Positions(op.ClientID) # {})
  <1> DEFINE c == op.ClientID
             n == op.RequestID
  <1>1. c \in Client /\ n \in Nat /\ n \in 1..(nextReqID[c] - 1) /\ op = Op(c, n)
    BY Zenon DEF Made, OpRecord
  <1>2. Table \in [Client -> Nat]
    BY Zenon DEF KVInv, TableIsExact
  <1>3. pending[c] # op => n <= Table[c]
    BY <1>1, Zenon DEF KVInv, TableIsExact
  <1>4. ASSUME pending[c] = op, Positions(c) # {}
        PROVE  n <= Table[c]
    <2>1. PICK i \in 1..Len(decided) : decided[i].Command = op
      BY <1>4, Zenon DEF Positions
    <2> QED BY <2>1, Zenon DEF KVInv, TableIsExact
  <1>5. ASSUME pending[c] = op, n <= Table[c]
        PROVE  Positions(c) # {}
    <2>1. Table[c] \in Nat /\ Table[c] # 0
      BY <1>1, <1>2, <1>5, SMTT(30)
    <2>2. PICK i \in 1..Len(decided) : decided[i].Command = Op(c, Table[c])
      BY <1>1, <2>1, Zenon DEF KVInv, TableIsExact
    <2>3. Table[c] \in 1..(nextReqID[c] - 1)
      BY <2>2, SMTT(30) DEF KVInv, RequestsAreMade, Made, Op
    <2>4. op # Nothing
      BY ServiceAssumption, Zenon DEF Made, OpRecord
    <2>5. op = Op(c, nextReqID[c] - 1)
      BY <1>1, <1>5, <2>4, Zenon DEF KVInv, RequestsAreMade
    <2>6. n = nextReqID[c] - 1
      BY <2>5, SMTT(30) DEF Op
    <2>7. nextReqID[c] \in Nat
      BY <1>1, Zenon DEF KVInv, ClerkTypes
    <2>8. Table[c] = n
      BY <1>1, <1>5, <2>1, <2>3, <2>6, <2>7, SMTT(30)
    <2> QED BY <1>1, <1>5, <2>2, <2>8, Zenon DEF Positions
  <1> QED BY <1>1, <1>2, <1>3, <1>4, <1>5, Zenon

\* The store's side of a decided command: it is carried out where it is decided for the first
\* time, a Get each time that it is decided while its clerk waits.
LEMMA DecideIsExecute ==
    ASSUME KVInv, NEW e \in Entry, Made(e.Command), decided' = Append(decided, e),
           UNCHANGED <<pending, returned>>
    PROVE  [Store!Next]_(Store!vars)
  <1> DEFINE op == e.Command
             c == op.ClientID
             last == Len(decided) + 1
             m == Replay[Len(decided)]
             S(k) == {Answer(Replay[i - 1], pending[k]) : i \in Positions(k)}
  <1>1. op \in OpRecord /\ c \in Client /\ op # Nothing
    BY ServiceAssumption, Zenon DEF Made, OpRecord
  <1>2. /\ Len(decided') = last /\ Replay'[last] = Applied(m, op)
        /\ \A k \in Client : Positions(k)' =
              IF pending[k] = op THEN Positions(k) \union {last} ELSE Positions(k)
    BY Decided, Zenon
  <1>3. Len(decided) \in Nat /\ \A k \in 0..Len(decided) : Replay'[k] = Replay[k]
    <2>1. Len(decided) \in Nat
      BY SMTT(30) DEF KVInv, GroupTypes
    <2> QED BY <2>1, Decided, Zenon
  <1>4. \A k \in Client : k # c => pending[k] # op
    <2> SUFFICES ASSUME NEW k \in Client, pending[k] = op PROVE k = c
      BY Zenon
    <2>1. pending[k] = Op(k, nextReqID[k] - 1)
      BY <1>1, Zenon DEF KVInv, RequestsAreMade
    <2> QED BY <2>1, SMTT(30) DEF Op
  <1>5. \A k \in Client : S(k)' = S(k) \union IF pending[k] = op THEN {Answer(m, op)} ELSE {}
    <2> SUFFICES ASSUME NEW k \in Client
                 PROVE  S(k)' = S(k) \union IF pending[k] = op THEN {Answer(m, op)} ELSE {}
      BY Zenon
    <2>1. \A i \in Positions(k) : i - 1 \in 0..Len(decided)
      BY <1>3, SMTT(30) DEF Positions
    <2>2. \A i \in Positions(k) : Replay'[i - 1] = Replay[i - 1]
      BY <1>3, <2>1, Zenon
    <2>3. last - 1 = Len(decided) /\ Replay'[last - 1] = m
      BY <1>3, SMTT(30)
    <2>4. {Answer(Replay'[i - 1], pending[k]) : i \in Positions(k)} = S(k)
      BY <2>2, Zenon DEF Answer
    <2>5. S(k)' = {Answer(Replay'[i - 1], pending[k]) : i \in Positions(k)'}
      BY Zenon DEF Answer
    <2>6. CASE pending[k] # op
      BY <1>2, <2>4, <2>5, <2>6, Zenon
    <2>7. CASE pending[k] = op
      <3>1. Positions(k)' = Positions(k) \union {last}
        BY <1>2, <2>7, Zenon
      <3>2. S(k)' = {Answer(Replay'[i - 1], pending[k]) : i \in Positions(k)}
                        \union {Answer(Replay'[last - 1], pending[k])}
        BY <2>5, <3>1, Zenon
      <3> QED BY <2>3, <2>4, <2>7, <3>2, Zenon
    <2> QED BY <2>6, <2>7, Zenon
  <1>6. \A k \in Client : pending[k] = op => k = c
    BY <1>4, Zenon
  <1>7. op.OpType # "Get" => (shouldApply(m, op) <=> ~ (op.RequestID <= Table[c]))
    BY FirstTime, SMTT(30) DEF shouldApply, Table
  <1>8. CASE pending[c] = op /\ (op.OpType = "Get" \/ Positions(c) = {})
    <2>1. Applied(m, op).kvStore = IF op.OpType = "Get" THEN m.kvStore
              ELSE IF op.OpType = "Put" THEN <<op>> ELSE Append(m.kvStore, op)
      <3>1. CASE op.OpType = "Get"
        BY <3>1, Zenon DEF Applied
      <3>2. CASE op.OpType # "Get"
        <4>1. shouldApply(m, op)
          BY <1>7, <1>8, <3>2, FirstTime, Zenon
        <4> QED BY <3>2, <4>1, Zenon DEF Applied
      <3> QED BY <3>1, <3>2, Zenon
    <2>2. Replay'[Len(decided')].kvStore = Applied(m, op).kvStore
      BY <1>2, Zenon
    <2>3. [k \in Client |-> Positions(k) # {}]' =
              [[k \in Client |-> Positions(k) # {}] EXCEPT ![c] = TRUE]
      BY <1>1, <1>2, <1>6, <1>8, Zenon
    <2>4. Answer(m, op) = IF op.OpType = "Get" THEN m.kvStore ELSE Nothing
      BY Zenon DEF Answer, Result
    <2>5. [k \in Client |-> S(k)]' =
              [[k \in Client |-> S(k)] EXCEPT ![c] = S(c) \union {Answer(m, op)}]
      <3> HIDE DEF S, m
      <3>1. S(c)' = S(c) \union {Answer(m, op)}
        BY <1>1, <1>5, <1>8, Zenon
      <3>2. \A k \in Client : k # c => S(k)' = S(k)
        BY <1>5, <1>6, Zenon
      <3> QED BY <1>1, <3>1, <3>2, Zenon
    <2>6. Store!Execute(c)
      BY <1>1, <1>8, <2>1, <2>2, <2>3, <2>4, <2>5, Zenon DEF Store!Execute
    <2> QED BY <1>1, <2>6, Zenon DEF Store!Next
  <1>9. CASE ~ (pending[c] = op /\ (op.OpType = "Get" \/ Positions(c) = {}))
    <2>1. Applied(m, op) = m
      <3>1. CASE op.OpType = "Get"
        BY <3>1, Zenon DEF Applied
      <3>2. CASE op.OpType # "Get"
        <4>1. ~ shouldApply(m, op)
          BY <1>7, <1>9, <3>2, FirstTime, Zenon
        <4> QED BY <4>1, Zenon DEF Applied
      <3> QED BY <3>1, <3>2, Zenon
    <2>2. Replay'[Len(decided')].kvStore = m.kvStore
      BY <1>2, <2>1, Zenon
    <2>3. [k \in Client |-> Positions(k) # {}]' = [k \in Client |-> Positions(k) # {}]
      BY <1>1, <1>2, <1>6, <1>9, Zenon
    <2>4. pending[c] = op => Answer(m, op) \in S(c)
      <3> SUFFICES ASSUME pending[c] = op PROVE Answer(m, op) \in S(c)
        BY Zenon
      <3>1. PICK i \in Positions(c) : TRUE
        BY <1>9, Zenon
      <3>2. Answer(Replay[i - 1], op) = Answer(m, op)
        BY <1>9, Zenon DEF Answer, Result
      <3> QED BY <3>1, <3>2, Zenon
    <2>5. [k \in Client |-> S(k)]' = [k \in Client |-> S(k)]
      <3> HIDE DEF S, m
      <3>1. ASSUME NEW k \in Client PROVE S(k)' = S(k)
        <4>1. CASE pending[k] = op
          <5>1. k = c /\ S(k)' = S(k) \union {Answer(m, op)}
            BY <1>5, <1>6, <4>1, Zenon
          <5> QED BY <2>4, <4>1, <5>1, Zenon
        <4>2. CASE pending[k] # op
          BY <1>5, <4>2, Zenon
        <4> QED BY <4>1, <4>2, Zenon
      <3> QED BY <3>1, Zenon
    <2> QED BY <2>2, <2>3, <2>5, Zenon DEF Store!vars
  <1> QED BY <1>8, <1>9, Zenon

\* The newest leader's next entry is decided.
LEMMA DecideStep ==
    ASSUME KVInv, NEW s \in Server, Decide(s),
           UNCHANGED <<clerkVars, handlers, channelVars, storeVars, restarts>>
    PROVE  KVInv' /\ [Store!Next]_(Store!vars)
  <1> DEFINE last == Len(decided) + 1
             e == logs[s][last]
             op == e.Command
             c == op.ClientID
             m == Replay[Len(decided)]
  <1>1. /\ decided' = Append(decided, e) /\ UNCHANGED <<logs, leads, newest>>
        /\ UNCHANGED <<nextReqID, pending, waitsFor, returned>>
        /\ Len(decided) < Len(logs[s])
    BY Zenon DEF Decide, clerkVars
  <1>2. /\ logs[s] \in Seq(Entry) /\ Len(decided) \in Nat
        /\ last \in 1..Len(logs[s])
    BY <1>1, SMTT(30) DEF KVInv, GroupTypes
  <1>3. e \in Entry /\ Made(op) /\ op \in OpRecord
    BY <1>2, SMTT(30) DEF KVInv, RequestsAreMade, Made
  <1> HIDE DEF e
  <1>4. /\ Len(decided') = last /\ decided'[last] = e
        /\ \A k \in 1..Len(decided) : decided'[k] = decided[k]
        /\ \A k \in 0..Len(decided) : Replay'[k] = Replay[k]
        /\ Replay'[last] = Applied(m, op)
        /\ \A k \in 1..Len(decided) : Outcome(k)' = Outcome(k)
        /\ decided' \in Seq(Entry)
    BY <1>1, <1>3, Decided, Zenon
  <1>5. [Store!Next]_(Store!vars)
    BY <1>1, <1>3, DecideIsExecute, Zenon
  <1>6. GroupTypes' /\ ClerkTypes' /\ ServerTypes'
    BY <1>1, <1>4, Zenon DEF KVInv, GroupTypes, ClerkTypes, ServerTypes, channelVars, storeVars
  <1>7. Replayed'
    <2> SUFFICES ASSUME NEW r \in Server
                 PROVE  /\ lastApplied[r] <= Len(decided')
                        /\ machine[r] = Replay'[lastApplied[r]]
                        /\ saved[r].index \in 0..Len(decided')
                        /\ saved[r].state = Replay'[saved[r].index]
      BY Zenon DEF Replayed, storeVars
    <2>1. lastApplied[r] \in 0..Len(decided) /\ saved[r].index \in 0..Len(decided)
      BY <1>2, SMTT(30) DEF KVInv, Replayed, ServerTypes
    <2> QED BY <1>2, <1>4, <2>1, SMTT(30) DEF KVInv, Replayed
  <1>8. ResultsAreOutcomes'
    <2>1. ASSUME NEW r \in Server, NEW b \in buffer[r]
          PROVE  b.index \in 1..Len(decided') /\ b.res = Outcome(b.index)'
      <3>1. PICK i : i = b.index
        BY Zenon
      <3>2. i \in 1..Len(decided) /\ b.res = Outcome(i)
        BY <3>1, Zenon DEF KVInv, ResultsAreOutcomes
      <3> QED BY <1>2, <1>4, <3>1, <3>2, SMTT(30)
    <2>2. ASSUME NEW r \in Server, NEW k \in Index, appliedResults[r][k] # Nothing
          PROVE  k <= Len(decided') /\ appliedResults[r][k] = Outcome(k)'
      <3>1. k \in 1..Len(decided) /\ appliedResults[r][k] = Outcome(k)
        BY <1>2, <2>2, SMTT(30) DEF KVInv, ResultsAreOutcomes, Index
      <3> QED BY <1>2, <1>4, <3>1, SMTT(30)
    <2> QED BY <2>1, <2>2, Zenon DEF ResultsAreOutcomes, channelVars
  <1>9. \A k \in 1..last : k \in 1..Len(decided) \/ k = last
    BY <1>2, SMTT(30)
  <1>10. RequestsAreMade'
    <2>1. \A o : Made(o)' <=> Made(o)
      BY <1>1, Zenon DEF Made
    <2>2. \A k \in 1..Len(decided') : Made(decided'[k].Command)
      BY <1>3, <1>4, <1>9, Zenon DEF KVInv, RequestsAreMade
    <2> QED BY <1>1, <2>1, <2>2, Zenon DEF KVInv, RequestsAreMade
  <1>11. TableIsExact'
    <2>1. Table' = Applied(m, op).lastAppliedReq /\ Table = m.lastAppliedReq
      BY <1>4, Zenon DEF Table
    <2>2. /\ c \in Client /\ op.RequestID \in Nat
          /\ Table \in [Client -> Nat] /\ op = Op(c, op.RequestID)
      BY <1>3, Zenon DEF Made, OpRecord, KVInv, TableIsExact
    <2>3. \/ Table' = Table /\ (op.OpType # "Get" => op.RequestID <= Table[c])
          \/ /\ Table' = [Table EXCEPT ![c] = op.RequestID]
             /\ op.RequestID > Table[c]
      <3>1. CASE op.OpType = "Get" \/ ~ shouldApply(m, op)
        BY <2>1, <2>2, <3>1, SMTT(30) DEF Applied, shouldApply
      <3>2. CASE ~ (op.OpType = "Get" \/ ~ shouldApply(m, op))
        BY <2>1, <2>2, <3>2, Zenon DEF Applied, shouldApply
      <3> QED BY <3>1, <3>2, Zenon
    <2> HIDE DEF op, c
    <2>4. Table' \in [Client -> Nat] /\ \A k \in Client : Table[k] <= Table'[k]
      BY <2>2, <2>3, SMTT(30)
    <2>5. ASSUME NEW k \in Client, Table'[k] # 0
          PROVE  \E i \in 1..Len(decided') : decided'[i].Command = Op(k, Table'[k])
      <3>1. CASE Table'[k] = Table[k]
        <4>1. PICK i \in 1..Len(decided) : decided[i].Command = Op(k, Table[k])
          BY <2>5, <3>1, Zenon DEF KVInv, TableIsExact
        <4>2. i \in 1..Len(decided') /\ decided'[i].Command = Op(k, Table'[k])
          BY <1>2, <1>4, <3>1, <4>1, SMTT(30)
        <4> QED BY <4>2, Zenon
      <3>2. CASE Table'[k] # Table[k]
        <4>1. k = c /\ Table'[k] = op.RequestID
          BY <2>2, <2>3, <3>2, Zenon
        <4>2. last \in 1..Len(decided') /\ decided'[last].Command = Op(k, Table'[k])
          BY <1>2, <1>4, <2>2, <4>1, SMTT(30) DEF op
        <4> QED BY <4>2, Zenon
      <3> QED BY <3>1, <3>2, Zenon
    <2>6. ASSUME NEW i \in 1..Len(decided'), decided'[i].Command.OpType # "Get"
          PROVE  decided'[i].Command.RequestID <= Table'[decided'[i].Command.ClientID]
      <3>1. CASE i \in 1..Len(decided)
        <4> DEFINE o == decided[i].Command
        <4>1. decided'[i].Command = o
          BY <1>4, <3>1, Zenon
        <4>2. o.RequestID <= Table[o.ClientID]
          BY <2>6, <3>1, <4>1, Zenon DEF KVInv, TableIsExact
        <4>3. o.ClientID \in Client /\ o.RequestID \in Nat
          BY <3>1, Zenon DEF KVInv, RequestsAreMade, Made, OpRecord
        <4> HIDE DEF o
        <4>4. o.RequestID <= Table'[o.ClientID]
          <5>1. Table[o.ClientID] \in Nat /\ Table'[o.ClientID] \in Nat
            BY <2>2, <2>4, <4>3, Zenon
          <5> QED BY <2>4, <4>2, <4>3, <5>1, SMTT(30)
        <4> QED BY <4>1, <4>4, Zenon
      <3>2. CASE i = last
        <4>1. decided'[i].Command = op
          BY <1>4, <3>2, Zenon DEF op
        <4>2. op.RequestID <= Table'[c]
          BY <2>2, <2>3, <2>6, <4>1, SMTT(30)
        <4> QED BY <4>1, <4>2, Zenon DEF c
      <3> QED BY <1>4, <1>9, <3>1, <3>2, Zenon
    <2>7. ASSUME NEW k \in Client, NEW n \in 1..(nextReqID[k] - 1),
                 Op(k, n) # pending[k], Op(k, n).OpType # "Get"
          PROVE  n <= Table'[k]
      <3>1. n <= Table[k]
        BY <2>7, Zenon DEF KVInv, TableIsExact
      <3>2. Table[k] \in Nat /\ Table'[k] \in Nat /\ n \in Nat
        BY <2>2, <2>4, SMTT(30) DEF KVInv, ClerkTypes
      <3> QED BY <2>4, <3>1, <3>2, SMTT(30)
    <2> QED BY <1>1, <2>4, <2>5, <2>6, <2>7, Zenon DEF TableIsExact
  <1>12. WaitsForItsOwn'
    BY <1>1, Zenon DEF KVInv, WaitsForItsOwn
  <1> QED BY <1>5, <1>6, <1>7, <1>8, <1>10, <1>11, <1>12, Zenon DEF KVInv

-----------------------------------------------------------------------------
(* The theorems. *)

\* Nothing has happened yet.
LEMMA InitiallyKVInv == Init => KVInv /\ Store!Init
  <1> SUFFICES ASSUME Init PROVE KVInv /\ Store!Init
    BY Zenon
  <1> USE DEF Init, GroupInit
  <1>1. decided = <<>> /\ Len(decided) = 0 /\ decided \in Seq(Entry)
    BY SMTT(30)
  <1>2. Replay[0] = NoState
    BY <1>1, ReplayIs, ReplaySteps, Zenon
  <1>3. Table = [c \in Client |-> 0]
    BY <1>1, <1>2, SMTT(30) DEF Table, NoState
  <1>4. GroupTypes /\ ClerkTypes /\ ServerTypes
    BY SMTT(30) DEF GroupTypes, ClerkTypes, ServerTypes
  <1>5. Replayed /\ ResultsAreOutcomes
    BY <1>1, <1>2, SMTT(30) DEF Replayed, ResultsAreOutcomes, NoSnapshot
  <1>6. RequestsAreMade
    <2>1. \A c \in Client : Len(Script[c]) \in Nat
      BY ServiceAssumption, SMTT(30)
    <2> QED BY <1>1, <2>1, SMTT(30) DEF RequestsAreMade
  <1>7. TableIsExact
    BY <1>1, <1>3, SMTT(30) DEF TableIsExact
  <1>8. WaitsForItsOwn
    BY SMTT(30) DEF WaitsForItsOwn
  <1>9. \A c \in Client : Positions(c) = {}
    BY <1>1, SMTT(30) DEF Positions
  <1>10. Store!Init
    <2>1. [c \in Client |-> Positions(c) # {}] = [c \in Client |-> FALSE]
      BY <1>9, Zenon
    <2>2. [c \in Client |-> {Answer(Replay[i - 1], pending[c]) : i \in Positions(c)}]
              = [c \in Client |-> {}]
      BY <1>9, Zenon
    <2>3. Replay[Len(decided)].kvStore = <<>>
      BY <1>1, <1>2, SMTT(30) DEF NoState
    <2> QED BY <2>1, <2>2, <2>3, Zenon DEF Store!Init
  <1> QED BY <1>4, <1>5, <1>6, <1>7, <1>8, <1>10, Zenon DEF KVInv

\* Every step keeps the invariant and is a step of the store, or one that it does not see.
LEMMA NextKVInv == KVInv /\ [Next]_vars => KVInv' /\ [Store!Next]_(Store!vars)
  <1> SUFFICES ASSUME KVInv, [Next]_vars PROVE KVInv' /\ [Store!Next]_(Store!vars)
    BY Zenon
  <1>1. ASSUME NEW c \in Client, Invoke(c) PROVE KVInv' /\ [Store!Next]_(Store!vars)
    BY <1>1, InvokeStep, Zenon
  <1>2. ASSUME NEW c \in Client, NEW s \in Server, Call(c, s)
        PROVE  KVInv' /\ [Store!Next]_(Store!vars)
    BY <1>2, CallStep, Zenon
  <1>3. ASSUME NEW h \in handlers, getNotifyCh(h) PROVE KVInv' /\ [Store!Next]_(Store!vars)
    BY <1>3, NotifyStep, Zenon
  <1>4. ASSUME NEW h \in handlers, TakeResult(h) PROVE KVInv' /\ [Store!Next]_(Store!vars)
    BY <1>4, ResultStep, Zenon
  <1>5. ASSUME NEW h \in handlers, LeadershipOver(h)
        PROVE  KVInv' /\ [Store!Next]_(Store!vars)
    BY <1>5, LeadershipStep, Zenon
  <1>6. ASSUME NEW s \in Server, Apply(s) PROVE KVInv' /\ [Store!Next]_(Store!vars)
    BY <1>6, ApplyStep, Zenon
  <1>7. ASSUME NEW s \in Server, NEW l \in Server, InstallSnapshot(s, l)
        PROVE  KVInv' /\ [Store!Next]_(Store!vars)
    BY <1>7, InstallStep, Zenon
  <1>8. ASSUME NEW s \in Server, Restart(s) PROVE KVInv' /\ [Store!Next]_(Store!vars)
    BY <1>8, RestartStep, Zenon
  <1>9. ASSUME RaftStep PROVE KVInv' /\ [Store!Next]_(Store!vars)
    <2>1. UNCHANGED <<clerkVars, handlers, channelVars, storeVars, restarts>>
      BY <1>9, Zenon DEF RaftStep
    <2>2. ASSUME NEW s \in Server, Lead(s) PROVE KVInv' /\ [Store!Next]_(Store!vars)
      BY <2>1, <2>2, LeadStep, Zenon
    <2>3. ASSUME NEW s \in Server, StepDown(s) PROVE KVInv' /\ [Store!Next]_(Store!vars)
      BY <2>1, <2>3, StepDownStep, Zenon
    <2>4. ASSUME NEW s \in Server, NEW l \in Server, NEW n \in 1..MaxIndex, Follow(s, l, n)
          PROVE  KVInv' /\ [Store!Next]_(Store!vars)
      BY <2>1, <2>4, FollowStep, Zenon
    <2>5. ASSUME NEW s \in Server, Decide(s) PROVE KVInv' /\ [Store!Next]_(Store!vars)
      BY <2>1, <2>5, DecideStep, Zenon
    <2> QED BY <1>9, <2>2, <2>3, <2>4, <2>5, Zenon DEF RaftStep, GroupNext
  <1>10. CASE UNCHANGED vars
    <2>1. UNCHANGED <<groupVars, clerkVars, handlers, channelVars, storeVars, restarts>>
      BY <1>10, Zenon DEF vars
    <2>2. Replay' = Replay /\ \A i : Outcome(i)' = Outcome(i)
      BY <2>1, SameReplay, Zenon DEF groupVars
    <2>3. ServerTypes' /\ Replayed' /\ ResultsAreOutcomes'
      BY <2>1, <2>2, Zenon DEF KVInv, ServerTypes, Replayed, ResultsAreOutcomes, groupVars,
        channelVars, storeVars
    <2> QED BY <2>1, <2>3, ServerStep, Zenon
  <1> QED BY <1>1, <1>2, <1>3, <1>4, <1>5, <1>6, <1>7, <1>8, <1>9, <1>10, Zenon DEF Next

\* Whatever clerks retry, leaders change and replicas crash, a replica's state and its
\* duplicate table are what the decided commands up to its index lead to.
THEOREM ReplicasStayEqual == Spec => []ReplicasAgree
  <1>1. KVInv => ReplicasAgree
    BY Zenon DEF KVInv, Replayed, ReplicasAgree
  <1> QED BY <1>1, InitiallyKVInv, NextKVInv, PTL DEF Spec

\* The service, its retries, leader changes, snapshots and restarts included, implements the
\* one atomic store of AtomicService: updates count once, and every call returns what the
\* store held at a moment between its call and its return.
THEOREM ServiceIsLinearizable == Spec => Linearizable
  BY InitiallyKVInv, NextKVInv, PTL DEF Spec, Linearizable, Store!Spec
=============================================================================
