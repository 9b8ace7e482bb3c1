-------------------------- MODULE ShardCtrlerProofs --------------------------
(***************************************************************************)
(* That the replicated shard controller implements one list of             *)
(* configurations, for any servers, clerks, calls, terms and restarts.     *)
(*                                                                         *)
(* The argument is that of KVRaftProofs, with timeouts in the place of     *)
(* snapshots: a replica's state is the one after the decided commands up   *)
(* to its index, and the duplicate table after all of them tells which     *)
(* requests are decided.  How a request changes the configuration plays no *)
(* part in it.                                                             *)
(***************************************************************************)
EXTENDS ShardCtrler, TLAPS

OpRecord == [ClientID : Client, RequestID : Nat, Args : Call]
Entry == [Command : OpRecord, Term : Nat]
Handler == [server : Server, index : Index, term : Nat, op : OpRecord]

\* What the command at index i of the decided log returned, to whoever asked for it.
Outcome(i) ==
    [Op |-> decided[i].Command,
     Config |-> Returned(replayed[i].configs, decided[i].Command.Args)]

\* The duplicate table after everything decided.
Table == replayed[Len(decided) + 1].lastAppliedReq

\* A request that a clerk has made.
Made(op) ==
    /\ op \in OpRecord
    /\ op.RequestID \in 1..requestSeq[op.ClientID]
    /\ op = Op(op.ClientID, op.RequestID)

\* The types of the group, the clerks and the servers, as far as the proofs need them.
GroupTypes ==
    /\ logs \in [Server -> Seq(Entry)]
    /\ leads \in [Server -> Nat]
    /\ newest \in Nat
    /\ decided \in Seq(Entry)

ClerkTypes ==
    /\ requestSeq \in [Client -> Nat]
    /\ pending \in [Client -> OpRecord \union {Nothing}]
    /\ waitsFor \in [Client -> Handler \union {Nothing}]
    /\ DOMAIN returned = Client /\ returned = [c \in Client |-> returned[c]]

ServerTypes ==
    /\ handlers \subseteq Handler
    /\ lastApplied \in [Server -> Nat]
    /\ DOMAIN machine = Server /\ DOMAIN notify = Server
    /\ \A s \in Server : DOMAIN notify[s] = Index

\* replayed has the states that the decided commands lead to.
ReplaySteps ==
    /\ \E S : replayed \in Seq(S)
    /\ Len(replayed) = Len(decided) + 1
    /\ replayed[1] = NoState
    /\ \A k \in 1..Len(decided) : replayed[k + 1] = Applied(replayed[k], decided[k].Command)

\* Replicas are as far as they say they are.
Replayed ==
    \A s \in Server :
        lastApplied[s] <= Len(decided) /\ machine[s] = replayed[lastApplied[s] + 1]

\* A result that waits for a handler is the outcome of the command at its index.
ResultsAreOutcomes ==
    \A s \in Server : \A i \in Index :
        notify[s][i] # Nothing => i <= Len(decided) /\ notify[s][i] = Outcome(i)

\* Logs hold what clerks have asked for; a clerk asks for its last request.
RequestsAreMade ==
    /\ \A s \in Server : \A i \in 1..Len(logs[s]) : Made(logs[s][i].Command)
    /\ \A i \in 1..Len(decided) : Made(decided[i].Command)
    /\ \A c \in Client : requestSeq[c] \in 0..Len(Script[c])
    /\ \A c \in Client : pending[c] # Nothing =>
          requestSeq[c] > 0 /\ pending[c] = Op(c, requestSeq[c])

\* The duplicate table after everything decided tells which updates are decided, and every
\* update that has returned is.
TableIsExact ==
    /\ Table \in [Client -> Nat]
    /\ \A c \in Client : Table[c] # 0 =>
          \E i \in 1..Len(decided) : decided[i].Command = Op(c, Table[c])
    /\ \A i \in 1..Len(decided) :
          LET op == decided[i].Command
          IN  op.Args.Type # "Query" => op.RequestID <= Table[op.ClientID]
    /\ \A c \in Client : \A n \in 1..requestSeq[c] :
          Op(c, n) # pending[c] /\ Op(c, n).Args.Type # "Query" => n <= Table[c]

\* The handler whose reply a clerk waits for has the clerk's request.
WaitsForItsOwn ==
    \A c \in Client : waitsFor[c] # Nothing => pending[c] = waitsFor[c].op

CtrlInv ==
    /\ GroupTypes /\ ClerkTypes /\ ServerTypes /\ ReplaySteps
    /\ Replayed /\ ResultsAreOutcomes /\ RequestsAreMade /\ TableIsExact /\ WaitsForItsOwn

-----------------------------------------------------------------------------
(* Steps that decide nothing. *)

\* The list of configurations sees what is decided, what clerks call for and what they were
\* given.
LEMMA Unseen ==
    ASSUME UNCHANGED <<decided, replayed, pending, returned>>
    PROVE  UNCHANGED Controller!vars
  BY Zenon DEF Controller!vars, Positions

\* What a step keeps that leaves the clerks and the log alone.
LEMMA ServerStep ==
    ASSUME CtrlInv, UNCHANGED <<logs, newest, decided, replayed, clerkVars>>,
           leads' \in [Server -> Nat], ServerTypes', Replayed', ResultsAreOutcomes'
    PROVE  CtrlInv' /\ UNCHANGED Controller!vars
  <1>1. GroupTypes' /\ ClerkTypes'
    BY Zenon DEF CtrlInv, GroupTypes, ClerkTypes, clerkVars
  <1>2. ReplaySteps'
    BY Zenon DEF CtrlInv, ReplaySteps
  <1>3. RequestsAreMade'
    BY Zenon DEF CtrlInv, RequestsAreMade, Made, clerkVars
  <1>4. TableIsExact'
    BY Zenon DEF CtrlInv, TableIsExact, Table, clerkVars
  <1>5. WaitsForItsOwn'
    BY Zenon DEF CtrlInv, WaitsForItsOwn, clerkVars
  <1>6. UNCHANGED Controller!vars
    BY Unseen, Zenon DEF clerkVars
  <1> QED BY <1>1, <1>2, <1>3, <1>4, <1>5, <1>6, Zenon DEF CtrlInv

\* A replica carries out the next decided command.
LEMMA ApplyStep ==
    ASSUME CtrlInv, NEW s \in Server, Apply(s)
    PROVE  CtrlInv' /\ UNCHANGED Controller!vars
  <1> DEFINE index == lastApplied[s] + 1
             op == decided[index].Command
             res == [Op |-> op, Config |-> Returned(machine[s].configs, op.Args)]
  <1>1. /\ lastApplied[s] \in Nat /\ Len(decided) \in Nat
        /\ machine[s] = replayed[index]
    BY SMTT(30) DEF CtrlInv, ServerTypes, GroupTypes, Replayed
  <1>2. index \in 1..Len(decided)
    BY <1>1, SMTT(30) DEF Apply
  <1>3. UNCHANGED <<groupVars, clerkVars, handlers, restarts, replayed>>
    BY Zenon DEF Apply
  <1>4. replayed[index + 1] = Applied(machine[s], op) /\ res = Outcome(index)
    BY <1>1, <1>2, Zenon DEF CtrlInv, ReplaySteps, Outcome
  <1>5. /\ lastApplied' = [lastApplied EXCEPT ![s] = index]
        /\ machine' = [machine EXCEPT ![s] = Applied(machine[s], op)]
        /\ notify' = [notify EXCEPT ![s][index] = res]
    BY Zenon DEF Apply
  <1> HIDE DEF index, op, res
  <1>6. \A k : Outcome(k)' = Outcome(k)
    BY <1>3, Zenon DEF Outcome, groupVars
  <1>7. ServerTypes'
    BY <1>2, <1>3, <1>5, SMTT(30) DEF CtrlInv, ServerTypes
  <1>8. Replayed'
    <2> SUFFICES ASSUME NEW r \in Server
                 PROVE  /\ lastApplied'[r] <= Len(decided)
                        /\ machine'[r] = replayed[lastApplied'[r] + 1]
      BY <1>3, Zenon DEF Replayed, groupVars
    <2>1. CASE r # s
      BY <1>5, <2>1, Zenon DEF CtrlInv, Replayed, ServerTypes
    <2>2. CASE r = s
      <3>1. lastApplied'[s] = index /\ machine'[s] = replayed[index + 1]
        BY <1>4, <1>5, Zenon DEF CtrlInv, ServerTypes
      <3> QED BY <1>2, <2>2, <3>1, SMTT(30)
    <2> QED BY <2>1, <2>2, Zenon
  <1>9. ResultsAreOutcomes'
    <2>1. ASSUME NEW r \in Server, NEW k \in Index, notify'[r][k] # Nothing
          PROVE  k <= Len(decided) /\ notify'[r][k] = Outcome(k)
      <3>1. CASE r = s /\ k = index
        BY <1>2, <1>4, <1>5, <3>1, SMTT(30) DEF CtrlInv, ServerTypes
      <3>2. CASE ~(r = s /\ k = index)
        <4>1. notify'[r][k] = notify[r][k]
          BY <1>5, <3>2, Zenon DEF CtrlInv, ServerTypes
        <4> QED BY <2>1, <4>1, Zenon DEF CtrlInv, ResultsAreOutcomes
      <3> QED BY <3>1, <3>2, Zenon
    <2> QED BY <1>3, <1>6, <2>1, Zenon DEF ResultsAreOutcomes, groupVars
  <1>10. leads' \in [Server -> Nat]
    BY <1>3, Zenon DEF CtrlInv, GroupTypes, groupVars
  <1> QED BY <1>3, <1>7, <1>8, <1>9, <1>10, ServerStep, Zenon DEF groupVars

\* A replica dies and comes back with the first configuration; its handlers are gone.
LEMMA RestartStep ==
    ASSUME CtrlInv, NEW s \in Server, Restart(s)
    PROVE  CtrlInv' /\ UNCHANGED Controller!vars
  <1>1. /\ UNCHANGED <<logs, newest, decided, replayed, clerkVars>>
        /\ leads' = [leads EXCEPT ![s] = 0] /\ handlers' \subseteq handlers
    BY Zenon DEF Restart
  <1>2. /\ machine' = [machine EXCEPT ![s] = NoState]
        /\ lastApplied' = [lastApplied EXCEPT ![s] = 0]
        /\ notify' = [notify EXCEPT ![s] = [i \in Index |-> Nothing]]
    BY Zenon DEF Restart
  <1>3. leads' \in [Server -> Nat]
    BY <1>1, Zenon DEF CtrlInv, GroupTypes
  <1>4. ServerTypes'
    <2>1. lastApplied' \in [Server -> Nat] /\ DOMAIN machine' = Server
      BY <1>2, Zenon DEF CtrlInv, ServerTypes
    <2>2. DOMAIN notify' = Server /\ \A r \in Server : DOMAIN notify'[r] = Index
      BY <1>2, Zenon DEF CtrlInv, ServerTypes
    <2> QED BY <1>1, <2>1, <2>2, Zenon DEF CtrlInv, ServerTypes
  <1>5. Replayed'
    <2>1. Len(decided) \in Nat /\ replayed[0 + 1] = NoState
      BY SMTT(30) DEF CtrlInv, GroupTypes, ReplaySteps
    <2> QED BY <1>1, <1>2, <2>1, SMTT(30) DEF CtrlInv, Replayed, ServerTypes
  <1>6. ResultsAreOutcomes'
    <2>1. \A r \in Server : \A k \in Index : notify'[r][k] \in {Nothing, notify[r][k]}
      BY <1>2, Zenon DEF CtrlInv, ServerTypes
    <2>2. \A k : Outcome(k)' = Outcome(k)
      BY <1>1, Zenon DEF Outcome
    <2> QED BY <1>1, <2>1, <2>2, Zenon DEF CtrlInv, ResultsAreOutcomes
  <1> QED BY <1>1, <1>3, <1>4, <1>5, <1>6, ServerStep, Zenon

-----------------------------------------------------------------------------
(* Steps of the clerks. *)

\* A request that a script asks for is one.
LEMMA OpIsRequest ==
    ASSUME NEW c \in Client, NEW n \in 1..Len(Script[c])
    PROVE  /\ Op(c, n) \in OpRecord /\ Op(c, n) # Nothing
           /\ Op(c, n).ClientID = c /\ Op(c, n).RequestID = n
  <1>1. Script[c] \in Seq(Call)
    BY ServiceAssumption, Zenon
  <1>2. Script[c][n] \in Call /\ n \in Nat
    BY <1>1, SMTT(30)
  <1>3. Op(c, n) \in OpRecord /\ Op(c, n).ClientID = c /\ Op(c, n).RequestID = n
    BY <1>2, Zenon DEF Op, OpRecord
  <1> QED BY <1>3, ServiceAssumption, Zenon DEF OpRecord

\* A request is new to everyone when a clerk makes it.
LEMMA InvokeStep ==
    ASSUME CtrlInv, NEW c \in Client, Invoke(c)
    PROVE  CtrlInv' /\ Controller!Next
  <1> DEFINE n == requestSeq[c] + 1
             r == Op(c, n)
  <1>1. /\ pending[c] = Nothing
        /\ pending' = [pending EXCEPT ![c] = r]
        /\ requestSeq' = [requestSeq EXCEPT ![c] = n]
        /\ UNCHANGED <<groupVars, waitsFor, returned, serverVars, restarts, replayed>>
    BY Zenon DEF Invoke
  <1>2. n \in Nat /\ n \in 1..Len(Script[c]) /\ requestSeq[c] \in Nat
    <2>1. Len(Script[c]) \in Nat
      BY ServiceAssumption, SMTT(30)
    <2> QED BY <2>1, SMTT(30) DEF Invoke, CtrlInv, RequestsAreMade, ClerkTypes
  <1>3. r \in OpRecord /\ r # Nothing /\ r.ClientID = c /\ r.RequestID = n
    BY <1>2, OpIsRequest, Zenon
  <1> HIDE DEF r
  <1>4. Table' = Table /\ \A i : Outcome(i)' = Outcome(i)
    BY <1>1, Zenon DEF Table, Outcome, groupVars
  <1>5. GroupTypes' /\ ClerkTypes' /\ ServerTypes' /\ ReplaySteps'
    BY <1>1, <1>2, <1>3, Zenon
    DEF CtrlInv, GroupTypes, ClerkTypes, ServerTypes, ReplaySteps, groupVars, serverVars
  <1>6. Replayed' /\ ResultsAreOutcomes'
    BY <1>1, <1>4, Zenon DEF CtrlInv, Replayed, ResultsAreOutcomes, groupVars, serverVars
  <1>7. \A op : Made(op) => Made(op)'
    BY <1>1, <1>2, SMTT(30) DEF Made, CtrlInv, ClerkTypes, OpRecord
  <1>8. RequestsAreMade'
    <2>1. (/\ \A s \in Server : \A i \in 1..Len(logs[s]) : Made(logs[s][i].Command)
           /\ \A i \in 1..Len(decided) : Made(decided[i].Command))'
      BY <1>1, <1>7, Zenon DEF CtrlInv, RequestsAreMade, groupVars
    <2>2. \A k \in Client : requestSeq'[k] \in 0..Len(Script[k])
      BY <1>1, <1>2, SMTT(30) DEF CtrlInv, RequestsAreMade, ClerkTypes
    <2>3. \A k \in Client : pending'[k] # Nothing =>
              requestSeq'[k] > 0 /\ pending'[k] = Op(k, requestSeq'[k])
      BY <1>1, <1>2, SMTT(30) DEF CtrlInv, RequestsAreMade, ClerkTypes, r
    <2> QED BY <2>1, <2>2, <2>3, Zenon DEF RequestsAreMade
  <1>9. TableIsExact'
    <2>1. ASSUME NEW k \in Client, NEW j \in 1..requestSeq'[k],
                 Op(k, j) # pending'[k], Op(k, j).Args.Type # "Query"
          PROVE  j <= Table[k]
      <3>1. CASE k # c
        BY <1>1, <2>1, <3>1, Zenon DEF CtrlInv, TableIsExact, ClerkTypes
      <3>2. CASE k = c
        <4>1. j \in 1..n /\ j # n
          BY <1>1, <1>2, <2>1, <3>2, Zenon DEF CtrlInv, ClerkTypes, r
        <4>2. j \in 1..requestSeq[c] /\ j \in 1..Len(Script[c])
          BY <1>2, <4>1, SMTT(30)
        <4>3. Op(c, j) # pending[c]
          BY <1>1, <4>2, OpIsRequest, Zenon
        <4> QED BY <2>1, <3>2, <4>2, <4>3, Zenon DEF CtrlInv, TableIsExact
      <3> QED BY <3>1, <3>2, Zenon
    <2> QED BY <1>1, <1>4, <2>1, Zenon DEF CtrlInv, TableIsExact, groupVars
  <1>10. WaitsForItsOwn'
    <2>1. waitsFor[c] = Nothing
      <3>1. waitsFor[c] \in Handler => waitsFor[c].op # Nothing
        BY ServiceAssumption, Zenon DEF Handler, OpRecord
      <3> QED BY <1>1, <3>1, Zenon DEF CtrlInv, WaitsForItsOwn, ClerkTypes
    <2> QED BY <1>1, <2>1, Zenon DEF CtrlInv, WaitsForItsOwn, ClerkTypes
  <1>11. Positions(c) = {} /\ Positions(c)' = {}
    <2>1. pending'[c] = r
      BY <1>1, Zenon DEF CtrlInv, ClerkTypes
    <2>2. ASSUME NEW i \in 1..Len(decided)
          PROVE  decided[i].Command # Nothing /\ decided[i].Command # r
      <3>1. Made(decided[i].Command)
        BY Zenon DEF CtrlInv, RequestsAreMade
      <3>2. decided[i].Command # Nothing
        BY <3>1, ServiceAssumption, Zenon DEF Made, OpRecord
      <3>3. decided[i].Command # r
        BY <1>2, <1>3, <3>1, SMTT(30) DEF Made
      <3> QED BY <3>2, <3>3, Zenon
    <2> QED BY <1>1, <2>1, <2>2, Zenon DEF Positions, groupVars
  <1>12. \A k \in Client : k # c => Positions(k)' = Positions(k) /\ pending'[k] = pending[k]
    BY <1>1, Zenon DEF Positions, CtrlInv, ClerkTypes, groupVars
  <1>13. Controller!Invoke(c, r)
    <2> DEFINE S(k) == {Returned(replayed[i].configs, pending[k].Args) : i \in Positions(k)}
    <2>1. [k \in Client |-> Positions(k) # {}]' =
              [[k \in Client |-> Positions(k) # {}] EXCEPT ![c] = FALSE]
      BY <1>11, <1>12, Zenon
    <2>2. [k \in Client |-> S(k)]' = [[k \in Client |-> S(k)] EXCEPT ![c] = {}]
      <3>1. S(c)' = {}
        BY <1>11, Zenon
      <3>2. \A k \in Client : k # c => S(k)' = S(k)
        BY <1>1, <1>12, Zenon
      <3> HIDE DEF S
      <3> QED BY <3>1, <3>2, Zenon
    <2> QED BY <1>1, <2>1, <2>2, Zenon DEF Controller!Invoke, groupVars
  <1>14. Controller!Next
    <2>1. r \in UNION {{Op(k, m) : m \in 1..Len(Script[k])} : k \in Client}
      BY <1>2, SMTT(30) DEF r
    <2> QED BY <1>13, <2>1, Zenon DEF Controller!Next
  <1> QED BY <1>5, <1>6, <1>8, <1>9, <1>10, <1>14, Zenon DEF CtrlInv

\* The clerk's call makes a leader append its request to its log.
LEMMA CallStep ==
    ASSUME CtrlInv, NEW c \in Client, NEW s \in Server, CallServer(c, s)
    PROVE  CtrlInv' /\ UNCHANGED Controller!vars
  <1> DEFINE h == [server |-> s, index |-> StartIndex(s), term |-> leads[s], op |-> pending[c]]
             e == [Command |-> pending[c], Term |-> leads[s]]
  <1>1. /\ pending[c] # Nothing /\ Len(logs[s]) < MaxIndex
        /\ logs' = [logs EXCEPT ![s] = Append(logs[s], e)]
        /\ UNCHANGED <<leads, newest, decided>>
        /\ handlers' = handlers \union {h}
        /\ waitsFor' = [waitsFor EXCEPT ![c] = h]
        /\ UNCHANGED <<requestSeq, pending, returned, machine, lastApplied, notify, replayed>>
    BY Zenon DEF CallServer, Start
  <1>2. /\ pending[c] \in OpRecord /\ leads[s] \in Nat /\ logs[s] \in Seq(Entry)
        /\ Len(logs[s]) \in Nat
    BY <1>1, SMTT(30) DEF CtrlInv, ClerkTypes, GroupTypes
  <1>3. StartIndex(s) \in Index
    BY <1>1, <1>2, GroupAssumption, SMTT(30) DEF StartIndex, Index
  <1>4. Made(pending[c])
    <2>1. requestSeq[c] \in 1..Len(Script[c]) /\ pending[c] = Op(c, requestSeq[c])
      <3>1. Len(Script[c]) \in Nat
        BY ServiceAssumption, SMTT(30)
      <3> QED BY <1>1, <3>1, SMTT(30) DEF CtrlInv, RequestsAreMade, ClerkTypes
    <2>2. pending[c].ClientID = c /\ pending[c].RequestID = requestSeq[c]
      BY <2>1, OpIsRequest, SMTT(30)
    <2> QED BY <1>2, <2>1, <2>2, SMTT(30) DEF Made
  <1>5. e \in Entry /\ e.Command = pending[c]
    BY <1>2, Zenon DEF Entry
  <1>6. h \in Handler /\ h.op = pending[c]
    BY <1>2, <1>3, Zenon DEF Handler
  <1> HIDE DEF h, e
  <1>7. Append(logs[s], e) \in Seq(Entry) /\ Len(Append(logs[s], e)) = Len(logs[s]) + 1
        /\ Append(logs[s], e)[Len(logs[s]) + 1] = e
        /\ \A k \in 1..Len(logs[s]) : Append(logs[s], e)[k] = logs[s][k]
    BY <1>2, <1>5, SMTT(30)
  <1>8. GroupTypes' /\ ClerkTypes' /\ ServerTypes' /\ ReplaySteps'
    <2>1. GroupTypes'
      BY <1>1, <1>7, Zenon DEF CtrlInv, GroupTypes
    <2>2. ClerkTypes'
      BY <1>1, <1>6, Zenon DEF CtrlInv, ClerkTypes
    <2>3. ServerTypes'
      BY <1>1, <1>6, Zenon DEF CtrlInv, ServerTypes
    <2>4. ReplaySteps'
      BY <1>1, Zenon DEF CtrlInv, ReplaySteps
    <2> QED BY <2>1, <2>2, <2>3, <2>4, Zenon
  <1>9. Table' = Table /\ \A k : Outcome(k)' = Outcome(k)
    BY <1>1, Zenon DEF Table, Outcome
  <1>10. Replayed' /\ ResultsAreOutcomes' /\ TableIsExact'
    BY <1>1, <1>9, Zenon DEF CtrlInv, Replayed, ResultsAreOutcomes, TableIsExact
  <1>11. RequestsAreMade'
    <2>1. \A op : Made(op)' <=> Made(op)
      BY <1>1, Zenon DEF Made
    <2>2. ASSUME NEW r \in Server, NEW k \in 1..Len(logs'[r])
          PROVE  Made(logs'[r][k].Command)
      <3>1. CASE r = s
        <4>1. logs'[s] = Append(logs[s], e)
          BY <1>1, Zenon DEF CtrlInv, GroupTypes
        <4>2. CASE k = Len(logs[s]) + 1
          BY <1>4, <1>5, <1>7, <3>1, <4>1, <4>2, Zenon
        <4>3. CASE k # Len(logs[s]) + 1
          <5>1. k \in 1..Len(logs[s])
            BY <1>2, <1>7, <2>2, <3>1, <4>1, <4>3, SMTT(30)
          <5> QED BY <1>7, <3>1, <4>1, <5>1, Zenon DEF CtrlInv, RequestsAreMade
        <4> QED BY <4>2, <4>3, Zenon
      <3>2. CASE r # s
        BY <1>1, <2>2, <3>2, Zenon DEF CtrlInv, RequestsAreMade, GroupTypes
      <3> QED BY <3>1, <3>2, Zenon
    <2> QED BY <1>1, <2>1, <2>2, Zenon DEF CtrlInv, RequestsAreMade
  <1>12. WaitsForItsOwn'
    BY <1>1, <1>6, Zenon DEF CtrlInv, WaitsForItsOwn, ClerkTypes
  <1>13. UNCHANGED Controller!vars
    BY <1>1, Unseen, Zenon
  <1> QED BY <1>8, <1>10, <1>11, <1>12, <1>13, Zenon DEF CtrlInv

-----------------------------------------------------------------------------
(* Handlers that return. *)

\* A handler that returns to the clerk that waits for it gives it what the command at the
\* handler's index returned, and only if that command is the clerk's.
LEMMA ReplyStep ==
    ASSUME CtrlInv, NEW h \in handlers, NEW ok \in BOOLEAN, NEW value,
           handlers' = handlers \ {h}, ReplyTo(h, ok, value),
           UNCHANGED <<groupVars, machine, lastApplied, restarts, replayed>>,
           DOMAIN notify' = Server, \A s \in Server : DOMAIN notify'[s] = Index,
           \A s \in Server : \A i \in Index : notify'[s][i] \in {Nothing, notify[s][i]},
           ok => /\ h.index \in 1..Len(decided) /\ decided[h.index].Command = h.op
                 /\ value = Outcome(h.index).Config
    PROVE  CtrlInv' /\ [Controller!Next]_(Controller!vars)
  <1> DEFINE c == h.op.ClientID
             waiting == waitsFor[c] = h
  <1>1. h \in Handler /\ h.op \in OpRecord /\ c \in Client
    BY Zenon DEF CtrlInv, ServerTypes, Handler, OpRecord
  <1>2. /\ waitsFor' = IF waiting THEN [waitsFor EXCEPT ![c] = Nothing] ELSE waitsFor
        /\ pending' = IF waiting /\ ok THEN [pending EXCEPT ![c] = Nothing] ELSE pending
        /\ returned' = IF waiting /\ ok THEN [returned EXCEPT ![c] = value] ELSE returned
        /\ UNCHANGED requestSeq
    BY Zenon DEF ReplyTo
  <1>3. h # Nothing /\ h.op # Nothing
    <2>1. Index \subseteq Nat
      BY SMTT(30) DEF Index
    <2> QED BY <1>1, <2>1, ServiceAssumption, Zenon DEF Handler, OpRecord
  <1>4. waiting => pending[c] = h.op
    BY <1>1, <1>3, Zenon DEF CtrlInv, WaitsForItsOwn
  <1>5. Table' = Table /\ \A i : Outcome(i)' = Outcome(i)
    BY Zenon DEF Table, Outcome, groupVars
  <1> HIDE DEF c, waiting
  <1>6. GroupTypes' /\ ClerkTypes' /\ ServerTypes' /\ ReplaySteps'
    <2>1. GroupTypes' /\ ReplaySteps'
      BY Zenon DEF CtrlInv, GroupTypes, ReplaySteps, groupVars
    <2>2. ClerkTypes'
      <3>1. waitsFor' \in [Client -> Handler \union {Nothing}]
        BY <1>1, <1>2, Zenon DEF CtrlInv, ClerkTypes
      <3>2. pending' \in [Client -> OpRecord \union {Nothing}]
        BY <1>1, <1>2, Zenon DEF CtrlInv, ClerkTypes
      <3>3. DOMAIN returned' = Client /\ returned' = [k \in Client |-> returned'[k]]
        BY <1>1, <1>2, Zenon DEF CtrlInv, ClerkTypes
      <3> QED BY <1>2, <3>1, <3>2, <3>3, Zenon DEF CtrlInv, ClerkTypes
    <2>3. ServerTypes'
      BY Zenon DEF CtrlInv, ServerTypes
    <2> QED BY <2>1, <2>2, <2>3, Zenon
  <1>7. Replayed' /\ ResultsAreOutcomes'
    BY <1>5, SMTT(30) DEF CtrlInv, Replayed, ResultsAreOutcomes, groupVars
  <1>8. \A k \in Client : pending'[k] = pending[k] \/ pending'[k] = Nothing
    BY <1>1, <1>2, Zenon DEF CtrlInv, ClerkTypes
  <1>9. RequestsAreMade'
    BY <1>2, <1>8, Zenon DEF CtrlInv, RequestsAreMade, Made, groupVars
  <1>10. TableIsExact'
    <2>1. ASSUME NEW k \in Client, NEW n \in 1..requestSeq[k],
                 Op(k, n) # pending'[k], Op(k, n).Args.Type # "Query"
          PROVE  n <= Table[k]
      <3>1. CASE Op(k, n) # pending[k]
        BY <2>1, <3>1, Zenon DEF CtrlInv, TableIsExact
      <3>2. CASE Op(k, n) = pending[k]
        <4>1. k = c /\ waiting /\ ok
          BY <1>1, <1>2, <2>1, <3>2, Zenon DEF CtrlInv, ClerkTypes
        <4>2. h.op = Op(k, n) /\ decided[h.index].Command = Op(k, n)
              /\ h.index \in 1..Len(decided)
          BY <1>4, <3>2, <4>1, Zenon
        <4>3. Op(k, n).RequestID <= Table[Op(k, n).ClientID]
          BY <2>1, <4>2, Zenon DEF CtrlInv, TableIsExact
        <4> QED BY <4>3, Zenon DEF Op
      <3> QED BY <3>1, <3>2, Zenon
    <2> QED BY <1>2, <1>5, <2>1, Zenon DEF CtrlInv, TableIsExact, groupVars
  <1>11. WaitsForItsOwn'
    BY <1>1, <1>2, Zenon DEF CtrlInv, WaitsForItsOwn, ClerkTypes
  <1>12. CtrlInv'
    BY <1>6, <1>7, <1>9, <1>10, <1>11, Zenon DEF CtrlInv
  <1>13. CASE waiting /\ ok
    <2> DEFINE S(k) == {Returned(replayed[i].configs, pending[k].Args) : i \in Positions(k)}
    <2>1. /\ pending' = [pending EXCEPT ![c] = Nothing]
          /\ returned' = [returned EXCEPT ![c] = value]
          /\ pending[c] = h.op
      BY <1>2, <1>4, <1>13, Zenon
    <2>2. h.index \in Positions(c)
      BY <1>13, <2>1, Zenon DEF Positions
    <2>3. value = Returned(replayed[h.index].configs, pending[c].Args)
      BY <1>13, <2>1, Zenon DEF Outcome
    <2>4. Positions(c)' = {}
      <3>1. \A i \in 1..Len(decided) : decided[i].Command # Nothing
        BY ServiceAssumption, Zenon DEF CtrlInv, RequestsAreMade, Made, OpRecord
      <3>2. pending'[c] = Nothing
        BY <1>1, <2>1, Zenon DEF CtrlInv, ClerkTypes
      <3> QED BY <3>1, <3>2, Zenon DEF Positions, groupVars
    <2>5. \A k \in Client : k # c => Positions(k)' = Positions(k) /\ pending'[k] = pending[k]
      BY <2>1, Zenon DEF Positions, CtrlInv, ClerkTypes, groupVars
    <2>6. [k \in Client |-> Positions(k) # {}]' =
              [[k \in Client |-> Positions(k) # {}] EXCEPT ![c] = FALSE]
      BY <2>4, <2>5, Zenon
    <2>7. [k \in Client |-> S(k)]' = [[k \in Client |-> S(k)] EXCEPT ![c] = {}]
      <3>1. S(c)' = {}
        BY <2>4, Zenon
      <3>2. \A k \in Client : k # c => S(k)' = S(k)
        BY <2>5, Zenon
      <3> HIDE DEF S
      <3> QED BY <3>1, <3>2, Zenon
    <2>8. value \in [k \in Client |-> S(k)][c]
      BY <1>1, <2>2, <2>3, Zenon
    <2>9. Controller!Return(c, value)
      BY <1>3, <2>1, <2>6, <2>7, <2>8, Zenon DEF Controller!Return, groupVars
    <2>10. Controller!Next
      BY <1>1, <2>8, <2>9, Zenon DEF Controller!Next
    <2> QED BY <1>12, <2>10, Zenon
  <1>14. CASE ~ (waiting /\ ok)
    <2>1. UNCHANGED <<decided, replayed, pending, returned>>
      BY <1>2, <1>14, Zenon DEF groupVars
    <2> QED BY <1>12, <2>1, Unseen, Zenon
  <1> QED BY <1>13, <1>14, Zenon

\* A handler finds a result in its channel.
LEMMA ResultStep ==
    ASSUME CtrlInv, NEW h \in handlers, TakeResult(h)
    PROVE  CtrlInv' /\ [Controller!Next]_(Controller!vars)
  <1> DEFINE res == notify[h.server][h.index]
  <1>1. /\ res # Nothing
        /\ notify' = [notify EXCEPT ![h.server][h.index] = Nothing]
        /\ handlers' = handlers \ {h}
        /\ ReplyTo(h, SameRequest(res, h), res.Config)
        /\ UNCHANGED <<groupVars, machine, lastApplied, restarts, replayed>>
    BY Zenon DEF TakeResult
  <1>2. h.server \in Server /\ h.index \in Index
    BY Zenon DEF CtrlInv, ServerTypes, Handler
  <1>3. h.index \in 1..Len(decided) /\ res = Outcome(h.index)
    BY <1>1, <1>2, SMTT(30) DEF CtrlInv, ResultsAreOutcomes, Index, GroupTypes
  <1>4. DOMAIN notify' = Server /\ \A s \in Server : DOMAIN notify'[s] = Index
    BY <1>1, <1>2, Zenon DEF CtrlInv, ServerTypes
  <1>5. \A s \in Server : \A i \in Index : notify'[s][i] \in {Nothing, notify[s][i]}
    BY <1>1, <1>2, Zenon DEF CtrlInv, ServerTypes
  <1>6. SameRequest(res, h) \in BOOLEAN
    BY Zenon DEF SameRequest
  <1>7. SameRequest(res, h) => decided[h.index].Command = h.op
    BY <1>3, SMTT(30) DEF SameRequest, Outcome
  <1> QED BY <1>1, <1>3, <1>4, <1>5, <1>6, <1>7, ReplyStep, SMTT(30)

\* A handler gives up.
LEMMA TimeoutStep ==
    ASSUME CtrlInv, NEW h \in handlers, Timeout(h)
    PROVE  CtrlInv' /\ [Controller!Next]_(Controller!vars)
  <1>1. /\ handlers' = handlers \ {h} /\ ReplyTo(h, FALSE, Nothing)
        /\ UNCHANGED <<groupVars, machine, lastApplied, notify, restarts, replayed>>
    BY Zenon DEF Timeout
  <1>2. /\ DOMAIN notify' = Server /\ \A s \in Server : DOMAIN notify'[s] = Index
        /\ \A s \in Server : \A i \in Index : notify'[s][i] \in {Nothing, notify[s][i]}
    BY <1>1, Zenon DEF CtrlInv, ServerTypes
  <1> QED BY <1>1, <1>2, ReplyStep, Zenon

-----------------------------------------------------------------------------
(* Steps of Raft. *)

\* What a step keeps that only moves logs and leaders.
LEMMA GroupStep ==
    ASSUME CtrlInv, UNCHANGED <<decided, replayed, clerkVars, serverVars>>, GroupTypes',
           \A s \in Server : \A i \in 1..Len(logs'[s]) :
               \E r \in Server : \E k \in 1..Len(logs[r]) : logs'[s][i] = logs[r][k]
    PROVE  CtrlInv' /\ UNCHANGED Controller!vars
  <1>1. ClerkTypes' /\ ServerTypes' /\ ReplaySteps' /\ WaitsForItsOwn'
    BY Zenon
      DEF CtrlInv, ClerkTypes, ServerTypes, ReplaySteps, WaitsForItsOwn, clerkVars, serverVars
  <1>2. Table' = Table /\ \A i : Outcome(i)' = Outcome(i)
    BY Zenon DEF Table, Outcome
  <1>3. Replayed' /\ ResultsAreOutcomes' /\ TableIsExact'
    BY <1>2, Zenon DEF CtrlInv, Replayed, ResultsAreOutcomes, TableIsExact, clerkVars, serverVars
  <1>4. RequestsAreMade'
    <2>1. \A op : Made(op)' <=> Made(op)
      BY Zenon DEF Made, clerkVars
    <2>2. \A s \in Server : \A i \in 1..Len(logs'[s]) : Made(logs'[s][i].Command)
      BY Zenon DEF CtrlInv, RequestsAreMade
    <2> QED BY <2>1, <2>2, Zenon DEF CtrlInv, RequestsAreMade, clerkVars
  <1>5. UNCHANGED Controller!vars
    BY Unseen, Zenon DEF clerkVars
  <1> QED BY <1>1, <1>3, <1>4, <1>5, Zenon DEF CtrlInv

\* A server wins an election, or hears of a newer leader.
LEMMA LeadStep ==
    ASSUME CtrlInv, NEW s \in Server, Lead(s) \/ StepDown(s),
           UNCHANGED <<replayed, clerkVars, serverVars>>
    PROVE  CtrlInv' /\ UNCHANGED Controller!vars
  <1>1. UNCHANGED <<logs, decided>>
    BY Zenon DEF Lead, StepDown
  <1>2. GroupTypes'
    <2>1. CASE Lead(s)
      BY <2>1, SMTT(30) DEF CtrlInv, GroupTypes, Lead
    <2>2. CASE StepDown(s)
      BY <2>2, Zenon DEF CtrlInv, GroupTypes, StepDown
    <2> QED BY <2>1, <2>2, Zenon
  <1> QED BY <1>1, <1>2, GroupStep, Zenon

\* A server takes over the leader's entries.
LEMMA FollowStep ==
    ASSUME CtrlInv, NEW s \in Server, NEW l \in Server, NEW n \in 1..MaxIndex, Follow(s, l, n),
           UNCHANGED <<replayed, clerkVars, serverVars>>
    PROVE  CtrlInv' /\ UNCHANGED Controller!vars
  <1> DEFINE new == SubSeq(logs[l], 1, n)
  <1>1. /\ logs' = [logs EXCEPT ![s] = new] /\ leads' = [leads EXCEPT ![s] = 0]
        /\ UNCHANGED <<newest, decided>> /\ n <= Len(logs[l])
    BY Zenon DEF Follow
  <1>2. n \in Nat /\ logs[l] \in Seq(Entry)
    BY GroupAssumption, SMTT(30) DEF CtrlInv, GroupTypes
  <1>3. new \in Seq(Entry) /\ Len(new) = n /\ \A i \in 1..n : new[i] = logs[l][i]
    BY <1>1, <1>2, SMTT(30)
  <1> HIDE DEF new
  <1>4. GroupTypes'
    BY <1>1, <1>3, Zenon DEF CtrlInv, GroupTypes
  <1>5. ASSUME NEW r \in Server, NEW i \in 1..Len(logs'[r])
        PROVE  \E q \in Server : \E k \in 1..Len(logs[q]) : logs'[r][i] = logs[q][k]
    <2>1. CASE r = s
      <3>1. logs'[s] = new /\ i \in 1..n
        BY <1>1, <1>3, <2>1, Zenon DEF CtrlInv, GroupTypes
      <3>2. i \in 1..Len(logs[l]) /\ logs'[r][i] = logs[l][i]
        BY <1>1, <1>2, <1>3, <2>1, <3>1, SMTT(30)
      <3> QED BY <3>2, Zenon
    <2>2. CASE r # s
      <3>1. logs'[r] = logs[r]
        BY <1>1, <2>2, Zenon DEF CtrlInv, GroupTypes
      <3> QED BY <3>1, Zenon
    <2> QED BY <2>1, <2>2, Zenon
  <1> QED BY <1>1, <1>4, <1>5, GroupStep, Zenon

-----------------------------------------------------------------------------
(* The step that decides. *)

\* What a decided command adds: its state, its outcome and its position.
LEMMA Decided ==
    ASSUME CtrlInv, NEW e \in Entry, decided' = Append(decided, e), UNCHANGED pending,
           replayed' = Append(replayed, Applied(replayed[Len(replayed)],
                                                decided'[Len(decided')].Command))
    PROVE  /\ Len(decided') = Len(decided) + 1 /\ decided'[Len(decided) + 1] = e
           /\ \A k \in 1..Len(decided) : decided'[k] = decided[k]
           /\ Len(replayed) = Len(decided) + 1 /\ Len(replayed') = Len(decided') + 1
           /\ \A k \in 1..(Len(decided) + 1) : replayed'[k] = replayed[k]
           /\ replayed'[Len(decided') + 1] = Applied(replayed[Len(decided) + 1], e.Command)
           /\ \A k \in 1..Len(decided) : Outcome(k)' = Outcome(k)
           /\ \A c \in Client : Positions(c)' =
                 IF pending[c] = e.Command THEN Positions(c) \union {Len(decided) + 1}
                 ELSE Positions(c)
           /\ decided' \in Seq(Entry) /\ ReplaySteps'
  <1>1. /\ decided \in Seq(Entry) /\ Len(decided) \in Nat
        /\ Len(replayed) = Len(decided) + 1
    BY SMTT(30) DEF CtrlInv, GroupTypes, ReplaySteps
  <1>2. /\ Len(decided') = Len(decided) + 1 /\ decided'[Len(decided) + 1] = e
        /\ \A k \in 1..Len(decided) : decided'[k] = decided[k]
        /\ decided' \in Seq(Entry)
    BY <1>1, SMTT(30)
  <1> DEFINE new == Applied(replayed[Len(decided) + 1], e.Command)
  <1>3. replayed' = Append(replayed, new)
    BY <1>1, <1>2, Zenon
  <1>4. PICK S : replayed \in Seq(S)
    BY Zenon DEF CtrlInv, ReplaySteps
  <1> HIDE DEF new
  <1>5. /\ Len(replayed') = Len(replayed) + 1 /\ replayed'[Len(replayed) + 1] = new
        /\ \A k \in 1..Len(replayed) : replayed'[k] = replayed[k]
        /\ replayed' \in Seq(S \union {new})
    <2>1. replayed \in Seq(S \union {new})
      BY <1>4, SMTT(30)
    <2> QED BY <1>3, <2>1, SMTT(30)
  <1>6. ASSUME NEW k \in 1..Len(decided) PROVE Outcome(k)' = Outcome(k)
    <2>1. k \in 1..Len(replayed)
      BY <1>1, SMTT(30)
    <2> QED BY <1>2, <1>5, <2>1, Zenon DEF Outcome
  <1>7. ASSUME NEW c \in Client
        PROVE  Positions(c)' = IF pending[c] = e.Command
                               THEN Positions(c) \union {Len(decided) + 1} ELSE Positions(c)
    <2>1. 1..Len(decided') = (1..Len(decided)) \union {Len(decided) + 1}
      BY <1>1, <1>2, SMTT(30)
    <2> QED BY <1>2, <2>1, Zenon DEF Positions
  <1>8. ReplaySteps'
    <2>1. Len(replayed') = Len(decided') + 1 /\ replayed'[1] = NoState
      BY <1>1, <1>2, <1>5, SMTT(30) DEF CtrlInv, ReplaySteps
    <2>2. ASSUME NEW k \in 1..Len(decided')
          PROVE  replayed'[k + 1] = Applied(replayed'[k], decided'[k].Command)
      <3>1. CASE k \in 1..Len(decided)
        <4>1. k \in 1..Len(replayed) /\ k + 1 \in 1..Len(replayed)
          BY <1>1, <3>1, SMTT(30)
        <4>2. replayed[k + 1] = Applied(replayed[k], decided[k].Command)
          BY <3>1, Zenon DEF CtrlInv, ReplaySteps
        <4> QED BY <1>2, <1>5, <3>1, <4>1, <4>2, Zenon
      <3>2. CASE k = Len(decided) + 1
        BY <1>1, <1>2, <1>5, <3>2, Zenon DEF new
      <3> QED BY <1>1, <1>2, <3>1, <3>2, SMTT(30)
    <2> QED BY <1>5, <2>1, <2>2, Zenon DEF ReplaySteps
  <1> QED BY <1>1, <1>2, <1>5, <1>6, <1>7, <1>8, Zenon DEF new

\* The duplicate table lets an update through exactly when it is the first time that it is
\* decided, and that is while its clerk waits for it.
LEMMA FirstTime ==
    ASSUME CtrlInv, NEW op, Made(op), op.Args.Type # "Query"
    PROVE  /\ op.ClientID \in Client /\ op.RequestID \in Nat /\ Table \in [Client -> Nat]
           /\ pending[op.ClientID] # op => op.RequestID <= Table[op.ClientID]
           /\ pending[op.ClientID] = op =>
                 (op.RequestID <= Table[op.ClientID] <=> Positions(op.ClientID) # {})
  <1> DEFINE c == op.ClientID
             n == op.RequestID
  <1>1. c \in Client /\ n \in Nat /\ n \in 1..requestSeq[c] /\ op = Op(c, n)
    BY Zenon DEF Made, OpRecord
  <1>2. Table \in [Client -> Nat]
    BY Zenon DEF CtrlInv, TableIsExact
  <1>3. pending[c] # op => n <= Table[c]
    BY <1>1, Zenon DEF CtrlInv, TableIsExact
  <1>4. ASSUME pending[c] = op, Positions(c) # {}
        PROVE  n <= Table[c]
    <2>1. PICK i \in 1..Len(decided) : decided[i].Command = op
      BY <1>4, Zenon DEF Positions
    <2> QED BY <2>1, Zenon DEF CtrlInv, TableIsExact
  <1>5. ASSUME pending[c] = op, n <= Table[c]
        PROVE  Positions(c) # {}
    <2>1. Table[c] \in Nat /\ Table[c] # 0
      BY <1>1, <1>2, <1>5, SMTT(30)
    <2>2. PICK i \in 1..Len(decided) : decided[i].Command = Op(c, Table[c])
      BY <1>1, <2>1, Zenon DEF CtrlInv, TableIsExact
    <2>3. Table[c] \in 1..requestSeq[c]
      BY <2>2, SMTT(30) DEF CtrlInv, RequestsAreMade, Made, Op
    <2>4. op # Nothing
      BY ServiceAssumption, Zenon DEF Made, OpRecord
    <2>5. op = Op(c, requestSeq[c])
      BY <1>1, <1>5, <2>4, Zenon DEF CtrlInv, RequestsAreMade
    <2>6. n = requestSeq[c] /\ requestSeq[c] \in Nat
      BY <1>1, <2>5, SMTT(30) DEF Op, CtrlInv, ClerkTypes
    <2>7. Table[c] = n
      BY <1>1, <1>5, <2>1, <2>3, <2>6, SMTT(30)
    <2> QED BY <1>1, <1>5, <2>2, <2>7, Zenon DEF Positions
  <1> QED BY <1>1, <1>2, <1>3, <1>4, <1>5, Zenon

\* The controller's side of a decided command: it is carried out where it is decided for the
\* first time, a Query each time that it is decided while its clerk waits.
LEMMA DecideIsExecute ==
    ASSUME CtrlInv, NEW e \in Entry, Made(e.Command), decided' = Append(decided, e),
           UNCHANGED <<pending, returned>>,
           replayed' = Append(replayed, Applied(replayed[Len(replayed)],
                                                decided'[Len(decided')].Command))
    PROVE  [Controller!Next]_(Controller!vars)
  <1> DEFINE op == e.Command
             c == op.ClientID
             last == Len(decided) + 1
             m == replayed[Len(decided) + 1]
             S(k) == {Returned(replayed[i].configs, pending[k].Args) : i \in Positions(k)}
             answer == Returned(m.configs, op.Args)
  <1>1. op \in OpRecord /\ c \in Client /\ op # Nothing
    BY ServiceAssumption, Zenon DEF Made, OpRecord
  <1>2. /\ replayed'[Len(replayed')] = Applied(m, op) /\ replayed[Len(replayed)] = m
        /\ \A k \in Client : Positions(k)' =
              IF pending[k] = op THEN Positions(k) \union {last} ELSE Positions(k)
    BY Decided, Zenon
  <1>3. Len(decided) \in Nat /\ \A k \in 1..(Len(decided) + 1) : replayed'[k] = replayed[k]
    <2>1. Len(decided) \in Nat
      BY SMTT(30) DEF CtrlInv, GroupTypes
    <2> QED BY <2>1, Decided, Zenon
  <1>4. \A k \in Client : pending[k] = op => k = c
    <2> SUFFICES ASSUME NEW k \in Client, pending[k] = op PROVE k = c
      BY Zenon
    <2>1. pending[k] = Op(k, requestSeq[k])
      BY <1>1, Zenon DEF CtrlInv, RequestsAreMade
    <2> QED BY <2>1, SMTT(30) DEF Op
  <1>5. \A k \in Client : S(k)' = S(k) \union IF pending[k] = op THEN {answer} ELSE {}
    <2> SUFFICES ASSUME NEW k \in Client
                 PROVE  S(k)' = S(k) \union IF pending[k] = op THEN {answer} ELSE {}
      BY Zenon
    <2>1. \A i \in Positions(k) : replayed'[i] = replayed[i]
      <3>1. Positions(k) \subseteq 1..(Len(decided) + 1)
        BY <1>3, SMTT(30) DEF Positions
      <3> QED BY <1>3, <3>1, Zenon
    <2>2. replayed'[last] = m
      <3>1. last \in 1..(Len(decided) + 1)
        BY <1>3, SMTT(30)
      <3> QED BY <1>3, <3>1, Zenon
    <2>3. {Returned(replayed'[i].configs, pending[k].Args) : i \in Positions(k)} = S(k)
      BY <2>1, Zenon
    <2>4. S(k)' = {Returned(replayed'[i].configs, pending[k].Args) : i \in Positions(k)'}
      BY Zenon
    <2>5. CASE pending[k] # op
      BY <1>2, <2>3, <2>4, <2>5, Zenon
    <2>6. CASE pending[k] = op
      <3>1. Positions(k)' = Positions(k) \union {last}
        BY <1>2, <2>6, Zenon
      <3>2. S(k)' = {Returned(replayed'[i].configs, pending[k].Args) : i \in Positions(k)}
                        \union {Returned(replayed'[last].configs, pending[k].Args)}
        BY <2>4, <3>1, Zenon
      <3> QED BY <2>2, <2>3, <2>6, <3>2, Zenon
    <2> QED BY <2>5, <2>6, Zenon
  <1>6. op.Args.Type # "Query" => (isDuplicate(m, op) <=> op.RequestID <= Table[c])
    BY Zenon DEF isDuplicate, Table
  <1> HIDE DEF S, m, answer
  <1>7. CASE pending[c] = op /\ (op.Args.Type = "Query" \/ Positions(c) = {})
    <2>1. Applied(m, op).configs = Extended(m.configs, op.Args)
      <3>1. CASE op.Args.Type = "Query"
        BY <3>1, Zenon DEF Applied, Extended
      <3>2. CASE op.Args.Type # "Query"
        <4>1. ~ isDuplicate(m, op)
          BY <1>6, <1>7, <3>2, FirstTime, Zenon
        <4> QED BY <3>2, <4>1, Zenon DEF Applied
      <3> QED BY <3>1, <3>2, Zenon
    <2>2. [k \in Client |-> Positions(k) # {}]' =
              [[k \in Client |-> Positions(k) # {}] EXCEPT ![c] = TRUE]
      BY <1>1, <1>2, <1>4, <1>7, Zenon
    <2>3. [k \in Client |-> S(k)]' =
              [[k \in Client |-> S(k)] EXCEPT ![c] = S(c) \union {answer}]
      <3>1. S(c)' = S(c) \union {answer}
        BY <1>1, <1>5, <1>7, Zenon
      <3>2. \A k \in Client : k # c => S(k)' = S(k)
        BY <1>4, <1>5, Zenon
      <3> QED BY <1>1, <3>1, <3>2, Zenon
    <2>4. Controller!Execute(c)
      BY <1>1, <1>2, <1>7, <2>1, <2>2, <2>3, Zenon DEF Controller!Execute, S, answer
    <2> QED BY <1>1, <2>4, Zenon DEF Controller!Next
  <1>8. CASE ~ (pending[c] = op /\ (op.Args.Type = "Query" \/ Positions(c) = {}))
    <2>1. Applied(m, op) = m
      <3>1. CASE op.Args.Type = "Query"
        BY <3>1, Zenon DEF Applied
      <3>2. CASE op.Args.Type # "Query"
        <4>1. isDuplicate(m, op)
          BY <1>6, <1>8, <3>2, FirstTime, Zenon
        <4> QED BY <4>1, Zenon DEF Applied
      <3> QED BY <3>1, <3>2, Zenon
    <2>2. [k \in Client |-> Positions(k) # {}]' = [k \in Client |-> Positions(k) # {}]
      BY <1>1, <1>2, <1>4, <1>8, Zenon
    <2>3. pending[c] = op => answer \in S(c)
      <3> SUFFICES ASSUME pending[c] = op PROVE answer \in S(c)
        BY Zenon
      <3>1. PICK i \in Positions(c) : TRUE
        BY <1>8, Zenon
      <3>2. Returned(replayed[i].configs, op.Args) = answer
        BY <1>8, Zenon DEF Returned, answer
      <3> QED BY <3>1, <3>2, Zenon DEF S
    <2>4. [k \in Client |-> S(k)]' = [k \in Client |-> S(k)]
      <3>1. ASSUME NEW k \in Client PROVE S(k)' = S(k)
        <4>1. CASE pending[k] = op
          <5>1. k = c /\ S(k)' = S(k) \union {answer}
            BY <1>4, <1>5, <4>1, Zenon
          <5> QED BY <2>3, <4>1, <5>1, Zenon
        <4>2. CASE pending[k] # op
          BY <1>5, <4>2, Zenon
        <4> QED BY <4>1, <4>2, Zenon
      <3> QED BY <3>1, Zenon
    <2> QED BY <1>2, <2>1, <2>2, <2>4, Zenon DEF Controller!vars, S
  <1> QED BY <1>7, <1>8, Zenon

\* The newest leader's next entry is decided.
LEMMA DecideStep ==
    ASSUME CtrlInv, NEW s \in Server, Decide(s), UNCHANGED <<clerkVars, serverVars>>,
           replayed' = Append(replayed, Applied(replayed[Len(replayed)],
                                                decided'[Len(decided')].Command))
    PROVE  CtrlInv' /\ [Controller!Next]_(Controller!vars)
  <1> DEFINE last == Len(decided) + 1
             e == logs[s][last]
             op == e.Command
             c == op.ClientID
             m == replayed[Len(decided) + 1]
  <1>1. /\ decided' = Append(decided, e) /\ UNCHANGED <<logs, leads, newest>>
        /\ UNCHANGED <<requestSeq, pending, waitsFor, returned>>
        /\ Len(decided) < Len(logs[s])
    BY Zenon DEF Decide, clerkVars
  <1>2. /\ logs[s] \in Seq(Entry) /\ Len(decided) \in Nat
        /\ last \in 1..Len(logs[s])
    BY <1>1, SMTT(30) DEF CtrlInv, GroupTypes
  <1>3. e \in Entry /\ Made(op) /\ op \in OpRecord
    BY <1>2, SMTT(30) DEF CtrlInv, RequestsAreMade, Made
  <1> HIDE DEF e
  <1>4. /\ Len(decided') = last /\ decided'[last] = e
        /\ \A k \in 1..Len(decided) : decided'[k] = decided[k]
        /\ \A k \in 1..(Len(decided) + 1) : replayed'[k] = replayed[k]
        /\ replayed'[Len(decided') + 1] = Applied(m, op)
        /\ \A k \in 1..Len(decided) : Outcome(k)' = Outcome(k)
        /\ decided' \in Seq(Entry) /\ ReplaySteps'
    BY <1>1, <1>3, Decided, Zenon
  <1>5. [Controller!Next]_(Controller!vars)
    BY <1>1, <1>3, DecideIsExecute, Zenon
  <1>6. GroupTypes' /\ ClerkTypes' /\ ServerTypes' /\ WaitsForItsOwn'
    BY <1>1, <1>4, Zenon
    DEF CtrlInv, GroupTypes, ClerkTypes, ServerTypes, WaitsForItsOwn, serverVars
  <1>7. Replayed'
    <2> SUFFICES ASSUME NEW r \in Server
                 PROVE  /\ lastApplied[r] <= Len(decided')
                        /\ machine[r] = replayed'[lastApplied[r] + 1]
      BY Zenon DEF Replayed, serverVars
    <2>1. lastApplied[r] \in 0..Len(decided)
      BY <1>2, SMTT(30) DEF CtrlInv, Replayed, ServerTypes
    <2>2. lastApplied[r] + 1 \in 1..(Len(decided) + 1)
      BY <1>2, <2>1, SMTT(30)
    <2>3. lastApplied[r] <= Len(decided')
      BY <1>2, <1>4, <2>1, SMTT(30)
    <2>4. machine[r] = replayed[lastApplied[r] + 1]
      BY Zenon DEF CtrlInv, Replayed
    <2> QED BY <1>4, <2>2, <2>3, <2>4, Zenon
  <1>8. ResultsAreOutcomes'
    <2>1. ASSUME NEW r \in Server, NEW k \in Index, notify[r][k] # Nothing
          PROVE  k <= Len(decided') /\ notify[r][k] = Outcome(k)'
      <3>1. k \in 1..Len(decided) /\ notify[r][k] = Outcome(k)
        BY <1>2, <2>1, SMTT(30) DEF CtrlInv, ResultsAreOutcomes, Index
      <3> QED BY <1>2, <1>4, <3>1, SMTT(30)
    <2> QED BY <2>1, Zenon DEF ResultsAreOutcomes, serverVars
  <1>9. \A k \in 1..last : k \in 1..Len(decided) \/ k = last
    BY <1>2, SMTT(30)
  <1>10. RequestsAreMade'
    <2>1. \A o : Made(o)' <=> Made(o)
      BY <1>1, Zenon DEF Made
    <2>2. \A k \in 1..Len(decided') : Made(decided'[k].Command)
      BY <1>3, <1>4, <1>9, Zenon DEF CtrlInv, RequestsAreMade
    <2> QED BY <1>1, <2>1, <2>2, Zenon DEF CtrlInv, RequestsAreMade
  <1>11. TableIsExact'
    <2>1. Table' = Applied(m, op).lastAppliedReq /\ Table = m.lastAppliedReq
      BY <1>4, Zenon DEF Table
    <2>2. /\ c \in Client /\ op.RequestID \in Nat
          /\ Table \in [Client -> Nat] /\ op = Op(c, op.RequestID)
      BY <1>3, Zenon DEF Made, OpRecord, CtrlInv, TableIsExact
    <2>3. \/ Table' = Table /\ (op.Args.Type # "Query" => op.RequestID <= Table[c])
          \/ /\ Table' = [Table EXCEPT ![c] = op.RequestID]
             /\ op.RequestID > Table[c]
      <3>1. CASE op.Args.Type = "Query" \/ isDuplicate(m, op)
        BY <2>1, <2>2, <3>1, Zenon DEF Applied, isDuplicate
      <3>2. CASE ~ (op.Args.Type = "Query" \/ isDuplicate(m, op))
        BY <2>1, <2>2, <3>2, SMTT(30) DEF Applied, isDuplicate
      <3> QED BY <3>1, <3>2, Zenon
    <2> HIDE DEF op, c
    <2>4. Table' \in [Client -> Nat] /\ \A k \in Client : Table[k] <= Table'[k]
      <3>1. CASE Table' = Table
        BY <2>2, <3>1, SMTT(30)
      <3>2. CASE Table' = [Table EXCEPT ![c] = op.RequestID] /\ op.RequestID > Table[c]
        BY <2>2, <3>2, SMTT(30)
      <3> QED BY <2>3, <3>1, <3>2, Zenon
    <2>5. ASSUME NEW k \in Client, Table'[k] # 0
          PROVE  \E i \in 1..Len(decided') : decided'[i].Command = Op(k, Table'[k])
      <3>1. CASE Table'[k] = Table[k]
        <4>1. PICK i \in 1..Len(decided) : decided[i].Command = Op(k, Table[k])
          BY <2>5, <3>1, Zenon DEF CtrlInv, TableIsExact
        <4>2. i \in 1..Len(decided') /\ decided'[i].Command = Op(k, Table'[k])
          BY <1>2, <1>4, <3>1, <4>1, SMTT(30)
        <4> QED BY <4>2, Zenon
      <3>2. CASE Table'[k] # Table[k]
        <4>1. k = c /\ Table'[k] = op.RequestID
          BY <2>2, <2>3, <3>2, Zenon
        <4>2. last \in 1..Len(decided') /\ decided'[last].Command = Op(k, Table'[k])
          BY <1>2, <1>4, <2>2, <4>1, SMTT(30) DEF op
        <4> QED BY <4>2, Zenon
      <3> QED BY <3>1, <3>2, Zenon
    <2>6. ASSUME NEW i \in 1..Len(decided'), decided'[i].Command.Args.Type # "Query"
          PROVE  decided'[i].Command.RequestID <= Table'[decided'[i].Command.ClientID]
      <3>1. CASE i \in 1..Len(decided)
        <4> DEFINE o == decided[i].Command
        <4>1. decided'[i].Command = o
          BY <1>4, <3>1, Zenon
        <4>2. o.RequestID <= Table[o.ClientID]
          BY <2>6, <3>1, <4>1, Zenon DEF CtrlInv, TableIsExact
        <4>3. o.ClientID \in Client /\ o.RequestID \in Nat
          BY <3>1, Zenon DEF CtrlInv, RequestsAreMade, Made, OpRecord
        <4> HIDE DEF o
        <4>4. o.RequestID <= Table'[o.ClientID]
          <5>1. Table[o.ClientID] \in Nat /\ Table'[o.ClientID] \in Nat
            BY <2>2, <2>4, <4>3, Zenon
          <5> QED BY <2>4, <4>2, <4>3, <5>1, SMTT(30)
        <4> QED BY <4>1, <4>4, Zenon
      <3>2. CASE i = last
        <4>1. decided'[i].Command = op
          BY <1>4, <3>2, Zenon DEF op
        <4>2. op.RequestID <= Table'[c]
          BY <2>2, <2>3, <2>6, <4>1, SMTT(30)
        <4> QED BY <4>1, <4>2, Zenon DEF c
      <3> QED BY <1>4, <1>9, <3>1, <3>2, Zenon
    <2>7. ASSUME NEW k \in Client, NEW n \in 1..requestSeq[k],
                 Op(k, n) # pending[k], Op(k, n).Args.Type # "Query"
          PROVE  n <= Table'[k]
      <3>1. n <= Table[k]
        BY <2>7, Zenon DEF CtrlInv, TableIsExact
      <3>2. Table[k] \in Nat /\ Table'[k] \in Nat /\ n \in Nat
        BY <2>2, <2>4, SMTT(30) DEF CtrlInv, ClerkTypes
      <3> QED BY <2>4, <3>1, <3>2, SMTT(30)
    <2> QED BY <1>1, <2>4, <2>5, <2>6, <2>7, Zenon DEF TableIsExact
  <1> QED BY <1>4, <1>5, <1>6, <1>7, <1>8, <1>10, <1>11, Zenon DEF CtrlInv

-----------------------------------------------------------------------------
(* The theorem. *)

\* Nothing has happened yet.
LEMMA InitiallyCtrlInv == Init => CtrlInv /\ Controller!Init
  <1> SUFFICES ASSUME Init PROVE CtrlInv /\ Controller!Init
    BY Zenon
  <1> USE DEF Init, GroupInit
  <1>1. decided = <<>> /\ Len(decided) = 0 /\ decided \in Seq(Entry)
    BY SMTT(30)
  <1>2. replayed \in Seq({NoState}) /\ Len(replayed) = 1 /\ replayed[1] = NoState
    BY SMTT(30)
  <1>3. Table = [c \in Client |-> 0]
    BY <1>1, <1>2, SMTT(30) DEF Table, NoState
  <1>4. GroupTypes /\ ClerkTypes /\ ServerTypes
    BY SMTT(30) DEF GroupTypes, ClerkTypes, ServerTypes
  <1>5. ReplaySteps /\ Replayed /\ ResultsAreOutcomes
    <2>1. ReplaySteps
      <3>1. \E S : replayed \in Seq(S)
        BY <1>2, Zenon
      <3> QED BY <1>1, <1>2, <3>1, SMTT(30) DEF ReplaySteps
    <2>2. ASSUME NEW s \in Server
          PROVE  lastApplied[s] <= Len(decided) /\ machine[s] = replayed[lastApplied[s] + 1]
      <3>1. lastApplied[s] = 0 /\ machine[s] = NoState
        BY Zenon
      <3> QED BY ONLY <1>1, <1>2, <3>1, SMTT(30)
    <2>3. ResultsAreOutcomes
      BY Zenon DEF ResultsAreOutcomes
    <2> QED BY <2>1, <2>2, <2>3, Zenon DEF Replayed
  <1>6. RequestsAreMade
    <2>1. \A c \in Client : Len(Script[c]) \in Nat
      BY ServiceAssumption, SMTT(30)
    <2> QED BY <1>1, <2>1, SMTT(30) DEF RequestsAreMade
  <1>7. TableIsExact
    BY <1>1, <1>3, SMTT(30) DEF TableIsExact
  <1>8. WaitsForItsOwn
    BY Zenon DEF WaitsForItsOwn
  <1>9. \A c \in Client : Positions(c) = {}
    BY <1>1, SMTT(30) DEF Positions
  <1>10. Controller!Init
    <2>1. [c \in Client |-> Positions(c) # {}] = [c \in Client |-> FALSE]
      BY <1>9, Zenon
    <2>2. [c \in Client |-> {Returned(replayed[i].configs, pending[c].Args) :
                             i \in Positions(c)}]
              = [c \in Client |-> {}]
      BY <1>9, Zenon
    <2>3. replayed[Len(replayed)].configs = <<FirstConfig>>
      BY <1>2, Zenon DEF NoState
    <2> QED BY <2>1, <2>2, <2>3, Zenon DEF Controller!Init
  <1> QED BY <1>4, <1>5, <1>6, <1>7, <1>8, <1>10, Zenon DEF CtrlInv

\* Every step keeps the invariant and is a step of the list of configurations, or one that it
\* does not see.
LEMMA NextCtrlInv == CtrlInv /\ [Next]_vars => CtrlInv' /\ [Controller!Next]_(Controller!vars)
  <1> DEFINE Kept == CtrlInv' /\ [Controller!Next]_(Controller!vars)
  <1> SUFFICES ASSUME CtrlInv, [Next]_vars PROVE Kept
    BY Zenon
  <1>1. ASSUME NEW c \in Client, Invoke(c) PROVE Kept
    BY <1>1, InvokeStep, Zenon
  <1>2. ASSUME NEW c \in Client, NEW s \in Server, CallServer(c, s) PROVE Kept
    BY <1>2, CallStep, Zenon
  <1>3. ASSUME NEW h \in handlers, TakeResult(h) PROVE Kept
    BY <1>3, ResultStep, Zenon
  <1>4. ASSUME NEW h \in handlers, Timeout(h) PROVE Kept
    BY <1>4, TimeoutStep, Zenon
  <1>5. ASSUME NEW s \in Server, Apply(s) PROVE Kept
    BY <1>5, ApplyStep, Zenon
  <1>6. ASSUME NEW s \in Server, Restart(s) PROVE Kept
    BY <1>6, RestartStep, Zenon
  <1>7. ASSUME RaftStep PROVE Kept
    <2>1. /\ UNCHANGED <<clerkVars, serverVars, restarts>>
          /\ replayed' = IF decided' = decided THEN replayed
                         ELSE Append(replayed, Applied(replayed[Len(replayed)],
                                                       decided'[Len(decided')].Command))
      BY <1>7, Zenon DEF RaftStep
    <2>2. ASSUME NEW s \in Server, Lead(s) \/ StepDown(s) PROVE Kept
      <3>1. decided' = decided
        BY <2>2, Zenon DEF Lead, StepDown
      <3> QED BY <2>1, <2>2, <3>1, LeadStep, Zenon
    <2>3. ASSUME NEW s \in Server, NEW l \in Server, NEW n \in 1..MaxIndex, Follow(s, l, n)
          PROVE  Kept
      <3>1. decided' = decided
        BY <2>3, Zenon DEF Follow
      <3> QED BY <2>1, <2>3, <3>1, FollowStep, Zenon
    <2>4. ASSUME NEW s \in Server, Decide(s) PROVE Kept
      <3>1. decided' # decided
        <4>1. Len(decided) \in Nat /\ decided \in Seq(Entry) /\ logs[s] \in Seq(Entry)
          BY SMTT(30) DEF CtrlInv, GroupTypes
        <4>2. logs[s][Len(decided) + 1] \in Entry
          BY <2>4, <4>1, SMTT(30) DEF Decide
        <4>3. Len(decided') = Len(decided) + 1
          BY <2>4, <4>1, <4>2, SMTT(30) DEF Decide
        <4> QED BY <4>1, <4>3, SMTT(30)
      <3> QED BY <2>1, <2>4, <3>1, DecideStep, Zenon
    <2> QED BY <1>7, <2>2, <2>3, <2>4, Zenon DEF RaftStep, GroupNext
  <1>8. CASE UNCHANGED vars
    <2>1. UNCHANGED <<groupVars, replayed, clerkVars, serverVars>>
      BY <1>8, Zenon DEF vars
    <2>2. GroupTypes' /\ UNCHANGED <<logs, decided>>
      BY <2>1, Zenon DEF CtrlInv, GroupTypes, groupVars
    <2> QED BY <2>1, <2>2, GroupStep, Zenon
  <1> QED BY <1>1, <1>2, <1>3, <1>4, <1>5, <1>6, <1>7, <1>8, Zenon DEF Next

\* The replicated controller implements the one list of configurations of AtomicService: a
\* Join, Leave or Move whose clerk retries after a timeout, a lost reply, a restart or a change
\* of leader adds one configuration, and a Query returns one that was the one asked for between
\* its call and its return.
THEOREM ControllerIsOneHistory == Spec => OneHistory
  BY InitiallyCtrlInv, NextCtrlInv, PTL DEF Spec, OneHistory, Controller!Spec
=============================================================================
