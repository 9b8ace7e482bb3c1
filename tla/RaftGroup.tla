------------------------------ MODULE RaftGroup ------------------------------
(***************************************************************************)
(* Raft as the services above it meet it through Start, GetState and       *)
(* applyCh: who leads, what a leader's log holds, and the decided sequence *)
(* that every replica applies in order.  Server holds the replicas that    *)
(* clerks talk to; the rest of the majority is not represented, so the     *)
(* leader of the newest term may decide what it holds at any time.         *)
(* ReplicatedLog states the part of this that the module Raft implements.  *)
(***************************************************************************)
EXTENDS Integers, Sequences

CONSTANTS Server, MaxTerm, MaxIndex

ASSUME GroupAssumption == MaxTerm \in Nat /\ MaxIndex \in Nat

VARIABLES logs,      \* per replica: its entries [Command, Term], from index 1
          leads,     \* per replica: the term it leads, or 0
          newest,    \* the newest term that has had a leader
          decided    \* the entries decided so far

groupVars == <<logs, leads, newest, decided>>

GroupInit ==
    /\ logs = [s \in Server |-> <<>>]
    /\ leads = [s \in Server |-> 0]
    /\ newest = 0
    /\ decided = <<>>

\* Start(): refused unless s leads; the entry goes to the end of s's own log.
Start(s, command) ==
    /\ leads[s] # 0
    /\ Len(logs[s]) < MaxIndex
    /\ logs' = [logs EXCEPT ![s] = Append(@, [Command |-> command, Term |-> leads[s]])]
    /\ UNCHANGED <<leads, newest, decided>>

\* The index that Start returns.
StartIndex(s) == Len(logs[s]) + 1

\* Does a log begin with the given entries?
BeginsWith(log, entries) ==
    Len(entries) <= Len(log) /\ SubSeq(log, 1, Len(entries)) = entries

\* A replica that holds everything decided wins an election.
Lead(s) ==
    /\ newest < MaxTerm
    /\ BeginsWith(logs[s], decided)
    /\ newest' = newest + 1
    /\ leads' = [leads EXCEPT ![s] = newest + 1]
    /\ UNCHANGED <<logs, decided>>

\* A leader hears of a newer one; until then it still believes that it leads.
StepDown(s) ==
    /\ leads[s] \in 1..(newest - 1)
    /\ leads' = [leads EXCEPT ![s] = 0]
    /\ UNCHANGED <<logs, newest, decided>>

\* s receives the first n entries of the newest leader's log: entries of its own are
\* dropped only from the first one that conflicts.
Follow(s, l, n) ==
    /\ leads[l] = newest /\ newest # 0 /\ s # l
    /\ n <= Len(logs[l])
    /\ ~ BeginsWith(logs[s], SubSeq(logs[l], 1, n))
    /\ logs' = [logs EXCEPT ![s] = SubSeq(logs[l], 1, n)]
    /\ leads' = [leads EXCEPT ![s] = 0]
    /\ UNCHANGED <<newest, decided>>

\* The newest leader commits its next entry; entries of earlier terms only below one of
\* its own.
Decide(s) ==
    /\ leads[s] = newest /\ newest # 0
    /\ Len(decided) < Len(logs[s])
    /\ \E n \in (Len(decided) + 1)..Len(logs[s]) : logs[s][n].Term = newest
    /\ decided' = Append(decided, logs[s][Len(decided) + 1])
    /\ UNCHANGED <<logs, leads, newest>>

GroupNext ==
    \E s \in Server :
        \/ Lead(s)
        \/ StepDown(s)
        \/ \E l \in Server : \E n \in 1..MaxIndex : Follow(s, l, n)
        \/ Decide(s)
=============================================================================
