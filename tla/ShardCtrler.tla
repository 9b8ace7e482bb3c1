---------------------------- MODULE ShardCtrler -----------------------------
(***************************************************************************)
(* The shard controller of src/code/src/shardctrler on top of a Raft group:*)
(* clerks that retry, RPC handlers that wait up to 500 ms for the index    *)
(* Start gave them, the applier with its duplicate table and notification  *)
(* channels, restarts without snapshots.                                   *)
(*                                                                         *)
(* A channel is made when it is first asked for and never removed, so it   *)
(* is what it buffers: one result, or nothing.                             *)
(***************************************************************************)
EXTENDS RaftGroup, Rebalance

CONSTANTS Client,
          Script,           \* per clerk: the calls made on it
          Nothing,
          MaxRestarts       \* bound on crashes

Call ==
    [Type : {"Join", "Leave"}, Gids : SUBSET Gid]
        \union [Type : {"Move"}, Shard : Shard, Gid : Gid]
        \union [Type : {"Query"}, Num : Int]

ASSUME ServiceAssumption ==
    /\ Script \in [Client -> Seq(Call)] /\ MaxRestarts \in Nat
    /\ Nothing \notin [ClientID : Client, RequestID : Nat, Args : Call]
    /\ Nothing \notin [server : Server, index : Nat, term : Nat,
                       op : [ClientID : Client, RequestID : Nat, Args : Call]]

VARIABLES requestSeq,       \* per clerk
          pending,          \* per clerk: the Op it is calling for, or Nothing
          waitsFor,         \* per clerk: the handler whose reply it waits for, or Nothing
          returned,         \* per clerk: what its last completed call returned
          handlers,         \* the RPC handlers between Start and return
          machine,          \* per server: configs, lastAppliedReq
          lastApplied,      \* per server: the index its applier has reached
          notify,           \* per server and index: the buffered ApplyResult, or Nothing
          restarts,
          replayed          \* history: the states after the first 0, 1, ... decided commands

clerkVars == <<requestSeq, pending, waitsFor, returned>>
serverVars == <<handlers, machine, lastApplied, notify>>
vars == <<groupVars, clerkVars, serverVars, restarts, replayed>>

Index == 1..MaxIndex

Op(c, n) == [ClientID |-> c, RequestID |-> n, Args |-> Script[c][n]]
-----------------------------------------------------------------------------
(* The state machine. *)

NoState == [configs |-> <<FirstConfig>>, lastAppliedReq |-> [c \in Client |-> 0]]

\* Variant: no request is taken for a duplicate.
isDuplicateNever(m, op) == FALSE

\* Request numbers start at 1, so 0 stands for a client without an entry.
isDuplicate(m, op) == op.RequestID <= m.lastAppliedReq[op.ClientID]

\* The configuration that a request other than Query makes of the last one.
NextConfig(prev, args) ==
    CASE args.Type = "Join" -> applyJoin(prev, args.Gids)
      [] args.Type = "Leave" -> applyLeave(prev, args.Gids)
      [] args.Type = "Move" -> applyMove(prev, args.Shard, args.Gid)

\* The list of configurations after a request; the configuration of number n is its n+1st.
Extended(configs, args) ==
    IF args.Type = "Query" THEN configs
    ELSE Append(configs, NextConfig(configs[Len(configs)], args))

\* The switch of applier().
Applied(m, op) ==
    IF op.Args.Type = "Query" \/ isDuplicate(m, op) THEN m
    ELSE [configs |-> Extended(m.configs, op.Args),
          lastAppliedReq |-> [m.lastAppliedReq EXCEPT ![op.ClientID] = op.RequestID]]

readConfig(configs, num) ==
    IF num = -1 \/ num >= Len(configs) THEN configs[Len(configs)] ELSE configs[num + 1]

Returned(configs, args) ==
    IF args.Type = "Query" THEN readConfig(configs, args.Num) ELSE Nothing
-----------------------------------------------------------------------------
(* Clerks. *)

\* Join, Leave, Move or Query is called on a clerk: a new request number.
Invoke(c) ==
    /\ pending[c] = Nothing
    /\ requestSeq[c] < Len(Script[c])
    /\ requestSeq' = [requestSeq EXCEPT ![c] = @ + 1]
    /\ pending' = [pending EXCEPT ![c] = Op(c, requestSeq[c] + 1)]
    /\ UNCHANGED <<groupVars, waitsFor, returned, serverVars, restarts, replayed>>

\* The clerk's loop reaches server s, whose handler calls Start.  The Call before it, if
\* any, answered WrongLeader or was lost, in which case its handler goes on.
CallServer(c, s) ==
    LET h == [server |-> s, index |-> StartIndex(s), term |-> leads[s], op |-> pending[c]]
    IN  /\ pending[c] # Nothing
        /\ Start(s, pending[c])
        /\ handlers' = handlers \union {h}
        /\ waitsFor' = [waitsFor EXCEPT ![c] = h]
        /\ UNCHANGED <<requestSeq, pending, returned, machine, lastApplied, notify, restarts, replayed>>

\* The reply to the clerk that waits for h: on WrongLeader it goes on to the next server.
ReplyTo(h, ok, value) ==
    LET c == h.op.ClientID
        waiting == waitsFor[c] = h
    IN  /\ waitsFor' = IF waiting THEN [waitsFor EXCEPT ![c] = Nothing] ELSE waitsFor
        /\ pending' = IF waiting /\ ok THEN [pending EXCEPT ![c] = Nothing] ELSE pending
        /\ returned' = IF waiting /\ ok THEN [returned EXCEPT ![c] = value] ELSE returned
        /\ UNCHANGED requestSeq
-----------------------------------------------------------------------------
(* Handlers and applier. *)

SameRequest(res, h) == res.Op = h.op

\* case res := <-ch
TakeResult(h) ==
    LET res == notify[h.server][h.index]
    IN  /\ res # Nothing
        /\ notify' = [notify EXCEPT ![h.server][h.index] = Nothing]
        /\ handlers' = handlers \ {h}
        /\ ReplyTo(h, SameRequest(res, h), res.Config)
        /\ UNCHANGED <<groupVars, machine, lastApplied, restarts, replayed>>

\* case <-time.After(500 * time.Millisecond)
Timeout(h) ==
    /\ handlers' = handlers \ {h}
    /\ ReplyTo(h, FALSE, Nothing)
    /\ UNCHANGED <<groupVars, machine, lastApplied, notify, restarts, replayed>>

\* One command from applyCh; the channel of its index is empty, since an index is applied once.
Apply(s) ==
    LET index == lastApplied[s] + 1
        op == decided[index].Command
    IN  /\ index <= Len(decided)
        /\ lastApplied' = [lastApplied EXCEPT ![s] = index]
        /\ machine' = [machine EXCEPT ![s] = Applied(@, op)]
        /\ notify' = [notify EXCEPT ![s][index] =
                         [Op |-> op, Config |-> Returned(machine[s].configs, op.Args)]]
        /\ UNCHANGED <<groupVars, clerkVars, handlers, restarts, replayed>>

\* The process dies with its handlers; StartServer begins with the first configuration, and
\* Raft delivers the log again.
Restart(s) ==
    /\ restarts < MaxRestarts
    /\ restarts' = restarts + 1
    /\ leads' = [leads EXCEPT ![s] = 0]
    /\ handlers' = {h \in handlers : h.server # s}
    /\ machine' = [machine EXCEPT ![s] = NoState]
    /\ lastApplied' = [lastApplied EXCEPT ![s] = 0]
    /\ notify' = [notify EXCEPT ![s] = [i \in Index |-> Nothing]]
    /\ UNCHANGED <<logs, newest, decided, clerkVars, replayed>>

\* A step of Raft that the service does not see.
RaftStep ==
    /\ GroupNext
    /\ replayed' = IF decided' = decided THEN replayed
                   ELSE Append(replayed, Applied(replayed[Len(replayed)],
                                                 decided'[Len(decided')].Command))
    /\ UNCHANGED <<clerkVars, serverVars, restarts>>

Init ==
    /\ GroupInit
    /\ requestSeq = [c \in Client |-> 0]
    /\ pending = [c \in Client |-> Nothing]
    /\ waitsFor = [c \in Client |-> Nothing]
    /\ returned = [c \in Client |-> Nothing]
    /\ handlers = {}
    /\ machine = [s \in Server |-> NoState]
    /\ lastApplied = [s \in Server |-> 0]
    /\ notify = [s \in Server |-> [i \in Index |-> Nothing]]
    /\ restarts = 0
    /\ replayed = <<NoState>>

Next ==
    \/ \E c \in Client : Invoke(c)
    \/ \E c \in Client : \E s \in Server : CallServer(c, s)
    \/ \E h \in handlers : TakeResult(h)
    \/ \E h \in handlers : Timeout(h)
    \/ \E s \in Server : Apply(s)
    \/ \E s \in Server : Restart(s)
    \/ RaftStep

Spec == Init /\ [][Next]_vars
-----------------------------------------------------------------------------
(* Properties. *)

\* The positions of a clerk's pending request in the decided log.
Positions(c) == {i \in 1..Len(decided) : decided[i].Command = pending[c]}

Controller ==
    INSTANCE AtomicService WITH
        Request <- UNION {{Op(c, n) : n \in 1..Len(Script[c])} : c \in Client},
        Initially <- <<FirstConfig>>,
        IsRead <- LAMBDA op : op.Args.Type = "Query",
        After <- LAMBDA configs, op : Extended(configs, op.Args),
        Answer <- LAMBDA configs, op : Returned(configs, op.Args),
        state <- replayed[Len(replayed)].configs,
        call <- pending,
        done <- [c \in Client |-> Positions(c) # {}],
        seen <- [c \in Client |-> {Returned(replayed[i].configs, pending[c].Args) :
                                   i \in Positions(c)}]

\* The controller implements one list of configurations: a Join, Leave or Move whose clerk
\* retries after a timeout, a lost reply or a change of leader adds one configuration to it,
\* and a Query returns one that was the one asked for between its call and its return.
OneHistory == Controller!Spec
=============================================================================
