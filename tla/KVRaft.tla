------------------------------- MODULE KVRaft -------------------------------
(***************************************************************************)
(* The key/value service of src/code/src/kvraft on top of a Raft group:    *)
(* clerks that retry, RPC handlers that wait for the index Start gave them,*)
(* the applier with its duplicate table, notification channels and cached  *)
(* results, snapshots and restarts.                                        *)
(*                                                                         *)
(* One action is one critical section of kv.mu, of rf.mu or of a channel.  *)
(* One key is modelled; its value is the sequence of the requests that     *)
(* wrote it, so a request carried out twice shows.                         *)
(***************************************************************************)
EXTENDS RaftGroup, FiniteSets

CONSTANTS Client,
          Script,           \* per clerk: the calls made on it, as a sequence of OpTypes
          Nothing,
          SnapshotIndexes,  \* indexes at which RaftStateSize reaches maxraftstate
          MaxRestarts       \* bound on crashes

ASSUME ServiceAssumption ==
    /\ Script \in [Client -> Seq({"Get", "Put", "Append"})]
    /\ SnapshotIndexes \subseteq Nat /\ MaxRestarts \in Nat
    /\ Nothing \notin [ClientID : Client, RequestID : Nat, OpType : {"Get", "Put", "Append"}]
    /\ Nothing \notin Server \X Nat \X Nat

VARIABLES nextReqID,        \* per clerk
          pending,          \* per clerk: the Op it is calling for, or Nothing
          waitsFor,         \* per clerk: the handler whose reply it waits for, or Nothing
          returned,         \* per clerk: the value of its last completed call
          handlers,         \* the RPC handlers between Start and return
          machine,          \* per server: kvStore, lastAppliedReq
          lastApplied,      \* per server: the index its applier has reached (Raft's)
          notify,           \* per server and index: the channel's creator, or 0
          buffer,           \* per server: results that sit in channels
          appliedResults,   \* per server and index: cached result, or Nothing
          saved,            \* per server: the snapshot in its persister
          restarts

clerkVars == <<nextReqID, pending, waitsFor, returned>>
channelVars == <<notify, buffer, appliedResults>>
storeVars == <<machine, lastApplied, saved>>
vars == <<groupVars, clerkVars, handlers, channelVars, storeVars, restarts>>

Index == 1..MaxIndex

\* The op of a clerk's n-th call; nextReqID starts at 1.
Op(c, n) == [ClientID |-> c, RequestID |-> n, OpType |-> Script[c][n]]
-----------------------------------------------------------------------------
(* The state machine. *)

NoState == [kvStore |-> <<>>, lastAppliedReq |-> [c \in Client |-> 0]]

\* Variant: a repeated request is carried out again.
shouldApplyAlways(m, op) == TRUE

\* Request numbers start at 1, so 0 stands for a client without an entry.
shouldApply(m, op) == op.RequestID > m.lastAppliedReq[op.ClientID]

\* The switch of applier(): a Get leaves the state alone.
Applied(m, op) ==
    IF op.OpType = "Get" \/ ~ shouldApply(m, op) THEN m
    ELSE [kvStore |-> IF op.OpType = "Put" THEN <<op>> ELSE Append(m.kvStore, op),
          lastAppliedReq |-> [m.lastAppliedReq EXCEPT ![op.ClientID] = op.RequestID]]

\* ApplyResult: only a Get carries a value.
Result(m, op) == [Op |-> op, Value |-> IF op.OpType = "Get" THEN m.kvStore ELSE Nothing]

NoSnapshot == [index |-> 0, state |-> NoState]

\* Variant: the duplicate table is left out of the snapshot.
encodeSnapshotStoreOnly(m) == [m EXCEPT !.lastAppliedReq = NoState.lastAppliedReq]

encodeSnapshot(m) == m
-----------------------------------------------------------------------------
(* Clerks. *)

\* Get or PutAppend is called on a clerk: a new request number.
Invoke(c) ==
    /\ pending[c] = Nothing
    /\ nextReqID[c] <= Len(Script[c])
    /\ pending' = [pending EXCEPT ![c] = Op(c, nextReqID[c])]
    /\ nextReqID' = [nextReqID EXCEPT ![c] = @ + 1]
    /\ UNCHANGED <<groupVars, waitsFor, returned, handlers, channelVars, storeVars, restarts>>

\* The clerk's loop reaches server s, whose handler calls Start.  The Call before it, if
\* any, answered ErrWrongLeader or returned false: the reply was lost or the clerk cut off
\* from the server, and that handler goes on.  A server that does not lead answers
\* ErrWrongLeader, which changes nothing.
Call(c, s) ==
    LET h == [server |-> s, index |-> StartIndex(s), term |-> leads[s],
              op |-> pending[c], ch |-> 0]
    IN  /\ pending[c] # Nothing
        /\ Start(s, pending[c])
        /\ handlers' = handlers \union {h}
        /\ waitsFor' = [waitsFor EXCEPT ![c] = <<s, h.index, h.term>>]
        /\ UNCHANGED <<nextReqID, pending, returned, channelVars, storeVars, restarts>>
-----------------------------------------------------------------------------
(* Handlers. *)

\* getNotifyCh(): the index's channel if there is one, or a new one, into which a result
\* that is already known is put.
getNotifyCh(h) ==
    LET s == h.server
        cached == appliedResults[s][h.index]
    IN  /\ h.ch = 0
        /\ IF notify[s][h.index] # 0
           THEN /\ handlers' = (handlers \ {h}) \union {[h EXCEPT !.ch = notify[s][h.index]]}
                /\ UNCHANGED <<notify, buffer>>
           ELSE /\ handlers' = (handlers \ {h}) \union {[h EXCEPT !.ch = h.term]}
                /\ notify' = [notify EXCEPT ![s][h.index] = h.term]
                /\ buffer' = IF cached = Nothing THEN buffer
                             ELSE [buffer EXCEPT ![s] = @ \union
                                     {[index |-> h.index, ch |-> h.term, res |-> cached]}]
        /\ UNCHANGED <<groupVars, clerkVars, appliedResults, storeVars, restarts>>

\* The handler returns; removeNotifyCh() runs as it does.
Leave(h) ==
    /\ handlers' = handlers \ {h}
    /\ notify' = [notify EXCEPT ![h.server][h.index] = 0]
    /\ appliedResults' = [appliedResults EXCEPT ![h.server][h.index] = Nothing]

\* The reply to the clerk that waits for h: on anything but OK it goes on to the next server.
ReplyTo(h, ok, value) ==
    LET c == h.op.ClientID
        waiting == waitsFor[c] = <<h.server, h.index, h.term>>
    IN  /\ waitsFor' = IF waiting THEN [waitsFor EXCEPT ![c] = Nothing] ELSE waitsFor
        /\ pending' = IF waiting /\ ok THEN [pending EXCEPT ![c] = Nothing] ELSE pending
        /\ returned' = IF waiting /\ ok THEN [returned EXCEPT ![c] = value] ELSE returned
        /\ UNCHANGED nextReqID

sameOp(a, b) == a = b

\* case res := <-ch
TakeResult(h) ==
    \E m \in buffer[h.server] :
        /\ h.ch # 0 /\ m.index = h.index /\ m.ch = h.ch
        /\ buffer' = [buffer EXCEPT ![h.server] = @ \ {m}]
        /\ Leave(h)
        /\ ReplyTo(h, sameOp(m.res.Op, h.op), m.res.Value)
        /\ UNCHANGED <<groupVars, storeVars, restarts>>

\* case <-time.After: only a handler whose leadership is over returns.
LeadershipOver(h) ==
    /\ h.ch # 0
    /\ leads[h.server] # h.term
    /\ Leave(h)
    /\ ReplyTo(h, FALSE, Nothing)
    /\ UNCHANGED <<groupVars, buffer, storeVars, restarts>>
-----------------------------------------------------------------------------
(* The applier. *)

\* maybeSnapshot(): at these indexes the persister has reached maxraftstate.
maybeSnapshot(s, index, m) ==
    saved' = IF index \in SnapshotIndexes
             THEN [saved EXCEPT ![s] = [index |-> index, state |-> encodeSnapshot(m)]]
             ELSE saved

\* One command from applyCh.  The send is outside kv.mu, to the channel read inside it;
\* it does not block: a full channel drops the result.
Apply(s) ==
    LET index == lastApplied[s] + 1
        op == decided[index].Command
        res == Result(machine[s], op)
        ch == notify[s][index]
        full == \E m \in buffer[s] : m.index = index /\ m.ch = ch
    IN  /\ index <= Len(decided)
        /\ lastApplied' = [lastApplied EXCEPT ![s] = index]
        /\ machine' = [machine EXCEPT ![s] = Applied(@, op)]
        /\ appliedResults' = [appliedResults EXCEPT ![s][index] = res]
        /\ buffer' = IF ch = 0 \/ full THEN buffer
                     ELSE [buffer EXCEPT ![s] = @ \union
                              {[index |-> index, ch |-> ch, res |-> res]}]
        /\ maybeSnapshot(s, index, Applied(machine[s], op))
        /\ UNCHANGED <<groupVars, clerkVars, handlers, notify, restarts>>

\* The state and the duplicate table become those of the snapshot.
restoreSnapshot(s, snapshot) ==
    /\ machine' = [machine EXCEPT ![s] = snapshot.state]
    /\ lastApplied' = [lastApplied EXCEPT ![s] = snapshot.index]

\* Channels and cached results of the indexes that the snapshot covers go.
trimNotifications(s, snapshotIndex) ==
    /\ notify' = [notify EXCEPT ![s] = [i \in Index |-> IF i <= snapshotIndex THEN 0 ELSE @[i]]]
    /\ appliedResults' = [appliedResults EXCEPT ![s] =
           [i \in Index |-> IF i <= snapshotIndex THEN Nothing ELSE @[i]]]

\* A snapshot from applyCh that CondInstallSnapshot accepts: restoreSnapshot() and
\* trimNotifications().  It comes from a leader that has compacted what s lacks.  That it is
\* ahead of what s has applied is assumed here; RaftApply is about deliveries that are not.
InstallSnapshot(s, l) ==
    /\ leads[l] = newest /\ newest # 0 /\ s # l
    /\ saved[l].index > lastApplied[s]
    /\ saved' = [saved EXCEPT ![s] = saved[l]]
    /\ restoreSnapshot(s, saved[l])
    /\ trimNotifications(s, saved[l].index)
    /\ UNCHANGED <<groupVars, clerkVars, handlers, buffer, restarts>>

\* The process dies with its handlers; StartKVServer restores the snapshot.
Restart(s) ==
    /\ restarts < MaxRestarts
    /\ restarts' = restarts + 1
    /\ leads' = [leads EXCEPT ![s] = 0]
    /\ handlers' = {h \in handlers : h.server # s}
    /\ restoreSnapshot(s, saved[s])
    /\ notify' = [notify EXCEPT ![s] = [i \in Index |-> 0]]
    /\ buffer' = [buffer EXCEPT ![s] = {}]
    /\ appliedResults' = [appliedResults EXCEPT ![s] = [i \in Index |-> Nothing]]
    /\ UNCHANGED <<logs, newest, decided, clerkVars, saved>>

\* A step of Raft that the service does not see.
RaftStep ==
    /\ GroupNext
    /\ UNCHANGED <<clerkVars, handlers, channelVars, storeVars, restarts>>

Init ==
    /\ GroupInit
    /\ nextReqID = [c \in Client |-> 1]
    /\ pending = [c \in Client |-> Nothing]
    /\ waitsFor = [c \in Client |-> Nothing]
    /\ returned = [c \in Client |-> Nothing]
    /\ handlers = {}
    /\ machine = [s \in Server |-> NoState]
    /\ lastApplied = [s \in Server |-> 0]
    /\ notify = [s \in Server |-> [i \in Index |-> 0]]
    /\ buffer = [s \in Server |-> {}]
    /\ appliedResults = [s \in Server |-> [i \in Index |-> Nothing]]
    /\ saved = [s \in Server |-> NoSnapshot]
    /\ restarts = 0

Next ==
    \/ \E c \in Client : Invoke(c)
    \/ \E c \in Client : \E s \in Server : Call(c, s)
    \/ \E h \in handlers : getNotifyCh(h)
    \/ \E h \in handlers : TakeResult(h)
    \/ \E h \in handlers : LeadershipOver(h)
    \/ \E s \in Server : Apply(s)
    \/ \E s, l \in Server : InstallSnapshot(s, l)
    \/ \E s \in Server : Restart(s)
    \/ RaftStep

Spec == Init /\ [][Next]_vars
-----------------------------------------------------------------------------
(* Properties. *)

\* The state after the first n decided commands.
Replay[n \in 0..Len(decided)] ==
    IF n = 0 THEN NoState ELSE Applied(Replay[n - 1], decided[n].Command)

\* Every replica has the state that the decided commands up to its index lead to,
\* whether it applied them one by one, was restored from its own snapshot, or installed
\* another replica's.
ReplicasAgree == \A s \in Server : machine[s] = Replay[lastApplied[s]]

\* The positions of a clerk's pending request in the decided log.
Positions(c) == {i \in 1..Len(decided) : decided[i].Command = pending[c]}

Answer(m, op) == Result(m, op).Value

Store ==
    INSTANCE AtomicService WITH
        Request <- UNION {{Op(c, n) : n \in 1..Len(Script[c])} : c \in Client},
        Initially <- <<>>,
        IsRead <- LAMBDA op : op.OpType = "Get",
        After <- LAMBDA kv, op : IF op.OpType = "Get" THEN kv
                                 ELSE IF op.OpType = "Put" THEN <<op>> ELSE Append(kv, op),
        Answer <- LAMBDA kv, op : IF op.OpType = "Get" THEN kv ELSE Nothing,
        state <- Replay[Len(decided)].kvStore,
        call <- pending,
        done <- [c \in Client |-> Positions(c) # {}],
        seen <- [c \in Client |-> {Answer(Replay[i - 1], pending[c]) :
                                   i \in Positions(c)}]

\* The service implements one atomic store: clerks that retry, leaders that change and
\* replicas that crash never make an update count twice or not at all, or a Get miss what
\* was complete when it was called.
Linearizable == Store!Spec

\* A handler whose index has been applied while it leads has its result waiting for it: a
\* cached result keeps "a lost notification from making the RPC goroutine wait for ever"
\* (server.go:214).  Nothing else would wake it as long as its leadership lasts.
NoLostNotification ==
    \A h \in handlers :
        h.ch # 0 /\ leads[h.server] = h.term /\ lastApplied[h.server] >= h.index =>
            \E m \in buffer[h.server] : m.index = h.index /\ m.ch = h.ch
=============================================================================
