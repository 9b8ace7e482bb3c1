---------------------------- MODULE AtomicService ----------------------------
(***************************************************************************)
(* What a replicated service promises its clerks: one copy of the state,   *)
(* one request of a client at a time, every request carried out at one     *)
(* moment between its call and its return, updates exactly once.           *)
(*                                                                         *)
(* A read may be looked up several times while it is pending (a clerk that *)
(* retries puts it into the log again); it returns one of the values seen. *)
(***************************************************************************)
CONSTANTS Client, Request, Nothing,
          Initially,       \* the state before any request
          IsRead(_),       \* does a request leave the state alone?
          After(_, _),     \* the state after a request
          Answer(_, _)     \* what a request returns in a state

VARIABLES state,
          call,            \* per client: the pending request, or Nothing
          done,            \* has an update taken effect?
          seen,            \* the answers the pending request may return
          returned         \* what the client's last request returned

vars == <<state, call, done, seen, returned>>

Init ==
    /\ state = Initially
    /\ call = [c \in Client |-> Nothing]
    /\ done = [c \in Client |-> FALSE]
    /\ seen = [c \in Client |-> {}]
    /\ returned = [c \in Client |-> Nothing]

Invoke(c, r) ==
    /\ call[c] = Nothing
    /\ call' = [call EXCEPT ![c] = r]
    /\ done' = [done EXCEPT ![c] = FALSE]
    /\ seen' = [seen EXCEPT ![c] = {}]
    /\ UNCHANGED <<state, returned>>

\* The pending request meets the state: any number of times for a read, once for an update.
Execute(c) ==
    /\ call[c] # Nothing
    /\ IsRead(call[c]) \/ ~done[c]
    /\ UNCHANGED <<call, returned>>
    /\ done' = [done EXCEPT ![c] = TRUE]
    /\ seen' = [seen EXCEPT ![c] = @ \union {Answer(state, call[c])}]
    /\ state' = After(state, call[c])

Return(c, v) ==
    /\ call[c] # Nothing
    /\ v \in seen[c]
    /\ call' = [call EXCEPT ![c] = Nothing]
    /\ done' = [done EXCEPT ![c] = FALSE]
    /\ seen' = [seen EXCEPT ![c] = {}]
    /\ returned' = [returned EXCEPT ![c] = v]
    /\ UNCHANGED state

Next ==
    \E c \in Client :
        \/ \E r \in Request : Invoke(c, r)
        \/ Execute(c)
        \/ \E v \in seen[c] : Return(c, v)

Spec == Init /\ [][Next]_vars
=============================================================================
