------------------------------- MODULE LabRpc -------------------------------
(***************************************************************************)
(* The simulated network the labs run on, labrpc.go, around one server     *)
(* name: calls through client ends, the goroutine processReq of each       *)
(* request, and the harness of kvraft/config.go that shuts the server down *)
(* and starts it again under the same name.                                *)
(*                                                                         *)
(* A server that was shut down runs on: its handlers may still end, and    *)
(* still write to the Persister it was started with.  A server is          *)
(* identified by the place of its Persister in persisters.  What a request *)
(* persists is the end it came through; every end makes one call.  Delays  *)
(* are the time a goroutine takes to its next step, so longDelays and      *)
(* longReordering do not appear.                                           *)
(***************************************************************************)
EXTENDS Integers, Sequences

CONSTANTS End,            \* the client ends, made and connected to the server
          MaxPersisters   \* bound on the Persisters the harness makes

VARIABLES enabled,      \* the ends that are enabled
          server,       \* servers[servername]: the server, or nil
          reliable,
          closed,       \* whether Cleanup has closed done
          listening,    \* whether the goroutine that reads endCh runs
          call,         \* the call of each end, and processReq for its request
          returned,     \* the ends whose request's handler has returned
          persisters,   \* what each Persister holds
          superseded    \* whether ShutdownServer has copied the Persister of the deleted server

networkVars == <<enabled, server, reliable, closed, listening, call, returned, persisters, superseded>>

noServer == 0

\* The harness's saved[i].
saved == persisters[Len(persisters)]

At(e, step) == call[e].at = step
Set(e, fields) == call' = [call EXCEPT ![e] = fields]
Reply(e, ok) == Set(e, [call[e] EXCEPT !.at = "replying", !.ok = ok])

NetworkInit ==
    /\ enabled = {}
    /\ server = 1
    /\ reliable = TRUE
    /\ closed = FALSE /\ listening = TRUE
    /\ call = [e \in End |-> [at |-> "idle", server |-> noServer, reliable |-> TRUE, ok |-> FALSE]]
    /\ returned = {}
    /\ persisters = <<{}>>
    /\ superseded = FALSE
-----------------------------------------------------------------------------
\* A call, and the goroutine of its request.

Call(e) ==
    /\ At(e, "idle")
    /\ Set(e, [call[e] EXCEPT !.at = "calling"])
    /\ UNCHANGED <<enabled, server, reliable, closed, listening, returned, persisters, superseded>>

\* Call's select: the network takes the request, or it has been cleaned up.
Send(e) ==
    /\ At(e, "calling")
    /\ \/ listening /\ Set(e, [call[e] EXCEPT !.at = "sent"])
       \/ closed /\ Set(e, [call[e] EXCEPT !.at = "done"])
    /\ UNCHANGED <<enabled, server, reliable, closed, listening, returned, persisters, superseded>>

\* processReq up to the wait: no server to be reached, the request dropped, or dispatched.
Process(e) ==
    /\ At(e, "sent")
    /\ IF e \in enabled /\ server # noServer
       THEN \/ Set(e, [at |-> "waiting", server |-> server, reliable |-> reliable, ok |-> FALSE])
            \/ ~ reliable /\ Reply(e, FALSE)
       ELSE Reply(e, FALSE)
    /\ UNCHANGED <<enabled, server, reliable, closed, listening, returned, persisters, superseded>>

\* The handler, in a goroutine of its own, updates its server's Persister and returns.
Dispatch(e) ==
    /\ call[e].server # noServer
    /\ e \notin returned
    /\ persisters' = [persisters EXCEPT ![call[e].server] = @ \union {e}]
    /\ returned' = returned \union {e}
    /\ UNCHANGED <<enabled, server, reliable, closed, listening, call, superseded>>

\* Variant: a server that runs under the name again counts as the one that was called.
IsServerDeadByName(e) == e \notin enabled \/ server = noServer

isServerDead(e) == e \notin enabled \/ server # call[e].server

\* Variant: no look at the server while the handler runs.
WaitForHandler(e) ==
    /\ At(e, "waiting")
    /\ e \in returned /\ Set(e, [call[e] EXCEPT !.at = "checking"])
    /\ UNCHANGED <<enabled, server, reliable, closed, listening, returned, persisters, superseded>>

\* The loop that waits for the handler and looks every 100 ms whether its server is dead.
Wait(e) ==
    /\ At(e, "waiting")
    /\ \/ e \in returned /\ Set(e, [call[e] EXCEPT !.at = "checking"])
       \/ isServerDead(e) /\ Reply(e, FALSE)
    /\ UNCHANGED <<enabled, server, reliable, closed, listening, returned, persisters, superseded>>

\* The handler's reply, unless the server is dead by now or the reply is dropped.
Check(e) ==
    /\ At(e, "checking")
    /\ \/ (isServerDead(e) \/ ~ call[e].reliable) /\ Reply(e, FALSE)
       \/ ~ isServerDead(e) /\ Reply(e, TRUE)
    /\ UNCHANGED <<enabled, server, reliable, closed, listening, returned, persisters, superseded>>

Return(e) ==
    /\ At(e, "replying")
    /\ Set(e, [call[e] EXCEPT !.at = "done"])
    /\ UNCHANGED <<enabled, server, reliable, closed, listening, returned, persisters, superseded>>
-----------------------------------------------------------------------------
\* The harness.

Enable(e) ==
    /\ enabled' \in {enabled \union {e}, enabled \ {e}}
    /\ UNCHANGED <<server, reliable, closed, listening, call, returned, persisters, superseded>>

Reliable(yes) ==
    /\ reliable' = yes
    /\ UNCHANGED <<enabled, server, closed, listening, call, returned, persisters, superseded>>

Cleanup ==
    /\ ~ closed
    /\ closed' = TRUE
    /\ UNCHANGED <<enabled, server, reliable, listening, call, returned, persisters, superseded>>

StopListening ==
    /\ closed /\ listening
    /\ listening' = FALSE
    /\ UNCHANGED <<enabled, server, reliable, closed, call, returned, persisters, superseded>>

\* ShutdownServer, in two steps: other goroutines do not wait for the harness's lock.
DeleteServer ==
    /\ server # noServer
    /\ server' = noServer
    /\ UNCHANGED <<enabled, reliable, closed, listening, call, returned, persisters, superseded>>

Supersede ==
    /\ server = noServer /\ ~ superseded
    /\ Len(persisters) < MaxPersisters
    /\ persisters' = Append(persisters, saved)
    /\ superseded' = TRUE
    /\ UNCHANGED <<enabled, server, reliable, closed, listening, call, returned>>

\* StartServer copies the Persister once more, for the new server.
StartServer ==
    /\ server = noServer /\ superseded
    /\ Len(persisters) < MaxPersisters
    /\ persisters' = Append(persisters, saved)
    /\ server' = Len(persisters')
    /\ superseded' = FALSE
    /\ UNCHANGED <<enabled, reliable, closed, listening, call, returned>>
-----------------------------------------------------------------------------
\* A step of Call or processReq.  The handler's own steps are not among them: it may hang.
Goroutine(e) == Send(e) \/ Process(e) \/ Wait(e) \/ Check(e) \/ Return(e)

NetworkNext ==
    \/ \E e \in End : Call(e) \/ Goroutine(e) \/ Dispatch(e) \/ Enable(e)
    \/ \E yes \in BOOLEAN : Reliable(yes)
    \/ Cleanup \/ StopListening
    \/ DeleteServer \/ Supersede \/ StartServer

\* A goroutine that can go on does: the runtime schedules it, and its timers fire.
NetworkFairness == \A e \in End : WF_networkVars(Goroutine(e))
-----------------------------------------------------------------------------
\* What a call that succeeded persisted is in the Persister the next server starts from: no
\* client gets a positive reply for an update made only in a superseded Persister (the comment
\* at labrpc.go:267-272, the order of ShutdownServer, the second isServerDead of processReq).
RepliedIsPersisted == \A e \in End : call[e].ok => e \in saved

\* A call goes on for ever only while its handler runs on the server that is up: it returns once
\* the handler does, once the server is deleted, even when another is started under its name
\* before processReq looks, and once the network is cleaned up.
CallsReturn ==
    \A e \in End : []<>(\/ call[e].at \in {"idle", "done"}
                        \/ At(e, "waiting") /\ e \notin returned /\ server = call[e].server)
=============================================================================
