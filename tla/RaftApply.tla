------------------------------ MODULE RaftApply -----------------------------
(***************************************************************************)
(* How one Raft peer delivers committed entries and received snapshots to  *)
(* its service: applyCommittedEntries, the tail of InstallSnapshot,        *)
(* CondInstallSnapshot and Snapshot of raft.go, and the applier of         *)
(* kvraft/server.go at the other end of the unbuffered applyCh.            *)
(*                                                                         *)
(* Committed entries are the same everywhere (module Raft), so an entry is *)
(* its index.  The log always reaches commitIndex (SnapshotAligned of      *)
(* Raft), so its end does not appear.  The rest of the cluster shows as    *)
(* two inputs: commitIndex advances, and InstallSnapshot requests arrive.  *)
(***************************************************************************)
EXTENDS Integers, FiniteSets

CONSTANTS MaxIndex,   \* bound on indexes
          Handler     \* the InstallSnapshot handlers that may run at a time

ASSUME ApplyAssumption == MaxIndex \in Nat

VARIABLES commitIndex, lastApplied, lastIncludedIndex,
          applying, snapshotInFlight,
          batch,       \* the entries applyCommittedEntries has yet to send: next..last
          installing,  \* per handler: the index it waits to send, Sent, or Idle
          service,     \* what the applier is doing
          db,          \* the entries whose effect the service's state holds
          snapshot     \* the entries whose effect the persisted snapshot holds

raftVars == <<commitIndex, lastApplied, lastIncludedIndex>>
vars == <<raftVars, applying, snapshotInFlight, batch, installing, service, db, snapshot>>

Idle == -1
Sent == -2
NoBatch == [next |-> 1, last |-> 0]
Waiting == [on |-> "applyCh", index |-> 0]

Larger(a, b) == IF a > b THEN a ELSE b
-----------------------------------------------------------------------------
Init ==
    /\ commitIndex = 0 /\ lastApplied = 0 /\ lastIncludedIndex = 0
    /\ applying = FALSE /\ snapshotInFlight = FALSE
    /\ batch = NoBatch
    /\ installing = [h \in Handler |-> Idle]
    /\ service = Waiting
    /\ db = {} /\ snapshot = {}

\* The head of applyCommittedEntries' loop: the next batch, if there is one, up to the
\* release of the lock.
NextBatch(commit, applied) ==
    LET start == Larger(applied, lastIncludedIndex) + 1
    IN  IF commit > applied /\ start <= commit
        THEN applying' = TRUE /\ batch' = [next |-> start, last |-> commit]
        ELSE applying' = FALSE /\ batch' = NoBatch

\* Variant: commitIndex runs past the last entry.
CommitOneMore(n) ==
    /\ n > commitIndex
    /\ commitIndex' = n + 1
    /\ IF applying \/ snapshotInFlight THEN UNCHANGED <<applying, batch>>
                                       ELSE NextBatch(n + 1, lastApplied)
    /\ UNCHANGED <<lastApplied, lastIncludedIndex, snapshotInFlight, installing, service, db,
                   snapshot>>

\* AppendEntriesHandler or advanceCommitIndexLocked move commitIndex and call
\* applyCommittedEntries, which another one that is sending or a snapshot turns away.
Commit(n) ==
    /\ n > commitIndex
    /\ commitIndex' = n
    /\ IF applying \/ snapshotInFlight THEN UNCHANGED <<applying, batch>>
                                       ELSE NextBatch(n, lastApplied)
    /\ UNCHANGED <<lastApplied, lastIncludedIndex, snapshotInFlight, installing, service, db,
                   snapshot>>

\* Variant: what was committed during the send counts as sent.
BatchSentAll ==
    /\ applying /\ batch.next > batch.last
    /\ IF snapshotInFlight
       THEN applying' = FALSE /\ batch' = NoBatch /\ UNCHANGED lastApplied
       ELSE /\ lastApplied' = commitIndex
            /\ NextBatch(commitIndex, lastApplied')
    /\ UNCHANGED <<commitIndex, lastIncludedIndex, snapshotInFlight, installing, service, db,
                   snapshot>>

\* The batch is sent and the lock taken again.
BatchSent ==
    /\ applying /\ batch.next > batch.last
    /\ IF snapshotInFlight
       THEN applying' = FALSE /\ batch' = NoBatch /\ UNCHANGED lastApplied
       ELSE /\ lastApplied' = Larger(lastApplied, batch.last)
            /\ NextBatch(commitIndex, lastApplied')
    /\ UNCHANGED <<commitIndex, lastIncludedIndex, snapshotInFlight, installing, service, db,
                   snapshot>>

\* InstallSnapshot up to the send on applyCh.
InstallSnapshot(h, index) ==
    /\ installing[h] = Idle
    /\ index > lastIncludedIndex
    /\ snapshotInFlight' = TRUE
    /\ installing' = [installing EXCEPT ![h] = index]
    /\ UNCHANGED <<raftVars, applying, batch, service, db, snapshot>>

\* InstallSnapshot after the send.
SnapshotSent(h) ==
    /\ installing[h] = Sent
    /\ snapshotInFlight' = FALSE
    /\ installing' = [installing EXCEPT ![h] = Idle]
    /\ UNCHANGED <<raftVars, applying, batch, service, db, snapshot>>
-----------------------------------------------------------------------------
(* The applier: one message at a time. *)

ReceiveCommand ==
    /\ service = Waiting
    /\ batch.next <= batch.last
    /\ batch' = [batch EXCEPT !.next = @ + 1]
    /\ service' = [on |-> "command", index |-> batch.next]
    /\ UNCHANGED <<raftVars, applying, snapshotInFlight, installing, db, snapshot>>

ReceiveSnapshot(h) ==
    /\ service = Waiting
    /\ installing[h] > 0
    /\ service' = [on |-> "snapshot", index |-> installing[h]]
    /\ installing' = [installing EXCEPT ![h] = Sent]
    /\ UNCHANGED <<raftVars, applying, snapshotInFlight, batch, db, snapshot>>

\* The command takes effect.  One that took effect before does not again: the duplicate
\* table knows it.
ApplyCommand ==
    /\ service.on = "command"
    /\ db' = db \union {service.index}
    /\ service' = [service EXCEPT !.on = "applied"]
    /\ UNCHANGED <<raftVars, applying, snapshotInFlight, batch, installing, snapshot>>

\* maybeSnapshot: the Raft state is small.
SmallEnough ==
    /\ service.on = "applied"
    /\ service' = Waiting
    /\ UNCHANGED <<raftVars, applying, snapshotInFlight, batch, installing, db, snapshot>>

\* Raft's Snapshot(index, data), where data holds the service's state.
Compact(index) ==
    IF index <= lastIncludedIndex \/ index > commitIndex
    THEN UNCHANGED <<lastIncludedIndex, lastApplied, snapshot>>
    ELSE /\ lastIncludedIndex' = index
         /\ lastApplied' = Larger(lastApplied, index)
         /\ snapshot' = db

\* maybeSnapshot: the Raft state is too large.
Snapshot ==
    /\ service.on = "applied"
    /\ Compact(service.index)
    /\ service' = Waiting
    /\ UNCHANGED <<commitIndex, applying, snapshotInFlight, batch, installing, db>>

\* Variant: lastApplied is left behind.
InstallOnly(index) ==
    /\ lastIncludedIndex' = index
    /\ commitIndex' = Larger(commitIndex, index)
    /\ UNCHANGED lastApplied

\* The raft state after a switch to a snapshot.
Install(index) ==
    /\ lastIncludedIndex' = index
    /\ commitIndex' = Larger(commitIndex, index)
    /\ lastApplied' = Larger(lastApplied, index)

\* The applier calls CondInstallSnapshot with the snapshot it received.
CondInstallSnapshot ==
    LET index == service.index
    IN  /\ service.on = "snapshot"
        /\ IF index <= lastIncludedIndex
           THEN service' = Waiting /\ UNCHANGED <<raftVars, snapshot>>
           ELSE /\ service' = [service EXCEPT !.on = "restore"]
                /\ Install(index)
                /\ snapshot' = 1..index
        /\ UNCHANGED <<applying, snapshotInFlight, batch, installing, db>>

\* The applier switches to the snapshot that CondInstallSnapshot accepted.
RestoreSnapshot ==
    /\ service.on = "restore"
    /\ db' = 1..service.index
    /\ service' = Waiting
    /\ UNCHANGED <<raftVars, applying, snapshotInFlight, batch, installing, snapshot>>

\* The process dies and starts again from the persister: readPersist, restoreSnapshot.
Restart ==
    /\ commitIndex' = lastIncludedIndex /\ lastApplied' = lastIncludedIndex
    /\ applying' = FALSE /\ snapshotInFlight' = FALSE
    /\ batch' = NoBatch
    /\ installing' = [h \in Handler |-> Idle]
    /\ service' = Waiting
    /\ db' = snapshot
    /\ UNCHANGED <<lastIncludedIndex, snapshot>>

Pipeline ==
    \/ BatchSent \/ ReceiveCommand \/ ApplyCommand \/ SmallEnough \/ CondInstallSnapshot
    \/ RestoreSnapshot
    \/ \E h \in Handler : SnapshotSent(h) \/ ReceiveSnapshot(h)

Next ==
    \/ Pipeline
    \/ \E n \in 1..MaxIndex : Commit(n)
    \/ \E h \in Handler : \E index \in 1..MaxIndex : InstallSnapshot(h, index)
    \/ Snapshot
    \/ Restart

Spec == Init /\ [][Next]_vars
-----------------------------------------------------------------------------
(* Properties. *)

\* The types of the fields.
TypeOK ==
    /\ {commitIndex, lastApplied, lastIncludedIndex} \subseteq 0..MaxIndex
    /\ applying \in BOOLEAN /\ snapshotInFlight \in BOOLEAN
    /\ batch \in [next : 1..(MaxIndex + 1), last : 0..MaxIndex]
    /\ installing \in [Handler -> 1..MaxIndex \union {Idle, Sent}]
    /\ service \in [on : {"applyCh", "command", "applied", "snapshot", "restore"},
                    index : 0..MaxIndex]
    /\ db \subseteq 1..MaxIndex /\ snapshot \subseteq 1..MaxIndex

\* The entries up to some index.
Gapless(S) == S = 1..Cardinality(S)

\* The entries whose effect the message in the applier's hands brings.
InHand ==
    CASE service.on = "command" -> {service.index}
      [] service.on = "restore" -> 1..service.index
      [] OTHER -> {}

\* Entries are never skipped: whatever batches, snapshots, refusals and restarts do to each
\* other, the service's state is a prefix of the log, which has or is being given everything
\* that lastApplied counts, and so is the persisted snapshot, which holds everything the log
\* no longer has.
ServiceIsPrefix ==
    /\ Gapless(db) /\ Gapless(snapshot)
    /\ 1..lastApplied \subseteq db \union InHand
    /\ 1..lastIncludedIndex \subseteq snapshot

\* What applyCommittedEntries believes applied lies between the snapshot and commitIndex,
\* and what it is sending is committed: its start is never below the log's first entry.
AppliedInBounds ==
    /\ lastIncludedIndex <= lastApplied /\ lastApplied <= commitIndex
    /\ batch.last <= commitIndex

\* "It is not OK for Raft to go back to an older snapshot" (lab/lab 2.md:205): short of a
\* restart the service's state never loses an entry.
NoGoingBack == [][RestoreSnapshot => db \subseteq db']_vars
=============================================================================
