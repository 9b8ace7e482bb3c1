-------------------------- MODULE ComponentProofs ---------------------------
(***************************************************************************)
(* Three components, each on its own, for every value of its constants:    *)
(*   - the apply pipeline of one peer, for any indexes and any number of   *)
(*     handlers (RaftApply);                                               *)
(*   - the network, for any calls, shutdowns and starts (LabRpc);          *)
(*   - the MapReduce job, for any number of tasks and workers, any deaths  *)
(*     and any timeouts (MapReduce).                                       *)
(* They share no variable; one module has their proofs because each is     *)
(* short.                                                                  *)
(***************************************************************************)
EXTENDS RaftApply, LabRpc, MapReduce, FiniteSetTheorems, TLAPS

-----------------------------------------------------------------------------
(* The bounds of the apply pipeline. *)

\* What a step needs to keep AppliedInBounds: the types, and that a command has an index.
ApplyInv ==
    /\ TypeOK
    /\ service.on = "command" => service.index > 0
    /\ AppliedInBounds

\* The empty batch and the applier at rest have their types.
LEMMA RestTypes ==
    /\ NoBatch \in [next : 1..(MaxIndex + 1), last : 0..MaxIndex] /\ NoBatch.last = 0
    /\ Waiting \in [on : {"applyCh", "command", "applied", "snapshot", "restore"},
                    index : 0..MaxIndex]
    /\ Waiting.on # "command"
  <1>1. 1 \in 1..(MaxIndex + 1) /\ 0 \in 0..MaxIndex
    BY ApplyAssumption, SMTT(30)
  <1> QED BY <1>1, Zenon DEF NoBatch, Waiting

\* The next batch ends at the commitIndex it is given, or is empty.
LEMMA NextBatchBounds ==
    ASSUME NEW commit \in 0..MaxIndex, NEW applied \in 0..MaxIndex,
           lastIncludedIndex \in 0..MaxIndex, MaxIndex \in Nat, NextBatch(commit, applied)
    PROVE  /\ applying' \in BOOLEAN
           /\ batch' \in [next : 1..(MaxIndex + 1), last : 0..MaxIndex]
           /\ batch'.last <= commit
  <1> DEFINE start == Larger(applied, lastIncludedIndex) + 1
  <1>1. start \in 1..(MaxIndex + 1)
    BY SMTT(30) DEF Larger
  <1>2. CASE commit > applied /\ start <= commit
    BY <1>1, <1>2, SMTT(30) DEF NextBatch
  <1>3. CASE ~(commit > applied /\ start <= commit)
    <2>1. applying' = FALSE /\ batch' = NoBatch
      BY <1>3, Zenon DEF NextBatch
    <2>2. applying' \in BOOLEAN
      BY <2>1, Zenon
    <2> QED BY <2>1, <2>2, RestTypes, SMTT(30)
  <1> QED BY <1>2, <1>3, Zenon

\* The pipeline starts within its bounds.
LEMMA InitApply == Init => ApplyInv
  <1> SUFFICES ASSUME Init PROVE ApplyInv
    BY Zenon
  <1>1. {commitIndex, lastApplied, lastIncludedIndex} \subseteq 0..MaxIndex
    BY ApplyAssumption, SMTT(30) DEF Init
  <1>2. installing \in [Handler -> 1..MaxIndex \union {Idle, Sent}]
    BY Zenon DEF Init
  <1>3. applying \in BOOLEAN /\ snapshotInFlight \in BOOLEAN
    BY Zenon DEF Init
  <1>4. service = Waiting /\ batch = NoBatch
    BY Zenon DEF Init
  <1>5. db \subseteq 1..MaxIndex /\ snapshot \subseteq 1..MaxIndex
    BY Zenon DEF Init
  <1>6. AppliedInBounds
    BY SMTT(30) DEF Init, AppliedInBounds, NoBatch
  <1> QED BY <1>1, <1>2, <1>3, <1>4, <1>5, <1>6, RestTypes, Zenon DEF ApplyInv, TypeOK

\* Every step keeps the pipeline within its bounds.
LEMMA NextApply == ApplyInv /\ [Next]_vars => ApplyInv'
  <1> SUFFICES ASSUME ApplyInv, [Next]_vars PROVE ApplyInv'
    BY Zenon
  <1> USE ApplyAssumption DEF ApplyInv, TypeOK, AppliedInBounds
  <1>1. ASSUME NEW n \in 1..MaxIndex, Commit(n) PROVE ApplyInv'
    <2>1. CASE applying \/ snapshotInFlight
      BY <1>1, <2>1, SMTT(30) DEF Commit
    <2>2. CASE ~(applying \/ snapshotInFlight)
      <3>1. NextBatch(n, lastApplied)
        BY <1>1, <2>2, Zenon DEF Commit
      <3>2. /\ applying' \in BOOLEAN
            /\ batch' \in [next : 1..(MaxIndex + 1), last : 0..MaxIndex]
            /\ batch'.last <= n
        BY <3>1, NextBatchBounds, SMTT(30)
      <3> QED BY <1>1, <3>2, SMTT(30) DEF Commit
    <2> QED BY <2>1, <2>2, Zenon
  <1>2. CASE BatchSent
    <2>1. CASE snapshotInFlight
      <3>1. applying' = FALSE /\ batch' = NoBatch
        BY <1>2, <2>1, Zenon DEF BatchSent
      <3>2. applying' \in BOOLEAN
        BY <3>1, Zenon
      <3> QED BY <1>2, <2>1, <3>1, <3>2, RestTypes, SMTT(30) DEF BatchSent
    <2>2. CASE ~snapshotInFlight
      <3>1. /\ lastApplied' = Larger(lastApplied, batch.last)
            /\ NextBatch(commitIndex, lastApplied')
        BY <1>2, <2>2, Zenon DEF BatchSent
      <3>2. /\ lastApplied' \in 0..MaxIndex
            /\ lastApplied <= lastApplied' /\ lastApplied' <= commitIndex
        BY <3>1, SMTT(30) DEF Larger
      <3>3. /\ applying' \in BOOLEAN
            /\ batch' \in [next : 1..(MaxIndex + 1), last : 0..MaxIndex]
            /\ batch'.last <= commitIndex
        BY <3>1, <3>2, NextBatchBounds, Zenon
      <3> QED BY <1>2, <3>2, <3>3, SMTT(30) DEF BatchSent
    <2> QED BY <2>1, <2>2, Zenon
  <1>3. ASSUME NEW h \in Handler, NEW index \in 1..MaxIndex, InstallSnapshot(h, index)
        PROVE  ApplyInv'
    <2>1. snapshotInFlight' \in BOOLEAN
      BY <1>3, Zenon DEF InstallSnapshot
    <2> QED BY <1>3, <2>1, Zenon DEF InstallSnapshot, raftVars
  <1>4. ASSUME NEW h \in Handler, SnapshotSent(h) PROVE ApplyInv'
    <2>1. snapshotInFlight' \in BOOLEAN
      BY <1>4, Zenon DEF SnapshotSent
    <2> QED BY <1>4, <2>1, Zenon DEF SnapshotSent, raftVars
  <1>5. CASE ReceiveCommand
    BY <1>5, SMTT(30) DEF ReceiveCommand, raftVars
  <1>6. ASSUME NEW h \in Handler, ReceiveSnapshot(h) PROVE ApplyInv'
    BY <1>6, SMTT(30) DEF ReceiveSnapshot, raftVars, Idle, Sent
  <1>7. CASE ApplyCommand
    BY <1>7, SMTT(30) DEF ApplyCommand, raftVars
  <1>8. CASE SmallEnough
    BY <1>8, SMTT(30) DEF SmallEnough, Waiting, raftVars
  <1>9. CASE Snapshot
    <2>1. service' = Waiting
      BY <1>9, Zenon DEF Snapshot
    <2>2. /\ lastIncludedIndex' \in 0..MaxIndex /\ lastApplied' \in 0..MaxIndex
          /\ lastIncludedIndex' <= lastApplied' /\ lastApplied' <= commitIndex
      BY <1>9, SMTT(30) DEF Snapshot, Compact, Larger
    <2>3. snapshot' \subseteq 1..MaxIndex
      BY <1>9, Zenon DEF Snapshot, Compact
    <2> QED BY <1>9, <2>1, <2>2, <2>3, RestTypes, Zenon DEF Snapshot
  <1>10. CASE CondInstallSnapshot
    BY <1>10, SMTT(30) DEF CondInstallSnapshot, Install, Waiting, Larger, raftVars
  <1>11. CASE RestoreSnapshot
    BY <1>11, SMTT(30) DEF RestoreSnapshot, Waiting, raftVars
  <1>12. CASE Restart
    <2>1. applying' \in BOOLEAN /\ snapshotInFlight' \in BOOLEAN
      BY <1>12, Zenon DEF Restart
    <2>2. installing' \in [Handler -> 1..MaxIndex \union {Idle, Sent}]
      BY <1>12, Zenon DEF Restart
    <2> QED BY <1>12, <2>1, <2>2, RestTypes, SMTT(30) DEF Restart
  <1>13. CASE UNCHANGED vars
    BY <1>13, Zenon DEF vars, raftVars
  <1> QED
    BY <1>1, <1>2, <1>3, <1>4, <1>5, <1>6, <1>7, <1>8, <1>9, <1>10, <1>11, <1>12, <1>13, Zenon
    DEF Next, Pipeline

\* lastIncludedIndex <= lastApplied <= commitIndex, and no entry beyond commitIndex is sent
\* (applyCommittedEntries), for any number of concurrent InstallSnapshot handlers and any
\* crashes, late snapshots included.
THEOREM AppliedStaysInBounds == Spec => []AppliedInBounds
  <1>1. ApplyInv => AppliedInBounds
    BY Zenon DEF ApplyInv
  <1> QED BY <1>1, InitApply, NextApply, PTL DEF Spec

-----------------------------------------------------------------------------
(* No entry is skipped, unless the service goes back to an older snapshot. *)

\* How far the service's state reaches, and how far it will once what the applier does now
\* takes effect.
dbEnd == Cardinality(db)
effective ==
    IF service.on \in {"command", "restore"} THEN Larger(dbEnd, service.index) ELSE dbEnd

\* The service's state and the persisted snapshot are prefixes, and nothing is marked as
\* applied, or passed by the batch, before it takes effect.
DeliveryInv ==
    /\ ApplyInv
    /\ db = 1..dbEnd
    /\ \E n \in Nat : snapshot = 1..n /\ lastIncludedIndex <= n
    /\ lastApplied <= effective
    /\ batch.next <= effective + 1
    /\ service.on = "command" => service.index <= dbEnd + 1
    /\ service.on = "applied" => 0 < service.index /\ service.index <= dbEnd

\* A prefix ends at its cardinality.
LEMMA PrefixEnd == \A n \in Nat : Cardinality(1..n) = n
  BY FS_Interval, SMTT(30)

\* One more entry, or one that is there already, leaves a prefix.
LEMMA OneMore ==
    ASSUME NEW n \in Nat, NEW i \in 1..(n + 1)
    PROVE  (1..n) \union {i} = 1..Larger(n, i)
  BY SMTT(30) DEF Larger

\* The pipeline starts with nothing applied.
LEMMA InitDelivery == Init => DeliveryInv
  <1> SUFFICES ASSUME Init PROVE DeliveryInv
    BY Zenon
  <1>1. ApplyInv
    BY InitApply, Zenon
  <1>2. db = 1..0 /\ snapshot = 1..0 /\ dbEnd = 0
    BY PrefixEnd, SMTT(30) DEF Init, dbEnd
  <1>3. service.on = "applyCh" /\ effective = 0
    BY <1>2, Zenon DEF Init, Waiting, effective
  <1>4. lastApplied <= effective /\ batch.next <= effective + 1 /\ lastIncludedIndex <= 0
    BY <1>3, SMTT(30) DEF Init, NoBatch
  <1>5. \E n \in Nat : snapshot = 1..n /\ lastIncludedIndex <= n
    BY <1>2, <1>4, SMTT(30)
  <1> QED BY <1>1, <1>2, <1>3, <1>4, <1>5, Zenon DEF DeliveryInv

\* What the service's state holds is part of what takes effect.
LEMMA DbEndInReach ==
    ASSUME DeliveryInv
    PROVE  dbEnd \in Nat /\ effective \in Nat /\ dbEnd <= effective
  <1> USE ApplyAssumption DEF DeliveryInv, ApplyInv, TypeOK
  <1>1. IsFiniteSet(1..MaxIndex)
    BY FS_Interval, SMTT(30)
  <1>2. IsFiniteSet(db)
    BY <1>1, FS_Subset, Zenon
  <1>3. dbEnd \in Nat
    BY <1>2, FS_CardinalityType, Zenon DEF dbEnd
  <1>4. service.index \in Nat
    BY SMTT(30)
  <1> QED BY ONLY <1>3, <1>4, SMTT(30) DEF effective, Larger

\* The next batch starts right after what is applied, or is empty.
LEMMA NextBatchStart ==
    ASSUME NEW commit \in Nat, NEW applied \in Nat, NEW reach \in Nat,
           lastIncludedIndex \in Nat, lastIncludedIndex <= applied, applied <= reach,
           NextBatch(commit, applied)
    PROVE  batch'.next <= reach + 1
  BY SMTT(30) DEF NextBatch, NoBatch, Larger

\* Every step keeps the delivery invariant, but for a switch to an older snapshot.
LEMMA NextDelivery ==
    ASSUME DeliveryInv, [Next]_vars, RestoreSnapshot => db \subseteq db'
    PROVE  DeliveryInv'
  <1>0. ApplyInv'
    BY NextApply, Zenon DEF DeliveryInv
  <1> DEFINE SnapshotIsPrefix == \E n \in Nat : snapshot = 1..n /\ lastIncludedIndex <= n
             Applied == lastApplied <= effective /\ batch.next <= effective + 1
             Goal == /\ db = 1..dbEnd /\ SnapshotIsPrefix /\ Applied
                     /\ service.on = "command" => service.index <= dbEnd + 1
                     /\ service.on = "applied" => 0 < service.index /\ service.index <= dbEnd
  <1> SUFFICES Goal'
    BY <1>0, Zenon DEF DeliveryInv
  <1>a. dbEnd \in Nat /\ effective \in Nat /\ dbEnd <= effective
    BY DbEndInReach, Zenon
  <1>b. Goal
    BY Zenon DEF DeliveryInv
  <1>c. /\ {commitIndex, lastApplied, lastIncludedIndex, service.index} \subseteq Nat
        /\ batch.next \in Nat /\ batch.last \in Nat
        /\ lastIncludedIndex <= lastApplied /\ lastApplied <= commitIndex
    BY ApplyAssumption, SMTT(30) DEF DeliveryInv, ApplyInv, TypeOK, AppliedInBounds
  <1> DEFINE Same == dbEnd' = dbEnd /\ effective' = effective
  <1>1. ASSUME NEW n \in 1..MaxIndex, Commit(n) PROVE Goal'
    <2>1. Same
      BY <1>1, Zenon DEF Commit, dbEnd, effective
    <2>2. batch'.next <= effective + 1
      <3>1. CASE applying \/ snapshotInFlight
        BY <1>1, <1>b, <3>1, Zenon DEF Commit
      <3>2. CASE ~(applying \/ snapshotInFlight)
        <4>1. NextBatch(n, lastApplied) /\ n \in Nat
          BY <1>1, <3>2, SMTT(30) DEF Commit
        <4> QED BY <1>a, <1>b, <1>c, <4>1, NextBatchStart, Zenon
      <3> QED BY <3>1, <3>2, Zenon
    <2> QED BY <1>1, <1>b, <2>1, <2>2, Zenon DEF Commit
  <1>2. CASE BatchSent
    <2>1. Same
      BY <1>2, Zenon DEF BatchSent, dbEnd, effective
    <2>2. lastApplied' <= effective /\ batch'.next <= effective + 1
      <3>1. CASE snapshotInFlight
        BY <1>2, <1>a, <1>b, <3>1, SMTT(30) DEF BatchSent, NoBatch
      <3>2. CASE ~snapshotInFlight
        <4>1. /\ batch.next > batch.last /\ lastApplied' = Larger(lastApplied, batch.last)
              /\ NextBatch(commitIndex, lastApplied')
          BY <1>2, <3>2, Zenon DEF BatchSent
        <4>2. /\ lastApplied' \in Nat /\ lastIncludedIndex <= lastApplied'
              /\ lastApplied' <= effective
          BY <1>a, <1>b, <1>c, <4>1, SMTT(30) DEF Larger
        <4> QED BY <1>a, <1>c, <4>1, <4>2, NextBatchStart, Zenon
      <3> QED BY <3>1, <3>2, Zenon
    <2> QED BY <1>2, <1>b, <2>1, <2>2, Zenon DEF BatchSent
  <1>3. ASSUME NEW h \in Handler, NEW index \in 1..MaxIndex, InstallSnapshot(h, index)
        PROVE  Goal'
    BY <1>3, <1>b, Zenon DEF InstallSnapshot, raftVars, dbEnd, effective
  <1>4. ASSUME NEW h \in Handler, SnapshotSent(h) PROVE Goal'
    BY <1>4, <1>b, Zenon DEF SnapshotSent, raftVars, dbEnd, effective
  <1>5. CASE ReceiveCommand
    <2>1. dbEnd' = dbEnd /\ effective = dbEnd /\ effective' = Larger(dbEnd, batch.next)
      BY <1>5, Zenon DEF ReceiveCommand, dbEnd, effective, Waiting
    <2>2. /\ service'.on = "command" /\ service'.index = batch.next
          /\ batch'.next = batch.next + 1
      BY <1>5, SMTT(30) DEF ReceiveCommand, DeliveryInv, ApplyInv, TypeOK
    <2>3. Applied'
      BY <1>5, <1>a, <1>b, <1>c, <2>1, <2>2, SMTT(30) DEF ReceiveCommand, raftVars, Larger
    <2>4. service'.index <= dbEnd' + 1
      BY <1>b, <2>1, <2>2, Zenon
    <2> QED BY <1>5, <1>b, <2>1, <2>2, <2>3, <2>4, Zenon DEF ReceiveCommand, raftVars
  <1>6. ASSUME NEW h \in Handler, ReceiveSnapshot(h) PROVE Goal'
    <2>1. Same
      BY <1>6, Zenon DEF ReceiveSnapshot, dbEnd, effective, Waiting
    <2> QED BY <1>6, <1>b, <2>1, Zenon DEF ReceiveSnapshot, raftVars
  <1>7. CASE ApplyCommand
    <2>1. service.index \in 1..(dbEnd + 1) /\ db = 1..dbEnd
      BY <1>7, <1>a, <1>b, SMTT(30) DEF ApplyCommand, DeliveryInv, ApplyInv, TypeOK
    <2>2. db' = 1..Larger(dbEnd, service.index)
      <3>1. (1..dbEnd) \union {service.index} = 1..Larger(dbEnd, service.index)
        BY <1>a, <2>1, OneMore, Zenon
      <3> QED BY <1>7, <2>1, <3>1, Zenon DEF ApplyCommand
    <2>3. dbEnd' = effective /\ effective' = effective
      <3>1. effective = Larger(dbEnd, service.index)
        BY <1>7, Zenon DEF ApplyCommand, effective
      <3>2. dbEnd' = effective
        BY <1>a, <2>2, <3>1, PrefixEnd, Zenon DEF dbEnd
      <3> QED BY <1>7, <3>2, SMTT(30) DEF ApplyCommand, effective
    <2>4. /\ db' = 1..dbEnd' /\ service'.index = service.index /\ service'.on = "applied"
          /\ 0 < service.index /\ service.index <= effective
      <3>1. effective = Larger(dbEnd, service.index)
        BY <1>7, Zenon DEF ApplyCommand, effective
      <3>2. service'.index = service.index /\ service'.on = "applied"
        BY <1>7, SMTT(30) DEF ApplyCommand, DeliveryInv, ApplyInv, TypeOK
      <3>3. 0 < service.index /\ service.index <= effective
        BY ONLY <1>a, <2>1, <3>1, SMTT(30) DEF Larger
      <3> QED BY <2>2, <2>3, <3>1, <3>2, <3>3, Zenon
    <2> QED BY <1>7, <1>b, <2>3, <2>4, Zenon DEF ApplyCommand, raftVars
  <1>8. CASE SmallEnough
    BY <1>8, <1>b, Zenon DEF SmallEnough, Waiting, raftVars, dbEnd, effective
  <1>9. CASE Snapshot
    <2>1. Same /\ effective = dbEnd
      BY <1>9, Zenon DEF Snapshot, dbEnd, effective, Waiting
    <2>2. service.index <= dbEnd
      BY <1>9, <1>b, Zenon DEF Snapshot
    <2>3. SnapshotIsPrefix' /\ lastApplied' <= effective
      <3>1. CASE service.index <= lastIncludedIndex \/ service.index > commitIndex
        BY <1>9, <1>b, <3>1, Zenon DEF Snapshot, Compact
      <3>2. CASE ~(service.index <= lastIncludedIndex \/ service.index > commitIndex)
        <4>1. /\ lastIncludedIndex' = service.index /\ snapshot' = 1..dbEnd
              /\ lastApplied' = Larger(lastApplied, service.index)
          BY <1>9, <1>b, <3>2, Zenon DEF Snapshot, Compact
        <4>2. lastApplied' <= effective
          BY <1>b, <1>c, <2>1, <2>2, <4>1, SMTT(30) DEF Larger
        <4> QED BY <1>a, <2>2, <4>1, <4>2, Zenon
      <3> QED BY <3>1, <3>2, Zenon
    <2> QED BY <1>9, <1>b, <2>1, <2>3, Zenon DEF Snapshot, Waiting
  <1>10. CASE CondInstallSnapshot
    <2>1. CASE service.index <= lastIncludedIndex
      <3>1. service.on = "snapshot" /\ service' = Waiting /\ UNCHANGED <<raftVars, snapshot, batch, db>>
        BY <1>10, <2>1, Zenon DEF CondInstallSnapshot
      <3>2. Same
        BY <3>1, Zenon DEF Waiting, dbEnd, effective
      <3> QED BY <1>b, <3>1, <3>2, Zenon DEF Waiting, raftVars
    <2>2. CASE ~(service.index <= lastIncludedIndex)
      <3>1. /\ service'.on = "restore" /\ service'.index = service.index
            /\ Install(service.index) /\ snapshot' = 1..service.index
        BY <1>10, <2>2, SMTT(30) DEF CondInstallSnapshot, DeliveryInv, ApplyInv, TypeOK
      <3>2. /\ dbEnd' = dbEnd /\ effective = dbEnd
            /\ effective' = Larger(dbEnd, service.index)
        BY <1>10, <3>1, Zenon DEF CondInstallSnapshot, dbEnd, effective
      <3>3. lastApplied' <= effective' /\ effective <= effective' /\ effective' \in Nat
        BY <1>a, <1>b, <1>c, <3>1, <3>2, SMTT(30) DEF Install, Larger
      <3>4. batch'.next <= effective' + 1
        BY <1>10, <1>a, <1>b, <1>c, <3>3, SMTT(30) DEF CondInstallSnapshot
      <3>5. SnapshotIsPrefix'
        BY <1>c, <3>1, SMTT(30) DEF Install
      <3> QED BY <1>10, <1>b, <3>1, <3>2, <3>3, <3>4, <3>5, Zenon DEF CondInstallSnapshot
    <2> QED BY <2>1, <2>2, Zenon
  <1>11. CASE RestoreSnapshot
    <2>1. dbEnd' = service.index /\ db' = 1..service.index
      BY <1>11, <1>c, PrefixEnd, Zenon DEF RestoreSnapshot, dbEnd
    <2>2. effective = Larger(dbEnd, service.index) /\ effective' = service.index
      BY <1>11, <2>1, Zenon DEF RestoreSnapshot, effective, Waiting
    <2>3. 1..dbEnd \subseteq 1..service.index
      BY <1>11, <1>b, <2>1, Zenon
    <2>4. effective' = effective
      BY <1>a, <1>c, <2>2, <2>3, SMTT(30) DEF Larger
    <2> QED BY <1>11, <1>b, <2>1, <2>4, Zenon DEF RestoreSnapshot, Waiting, raftVars
  <1>12. CASE Restart
    <2>1. PICK n \in Nat : snapshot = 1..n /\ lastIncludedIndex <= n
      BY <1>b, Zenon
    <2>2. dbEnd' = n /\ effective' = n /\ db' = 1..n
      BY <1>12, <2>1, PrefixEnd, Zenon DEF Restart, dbEnd, effective, Waiting
    <2>3. lastApplied' <= n /\ batch'.next <= n + 1
      BY <1>12, <2>1, SMTT(30) DEF Restart, NoBatch
    <2> QED BY <1>12, <1>b, <2>2, <2>3, Zenon DEF Restart, Waiting
  <1>13. CASE UNCHANGED vars
    BY <1>13, <1>b, Zenon DEF vars, raftVars, dbEnd, effective
  <1> QED
    BY <1>1, <1>2, <1>3, <1>4, <1>5, <1>6, <1>7, <1>8, <1>9, <1>10, <1>11, <1>12, <1>13, Zenon
    DEF Next, Pipeline

\* Going back to an older snapshot is the only way in which an entry gets lost.  As long as the
\* service does not, its state and the persisted snapshot are prefixes of the log and hold, or
\* are being given, everything that lastApplied counts, whatever batches, snapshots, refusals
\* and restarts do to each other: for any indexes, any number of concurrent InstallSnapshot
\* handlers, and snapshots that arrive late, twice or out of order.
THEOREM ServiceStaysPrefix == Spec /\ NoGoingBack => []ServiceIsPrefix
  <1>1. DeliveryInv /\ [Next]_vars /\ [RestoreSnapshot => db \subseteq db']_vars => DeliveryInv'
    <2> SUFFICES ASSUME DeliveryInv, [Next]_vars, [RestoreSnapshot => db \subseteq db']_vars
                 PROVE  DeliveryInv'
      BY Zenon
    <2>1. RestoreSnapshot => db \subseteq db'
      BY Zenon DEF vars
    <2> QED BY <2>1, NextDelivery, Zenon
  <1>2. DeliveryInv => ServiceIsPrefix
    <2> SUFFICES ASSUME DeliveryInv PROVE ServiceIsPrefix
      BY Zenon
    <2>1. /\ {lastApplied, lastIncludedIndex, service.index} \subseteq Nat
          /\ service.on = "command" => service.index > 0
      BY ApplyAssumption, SMTT(30) DEF DeliveryInv, ApplyInv, TypeOK
    <2>2. dbEnd \in Nat /\ db = 1..dbEnd /\ lastApplied <= effective
      BY DbEndInReach, Zenon DEF DeliveryInv
    <2>3. Gapless(db)
      BY <2>2, Zenon DEF Gapless, dbEnd
    <2>4. 1..lastApplied \subseteq db \union InHand
      <3>1. CASE service.on = "command"
        <4>1. effective = Larger(dbEnd, service.index) /\ InHand = {service.index}
          BY <3>1, Zenon DEF effective, InHand
        <4>2. service.index <= dbEnd + 1
          BY <3>1, Zenon DEF DeliveryInv
        <4> QED BY ONLY <2>1, <2>2, <3>1, <4>1, <4>2, SMTT(30) DEF Larger
      <3>2. CASE service.on = "restore"
        <4>1. effective = Larger(dbEnd, service.index) /\ InHand = 1..service.index
          BY <3>2, Zenon DEF effective, InHand
        <4> QED BY ONLY <2>1, <2>2, <4>1, SMTT(30) DEF Larger
      <3>3. CASE service.on \notin {"command", "restore"}
        <4>1. effective = dbEnd
          BY <3>3, Zenon DEF effective
        <4> QED BY ONLY <2>1, <2>2, <4>1, SMTT(30)
      <3> QED BY <3>1, <3>2, <3>3, Zenon
    <2>5. PICK n \in Nat : snapshot = 1..n /\ lastIncludedIndex <= n
      BY Zenon DEF DeliveryInv
    <2>6. Gapless(snapshot)
      BY <2>5, PrefixEnd, Zenon DEF Gapless
    <2>7. 1..lastIncludedIndex \subseteq snapshot
      BY ONLY <2>1, <2>5, SMTT(30)
    <2> QED BY <2>3, <2>4, <2>6, <2>7, Zenon DEF ServiceIsPrefix
  <1> QED BY <1>1, <1>2, InitDelivery, PTL DEF Spec, NoGoingBack

\* Every field of the pipeline keeps its type.
THEOREM ApplyTypes == Spec => []TypeOK
  <1>1. ApplyInv => TypeOK
    BY Zenon DEF ApplyInv
  <1> QED BY <1>1, InitApply, NextApply, PTL DEF Spec

-----------------------------------------------------------------------------
(* Replies and Persisters, for any number of calls, shutdowns and starts. *)

\* The network on its own.
NetworkSpec == NetworkInit /\ [][NetworkNext]_networkVars

\* What the fields of the network hold.
NetworkTypes ==
    /\ persisters \in Seq(SUBSET End) /\ Len(persisters) > 0
    /\ server \in {noServer, Len(persisters)}
    /\ returned \subseteq End
    /\ call \in [End -> [at : {"idle", "calling", "sent", "waiting", "checking", "replying", "done"},
                         server : 0..Len(persisters), reliable : BOOLEAN, ok : BOOLEAN]]
    /\ reliable \in BOOLEAN

\* A handler that has returned left its update in the Persister of the server it ran on, and
\* only such a handler's reply is looked at.
HandlerInv ==
    \A e \in End :
        /\ call[e].at \in {"idle", "calling", "sent"} => call[e].server = noServer
        /\ call[e].at \in {"waiting", "checking"} => call[e].server # noServer
        /\ call[e].at = "checking" => e \in returned
        /\ e \in returned => /\ call[e].server # noServer
                             /\ e \in persisters[call[e].server]

ReplyInv == NetworkTypes /\ HandlerInv /\ RepliedIsPersisted

\* The network starts with one empty Persister and no calls.
LEMMA InitReply == NetworkInit => ReplyInv
  <1> SUFFICES ASSUME NetworkInit PROVE ReplyInv
    BY Zenon
  <1>1. persisters \in Seq(SUBSET End) /\ Len(persisters) = 1
    BY SMTT(30) DEF NetworkInit
  <1>2. NetworkTypes
    BY <1>1, SMTT(30) DEF NetworkInit, NetworkTypes, noServer
  <1> QED BY <1>1, <1>2, Zenon DEF NetworkInit, ReplyInv, HandlerInv, RepliedIsPersisted

\* A new Persister starts as a copy of the last one, and the others stay.
LEMMA CopyPersister ==
    ASSUME NetworkTypes, persisters' = Append(persisters, saved)
    PROVE  /\ persisters' \in Seq(SUBSET End) /\ Len(persisters') = Len(persisters) + 1
           /\ \A i \in 1..Len(persisters) : persisters'[i] = persisters[i]
           /\ saved' = saved
  BY SMTT(30) DEF NetworkTypes, saved

\* A step of a call, or of processReq for it, that gives the call its new fields.
LEMMA CallStep ==
    ASSUME ReplyInv, NEW e \in End,
           NEW fields \in [at : {"idle", "calling", "sent", "waiting", "checking", "replying", "done"},
                           server : 0..Len(persisters), reliable : BOOLEAN, ok : BOOLEAN],
           Set(e, fields),
           UNCHANGED <<server, reliable, returned, persisters>>,
           fields.server = call[e].server \/ e \notin returned,
           fields.at \in {"idle", "calling", "sent"} => fields.server = noServer,
           fields.at \in {"waiting", "checking"} => fields.server # noServer,
           fields.at = "checking" => e \in returned,
           fields.ok => call[e].ok \/ e \in saved
    PROVE  ReplyInv'
  <1>1. call' = [call EXCEPT ![e] = fields]
    BY Zenon DEF Set
  <1>2. NetworkTypes'
    BY <1>1, Zenon DEF ReplyInv, NetworkTypes
  <1>3. HandlerInv'
    BY <1>1, Zenon DEF ReplyInv, NetworkTypes, HandlerInv
  <1>4. saved' = saved
    BY Zenon DEF saved
  <1>5. RepliedIsPersisted'
    BY <1>1, <1>4, Zenon DEF ReplyInv, NetworkTypes, RepliedIsPersisted
  <1> QED BY <1>2, <1>3, <1>5, Zenon DEF ReplyInv

\* Every step of the network and of the harness keeps what a positive reply stands for.
LEMMA NextReply == ReplyInv /\ [NetworkNext]_networkVars => ReplyInv'
  <1> SUFFICES ASSUME ReplyInv, [NetworkNext]_networkVars PROVE ReplyInv'
    BY Zenon
  <1> USE DEF ReplyInv, noServer
  <1>1. ASSUME NEW e \in End, Call(e) PROVE ReplyInv'
    BY <1>1, CallStep, Zenon DEF Call, At, NetworkTypes, HandlerInv
  <1>2. ASSUME NEW e \in End, Send(e) PROVE ReplyInv'
    <2>1. PICK at \in {"sent", "done"} : Set(e, [call[e] EXCEPT !.at = at])
      BY <1>2, Zenon DEF Send
    <2> QED BY <1>2, <2>1, CallStep, Zenon DEF Send, At, NetworkTypes, HandlerInv
  <1>3. ASSUME NEW e \in End, Process(e) PROVE ReplyInv'
    <2>0. e \notin returned
      BY <1>3, Zenon DEF Process, At, HandlerInv
    <2>1. CASE Reply(e, FALSE)
      BY <1>3, <2>0, <2>1, CallStep, Zenon DEF Process, Reply, At, NetworkTypes, HandlerInv
    <2>2. CASE /\ server # noServer
               /\ Set(e, [at |-> "waiting", server |-> server, reliable |-> reliable, ok |-> FALSE])
      <3> DEFINE fields == [at |-> "waiting", server |-> server, reliable |-> reliable, ok |-> FALSE]
      <3>1. reliable \in BOOLEAN /\ FALSE \in BOOLEAN /\ server \in 0..Len(persisters)
        BY SMTT(30) DEF NetworkTypes
      <3>2. fields \in [at : {"idle", "calling", "sent", "waiting", "checking", "replying", "done"},
                        server : 0..Len(persisters), reliable : BOOLEAN, ok : BOOLEAN]
        BY <3>1, Zenon
      <3>3. fields.at = "waiting" /\ fields.server = server /\ ~ fields.ok
        BY Zenon
      <3> HIDE DEF fields
      <3> QED BY <1>3, <2>0, <2>2, <3>2, <3>3, CallStep, Zenon DEF Process, fields
    <2> QED BY <1>3, <2>1, <2>2, Zenon DEF Process
  <1>4. ASSUME NEW e \in End, Dispatch(e) PROVE ReplyInv'
    <2>1. call[e].server \in 1..Len(persisters)
      BY <1>4, SMTT(30) DEF Dispatch, NetworkTypes
    <2>2. /\ persisters' \in Seq(SUBSET End) /\ Len(persisters') = Len(persisters)
          /\ \A i \in 1..Len(persisters) : persisters[i] \subseteq persisters'[i]
          /\ e \in persisters'[call[e].server]
      BY <1>4, <2>1, SMTT(30) DEF Dispatch, NetworkTypes
    <2>3. NetworkTypes'
      BY <1>4, <2>2, Zenon DEF Dispatch, NetworkTypes
    <2>4. HandlerInv'
      <3>1. \A d \in End : call[d].server \in 0..Len(persisters)
        BY Zenon DEF NetworkTypes
      <3>2. call' = call /\ returned' = returned \union {e} /\ call[e].server # noServer
        BY <1>4, Zenon DEF Dispatch
      <3>3. call[e].at \notin {"idle", "calling", "sent"}
        BY <3>2, Zenon DEF HandlerInv
      <3> QED BY <2>2, <3>1, <3>2, <3>3, SMTT(30) DEF HandlerInv
    <2>5. saved \subseteq saved'
      BY <2>2, SMTT(30) DEF NetworkTypes, saved
    <2> QED BY <1>4, <2>3, <2>4, <2>5, Zenon DEF Dispatch, RepliedIsPersisted
  <1>5. ASSUME NEW e \in End, Wait(e) PROVE ReplyInv'
    <2>1. CASE e \in returned /\ Set(e, [call[e] EXCEPT !.at = "checking"])
      BY <1>5, <2>1, CallStep, Zenon DEF Wait, At, NetworkTypes, HandlerInv
    <2>2. CASE Reply(e, FALSE)
      BY <1>5, <2>2, CallStep, Zenon DEF Wait, Reply, At, NetworkTypes, HandlerInv
    <2> QED BY <1>5, <2>1, <2>2, Zenon DEF Wait
  <1>6. ASSUME NEW e \in End, Check(e) PROVE ReplyInv'
    <2>1. CASE Reply(e, FALSE)
      BY <1>6, <2>1, CallStep, Zenon DEF Check, Reply, At, NetworkTypes, HandlerInv
    <2>2. CASE ~ isServerDead(e) /\ Reply(e, TRUE)
      <3>1. e \in saved
        BY <1>6, <2>2, Zenon DEF Check, isServerDead, At, NetworkTypes, HandlerInv, saved
      <3> QED BY <1>6, <2>2, <3>1, CallStep, Zenon DEF Check, Reply, At, NetworkTypes, HandlerInv
    <2> QED BY <1>6, <2>1, <2>2, Zenon DEF Check
  <1>7. ASSUME NEW e \in End, Return(e) PROVE ReplyInv'
    BY <1>7, CallStep, Zenon DEF Return, At, NetworkTypes, HandlerInv
  <1>8. ASSUME UNCHANGED <<call, returned, persisters>>, reliable' \in BOOLEAN,
               server' \in {server, noServer}
        PROVE  ReplyInv'
    <2>1. NetworkTypes'
      BY <1>8, Zenon DEF NetworkTypes
    <2> QED BY <1>8, <2>1, Zenon DEF HandlerInv, RepliedIsPersisted, saved
  <1>9. CASE Supersede
    <2>1. NetworkTypes'
      BY <1>9, CopyPersister, SMTT(30) DEF Supersede, NetworkTypes
    <2> QED
      BY <1>9, <2>1, CopyPersister, SMTT(30)
        DEF Supersede, NetworkTypes, HandlerInv, RepliedIsPersisted
  <1>10. CASE StartServer
    <2>1. NetworkTypes'
      BY <1>10, CopyPersister, SMTT(30) DEF StartServer, NetworkTypes
    <2> QED
      BY <1>10, <2>1, CopyPersister, SMTT(30)
        DEF StartServer, NetworkTypes, HandlerInv, RepliedIsPersisted
  <1> QED
    BY <1>1, <1>2, <1>3, <1>4, <1>5, <1>6, <1>7, <1>8, <1>9, <1>10, Zenon
    DEF NetworkNext, networkVars, Goroutine, Enable, Reliable, Cleanup, StopListening,
        DeleteServer, NetworkTypes

\* No client gets a positive reply for an update that the next server does not start from
\* (processReq, ShutdownServer), for any number of calls, shutdowns and starts.
THEOREM RepliesArePersisted == NetworkSpec => []RepliedIsPersisted
  <1>1. ReplyInv => RepliedIsPersisted
    BY Zenon DEF ReplyInv
  <1> QED BY <1>1, InitReply, NextReply, PTL DEF NetworkSpec

-----------------------------------------------------------------------------
(* The MapReduce job.  JobInv adds to the properties what makes them inductive: *)
(* how far each worker is with its task's files, and that a task is reported    *)
(* and counted only when all of its files are there.                            *)

MapTasks == Tasks(MapPhase, mM)
ReduceTasks == Tasks(ReducePhase, nR)

\* The task's files are there.
TaskDone(t) ==
    /\ t \in MapTasks => \A r \in 0..(nR - 1) : <<t[2], r>> \in files
    /\ t \in ReduceTasks => t[2] \in outputs

\* taskQuantity goes with the phase, and the Finished task is not traced.
PhaseInv ==
    /\ taskQuantity = IF phase = MapPhase THEN mM ELSE IF phase = ReducePhase THEN nR ELSE -1
    /\ tracing[FinishedTask] = 0

\* What a worker is on, and how far it is.
WorkInv ==
    \A w \in Worker :
        LET t == worker[w].task
        IN  /\ worker[w].on = "map" =>
                  /\ t \in MapTasks
                  /\ \A r \in 0..(nR - 1) : r \in todo[w] \/ <<t[2], r>> \in files
            /\ worker[w].on = "reduce" => t \in ReduceTasks /\ phase # MapPhase
            /\ worker[w].on = "finish" => t \in MapTasks \union ReduceTasks /\ TaskDone(t)

\* A task is reported, and counted, only when its files are there.
CountedIsDone ==
    /\ \A t \in Task : reporting[t] > 0 => TaskDone(t)
    /\ \A t \in MapTasks : phase # MapPhase \/ sending[t] + tracing[t] = 0 => TaskDone(t)
    /\ \A t \in ReduceTasks :
          phase = FinishedPhase \/ (phase = ReducePhase /\ sending[t] + tracing[t] = 0) =>
              TaskDone(t)

JobInv == JobTypeOK /\ PhaseInv /\ WorkInv /\ CountedIsDone /\ CountedOnce /\ InputsReady
-----------------------------------------------------------------------------
(* Tasks. *)

\* A set of tasks has as many members as it was asked for.
LEMMA TaskCount ==
    ASSUME NEW type, NEW quantity \in Nat
    PROVE  /\ IsFiniteSet(Tasks(type, quantity))
           /\ Cardinality(Tasks(type, quantity)) = quantity
  <1> DEFINE ids == 0..(quantity - 1)
             f == [id \in ids |-> <<type, id>>]
  <1>1. IsFiniteSet(ids) /\ Cardinality(ids) = quantity
    BY FS_Interval, SMTT(30)
  <1>2. f \in Bijection(ids, Tasks(type, quantity))
    BY Zenon DEF Tasks, Bijection, Injection, Surjection, IsInjective
  <1>3. ExistsBijection(ids, Tasks(type, quantity))
    BY <1>2, Zenon DEF ExistsBijection
  <1> QED BY <1>1, <1>3, FS_Bijection, Zenon

\* The tasks of the three phases are different ones.
LEMMA TaskKinds ==
    /\ Task = MapTasks \union ReduceTasks \union {FinishedTask}
    /\ \A t \in MapTasks : t[1] = MapPhase /\ t[2] \in 0..(mM - 1)
    /\ \A t \in ReduceTasks : t[1] = ReducePhase /\ t[2] \in 0..(nR - 1)
    /\ MapTasks \intersect ReduceTasks = {}
    /\ FinishedTask \notin MapTasks /\ FinishedTask \notin ReduceTasks
    /\ Queued(MapPhase, mM) = MapTasks
    /\ Queued(ReducePhase, nR) = ReduceTasks
    /\ Queued(FinishedPhase, -1) = {FinishedTask}
  BY MapReduceAssumption, SMTT(30)
  DEF Task, MapTasks, ReduceTasks, Tasks, FinishedTask, Queued, MapPhase, ReducePhase,
      FinishedPhase

\* The tasks of the phase that are neither counted nor over.
open == {t \in Queued(phase, taskQuantity) : sending[t] + tracing[t] > 0}

\* CountedOnce, with the tasks of the phase by name.
LEMMA CountedOnceAgain ==
    ASSUME PhaseInv, JobTypeOK
    PROVE  LET now == IF phase = MapPhase THEN MapTasks
                      ELSE IF phase = ReducePhase THEN ReduceTasks ELSE {FinishedTask}
           IN  Queued(phase, taskQuantity) = now /\ now \subseteq Task /\ IsFiniteSet(open)
  <1>1. IsFiniteSet(MapTasks) /\ IsFiniteSet(ReduceTasks) /\ IsFiniteSet({FinishedTask})
    BY MapReduceAssumption, TaskCount, FS_Singleton, Zenon DEF MapTasks, ReduceTasks
  <1> DEFINE now == IF phase = MapPhase THEN MapTasks
                    ELSE IF phase = ReducePhase THEN ReduceTasks ELSE {FinishedTask}
  <1>2. Queued(phase, taskQuantity) = now
    BY TaskKinds, Zenon DEF PhaseInv, JobTypeOK, MapPhase, ReducePhase, FinishedPhase
  <1>3. IsFiniteSet(now) /\ now \subseteq Task
    BY <1>1, TaskKinds, Zenon
  <1>4. open \subseteq now
    BY <1>2, Zenon DEF open
  <1>5. IsFiniteSet(open)
    BY <1>3, <1>4, FS_Subset, Zenon
  <1> QED BY <1>2, <1>3, <1>5, Zenon
-----------------------------------------------------------------------------
\* The job starts with every map task queued.
LEMMA InitJob == JobInit => JobInv
  <1> SUFFICES ASSUME JobInit PROVE JobInv
    BY Zenon
  <1>1. JobTypeOK
    <2>1. {sending, tracing, reporting} \subseteq [Task -> Nat]
      BY SMTT(30) DEF JobInit
    <2>2. worker \in [Worker -> [on : {"idle", "asking", "map", "reduce", "finish", "fatal", "gone"},
                                 task : Task \union {NoTask}]]
      BY Zenon DEF JobInit, AtRest
    <2>3. running \in BOOLEAN
      BY Zenon DEF JobInit
    <2> QED BY MapReduceAssumption, <2>1, <2>2, <2>3, Zenon DEF JobInit, JobTypeOK
  <1>2. PhaseInv
    BY TaskKinds, Zenon DEF JobInit, PhaseInv
  <1>3. WorkInv /\ InputsReady
    BY Zenon DEF JobInit, WorkInv, InputsReady, AtRest
  <1>4. CountedIsDone
    BY TaskKinds, SMTT(30) DEF JobInit, CountedIsDone, MapPhase, ReducePhase, FinishedPhase
  <1>5. CountedOnce
    <2>1. open = MapTasks /\ Cardinality(MapTasks) = mM
      BY MapReduceAssumption, TaskKinds, TaskCount, SMTT(30) DEF JobInit, open, MapTasks
    <2>2. Queued(phase, taskQuantity) = MapTasks
      BY TaskKinds, Zenon DEF JobInit
    <2>3. \A t \in Task : sending[t] + tracing[t] <= IF t \in MapTasks THEN 1 ELSE 0
      BY TaskKinds, SMTT(30) DEF JobInit
    <2>4. taskFinished = taskQuantity - Cardinality(open)
      BY <2>1, MapReduceAssumption, SMTT(30) DEF JobInit
    <2> QED BY <2>2, <2>3, <2>4, Zenon DEF CountedOnce, open
  <1> QED BY <1>1, <1>2, <1>3, <1>4, <1>5, Zenon DEF JobInv

\* A step that leaves the phase and the queues alone keeps the count.
LEMMA SameCount ==
    ASSUME CountedOnce, UNCHANGED <<phaseVars, sending, tracing>>
    PROVE  CountedOnce'
  BY Zenon DEF CountedOnce, phaseVars

\* A goroutine that takes a task's place leaves the count as it is.
LEMMA MovedCount ==
    ASSUME JobTypeOK, JobTypeOK', CountedOnce, UNCHANGED phaseVars,
           \A t \in Task : sending'[t] + tracing'[t] = sending[t] + tracing[t],
           Queued(phase, taskQuantity) \subseteq Task
    PROVE  CountedOnce'
  <1>1. open' = open
    BY Zenon DEF open, phaseVars
  <1> QED BY <1>1, Zenon DEF CountedOnce, open, phaseVars

\* Files are not removed.
LEMMA DoneStays ==
    ASSUME files \subseteq files', outputs \subseteq outputs', NEW t, TaskDone(t)
    PROVE  TaskDone(t)'
  BY Zenon DEF TaskDone

\* A worker's step that leaves the coordinator alone, and may add files.
LEMMA WorkerOnly ==
    ASSUME JobInv, UNCHANGED <<phaseVars, sending, tracing, reporting>>,
           files \subseteq files', outputs \subseteq outputs'
    PROVE  PhaseInv' /\ CountedIsDone' /\ CountedOnce'
  <1>1. PhaseInv'
    BY Zenon DEF JobInv, PhaseInv, phaseVars
  <1>2. CountedOnce'
    BY SameCount, Zenon DEF JobInv
  <1>3. CountedIsDone'
    BY DoneStays, Zenon DEF JobInv, CountedIsDone, phaseVars
  <1> QED BY <1>1, <1>2, <1>3, Zenon

\* Every step keeps the types.
LEMMA NextTypes == JobInv /\ [JobNext]_jobVars => JobTypeOK'
  <1> SUFFICES ASSUME JobInv, [JobNext]_jobVars PROVE JobTypeOK'
    BY Zenon
  <1> USE MapReduceAssumption DEF JobInv, JobTypeOK, phaseVars, fileVars
  <1>1. ASSUME NEW w \in Worker, QuestTask(w) PROVE JobTypeOK'
    BY <1>1, Zenon DEF QuestTask, Asking
  <1>2. ASSUME NEW w \in Worker, CheckPhase(w) PROVE JobTypeOK'
    BY <1>2, SMTT(30) DEF CheckPhase, execPhase, MapPhase, ReducePhase, FinishedPhase
  <1>3. ASSUME NEW w \in Worker, RequestTimeout(w) PROVE JobTypeOK'
    BY <1>3, Zenon DEF RequestTimeout
  <1>4. ASSUME NEW w \in Worker, NEW t \in Task, HandOut(w, t) PROVE JobTypeOK'
    <2>1. sending' \in [Task -> Nat] /\ tracing' \in [Task -> Nat] /\ reporting' \in [Task -> Nat]
      BY <1>4, SMTT(30) DEF HandOut, Take, Add
    <2>2. /\ worker' \in [Worker -> [on : {"idle", "asking", "map", "reduce", "finish", "fatal", "gone"},
                                     task : Task \union {NoTask}]]
          /\ todo' \in [Worker -> SUBSET (0..(nR - 1))]
      <3>1. CASE worker[w] = Asking
        <4>1. Receive(w, t)
          BY <1>4, <3>1, Zenon DEF HandOut
        <4>2. (IF t = FinishedTask THEN Gone
               ELSE [on |-> IF t[1] = MapPhase THEN "map" ELSE "reduce", task |-> t])
              \in [on : {"idle", "asking", "map", "reduce", "finish", "fatal", "gone"},
                   task : Task \union {NoTask}]
          BY Zenon DEF Gone
        <4> QED BY <4>1, <4>2, Zenon DEF Receive
      <3>2. CASE worker[w] # Asking
        BY <1>4, <3>2, Zenon DEF HandOut
      <3> QED BY <3>1, <3>2, Zenon
    <2> QED BY <1>4, <2>1, <2>2, Zenon DEF HandOut
  <1>5. ASSUME NEW w \in Worker, NEW r \in 0..(nR - 1), RenameTempFile(w, r) PROVE JobTypeOK'
    <2>1. worker[w].task[2] \in 0..(mM - 1)
      BY <1>5, TaskKinds, Zenon DEF RenameTempFile, WorkInv
    <2> QED BY <1>5, <2>1, SMTT(30) DEF RenameTempFile
  <1>6. ASSUME NEW w \in Worker, MapDone(w) PROVE JobTypeOK'
    BY <1>6, Zenon DEF MapDone
  <1>7. ASSUME NEW w \in Worker, ReduceTask(w) PROVE JobTypeOK'
    <2>1. worker[w].task[2] \in 0..(nR - 1)
      BY <1>7, TaskKinds, Zenon DEF ReduceTask, WorkInv
    <2> QED BY <1>7, <2>1, SMTT(30) DEF ReduceTask
  <1>8. ASSUME NEW w \in Worker, FinishTask(w) PROVE JobTypeOK'
    <2>1. worker[w].task \in Task
      BY <1>8, TaskKinds, Zenon DEF FinishTask, WorkInv
    <2> QED BY <1>8, <2>1, SMTT(30) DEF FinishTask, Add, AtRest
  <1>9. ASSUME NEW t \in Task, TraceFinished(t) PROVE JobTypeOK'
    BY <1>9, SMTT(30) DEF TraceFinished, Take
  <1>10. ASSUME NEW t \in Task, TraceTimeout(t) PROVE JobTypeOK'
    BY <1>10, SMTT(30) DEF TraceTimeout, Retry, Add, Take
  <1>11. ASSUME NEW w \in Worker, Crash(w) PROVE JobTypeOK'
    BY <1>11, Zenon DEF Crash, Gone
  <1>12. CASE Done
    <2>1. running' \in BOOLEAN
      BY <1>12, Zenon DEF Done
    <2> QED BY <1>12, <2>1, Zenon DEF Done
  <1>13. ASSUME NEW w \in Worker, CallFails(w) PROVE JobTypeOK'
    BY <1>13, Zenon DEF CallFails, Gone
  <1>14. CASE UNCHANGED jobVars
    BY <1>14, Zenon DEF jobVars
  <1> QED
    BY <1>1, <1>2, <1>3, <1>4, <1>5, <1>6, <1>7, <1>8, <1>9, <1>10, <1>11, <1>12, <1>13, <1>14,
      Zenon
    DEF JobNext, WorkerStep

\* What the next phase finds: every task of this one is over, and its files are there.
LEMMA PhaseOver ==
    ASSUME JobInv, taskFinished = taskQuantity
    PROVE  /\ phase # FinishedPhase
           /\ \A t \in Task : sending[t] = 0 /\ tracing[t] = 0
           /\ \A t \in MapTasks : TaskDone(t)
           /\ phase = ReducePhase => \A t \in ReduceTasks : TaskDone(t)
  <1> USE DEF JobInv
  <1>1. phase # FinishedPhase
    BY SMTT(30) DEF PhaseInv, JobTypeOK, MapPhase, ReducePhase, FinishedPhase
  <1>2. IsFiniteSet(open) /\ Queued(phase, taskQuantity) \subseteq Task
    BY CountedOnceAgain, Zenon
  <1>3. Cardinality(open) \in Nat /\ taskFinished = taskQuantity - Cardinality(open)
    BY <1>1, <1>2, FS_CardinalityType, Zenon DEF CountedOnce, open
  <1>4. Cardinality(open) = 0
    <2>1. taskQuantity \in Int
      BY MapReduceAssumption, SMTT(30) DEF JobTypeOK
    <2> QED BY <1>3, <2>1, SMTT(30)
  <1>5. open = {}
    BY <1>2, <1>4, FS_EmptySet, Zenon
  <1>6. \A t \in Task : sending[t] \in Nat /\ tracing[t] \in Nat
    BY Zenon DEF JobTypeOK
  <1>7. \A t \in Task : sending[t] = 0 /\ tracing[t] = 0
    BY <1>5, <1>6, SMTT(30) DEF CountedOnce, open
  <1>8. MapTasks \subseteq Task /\ ReduceTasks \subseteq Task
    BY TaskKinds, Zenon
  <1> QED BY <1>1, <1>7, <1>8, SMTT(30) DEF CountedIsDone

\* Every step keeps the job's invariant.
LEMMA NextJob == JobInv /\ [JobNext]_jobVars => JobInv'
  <1> SUFFICES ASSUME JobInv, [JobNext]_jobVars PROVE JobInv'
    BY Zenon
  <1>0. JobTypeOK'
    BY NextTypes, Zenon
  <1> DEFINE Rest == PhaseInv /\ WorkInv /\ CountedIsDone /\ CountedOnce /\ InputsReady
  <1> SUFFICES Rest'
    BY <1>0, Zenon DEF JobInv
  <1> USE DEF phaseVars, fileVars
  <1>1. ASSUME NEW w \in Worker, QuestTask(w) PROVE Rest'
    <2>1. WorkInv' /\ InputsReady'
      BY <1>1, Zenon DEF QuestTask, Asking, JobInv, JobTypeOK, WorkInv, InputsReady, TaskDone
    <2> QED BY <1>1, <2>1, WorkerOnly, Zenon DEF QuestTask
  <1>2. ASSUME NEW w \in Worker, CheckPhase(w) PROVE Rest'
    <2>1. CASE taskFinished # taskQuantity
      <3>1. WorkInv' /\ InputsReady'
        BY <1>2, <2>1, Zenon DEF CheckPhase, JobInv, WorkInv, InputsReady, TaskDone
      <3> QED BY <1>2, <2>1, <3>1, WorkerOnly, Zenon DEF CheckPhase
    <2>2. CASE taskFinished = taskQuantity
      <3> DEFINE next == IF phase = MapPhase THEN ReducePhase ELSE FinishedPhase
                 quantity == IF phase = MapPhase THEN nR ELSE -1
                 now == IF phase = MapPhase THEN ReduceTasks ELSE {FinishedTask}
      <3>1. /\ phase \in {MapPhase, ReducePhase}
            /\ \A t \in Task : sending[t] = 0 /\ tracing[t] = 0
            /\ \A t \in MapTasks : TaskDone(t)
            /\ phase = ReducePhase => \A t \in ReduceTasks : TaskDone(t)
        BY <2>2, PhaseOver, Zenon DEF JobInv, JobTypeOK
      <3>2. execPhase(next, quantity)
        BY <1>2, <2>2, Zenon DEF CheckPhase
      <3>3. Queued(next, quantity) = now
        BY TaskKinds, Zenon
      <3>4. /\ phase' = next /\ taskQuantity' = quantity /\ taskFinished' = 0
            /\ sending' = [t \in Task |-> IF t \in now THEN 1 ELSE 0]
            /\ UNCHANGED <<tracing, reporting, worker, todo, files, outputs>>
        BY <1>2, <3>1, <3>2, <3>3, SMTT(30) DEF execPhase, CheckPhase
      <3>5. PhaseInv'
        BY <3>1, <3>4, Zenon DEF JobInv, PhaseInv, MapPhase, ReducePhase, FinishedPhase
      <3>6. WorkInv' /\ InputsReady'
        BY <3>1, <3>4, Zenon
        DEF JobInv, WorkInv, InputsReady, TaskDone, MapPhase, ReducePhase, FinishedPhase
      <3>7. CountedIsDone'
        <4>1. \A t \in Task : TaskDone(t)' <=> TaskDone(t)
          BY <3>4, Zenon DEF TaskDone
        <4>2. MapTasks \subseteq Task /\ ReduceTasks \subseteq Task
          BY TaskKinds, Zenon
        <4>3. \A t \in Task : reporting'[t] > 0 => TaskDone(t)'
          BY <3>4, <4>1, Zenon DEF JobInv, CountedIsDone
        <4>4. \A t \in ReduceTasks : phase = MapPhase => sending'[t] + tracing'[t] # 0
          BY <3>1, <3>4, <4>2, SMTT(30) DEF JobInv, JobTypeOK
        <4> QED
          BY <3>1, <3>4, <4>1, <4>2, <4>3, <4>4, Zenon
          DEF CountedIsDone, MapPhase, ReducePhase, FinishedPhase
      <3>8. CountedOnce'
        <4>1. now \subseteq Task
          BY TaskKinds, Zenon
        <4>2. open' = now
          BY <3>1, <3>3, <3>4, <4>1, SMTT(30) DEF open
        <4>3. phase = MapPhase => Cardinality(now) = nR
          BY MapReduceAssumption, TaskCount, Zenon DEF ReduceTasks
        <4>4. \A t \in Task : sending'[t] + tracing'[t] <= IF t \in now THEN 1 ELSE 0
          BY <3>1, <3>4, SMTT(30)
        <4>5. phase' # FinishedPhase => taskFinished' = taskQuantity' - Cardinality(open')
          BY <3>1, <3>4, <4>2, <4>3, MapReduceAssumption, SMTT(30)
            DEF MapPhase, ReducePhase, FinishedPhase
        <4> QED BY <3>3, <3>4, <4>4, <4>5, Zenon DEF CountedOnce, open
      <3> QED BY <3>5, <3>6, <3>7, <3>8, Zenon
    <2> QED BY <2>1, <2>2, Zenon
  <1>3. ASSUME NEW w \in Worker, RequestTimeout(w) PROVE Rest'
    <2>1. WorkInv' /\ InputsReady'
      BY <1>3, Zenon DEF RequestTimeout, JobInv, WorkInv, InputsReady, TaskDone
    <2> QED BY <1>3, <2>1, WorkerOnly, Zenon DEF RequestTimeout
  <1>4. ASSUME NEW w \in Worker, NEW t \in Task, HandOut(w, t) PROVE Rest'
    <2>1. /\ UNCHANGED <<phase, taskQuantity, taskFinished, reporting, files, outputs>>
          /\ sending[t] > 0
          /\ sending' = [sending EXCEPT ![t] = @ - 1]
          /\ tracing' = IF t = FinishedTask THEN tracing ELSE [tracing EXCEPT ![t] = @ + 1]
      BY <1>4, Zenon DEF HandOut, Take, Add
    <2>2. t \in Queued(phase, taskQuantity)
      BY <2>1, SMTT(30) DEF JobInv, JobTypeOK, CountedOnce
    <2>3. t \in ReduceTasks => phase # MapPhase
      BY <2>2, CountedOnceAgain, TaskKinds, Zenon DEF JobInv
    <2>4. t = FinishedTask => phase = FinishedPhase
      BY <2>2, CountedOnceAgain, TaskKinds, Zenon DEF JobInv, JobTypeOK
    <2>5. PhaseInv'
      BY <2>1, SMTT(30) DEF JobInv, JobTypeOK, PhaseInv
    <2>6. WorkInv' /\ InputsReady'
      <3>1. CASE worker[w] = Asking
        <4>1. Receive(w, t)
          BY <1>4, <3>1, Zenon DEF HandOut
        <4> QED
          BY <2>1, <2>3, <4>1, TaskKinds, Zenon
          DEF Receive, JobInv, JobTypeOK, WorkInv, InputsReady, TaskDone, Gone, MapPhase,
              ReducePhase
      <3>2. CASE worker[w] # Asking
        BY <1>4, <2>1, <3>2, Zenon DEF HandOut, JobInv, WorkInv, InputsReady, TaskDone
      <3> QED BY <3>1, <3>2, Zenon
    <2>7. CASE t = FinishedTask
      <3>1. CountedOnce'
        <4>1. \A u \in Task : sending'[u] + tracing'[u] <= sending[u] + tracing[u]
          BY <2>1, <2>7, SMTT(30) DEF JobInv, JobTypeOK
        <4>2. \A u \in Task : sending'[u] + tracing'[u] \in Nat /\ sending[u] + tracing[u] \in Nat
          BY <1>0, SMTT(30) DEF JobInv, JobTypeOK
        <4> QED BY <2>1, <2>4, <2>7, <4>1, <4>2, SMTT(30) DEF JobInv, CountedOnce
      <3>2. \A u \in Task : u # t => sending'[u] + tracing'[u] = sending[u] + tracing[u]
        BY <2>1, <2>7, Zenon DEF JobInv, JobTypeOK
      <3>3. CountedIsDone'
        BY <2>1, <2>7, <3>2, TaskKinds, Zenon DEF JobInv, CountedIsDone, TaskDone
      <3> QED BY <2>5, <2>6, <3>1, <3>3, Zenon
    <2>8. CASE t # FinishedTask
      <3>1. \A u \in Task : sending'[u] + tracing'[u] = sending[u] + tracing[u]
        BY <2>1, <2>8, SMTT(30) DEF JobInv, JobTypeOK
      <3>2. CountedOnce'
        BY <1>0, <2>1, <3>1, MovedCount, CountedOnceAgain, Zenon DEF JobInv
      <3>3. CountedIsDone'
        BY <2>1, <3>1, TaskKinds, Zenon DEF JobInv, CountedIsDone, TaskDone
      <3> QED BY <2>5, <2>6, <3>2, <3>3, Zenon
    <2> QED BY <2>7, <2>8, Zenon
  <1>5. ASSUME NEW w \in Worker, NEW r \in 0..(nR - 1), RenameTempFile(w, r) PROVE Rest'
    <2>1. WorkInv' /\ InputsReady'
      BY <1>5, Zenon DEF RenameTempFile, JobInv, JobTypeOK, WorkInv, InputsReady, TaskDone
    <2> QED BY <1>5, <2>1, WorkerOnly, Zenon DEF RenameTempFile
  <1>6. ASSUME NEW w \in Worker, MapDone(w) PROVE Rest'
    <2>1. TaskDone(worker[w].task) /\ worker[w].task \in MapTasks
      BY <1>6, TaskKinds, Zenon DEF MapDone, JobInv, JobTypeOK, WorkInv, TaskDone
    <2>2. WorkInv' /\ InputsReady'
      BY <1>6, <2>1, Zenon DEF MapDone, JobInv, JobTypeOK, WorkInv, InputsReady, TaskDone
    <2> QED BY <1>6, <2>2, WorkerOnly, Zenon DEF MapDone
  <1>7. ASSUME NEW w \in Worker, ReduceTask(w) PROVE Rest'
    <2> DEFINE task == worker[w].task
    <2>1. task \in ReduceTasks /\ phase # MapPhase
      BY <1>7, Zenon DEF ReduceTask, JobInv, WorkInv
    <2>2. \A m \in 0..(mM - 1) : <<m, task[2]>> \in files
      <3> SUFFICES ASSUME NEW m \in 0..(mM - 1) PROVE <<m, task[2]>> \in files
        BY Zenon
      <3>1. <<MapPhase, m>> \in MapTasks
        BY Zenon DEF MapTasks, Tasks
      <3>2. TaskDone(<<MapPhase, m>>)
        BY <2>1, <3>1, Zenon DEF JobInv, CountedIsDone
      <3> QED BY <2>1, <3>1, <3>2, TaskKinds, Zenon DEF TaskDone
    <2>3. /\ outputs' = outputs \union {task[2]}
          /\ worker' = [worker EXCEPT ![w].on = "finish"]
          /\ UNCHANGED <<phaseVars, sending, tracing, reporting, todo, files>>
      BY <1>7, <2>2, Zenon DEF ReduceTask
    <2>4. TaskDone(task)'
      BY <2>1, <2>3, TaskKinds, SMTT(30) DEF TaskDone, JobInv, JobTypeOK
    <2>5. WorkInv' /\ InputsReady'
      BY <2>1, <2>3, <2>4, DoneStays, SMTT(30) DEF JobInv, JobTypeOK, WorkInv, InputsReady
    <2> QED BY <2>3, <2>5, WorkerOnly, Zenon
  <1>8. ASSUME NEW w \in Worker, FinishTask(w) PROVE Rest'
    <2> DEFINE task == worker[w].task
    <2>1. TaskDone(task) /\ task \in Task
      BY <1>8, TaskKinds, Zenon DEF FinishTask, JobInv, WorkInv
    <2>2. /\ UNCHANGED <<phaseVars, sending, tracing, files, outputs, todo>>
          /\ reporting' = [reporting EXCEPT ![task] = @ + 1]
          /\ worker' = [worker EXCEPT ![w] = AtRest]
      BY <1>8, Zenon DEF FinishTask, Add
    <2>3. PhaseInv' /\ CountedOnce'
      BY <2>2, SameCount, Zenon DEF JobInv, PhaseInv
    <2>4. WorkInv' /\ InputsReady'
      BY <2>2, Zenon DEF AtRest, JobInv, JobTypeOK, WorkInv, InputsReady, TaskDone
    <2>5. CountedIsDone'
      BY <2>1, <2>2, Zenon DEF JobInv, JobTypeOK, CountedIsDone, TaskDone
    <2> QED BY <2>3, <2>4, <2>5, Zenon
  <1>9. ASSUME NEW t \in Task, TraceFinished(t) PROVE Rest'
    <2>1. /\ UNCHANGED <<phase, taskQuantity, sending, reporting, worker, todo, files, outputs>>
          /\ tracing[t] > 0 /\ reporting[t] > 0
          /\ tracing' = [tracing EXCEPT ![t] = @ - 1]
          /\ taskFinished' = taskFinished + 1
      BY <1>9, Zenon DEF TraceFinished, Take
    <2>2. t \in Queued(phase, taskQuantity) /\ sending[t] = 0 /\ tracing[t] = 1
      <3>1. sending[t] \in Nat /\ tracing[t] \in Nat
        BY Zenon DEF JobInv, JobTypeOK
      <3> QED BY <2>1, <3>1, SMTT(30) DEF JobInv, CountedOnce
    <2>3. phase # FinishedPhase
      BY <2>1, <2>2, CountedOnceAgain, SMTT(30)
      DEF JobInv, PhaseInv, JobTypeOK, MapPhase, ReducePhase, FinishedPhase
    <2>4. PhaseInv'
      BY <2>1, SMTT(30) DEF JobInv, PhaseInv, JobTypeOK
    <2>5. WorkInv' /\ InputsReady'
      BY <2>1, Zenon DEF JobInv, WorkInv, InputsReady, TaskDone
    <2>6. CountedIsDone'
      <3>1. \A u \in Task : u # t => sending'[u] + tracing'[u] = sending[u] + tracing[u]
        BY <2>1, Zenon DEF JobInv, JobTypeOK
      <3> QED BY <2>1, <3>1, TaskKinds, Zenon DEF JobInv, CountedIsDone, TaskDone
    <2>7. CountedOnce'
      <3>1. IsFiniteSet(open) /\ Queued(phase, taskQuantity) \subseteq Task
        BY CountedOnceAgain, Zenon DEF JobInv
      <3>2. open' = open \ {t} /\ t \in open
        BY <2>1, <2>2, <3>1, SMTT(30) DEF JobInv, JobTypeOK, open
      <3>3. Cardinality(open') = Cardinality(open) - 1 /\ Cardinality(open) \in Nat
        BY <3>1, <3>2, FS_RemoveElement, FS_CardinalityType, Zenon
      <3>4. taskFinished' = taskQuantity' - Cardinality(open')
        BY <2>1, <2>3, <3>3, MapReduceAssumption, SMTT(30) DEF JobInv, JobTypeOK, CountedOnce, open
      <3>5. \A u \in Task : sending'[u] + tracing'[u] <= sending[u] + tracing[u]
        BY <2>1, SMTT(30) DEF JobInv, JobTypeOK
      <3>6. \A u \in Task : sending'[u] + tracing'[u] \in Nat /\ sending[u] + tracing[u] \in Nat
        BY <1>0, SMTT(30) DEF JobInv, JobTypeOK
      <3> QED BY <2>1, <3>4, <3>5, <3>6, SMTT(30) DEF JobInv, CountedOnce, open
    <2> QED BY <2>4, <2>5, <2>6, <2>7, Zenon
  <1>10. ASSUME NEW t \in Task, TraceTimeout(t) PROVE Rest'
    <2>1. /\ UNCHANGED <<phaseVars, reporting, worker, todo, files, outputs>>
          /\ tracing[t] > 0
          /\ sending' = [sending EXCEPT ![t] = @ + 1]
          /\ tracing' = [tracing EXCEPT ![t] = @ - 1]
      BY <1>10, Zenon DEF TraceTimeout, Retry, Add, Take
    <2>2. \A u \in Task : sending'[u] + tracing'[u] = sending[u] + tracing[u]
      BY <2>1, SMTT(30) DEF JobInv, JobTypeOK
    <2>3. CountedOnce'
      BY <1>0, <2>1, <2>2, MovedCount, CountedOnceAgain, Zenon DEF JobInv
    <2>4. PhaseInv'
      BY <2>1, TaskKinds, SMTT(30) DEF JobInv, PhaseInv, JobTypeOK
    <2>5. WorkInv' /\ InputsReady'
      BY <2>1, Zenon DEF JobInv, WorkInv, InputsReady, TaskDone
    <2>6. CountedIsDone'
      BY <2>1, <2>2, TaskKinds, Zenon DEF JobInv, CountedIsDone, TaskDone
    <2> QED BY <2>3, <2>4, <2>5, <2>6, Zenon
  <1>11. ASSUME NEW w \in Worker, Crash(w) PROVE Rest'
    <2>1. WorkInv' /\ InputsReady'
      BY <1>11, Zenon DEF Crash, Gone, JobInv, JobTypeOK, WorkInv, InputsReady, TaskDone
    <2> QED BY <1>11, <2>1, WorkerOnly, Zenon DEF Crash
  <1>12. CASE Done
    <2>1. WorkInv' /\ InputsReady'
      BY <1>12, Zenon DEF Done, JobInv, WorkInv, InputsReady, TaskDone
    <2> QED BY <1>12, <2>1, WorkerOnly, Zenon DEF Done
  <1>13. ASSUME NEW w \in Worker, CallFails(w) PROVE Rest'
    <2>1. WorkInv' /\ InputsReady'
      BY <1>13, Zenon DEF CallFails, Gone, JobInv, JobTypeOK, WorkInv, InputsReady, TaskDone
    <2> QED BY <1>13, <2>1, WorkerOnly, Zenon DEF CallFails
  <1>14. CASE UNCHANGED jobVars
    <2>1. WorkInv' /\ InputsReady'
      BY <1>14, Zenon DEF jobVars, JobInv, WorkInv, InputsReady, TaskDone
    <2> QED BY <1>14, <2>1, WorkerOnly, Zenon DEF jobVars
  <1> QED
    BY <1>1, <1>2, <1>3, <1>4, <1>5, <1>6, <1>7, <1>8, <1>9, <1>10, <1>11, <1>12, <1>13, <1>14,
      Zenon
    DEF JobNext, WorkerStep

\* Every field of the job keeps its type, for any number of tasks and workers.
THEOREM JobTypes == JobSpec => []JobTypeOK
  <1>1. JobInv => JobTypeOK
    BY Zenon DEF JobInv
  <1> QED BY <1>1, InitJob, NextJob, PTL DEF JobSpec

\* A task is queued or traced in one place until it is counted, and the coordinator's count is
\* that of the tasks that are over (traceTask, getTask), for any number of tasks and workers,
\* whichever workers die and however often tasks time out.
THEOREM TasksAreCountedOnce == JobSpec => []CountedOnce
  <1>1. JobInv => CountedOnce
    BY Zenon DEF JobInv
  <1> QED BY <1>1, InitJob, NextJob, PTL DEF JobSpec

\* No reducer ever finds an intermediate file missing (readTempFiles).
THEOREM ReducersFindInputs == JobSpec => []InputsReady
  <1>1. JobInv => InputsReady
    BY Zenon DEF JobInv
  <1> QED BY <1>1, InitJob, NextJob, PTL DEF JobSpec

\* When Done() answers true every output file is there.
THEOREM DoneHasOutputs == JobSpec => []DoneMeansOutputs
  <1>1. JobInv => DoneMeansOutputs
    <2> SUFFICES ASSUME JobInv, phase = FinishedPhase PROVE outputs = 0..(nR - 1)
      BY Zenon DEF DoneMeansOutputs
    <2> SUFFICES ASSUME NEW r \in 0..(nR - 1) PROVE r \in outputs
      BY Zenon DEF JobInv, JobTypeOK
    <2>1. <<ReducePhase, r>> \in ReduceTasks
      BY Zenon DEF ReduceTasks, Tasks
    <2> QED BY <2>1, Zenon DEF JobInv, CountedIsDone, TaskDone
  <1> QED BY <1>1, InitJob, NextJob, PTL DEF JobSpec
=============================================================================
