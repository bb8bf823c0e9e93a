----------------------- MODULE CompletionHandoffProofs -----------------------
(* What happens to the completion of a child, for any number of children,    *)
(* parents and sessions, any limits and any crashes of the service.          *)
EXTENDS CompletionHandoff, FiniteSetTheorems, SequenceTheorems, TLAPS

ClaimType == [child : Child, id : Nat, owner : Host, generation : Nat]
EntryType == [id : Nat, child : Child]

\* The types of what TypeOK leaves open.
Typed ==
    /\ TypeOK
    /\ recovered \in [Child -> InstanceRecord \cup {None}]
    /\ round \in [Host -> Seq(ClaimType)] /\ wire \in [Host -> Seq(ClaimType)]
    /\ disk \in [Session -> Seq(EntryType)] /\ memory \in [Host -> SUBSET EntryType]
    /\ shared \subseteq Session /\ {turns, timeouts, faults} \subseteq Nat

\* The supervisor has something to do with this child.
Engaged(c) ==
    \/ rec[c] # Absent \/ recovered[c] # None
    \/ c \in live \cup bound \cup stopping \/ spawning[c] # "no"
    \/ block # None /\ block.child = c

\* Whatever the supervisor works on was spawned with an address, a running
\* parent shows a session, results are enqueued once they are persisted, and
\* only a service that has recovered is in a completion block.
Spawned ==
    /\ \A c \in Child : Engaged(c) => addr[c] # None
    /\ \A h \in Host : host[h].up => host[h].session # None
    /\ block # None /\ block.step # "result" => rec[block.child].hash # None
    /\ block # None => svc = "ready"

Base == Typed /\ Spawned

\* The delivery id i was made for child c, and somebody still knows it.
Mentions(i, c) ==
    \/ queue[c] # None /\ queue[c].id = i
    \/ \E h \in Host : \E k \in 1..Len(round[h]) : round[h][k].id = i /\ round[h][k].child = c
    \/ \E h \in Host : \E k \in 1..Len(wire[h]) : wire[h][k].id = i /\ wire[h][k].child = c
    \/ \E s \in Session : \E k \in 1..Len(disk[s]) : disk[s][k].id = i /\ disk[s][k].child = c

\* A delivery id stands for one child, for ever.
IdsFresh ==
    /\ \A i \in Nat, c \in Child : Mentions(i, c) => i < nextId
    /\ \A i \in Nat, c, d \in Child : Mentions(i, c) /\ Mentions(i, d) => c = d

\* What is claimed for a parent is claimed in its name.
RoundsOwned ==
    \A h \in Host : \A k \in 1..Len(round[h]) : round[h][k].owner = h

\* The deliveries that are in a session file.
DiskIds == {i \in Nat : \E s \in Session : \E k \in 1..Len(disk[s]) : disk[s][k].id = i}

\* Until a session file could not be written, nothing is only in memory, an
\* answer tells of an entry on disk, and so does an acknowledged record.
Durable ==
    /\ \A h \in Host : round[h] = <<>> => answer[h] = None
    /\ faults = 0 =>
        /\ \A h \in Host : \A e \in memory[h] : e.id \in DiskIds
        /\ \A h \in Host : answer[h] = "delivered" => Head(round[h]).id \in DiskIds
        /\ \A c \in Child : queue[c] # None /\ queue[c].state = "acknowledged" => queue[c].id \in DiskIds

Marked(c) ==
    \/ rec[c].queued
    \/ recovered[c] # None /\ recovered[c].queued
    \/ block # None /\ block.child = c /\ block.step = "mark"

\* The supervisor thinks a completion queued only while it is, or is told.
MarkedKept ==
    faults = 0 => \A c \in Child : Marked(c) => queue[c] # None \/ Told(c)

\* Of a session that no two parents had open at once there is at most one
\* reader, and it has in memory what is in the file.
OneReader ==
    /\ \A h, k \in Host : h # k /\ host[h].up /\ host[k].up /\ host[h].session = host[k].session
                           => host[h].session \in shared
    /\ \A h \in Host : host[h].up /\ host[h].session \notin shared
                        => Loaded(host[h].session) \subseteq memory[h]

HandoffInv ==
    /\ Base /\ IdsFresh /\ AppendedOnce /\ RoundsOwned /\ Durable /\ MarkedKept
    /\ OneReader

-----------------------------------------------------------------------------
(* Steps that touch neither the queue nor what was delivered.               *)

\* Ids, entries and claims stay what they were; channels may be emptied.
LEMMA QuietDelivery ==
    ASSUME IdsFresh, AppendedOnce, RoundsOwned, UNCHANGED <<queue, nextId, disk>>, shared \subseteq shared',
           \A h \in Host : round'[h] \in {round[h], <<>>} /\ wire'[h] \in {wire[h], <<>>}
    PROVE  IdsFresh' /\ AppendedOnce' /\ RoundsOwned'
<1>1. Len(<<>>) = 0
  OBVIOUS
<1>2. ASSUME NEW i, NEW c, Mentions(i, c)' PROVE Mentions(i, c)
  BY <1>1, <1>2 DEF Mentions
<1>3. IdsFresh'
  BY <1>2 DEF IdsFresh
<1>4. AppendedOnce'
  BY DEF AppendedOnce
<1>5. RoundsOwned'
  BY <1>1 DEF RoundsOwned
<1> QED
  BY <1>3, <1>4, <1>5

\* A parent that leaves forgets what it had not saved, and one that opens a
\* session reads what is on disk.
LEMMA QuietDurable ==
    ASSUME Durable, UNCHANGED <<queue, disk, faults>>,
           \A h \in Host : /\ \A e \in memory'[h] : e \in memory[h] \/ e.id \in DiskIds
                           /\ \/ round'[h] = round[h] /\ answer'[h] = answer[h]
                              \/ round'[h] = <<>> /\ answer'[h] = None
    PROVE  Durable'
<1>1. DiskIds' = DiskIds
  BY DEF DiskIds
<1>2. \A h \in Host : round'[h] = <<>> => answer'[h] = None
  BY DEF Durable
<1>3. ASSUME faults = 0, NEW h \in Host, NEW e \in memory'[h] PROVE e.id \in DiskIds
  BY <1>3 DEF Durable
<1>4. ASSUME faults = 0, NEW h \in Host, answer'[h] = "delivered" PROVE Head(round'[h]).id \in DiskIds
  BY <1>4, HandoffAssumption DEF Durable
<1>5. ASSUME faults = 0, NEW c \in Child, queue'[c] # None, queue'[c].state = "acknowledged"
      PROVE  queue'[c].id \in DiskIds
  BY <1>5 DEF Durable
<1> QED
  BY <1>1, <1>2, <1>3, <1>4, <1>5 DEF Durable

\* No parent opens a session, and those that stay keep what they know of it.
LEMMA QuietReader ==
    ASSUME OneReader, UNCHANGED disk, shared \subseteq shared',
           \A h \in Host : host'[h].up => /\ host[h].up /\ host'[h].session = host[h].session
                                          /\ memory[h] \subseteq memory'[h]
    PROVE  OneReader'
BY DEF OneReader, Loaded

\* Nothing is newly thought queued.
LEMMA QuietMarked ==
    ASSUME MarkedKept, UNCHANGED <<queue, disk, faults>>, \A c \in Child : Marked(c)' => Marked(c)
    PROVE  MarkedKept'
<1>1. \A c : Told(c)' <=> Told(c)
  BY DEF Told
<1> QED
  BY <1>1 DEF MarkedKept

-----------------------------------------------------------------------------
(* The life of a child.                                                    *)

\* What the supervisor's steps for a child it is engaged in have in common.
ChildStep(c) ==
    /\ Engaged(c)
    /\ rec' \in [Child -> InstanceRecord] /\ \A d \in Child \ {c} : rec'[d] = rec[d]
    /\ rec'[c].queued => rec[c].queued
    /\ live' \subseteq live /\ bound' \subseteq bound /\ stopping' \subseteq stopping \cup {c}
    /\ spawning' \in [Child -> {"no", "spawning", "failing"}]
    /\ \A d \in Child \ {c} : spawning'[d] = spawning[d]
    /\ \/ block' = block /\ block = None
       \/ block' = [child |-> c, step |-> "result"] /\ svc = "ready"
    /\ UNCHANGED <<svc, epoch, queue, nextId, addr, recovered, delivery, parent, bounds>>

\* Such a step keeps the invariant.
LEMMA ChildStepKeeps ==
    ASSUME HandoffInv, NEW c \in Child, ChildStep(c)
    PROVE  HandoffInv'
<1>1. /\ UNCHANGED <<queue, nextId, disk, faults, round, wire, answer, memory, shared>>
      /\ UNCHANGED <<svc, epoch, addr, recovered, host, wanted, turns, timeouts>>
  BY DEF ChildStep, delivery, parent, bounds
<1>2. /\ block' \in {None} \cup Block
      /\ block' # None => block'.child = c /\ block'.step = "result" /\ svc = "ready"
  BY DEF ChildStep, Block
<1>3. Typed'
  BY <1>1, <1>2 DEF HandoffInv, Base, Typed, TypeOK, ChildStep
<1>4. \A d \in Child : Engaged(d)' => Engaged(d)
  BY <1>1, <1>2 DEF ChildStep, Engaged, Ready, Quiet
<1>5. Spawned'
  BY <1>1, <1>2, <1>4 DEF HandoffInv, Base, Spawned
<1>6. \A d \in Child : Marked(d)' => Marked(d)
  BY <1>1, <1>2 DEF ChildStep, Marked
<1>7. IdsFresh' /\ AppendedOnce' /\ RoundsOwned'
  BY <1>1, QuietDelivery DEF HandoffInv
<1>8. Durable' /\ MarkedKept'
  BY <1>1, <1>6, QuietDurable, QuietMarked DEF HandoffInv
<1>9. OneReader'
  BY <1>1, QuietReader DEF HandoffInv
<1> QED
  BY <1>3, <1>5, <1>7, <1>8, <1>9 DEF HandoffInv, Base

\* Writing the status of one record.
LEMMA StatusWritten ==
    ASSUME Base, NEW c \in Child, NEW st \in Status, rec' = [rec EXCEPT ![c].status = st]
    PROVE  /\ rec' \in [Child -> InstanceRecord] /\ \A d \in Child \ {c} : rec'[d] = rec[d]
           /\ rec'[c].queued = rec[c].queued /\ rec'[c].hash = rec[c].hash
<1>1. rec \in [Child -> InstanceRecord]
  BY DEF Base, Typed, TypeOK
<1> QED
  BY <1>1 DEF InstanceRecord

\* The awaits of a spawn end well.
LEMMA SpawnOnlineKeeps ==
    ASSUME HandoffInv, NEW c \in Child, SpawnOnline(c)
    PROVE  HandoffInv'
<1>1. rec' \in [Child -> InstanceRecord] /\ (\A d \in Child \ {c} : rec'[d] = rec[d])
      /\ rec'[c].queued = rec[c].queued
  BY StatusWritten DEF HandoffInv, SpawnOnline, Status
<1>2. ChildStep(c)
  BY <1>1 DEF HandoffInv, Base, Typed, TypeOK, SpawnOnline, ChildStep, Engaged, Ready, Quiet
<1> QED
  BY <1>2, ChildStepKeeps

\* The awaits of a spawn throw, and the cleanup starts.
LEMMA SpawnThrowsKeeps ==
    ASSUME HandoffInv, NEW c \in Child, SpawnThrows(c)
    PROVE  HandoffInv'
<1>1. rec' \in [Child -> InstanceRecord] /\ (\A d \in Child \ {c} : rec'[d] = rec[d])
      /\ rec'[c].queued = rec[c].queued
  BY StatusWritten DEF HandoffInv, SpawnThrows, Status
<1>2. ChildStep(c)
  BY <1>1 DEF HandoffInv, Base, Typed, TypeOK, SpawnThrows, ChildStep, Engaged, Ready, Quiet
<1> QED
  BY <1>2, ChildStepKeeps

\* The cleanup of a failed spawn is over, and the completion block begins.
LEMMA FailSpawnKeeps ==
    ASSUME HandoffInv, NEW c \in Child, FailSpawn(c)
    PROVE  HandoffInv'
<1>1. rec' \in [Child -> InstanceRecord] /\ (\A d \in Child \ {c} : rec'[d] = rec[d])
      /\ rec'[c].queued = rec[c].queued
  BY StatusWritten DEF HandoffInv, FailSpawn, Conclude, Status
<1>2. ChildStep(c)
  BY <1>1 DEF HandoffInv, Base, Typed, TypeOK, FailSpawn, Conclude, ChildStep, Engaged, Ready, Quiet
<1> QED
  BY <1>2, ChildStepKeeps

\* A child process exits by itself.
LEMMA RpcExitKeeps ==
    ASSUME HandoffInv, NEW c \in Child, RpcExit(c)
    PROVE  HandoffInv'
<1>1. rec' \in [Child -> InstanceRecord] /\ (\A d \in Child \ {c} : rec'[d] = rec[d])
      /\ rec'[c].queued = rec[c].queued
  BY StatusWritten DEF HandoffInv, RpcExit, Conclude, Status
<1>2. ChildStep(c)
  BY <1>1 DEF HandoffInv, Base, Typed, TypeOK, RpcExit, Conclude, ChildStep, Engaged, Ready, Quiet
<1> QED
  BY <1>2, ChildStepKeeps

\* A child is asked to stop.
LEMMA StopKeeps ==
    ASSUME HandoffInv, NEW c \in Child, Stop(c)
    PROVE  HandoffInv'
<1>1. rec' \in [Child -> InstanceRecord] /\ (\A d \in Child \ {c} : rec'[d] = rec[d])
      /\ rec'[c].queued = rec[c].queued
  BY StatusWritten DEF HandoffInv, Stop, Status
<1>2. ChildStep(c)
  BY <1>1 DEF HandoffInv, Base, Typed, TypeOK, Stop, ChildStep, Engaged, Ready, Quiet
<1> QED
  BY <1>2, ChildStepKeeps

\* Its stop is over, and the completion block begins.
LEMMA StopDoneKeeps ==
    ASSUME HandoffInv, NEW c \in Child, StopDone(c)
    PROVE  HandoffInv'
<1>1. Conclude(c)
  BY DEF StopDone
<1>2. rec' \in [Child -> InstanceRecord] /\ (\A d \in Child \ {c} : rec'[d] = rec[d])
      /\ rec'[c].queued = rec[c].queued
  BY <1>1, StatusWritten DEF HandoffInv, Conclude, Status
<1>3. ChildStep(c)
  BY <1>1, <1>2 DEF HandoffInv, Base, Typed, TypeOK, StopDone, Conclude, ChildStep, Engaged, Ready, Quiet
<1> QED
  BY <1>3, ChildStepKeeps

\* A record is forgotten once it is terminal.
LEMMA RecordExpiresKeeps ==
    ASSUME HandoffInv, NEW c \in Child, RecordExpires(c)
    PROVE  HandoffInv'
<1>1. Absent \in InstanceRecord /\ Absent.queued = FALSE /\ Absent.status = "absent"
  BY DEF Absent, InstanceRecord, Status
<1>2. rec' \in [Child -> InstanceRecord] /\ (\A d \in Child \ {c} : rec'[d] = rec[d])
      /\ rec'[c] = Absent /\ rec[c] # Absent
  BY <1>1 DEF HandoffInv, Base, Typed, TypeOK, RecordExpires, Terminal
<1>3. ChildStep(c)
  BY <1>1, <1>2 DEF HandoffInv, Base, Typed, TypeOK, RecordExpires, ChildStep, Engaged, Quiet
<1> QED
  BY <1>3, ChildStepKeeps

\* A child is spawned with the address of a live parent.
LEMMA SpawnKeeps ==
    ASSUME HandoffInv, NEW c \in Child, NEW h \in Host, NEW a \in Addresses(h), Spawn(c, h, a)
    PROVE  HandoffInv'
<1>1. rec' \in [Child -> InstanceRecord] /\ (\A d \in Child \ {c} : rec'[d] = rec[d])
      /\ rec'[c].queued = rec[c].queued
  BY StatusWritten DEF HandoffInv, Spawn, Status
<1>2. /\ UNCHANGED <<queue, nextId, disk, faults, round, wire, answer, memory, shared, block>>
      /\ UNCHANGED <<svc, epoch, stopping, recovered, host, wanted, turns, timeouts>>
  BY DEF Spawn, delivery, parent, bounds
<1>3. block = None
  BY DEF Spawn, Ready, Quiet
<1>4. a \in Address /\ a # None
  BY QueueAssumption, HandoffAssumption
     DEF HandoffInv, Base, Typed, TypeOK, ParentState, Spawned, Spawn, Addresses
<1>5. /\ addr' \in [Child -> Address \cup {None}] /\ addr'[c] = a
      /\ \A d \in Child \ {c} : addr'[d] = addr[d]
  BY <1>4 DEF HandoffInv, Base, Typed, TypeOK, Spawn
<1>6. /\ live' = live \cup {c} /\ bound' = bound \cup {c}
      /\ spawning' \in [Child -> {"no", "spawning", "failing"}]
      /\ \A d \in Child \ {c} : spawning'[d] = spawning[d]
  BY DEF HandoffInv, Base, Typed, TypeOK, Spawn
<1>7. Typed'
  BY <1>1, <1>2, <1>5, <1>6 DEF HandoffInv, Base, Typed, TypeOK
<1>8. \A d \in Child \ {c} : Engaged(d)' => Engaged(d)
  BY <1>1, <1>2, <1>6 DEF Engaged
<1>9. Spawned'
  BY <1>2, <1>3, <1>4, <1>5, <1>8 DEF HandoffInv, Base, Spawned
<1>10. \A d \in Child : Marked(d)' => Marked(d)
  BY <1>1, <1>2 DEF Marked
<1>11. IdsFresh' /\ AppendedOnce' /\ RoundsOwned'
  BY <1>2, QuietDelivery DEF HandoffInv
<1>12. Durable' /\ MarkedKept'
  BY <1>2, <1>10, QuietDurable, QuietMarked DEF HandoffInv
<1>13. OneReader'
  BY <1>2, QuietReader DEF HandoffInv
<1> QED
  BY <1>7, <1>9, <1>11, <1>12, <1>13 DEF HandoffInv, Base

-----------------------------------------------------------------------------
(* The life of a parent.                                                   *)

\* What a session file has is on disk.
LEMMA ShownOnDisk ==
    ASSUME Typed, NEW s \in Session, NEW x \in ToSet(disk[s])
    PROVE  x.id \in DiskIds
<1>1. disk[s] \in Seq(EntryType)
  BY DEF Typed
<1>2. PICK k \in 1..Len(disk[s]) : x = disk[s][k]
  BY <1>1, LenProperties DEF ToSet
<1>3. disk[s][k] \in EntryType
  BY <1>1, ElementOfSeq
<1> QED
  BY <1>2, <1>3 DEF DiskIds, EntryType

\* What a parent's turns, switches and exits have in common.
HostStep ==
    /\ host' \in [Host -> ParentState] /\ \A h \in Host : host'[h].up => host'[h].session # None
    /\ wanted' \in [Host -> Nat] /\ turns' \in Nat
    /\ memory' \in [Host -> SUBSET EntryType]
    /\ \A h \in Host : \A e \in memory'[h] : e \in memory[h] \/ e.id \in DiskIds
    /\ shared' \subseteq Session /\ shared \subseteq shared' /\ OneReader'
    /\ wire' \in [Host -> Seq(ClaimType)] /\ \A h \in Host : wire'[h] \in {wire[h], <<>>}
    /\ UNCHANGED <<svc, epoch, queue, nextId, child, round, answer, disk, timeouts, faults>>

\* Such a step keeps the invariant.
LEMMA HostStepKeeps ==
    ASSUME HandoffInv, HostStep
    PROVE  HandoffInv'
<1>1. /\ UNCHANGED <<queue, nextId, disk, faults, round, answer, timeouts, svc, epoch>>
      /\ UNCHANGED <<rec, addr, live, bound, spawning, stopping, block, recovered>>
  BY DEF HostStep, child
<1>2. Typed'
  BY <1>1 DEF HandoffInv, Base, Typed, TypeOK, HostStep
<1>3. \A d \in Child : Engaged(d)' => Engaged(d)
  BY <1>1 DEF Engaged
<1>4. Spawned'
  BY <1>1, <1>3 DEF HandoffInv, Base, Spawned, HostStep
<1>5. \A d \in Child : Marked(d)' => Marked(d)
  BY <1>1 DEF Marked
<1>6. IdsFresh' /\ AppendedOnce' /\ RoundsOwned'
  BY <1>1, QuietDelivery DEF HandoffInv, HostStep
<1>7. Durable' /\ MarkedKept'
  BY <1>1, <1>5, QuietDurable, QuietMarked DEF HandoffInv, HostStep
<1> QED
  BY <1>2, <1>4, <1>6, <1>7 DEF HandoffInv, Base, HostStep

\* A turn of the parent begins.
LEMMA StartTurnKeeps ==
    ASSUME HandoffInv, NEW h \in Host, StartTurn(h)
    PROVE  HandoffInv'
<1>1. host \in [Host -> ParentState] /\ \A k \in Host : host[k].up => host[k].session # None
  BY DEF HandoffInv, Base, Typed, TypeOK, Spawned
<1>2. host' = [host EXCEPT ![h].mode = "running"]
  BY DEF StartTurn
<1>3. host' \in [Host -> ParentState] /\ \A k \in Host : host'[k].up => host'[k].session # None
  BY <1>1, <1>2 DEF ParentState
<1>4. \A k \in Host : host'[k].up = host[k].up /\ host'[k].session = host[k].session
  BY <1>1, <1>2 DEF ParentState
<1>5. OneReader'
  BY <1>4, QuietReader DEF StartTurn, HandoffInv
<1>6. HostStep
  BY <1>3, <1>5 DEF HandoffInv, Base, Typed, TypeOK, StartTurn, HostStep, delivery
<1> QED
  BY <1>6, HostStepKeeps

\* The turn has settled and asks for a delivery round.
LEMMA SettleKeeps ==
    ASSUME HandoffInv, NEW h \in Host, Settle(h)
    PROVE  HandoffInv'
<1>1. host \in [Host -> ParentState] /\ \A k \in Host : host[k].up => host[k].session # None
  BY DEF HandoffInv, Base, Typed, TypeOK, Spawned
<1>2. host' = [host EXCEPT ![h].mode = "settling"]
  BY DEF Settle
<1>3. host' \in [Host -> ParentState] /\ \A k \in Host : host'[k].up => host'[k].session # None
  BY <1>1, <1>2 DEF ParentState
<1>4. wanted' \in [Host -> Nat]
  BY DEF HandoffInv, Base, Typed, TypeOK, Settle
<1>5. \A k \in Host : host'[k].up = host[k].up /\ host'[k].session = host[k].session
  BY <1>1, <1>2 DEF ParentState
<1>6. OneReader'
  BY <1>5, QuietReader DEF Settle, HandoffInv
<1>7. HostStep
  BY <1>3, <1>4, <1>6 DEF HandoffInv, Base, Typed, TypeOK, Settle, HostStep, bounds
<1> QED
  BY <1>7, HostStepKeeps

\* The run of the turn is over.
LEMMA RunOverKeeps ==
    ASSUME HandoffInv, NEW h \in Host, RunOver(h)
    PROVE  HandoffInv'
<1>1. host \in [Host -> ParentState] /\ \A k \in Host : host[k].up => host[k].session # None
  BY DEF HandoffInv, Base, Typed, TypeOK, Spawned
<1>2. host' = [host EXCEPT ![h].mode = "idle"]
  BY DEF RunOver
<1>3. host' \in [Host -> ParentState] /\ \A k \in Host : host'[k].up => host'[k].session # None
  BY <1>1, <1>2 DEF ParentState
<1>4. \A k \in Host : host'[k].up = host[k].up /\ host'[k].session = host[k].session
  BY <1>1, <1>2 DEF ParentState
<1>5. OneReader'
  BY <1>4, QuietReader DEF RunOver, HandoffInv
<1>6. HostStep
  BY <1>3, <1>5 DEF HandoffInv, Base, Typed, TypeOK, RunOver, HostStep, delivery, bounds
<1> QED
  BY <1>6, HostStepKeeps

\* A parent starts in a session nobody shows.
LEMMA StartHostKeeps ==
    ASSUME HandoffInv, NEW h \in Host, NEW s \in Session, StartHost(h, s)
    PROVE  HandoffInv'
<1>1. host \in [Host -> ParentState] /\ \A k \in Host : host[k].up => host[k].session # None
  BY DEF HandoffInv, Base, Typed, TypeOK, Spawned
<1>2. host' = [host EXCEPT ![h] = [up |-> TRUE, session |-> s, mode |-> "idle"]]
  BY DEF StartHost
<1>3. s # None
  BY QueueAssumption, HandoffAssumption
<1>4. host' \in [Host -> ParentState] /\ \A k \in Host : host'[k].up => host'[k].session # None
  BY <1>1, <1>2, <1>3 DEF ParentState
<1>5. wanted' \in [Host -> Nat]
  BY DEF HandoffInv, Base, Typed, TypeOK, StartHost
<1>6. OneReader'
  <2>1. /\ host'[h].session = s /\ \A k \in Host \ {h} : host'[k] = host[k]
        /\ \A k \in Host : host[k].session # s
    BY <1>1, <1>2 DEF StartHost
  <2>2. disk[s] = <<>> /\ UNCHANGED <<disk, memory, shared>>
    BY DEF StartHost
  <2>3. Loaded(s) = {}
    BY <2>2 DEF Loaded, ToSet
  <2>4. \A k \in Host \ {h} : host[k].up /\ host[k].session \notin shared => Loaded(host[k].session) \subseteq memory[k]
    BY DEF HandoffInv, OneReader
  <2> QED
    BY <2>1, <2>2, <2>3, <2>4 DEF HandoffInv, OneReader, Loaded
<1>7. HostStep
  BY <1>4, <1>5, <1>6 DEF HandoffInv, Base, Typed, TypeOK, StartHost, HostStep, bounds
<1> QED
  BY <1>7, HostStepKeeps

\* A parent opens another session, reads what its file has, and forgets what
\* it had not saved; a session that another parent has open is shared then.
LEMMA SwitchSessionKeeps ==
    ASSUME HandoffInv, NEW h \in Host, NEW s \in Session, SwitchSession(h, s)
    PROVE  HandoffInv'
<1>1. host \in [Host -> ParentState] /\ \A k \in Host : host[k].up => host[k].session # None
  BY DEF HandoffInv, Base, Typed, TypeOK, Spawned
<1>2. host' = [host EXCEPT ![h].session = s]
  BY DEF SwitchSession
<1>3. s # None
  BY QueueAssumption, HandoffAssumption
<1>4. host' \in [Host -> ParentState] /\ \A k \in Host : host'[k].up => host'[k].session # None
  BY <1>1, <1>2, <1>3 DEF ParentState
<1>5. /\ memory \in [Host -> SUBSET EntryType] /\ memory' = [memory EXCEPT ![h] = Loaded(s)]
      /\ disk \in [Session -> Seq(EntryType)] /\ UNCHANGED disk
  BY DEF HandoffInv, Base, Typed, SwitchSession
<1>6. Loaded(s) \subseteq EntryType /\ \A e \in Loaded(s) : e.id \in DiskIds
  <2>1. disk[s] \in Seq(EntryType)
    BY <1>5
  <2>2. Loaded(s) \subseteq EntryType
    BY <2>1, ElementOfSeq DEF Loaded, ToSet
  <2> QED
    BY <2>2, ShownOnDisk DEF Loaded, HandoffInv, Base
<1>7. memory'[h] = Loaded(s) /\ \A k \in Host \ {h} : memory'[k] = memory[k]
  BY <1>5
<1>8. memory' \in [Host -> SUBSET EntryType]
  BY <1>5, <1>6
<1>9. \A k \in Host : \A e \in memory'[k] : e \in memory[k] \/ e.id \in DiskIds
  BY <1>6, <1>7
<1>10. /\ shared' = shared \cup {t \in {s} : \E k \in Host \ {h} : host[k].up /\ host[k].session = t}
       /\ shared \subseteq Session
  BY DEF SwitchSession, HandoffInv, Base, Typed
<1>11. shared' \subseteq Session /\ shared \subseteq shared'
  BY <1>10
<1>12. /\ host'[h].session = s /\ \A k \in Host \ {h} : host'[k] = host[k]
  BY <1>1, <1>2 DEF ParentState
<1>13. OneReader'
  <2>1. \A k \in Host \ {h} : host[k].up /\ host[k].session = s => s \in shared'
    BY <1>10
  <2>2. ASSUME NEW k \in Host, NEW g \in Host, k # g, host'[k].up, host'[g].up, host'[k].session = host'[g].session
        PROVE  host'[k].session \in shared'
    <3>1. CASE k = h \/ g = h
      BY <1>12, <2>1, <2>2, <3>1
    <3>2. CASE k # h /\ g # h
      BY <1>11, <1>12, <2>2, <3>2 DEF HandoffInv, OneReader
    <3> QED
      BY <3>1, <3>2
  <2>3. ASSUME NEW k \in Host, host'[k].up, host'[k].session \notin shared'
        PROVE  Loaded(host'[k].session) \subseteq memory'[k]
    <3>1. CASE k = h
      BY <1>7, <1>12, <3>1
    <3>2. CASE k # h
      BY <1>7, <1>11, <1>12, <2>3, <3>2 DEF HandoffInv, OneReader
    <3> QED
      BY <3>1, <3>2
  <2> QED
    BY <1>5, <2>2, <2>3 DEF OneReader, Loaded
<1>14. HostStep
  BY <1>4, <1>8, <1>9, <1>11, <1>13 DEF HandoffInv, Base, Typed, TypeOK, SwitchSession, HostStep, delivery, bounds
<1> QED
  BY <1>14, HostStepKeeps

\* A parent process ends, and the commands on their way to it are lost.
LEMMA HostExitKeeps ==
    ASSUME HandoffInv, NEW h \in Host, HostExit(h)
    PROVE  HandoffInv'
<1>1. host \in [Host -> ParentState] /\ \A k \in Host : host[k].up => host[k].session # None
  BY DEF HandoffInv, Base, Typed, TypeOK, Spawned
<1>2. host' = [host EXCEPT ![h].up = FALSE, ![h].mode = "idle"]
  BY DEF HostExit
<1>3. host' \in [Host -> ParentState] /\ \A k \in Host : host'[k].up => host'[k].session # None
  BY <1>1, <1>2 DEF ParentState
<1>4. memory \in [Host -> SUBSET EntryType] /\ memory' = [memory EXCEPT ![h] = {}]
  BY DEF HandoffInv, Base, Typed, HostExit
<1>5. memory' \in [Host -> SUBSET EntryType] /\ \A k \in Host : \A e \in memory'[k] : e \in memory[k]
  BY <1>4
<1>6. wire \in [Host -> Seq(ClaimType)] /\ wire' = [wire EXCEPT ![h] = <<>>] /\ <<>> \in Seq(ClaimType)
  BY DEF HandoffInv, Base, Typed, HostExit
<1>7. wire' \in [Host -> Seq(ClaimType)] /\ \A k \in Host : wire'[k] \in {wire[k], <<>>}
  BY <1>6
<1>8. wanted' \in [Host -> Nat]
  BY DEF HandoffInv, Base, Typed, TypeOK, HostExit
<1>9. OneReader'
  <2>1. /\ ~host'[h].up /\ \A k \in Host \ {h} : host'[k] = host[k] /\ memory'[k] = memory[k]
    BY <1>1, <1>2, <1>4 DEF ParentState
  <2> QED
    BY <2>1, QuietReader DEF HostExit, HandoffInv
<1>10. HostStep
  BY <1>3, <1>5, <1>7, <1>8, <1>9 DEF HandoffInv, Base, Typed, TypeOK, HostExit, HostStep, bounds
<1> QED
  BY <1>10, HostStepKeeps

-----------------------------------------------------------------------------
(* The completion block and the service process, away from the queue.       *)

\* The result of a child is persisted once.
LEMMA WriteResultKeeps ==
    ASSUME HandoffInv, WriteResult
    PROVE  HandoffInv'
<1>1. /\ UNCHANGED <<queue, nextId, disk, faults, round, wire, answer, memory, shared>>
      /\ UNCHANGED <<svc, epoch, addr, live, bound, spawning, stopping, recovered, host, wanted, turns, timeouts>>
  BY DEF WriteResult, delivery, parent, bounds
<1> DEFINE c == block.child
<1>2. /\ rec \in [Child -> InstanceRecord] /\ block \in Block /\ c \in Child /\ epoch \in Nat
      /\ block # None /\ block.step = "result"
  BY DEF HandoffInv, Base, Typed, TypeOK, WriteResult, AtStep, Block
<1>3. \/ rec' = rec /\ block' = None
      \/ rec' = [rec EXCEPT ![c].hash = epoch] /\ block' = [block EXCEPT !.step = "enqueue"]
  BY DEF WriteResult
<1>4. epoch # None
  BY <1>2, QueueAssumption
<1>5. /\ rec' \in [Child -> InstanceRecord] /\ (\A d \in Child \ {c} : rec'[d] = rec[d])
      /\ rec'[c].queued = rec[c].queued
      /\ block' # None => rec'[c].hash # None
  BY <1>2, <1>3, <1>4 DEF InstanceRecord
<1>6. /\ block' \in {None} \cup Block
      /\ block' # None => block'.child = c /\ block'.step = "enqueue"
  BY <1>2, <1>3 DEF Block
<1>7. Typed'
  BY <1>1, <1>5, <1>6 DEF HandoffInv, Base, Typed, TypeOK
<1>8. \A d \in Child : Engaged(d)' => Engaged(d)
  BY <1>1, <1>2, <1>5, <1>6 DEF Engaged
<1>9. Spawned'
  BY <1>1, <1>2, <1>5, <1>6, <1>8 DEF HandoffInv, Base, Spawned
<1>10. \A d \in Child : Marked(d)' => Marked(d)
  BY <1>1, <1>5, <1>6 DEF Marked
<1>11. IdsFresh' /\ AppendedOnce' /\ RoundsOwned'
  BY <1>1, QuietDelivery DEF HandoffInv
<1>12. Durable' /\ MarkedKept'
  BY <1>1, <1>10, QuietDurable, QuietMarked DEF HandoffInv
<1>13. OneReader'
  BY <1>1, QuietReader DEF HandoffInv
<1> QED
  BY <1>7, <1>9, <1>11, <1>12, <1>13 DEF HandoffInv, Base

\* The record is marked after the completion is in the queue.
LEMMA MarkQueuedKeeps ==
    ASSUME HandoffInv, MarkQueued
    PROVE  HandoffInv'
<1>1. /\ UNCHANGED <<queue, nextId, disk, faults, round, wire, answer, memory, shared>>
      /\ UNCHANGED <<svc, epoch, addr, live, bound, spawning, stopping, recovered, host, wanted, turns, timeouts>>
  BY DEF MarkQueued, delivery, parent, bounds
<1> DEFINE c == block.child
<1>2. /\ rec \in [Child -> InstanceRecord] /\ block \in Block /\ c \in Child
      /\ block # None /\ block.step = "mark"
  BY DEF HandoffInv, Base, Typed, TypeOK, MarkQueued, AtStep, Block
<1>3. rec' = [rec EXCEPT ![c].queued = TRUE] /\ block' = None
  BY DEF MarkQueued
<1>4. rec' \in [Child -> InstanceRecord] /\ \A d \in Child \ {c} : rec'[d] = rec[d]
  BY <1>2, <1>3 DEF InstanceRecord
<1>5. Typed'
  BY <1>1, <1>3, <1>4 DEF HandoffInv, Base, Typed, TypeOK
<1>6. \A d \in Child : Engaged(d)' => Engaged(d)
  BY <1>1, <1>2, <1>3, <1>4 DEF Engaged
<1>7. Spawned'
  BY <1>1, <1>3, <1>6 DEF HandoffInv, Base, Spawned
<1>8. \A d \in Child : Marked(d)' => Marked(d)
  BY <1>1, <1>2, <1>3, <1>4 DEF Marked
<1>9. IdsFresh' /\ AppendedOnce' /\ RoundsOwned'
  BY <1>1, QuietDelivery DEF HandoffInv
<1>10. Durable' /\ MarkedKept'
  BY <1>1, <1>8, QuietDurable, QuietMarked DEF HandoffInv
<1>11. OneReader'
  BY <1>1, QuietReader DEF HandoffInv
<1> QED
  BY <1>5, <1>7, <1>9, <1>10, <1>11 DEF HandoffInv, Base

\* The service dies: what is in files stays, and nothing else does.
LEMMA CrashKeeps ==
    ASSUME HandoffInv, Crash
    PROVE  HandoffInv'
<1>1. UNCHANGED <<epoch, rec, queue, nextId, addr, disk, shared, turns, timeouts, faults>>
  BY DEF Crash, bounds
<1>2. /\ svc' = "down" /\ live' = {} /\ bound' = {} /\ stopping' = {} /\ block' = None
      /\ spawning' = [c \in Child |-> "no"] /\ recovered' = [c \in Child |-> None]
      /\ wanted' = [h \in Host |-> 0] /\ round' = [h \in Host |-> <<>>] /\ wire' = [h \in Host |-> <<>>]
      /\ answer' = [h \in Host |-> None] /\ memory' = [h \in Host |-> {}]
  BY DEF Crash
<1>3. host \in [Host -> ParentState] /\ host' = [h \in Host |-> [host[h] EXCEPT !.up = FALSE, !.mode = "idle"]]
  BY DEF HandoffInv, Base, Typed, TypeOK, Crash
<1>4. host' \in [Host -> ParentState] /\ \A h \in Host : ~host'[h].up
  BY <1>3 DEF ParentState
<1>5. <<>> \in Seq(ClaimType)
  OBVIOUS
<1>6. Typed'
  BY <1>1, <1>2, <1>4, <1>5 DEF HandoffInv, Base, Typed, TypeOK
<1>7. \A d \in Child : Engaged(d)' => Engaged(d)
  BY <1>1, <1>2 DEF Engaged
<1>8. Spawned'
  BY <1>1, <1>2, <1>4, <1>7 DEF HandoffInv, Base, Spawned
<1>9. \A d \in Child : Marked(d)' => Marked(d)
  BY <1>1, <1>2 DEF Marked
<1>10. IdsFresh' /\ AppendedOnce' /\ RoundsOwned'
  BY <1>1, <1>2, QuietDelivery DEF HandoffInv
<1>11. Durable' /\ MarkedKept'
  BY <1>1, <1>2, <1>9, QuietDurable, QuietMarked DEF HandoffInv
<1>12. OneReader'
  BY <1>1, <1>4, QuietReader DEF HandoffInv
<1> QED
  BY <1>6, <1>8, <1>10, <1>11, <1>12 DEF HandoffInv, Base

\* The service is started again.
LEMMA RestartKeeps ==
    ASSUME HandoffInv, Restart
    PROVE  HandoffInv'
<1>1. /\ UNCHANGED <<queue, nextId, disk, faults, round, wire, answer, memory, shared, host, wanted, turns, timeouts>>
      /\ UNCHANGED <<rec, addr, live, bound, spawning, stopping, block, recovered>>
      /\ svc' = "recovering" /\ epoch' = epoch + 1
  BY DEF Restart, child, delivery, parent, bounds
<1>2. Typed'
  BY <1>1 DEF HandoffInv, Base, Typed, TypeOK
<1>3. \A d \in Child : Engaged(d)' => Engaged(d)
  BY <1>1 DEF Engaged
<1>4. Spawned'
  BY <1>1, <1>3 DEF HandoffInv, Base, Spawned, Restart
<1>5. \A d \in Child : Marked(d)' => Marked(d)
  BY <1>1 DEF Marked
<1>6. IdsFresh' /\ AppendedOnce' /\ RoundsOwned'
  BY <1>1, QuietDelivery DEF HandoffInv
<1>7. Durable' /\ MarkedKept'
  BY <1>1, <1>5, QuietDurable, QuietMarked DEF HandoffInv
<1>8. OneReader'
  BY <1>1, QuietReader DEF HandoffInv
<1> QED
  BY <1>2, <1>4, <1>6, <1>7, <1>8 DEF HandoffInv, Base

\* The records decided during recovery replace the file.
LEMMA FinishRecoveryKeeps ==
    ASSUME HandoffInv, FinishRecovery
    PROVE  HandoffInv'
<1>1. /\ UNCHANGED <<queue, nextId, disk, faults, round, wire, answer, memory, shared, host, wanted, turns, timeouts>>
      /\ UNCHANGED <<epoch, addr, live, bound, spawning, stopping, block>>
      /\ svc' = "ready"
  BY DEF FinishRecovery, delivery, parent, bounds
<1>2. /\ rec' = [c \in Child |-> IF recovered[c] # None THEN recovered[c] ELSE Absent]
      /\ recovered' = [c \in Child |-> None]
      /\ \A c \in Child : rec[c] # Absent => recovered[c] # None
  BY DEF FinishRecovery
<1>3. Absent \in InstanceRecord /\ Absent.queued = FALSE
  BY DEF Absent, InstanceRecord, Status
<1>4. rec' \in [Child -> InstanceRecord] /\ recovered' \in [Child -> InstanceRecord \cup {None}]
  BY <1>2, <1>3 DEF HandoffInv, Base, Typed
<1>5. Typed'
  BY <1>1, <1>4 DEF HandoffInv, Base, Typed, TypeOK
<1>6. \A d \in Child : Engaged(d)' => Engaged(d)
  BY <1>1, <1>2 DEF Engaged
<1>7. Spawned'
  BY <1>1, <1>2, <1>6 DEF HandoffInv, Base, Spawned, FinishRecovery
<1>8. \A d \in Child : Marked(d)' => Marked(d)
  BY <1>1, <1>2, <1>3 DEF Marked
<1>9. IdsFresh' /\ AppendedOnce' /\ RoundsOwned'
  BY <1>1, QuietDelivery DEF HandoffInv
<1>10. Durable' /\ MarkedKept'
  BY <1>1, <1>8, QuietDurable, QuietMarked DEF HandoffInv
<1>11. OneReader'
  BY <1>1, QuietReader DEF HandoffInv
<1> QED
  BY <1>5, <1>7, <1>9, <1>10, <1>11 DEF HandoffInv, Base

-----------------------------------------------------------------------------
(* What the methods of the queue do to its records.                         *)

QueueType == [Child -> CompletionRecord \cup {None}]

\* No record is new, only acknowledged ones leave, and none is newly
\* acknowledged.
NothingNew(q, r) == \A d \in Child : r[d] # None => q[d] # None /\ r[d].id = q[d].id
UnacknowledgedStay(q, r) ==
    \A d \in Child : q[d] # None /\ r[d] = None => q[d].state = "acknowledged"
AcknowledgedBefore(q, r) ==
    \A d \in Child : r[d] # None /\ r[d].state = "acknowledged"
        => q[d] # None /\ q[d].state = "acknowledged" /\ r[d].id = q[d].id
QueueStep(q, r) ==
    r \in QueueType /\ NothingNew(q, r) /\ UnacknowledgedStay(q, r) /\ AcknowledgedBefore(q, r)

\* Retention and eviction drop acknowledged records only.
LEMMA WithoutStep ==
    ASSUME NEW q \in QueueType, NEW gone \in SUBSET Acknowledged(q)
    PROVE  QueueStep(q, Without(q, gone))
BY DEF QueueType, Acknowledged, Entries, Without, QueueStep, NothingNew, UnacknowledgedStay, AcknowledgedBefore

\* A claim stamps the records it takes.
LEMMA ClaimStep ==
    ASSUME NEW q \in QueueType, NEW h \in Host, NEW taken \in SUBSET Entries(q)
    PROVE  /\ QueueStep(q, Claim(q, h, taken))
           /\ \A c \in taken : Claim(q, h, taken)[c] \in CompletionRecord /\ Claim(q, h, taken)[c].owner = h
                               /\ Claim(q, h, taken)[c].id = q[c].id
<1>1. HandoffAssumption /\ QueueAssumption
  BY HandoffAssumption, QueueAssumption
<1>2. \A c \in Child : q[c] # None => q[c] \in CompletionRecord
  BY DEF QueueType
<1>3. \A c \in taken : c \in Child /\ q[c] # None
  BY DEF Entries
<1>4. h \in Owner
  BY <1>1 DEF HandoffAssumption
<1>5. ASSUME NEW c \in taken
      PROVE  /\ Claim(q, h, taken)[c] \in CompletionRecord /\ Claim(q, h, taken)[c].owner = h
             /\ Claim(q, h, taken)[c].id = q[c].id /\ Claim(q, h, taken)[c].state = "claimed"
  <2>1. q[c] \in CompletionRecord
    BY <1>2, <1>3
  <2>2. Claim(q, h, taken)[c] = [q[c] EXCEPT !.state = "claimed", !.owner = h,
                                           !.generation = @ + 1, !.lapsed = FALSE]
    BY <1>3 DEF Claim
  <2>3. q[c].generation + 1 \in Nat
    BY <2>1 DEF CompletionRecord
  <2> QED
    BY <1>4, <2>1, <2>2, <2>3 DEF CompletionRecord
<1>6. \A c \in Child \ taken : Claim(q, h, taken)[c] = q[c]
  BY DEF Claim
<1>7. Claim(q, h, taken) \in QueueType
  <2>1. \A c \in Child : Claim(q, h, taken)[c] \in CompletionRecord \cup {None}
    BY <1>5, <1>6 DEF QueueType
  <2> QED
    BY <2>1 DEF Claim, QueueType
<1>8. None \notin CompletionRecord
  BY <1>1 DEF QueueAssumption
<1> QED
  BY <1>3, <1>5, <1>6, <1>7, <1>8 DEF QueueStep, NothingNew, UnacknowledgedStay, AcknowledgedBefore

\* A release gives a claimed record back.
LEMMA ReleaseStep ==
    ASSUME NEW q \in QueueType, NEW claim \in ClaimType
    PROVE  QueueStep(q, Release(q, claim))
<1> DEFINE c == claim.child
<1>1. c \in Child
  BY DEF ClaimType
<1>2. CASE ~HoldsClaim(q, claim)
  BY <1>2 DEF Release, QueueStep, NothingNew, UnacknowledgedStay, AcknowledgedBefore
<1>3. CASE HoldsClaim(q, claim)
  <2>1. q[c] \in CompletionRecord /\ q[c] # None
    BY <1>1, <1>3 DEF HoldsClaim, QueueType
  <2>2. None \notin CompletionRecord
    BY QueueAssumption
  <2>3. Release(q, claim) = [q EXCEPT ![c].state = "pending", ![c].owner = None, ![c].lapsed = FALSE]
    BY <1>3 DEF Release
  <2>4. /\ Release(q, claim)[c] \in CompletionRecord /\ Release(q, claim)[c].id = q[c].id
        /\ Release(q, claim)[c].state = "pending"
        /\ \A d \in Child \ {c} : Release(q, claim)[d] = q[d]
    <3>1. \A d \in Child \ {c} : Release(q, claim)[d] = q[d]
      BY <1>1, <2>3 DEF QueueType
    <3>2. Release(q, claim)[c] = [q[c] EXCEPT !.state = "pending", !.owner = None, !.lapsed = FALSE]
      BY <1>1, <2>3 DEF QueueType
    <3> QED
      BY <2>1, <3>1, <3>2 DEF CompletionRecord
  <2>5. Release(q, claim) \in QueueType
    <3>1. DOMAIN Release(q, claim) = Child /\ Release(q, claim) = [d \in Child |-> Release(q, claim)[d]]
      BY <2>3 DEF QueueType
    <3>2. \A d \in Child : Release(q, claim)[d] \in CompletionRecord \cup {None}
      BY <2>4 DEF QueueType
    <3> QED
      BY <3>1, <3>2 DEF QueueType
  <2> QED
    BY <2>1, <2>2, <2>4, <2>5 DEF QueueStep, NothingNew, UnacknowledgedStay, AcknowledgedBefore
<1> QED
  BY <1>2, <1>3

\* An acknowledgement concerns the record it names, and no other.
LEMMA AcknowledgeStep ==
    ASSUME NEW q \in QueueType, NEW claim \in ClaimType
    PROVE  /\ Acknowledge(q, claim) \in QueueType /\ NothingNew(q, Acknowledge(q, claim))
           /\ UnacknowledgedStay(q, Acknowledge(q, claim))
           /\ \A d \in Child : Acknowledge(q, claim)[d] # None /\ Acknowledge(q, claim)[d].state = "acknowledged"
                => \/ q[d] # None /\ q[d].state = "acknowledged" /\ Acknowledge(q, claim)[d].id = q[d].id
                   \/ Acknowledge(q, claim)[d].id = claim.id
<1> DEFINE c == claim.child
<1>1. c \in Child
  BY DEF ClaimType
<1>2. CASE ~HoldsClaim(q, claim)
  BY <1>2 DEF Acknowledge, NothingNew, UnacknowledgedStay
<1>3. CASE HoldsClaim(q, claim)
  <2>1. q[c] \in CompletionRecord /\ q[c] # None /\ q[c].id = claim.id
    BY <1>1, <1>3 DEF HoldsClaim, QueueType
  <2>2. None \notin CompletionRecord
    BY QueueAssumption
  <2>3. Acknowledge(q, claim) = [q EXCEPT ![c].state = "acknowledged"]
    BY <1>3 DEF Acknowledge
  <2>4. /\ Acknowledge(q, claim)[c] \in CompletionRecord /\ Acknowledge(q, claim)[c].id = q[c].id
        /\ \A d \in Child \ {c} : Acknowledge(q, claim)[d] = q[d]
    BY <1>1, <2>1, <2>3 DEF QueueType, CompletionRecord
  <2>5. Acknowledge(q, claim) \in QueueType
    <3>1. DOMAIN Acknowledge(q, claim) = Child /\ Acknowledge(q, claim) = [d \in Child |-> Acknowledge(q, claim)[d]]
      BY <2>3 DEF QueueType
    <3>2. \A d \in Child : Acknowledge(q, claim)[d] \in CompletionRecord \cup {None}
      BY <2>4 DEF QueueType
    <3> QED
      BY <3>1, <3>2 DEF QueueType
  <2> QED
    BY <2>1, <2>2, <2>4, <2>5 DEF NothingNew, UnacknowledgedStay
<1> QED
  BY <1>2, <1>3

\* An enqueue adds at most the record of its child, and makes room only by
\* dropping acknowledged ones.
LEMMA EnqueueStep ==
    ASSUME NEW q \in QueueType, NEW c \in Child, NEW p \in Address, NEW hash \in Nat, NEW i \in Nat
    PROVE  LET r == Enqueue(q, c, p, hash, i) IN
           /\ r \in QueueType
           /\ UnacknowledgedStay(q, r) /\ AcknowledgedBefore(q, r)
           /\ \A d \in Child : r[d] # None => \/ q[d] # None /\ r[d].id = q[d].id
                                              \/ d = c /\ q[c] = None /\ r[c].id = i
           /\ ~EnqueueThrows(q, c, p, hash) => r[c] # None
<1> DEFINE r == Enqueue(q, c, p, hash, i)
           new == [id |-> i, parent |-> p, hash |-> hash, state |-> "pending",
                   owner |-> None, generation |-> 0, lapsed |-> FALSE]
<1>1. new \in CompletionRecord /\ new # None /\ new.id = i /\ new.state = "pending"
  <2>1. new \in CompletionRecord
    BY DEF CompletionRecord
  <2>2. new.id = i /\ new.state = "pending"
    OBVIOUS
  <2> QED
    BY <2>1, <2>2, QueueAssumption
<1>2. QueueStep(q, q)
  BY DEF QueueStep, NothingNew, UnacknowledgedStay, AcknowledgedBefore
<1>3. QueueStep(q, MakeRoom(q))
  BY <1>2, WithoutStep DEF MakeRoom
<1>4. q[c] = None => MakeRoom(q)[c] = None
  BY <1>3 DEF QueueStep, NothingNew
<1>5. CASE q[c] # None
  <2>1. r = q
    BY <1>5 DEF Enqueue
  <2> QED
    BY <1>2, <1>5, <2>1 DEF QueueStep, NothingNew
<1>6. CASE q[c] = None /\ AtCapacity(MakeRoom(q))
  <2>1. r = MakeRoom(q)
    BY <1>6 DEF Enqueue
  <2>2. EnqueueThrows(q, c, p, hash)
    BY <1>6 DEF EnqueueThrows
  <2> QED
    BY <1>3, <2>1, <2>2 DEF QueueStep, NothingNew
<1>7. CASE q[c] = None /\ ~AtCapacity(MakeRoom(q))
  <2>1. r = [MakeRoom(q) EXCEPT ![c] = new]
    BY <1>7 DEF Enqueue
  <2>2. MakeRoom(q) \in QueueType
    BY <1>3 DEF QueueStep
  <2>3. r \in QueueType /\ r[c] = new /\ \A d \in Child \ {c} : r[d] = MakeRoom(q)[d]
    <3> HIDE DEF new
    <3> QED
      BY <1>1, <2>1, <2>2 DEF QueueType
  <2> HIDE DEF new, r
  <2>4. UnacknowledgedStay(q, r) /\ AcknowledgedBefore(q, r)
    BY <1>1, <1>3, <1>7, <2>3 DEF QueueStep, UnacknowledgedStay, AcknowledgedBefore
  <2>5. \A d \in Child : r[d] # None => \/ q[d] # None /\ r[d].id = q[d].id
                                        \/ d = c /\ q[c] = None /\ r[c].id = i
    BY <1>1, <1>3, <1>7, <2>3 DEF QueueStep, NothingNew
  <2> QED
    BY <1>1, <2>3, <2>4, <2>5 DEF r
<1> QED
  BY <1>5, <1>6, <1>7

-----------------------------------------------------------------------------
(* Steps that change the queue.                                             *)

\* The ids that are known stay those of their children while nobody makes a
\* new one.
LEMMA DeliveryKept ==
    ASSUME HandoffInv, NothingNew(queue, queue'), UNCHANGED <<nextId, disk, shared>>,
           queue' \in QueueType,
           \A h \in Host : \A k \in 1..Len(round'[h]) :
               round'[h][k].owner = h /\ Mentions(round'[h][k].id, round'[h][k].child),
           \A h \in Host : \A k \in 1..Len(wire'[h]) : Mentions(wire'[h][k].id, wire'[h][k].child)
    PROVE  IdsFresh' /\ AppendedOnce' /\ RoundsOwned'
<1>1. ASSUME NEW i \in Nat, NEW c \in Child, Mentions(i, c)' PROVE Mentions(i, c)
  <2>1. CASE queue'[c] # None /\ queue'[c].id = i
    BY <2>1 DEF NothingNew, Mentions
  <2>2. CASE \E h \in Host : \E k \in 1..Len(round'[h]) : round'[h][k].id = i /\ round'[h][k].child = c
    BY <2>2
  <2>3. CASE \E h \in Host : \E k \in 1..Len(wire'[h]) : wire'[h][k].id = i /\ wire'[h][k].child = c
    BY <2>3
  <2>4. CASE \E s \in Session : \E k \in 1..Len(disk'[s]) : disk'[s][k].id = i /\ disk'[s][k].child = c
    BY <2>4 DEF Mentions
  <2> QED
    BY <1>1, <2>1, <2>2, <2>3, <2>4 DEF Mentions
<1>2. IdsFresh'
  BY <1>1 DEF HandoffInv, IdsFresh
<1>3. AppendedOnce'
  BY DEF HandoffInv, AppendedOnce
<1>4. RoundsOwned'
  BY DEF RoundsOwned
<1> QED
  BY <1>2, <1>3, <1>4

\* An acknowledged completion was told.
LEMMA AcknowledgedTold ==
    ASSUME HandoffInv, faults = 0, NEW c \in Child, queue[c] # None, queue[c].state = "acknowledged"
    PROVE  Told(c)
<1>1. queue[c].id \in DiskIds /\ queue[c].id \in Nat
  BY DEF HandoffInv, Durable, DiskIds
<1>2. PICK s \in Session : \E k \in 1..Len(disk[s]) : disk[s][k].id = queue[c].id
  BY <1>1 DEF DiskIds
<1>3. PICK k \in 1..Len(disk[s]) : disk[s][k].id = queue[c].id
  BY <1>2
<1>4. disk[s] \in Seq(EntryType)
  BY DEF HandoffInv, Base, Typed
<1>5. disk[s][k] \in EntryType
  BY <1>4, ElementOfSeq
<1>6. Mentions(queue[c].id, c) /\ Mentions(queue[c].id, disk[s][k].child) /\ disk[s][k].child \in Child
  BY <1>3, <1>5 DEF Mentions, EntryType
<1>7. disk[s][k].child = c
  BY <1>1, <1>6 DEF HandoffInv, IdsFresh
<1>8. disk[s][k] \in ToSet(disk[s])
  BY <1>4 DEF ToSet
<1> QED
  BY <1>7, <1>8 DEF Told

\* What is thought queued is, or was told, as long as only acknowledged
\* records leave.
LEMMA MarkedStays ==
    ASSUME HandoffInv, UnacknowledgedStay(queue, queue'), UNCHANGED <<disk, faults>>,
           \A d \in Child : Marked(d)' => Marked(d) \/ queue'[d] # None
    PROVE  MarkedKept'
<1>1. \A d : Told(d)' <=> Told(d)
  BY DEF Told
<1>2. ASSUME faults = 0, NEW d \in Child, Marked(d), queue'[d] = None PROVE Told(d)
  BY <1>2, AcknowledgedTold DEF HandoffInv, MarkedKept, UnacknowledgedStay
<1> QED
  BY <1>1, <1>2 DEF MarkedKept

\* An acknowledged record tells of an entry on disk.
LEMMA DurableStays ==
    ASSUME HandoffInv, UNCHANGED <<disk, faults, memory>>,
           \A d \in Child : queue'[d] # None /\ queue'[d].state = "acknowledged" =>
               \/ queue[d] # None /\ queue[d].state = "acknowledged" /\ queue'[d].id = queue[d].id
               \/ faults = 0 => queue'[d].id \in DiskIds,
           \A h \in Host : \/ round'[h] = round[h] /\ answer'[h] = answer[h]
                           \/ answer'[h] = None
    PROVE  Durable'
<1>1. DiskIds' = DiskIds
  BY DEF DiskIds
<1>2. \A h \in Host : round'[h] = <<>> => answer'[h] = None
  BY DEF HandoffInv, Durable
<1>3. ASSUME faults = 0, NEW h \in Host, answer'[h] = "delivered" PROVE Head(round'[h]).id \in DiskIds
  BY <1>3, HandoffAssumption DEF HandoffInv, Durable
<1>4. ASSUME faults = 0, NEW d \in Child, queue'[d] # None, queue'[d].state = "acknowledged"
      PROVE  queue'[d].id \in DiskIds
  BY <1>4 DEF HandoffInv, Durable
<1> QED
  BY <1>1, <1>2, <1>3, <1>4 DEF HandoffInv, Durable

\* A step of the queue alone keeps the invariant.
LEMMA QueueStepKeeps ==
    ASSUME HandoffInv, QueueStep(queue, queue'),
           UNCHANGED <<svc, epoch, nextId, child, delivery, parent, bounds>>
    PROVE  HandoffInv'
<1>1. /\ UNCHANGED <<svc, epoch, nextId, disk, faults, round, wire, answer, memory, shared, host, wanted, turns, timeouts>>
      /\ UNCHANGED <<rec, addr, live, bound, spawning, stopping, block, recovered>>
  BY DEF child, delivery, parent, bounds
<1>2. Typed'
  BY <1>1 DEF HandoffInv, Base, Typed, TypeOK, QueueStep, QueueType
<1>3. \A d \in Child : Engaged(d)' => Engaged(d)
  BY <1>1 DEF Engaged
<1>4. Spawned'
  BY <1>1, <1>3 DEF HandoffInv, Base, Spawned
<1>5. \A d \in Child : Marked(d)' => Marked(d)
  BY <1>1 DEF Marked
<1>6. /\ \A h \in Host : \A k \in 1..Len(round[h]) :
            round[h][k].owner = h /\ Mentions(round[h][k].id, round[h][k].child)
      /\ \A h \in Host : \A k \in 1..Len(wire[h]) : Mentions(wire[h][k].id, wire[h][k].child)
  BY DEF HandoffInv, RoundsOwned, Mentions
<1>7. IdsFresh' /\ AppendedOnce' /\ RoundsOwned'
  BY <1>1, <1>6, DeliveryKept DEF QueueStep
<1>8. Durable'
  BY <1>1, DurableStays DEF QueueStep, AcknowledgedBefore
<1>9. MarkedKept'
  BY <1>1, <1>5, MarkedStays DEF QueueStep
<1>10. OneReader'
  BY <1>1, QuietReader DEF HandoffInv
<1> QED
  BY <1>2, <1>4, <1>7, <1>8, <1>9, <1>10 DEF HandoffInv, Base

\* The lease of a claim runs out.
LEMMA ClaimLapsesKeeps ==
    ASSUME HandoffInv, NEW c \in Child, ClaimLapses(c)
    PROVE  HandoffInv'
<1>1. queue \in QueueType /\ queue[c] \in CompletionRecord /\ queue[c].state = "claimed"
  BY DEF HandoffInv, Base, Typed, TypeOK, QueueType, ClaimLapses
<1>2. queue' = [queue EXCEPT ![c].lapsed = TRUE]
  BY DEF ClaimLapses
<1>3. /\ queue'[c] = [queue[c] EXCEPT !.lapsed = TRUE]
      /\ \A d \in Child \ {c} : queue'[d] = queue[d]
  BY <1>1, <1>2 DEF QueueType
<1>4. /\ queue'[c] \in CompletionRecord /\ queue'[c].id = queue[c].id /\ queue'[c].state = "claimed"
  BY <1>1, <1>3 DEF CompletionRecord
<1>5. queue' \in QueueType
  BY <1>1, <1>2, <1>3, <1>4 DEF QueueType
<1>6. None \notin CompletionRecord
  BY QueueAssumption
<1>7. QueueStep(queue, queue')
  BY <1>1, <1>3, <1>4, <1>5, <1>6 DEF QueueStep, NothingNew, UnacknowledgedStay, AcknowledgedBefore
<1> QED
  BY <1>7, QueueStepKeeps DEF ClaimLapses

\* The retention of an acknowledged record runs out.
LEMMA AcknowledgedExpiresKeeps ==
    ASSUME HandoffInv, NEW c \in Child, AcknowledgedExpires(c)
    PROVE  HandoffInv'
<1>1. queue \in QueueType
  BY DEF HandoffInv, Base, Typed, TypeOK, QueueType
<1>2. queue' = Without(queue, {c} \cap Acknowledged(queue))
  BY DEF AcknowledgedExpires, CleanupAcknowledged
<1>3. {c} \cap Acknowledged(queue) \in SUBSET Acknowledged(queue)
  OBVIOUS
<1>4. QueueStep(queue, queue')
  BY <1>1, <1>2, <1>3, WithoutStep
<1> QED
  BY <1>4, QueueStepKeeps DEF AcknowledgedExpires

\* enqueueCompletion, in the completion block or during recovery: the id it
\* makes is new, nothing undelivered is lost, and unless it throws the child
\* has a record.
LEMMA EnqueueKept ==
    ASSUME HandoffInv, NEW c \in Child, NEW hash \in Nat, addr[c] # None, EnqueueCompletion(c, hash),
           UNCHANGED <<disk, faults, memory, shared, round, wire, answer>>
    PROVE  /\ queue' \in QueueType /\ nextId' \in Nat /\ wanted' \in [Host -> Nat]
           /\ IdsFresh' /\ AppendedOnce' /\ RoundsOwned' /\ Durable'
           /\ UnacknowledgedStay(queue, queue')
           /\ ~EnqueueThrows(queue, c, addr[c], hash) => queue'[c] # None
<1>1. queue \in QueueType /\ nextId \in Nat /\ addr[c] \in Address /\ wanted \in [Host -> Nat]
  BY DEF HandoffInv, Base, Typed, TypeOK, QueueType
<1>2. /\ queue' = Enqueue(queue, c, addr[c], hash, nextId)
      /\ nextId' = IF queue'[c] # None /\ queue[c] = None THEN nextId + 1 ELSE nextId
  BY DEF EnqueueCompletion
<1>3. /\ queue' \in QueueType
      /\ UnacknowledgedStay(queue, queue') /\ AcknowledgedBefore(queue, queue')
      /\ \A d \in Child : queue'[d] # None => \/ queue[d] # None /\ queue'[d].id = queue[d].id
                                              \/ d = c /\ queue[c] = None /\ queue'[c].id = nextId
      /\ ~EnqueueThrows(queue, c, addr[c], hash) => queue'[c] # None
  BY <1>1, <1>2, EnqueueStep
<1>4. wanted' \in [Host -> Nat]
  <2>1. CASE wanted' = wanted
    BY <1>1, <2>1
  <2>2. CASE \E h \in LiveParents(c) : wanted' = [wanted EXCEPT ![h] = @ + 1]
    BY <1>1, <2>2 DEF LiveParents
  <2> QED
    BY <2>1, <2>2 DEF EnqueueCompletion
<1>5. nextId' \in Nat /\ nextId <= nextId'
  BY <1>1, <1>2
<1>6. ASSUME NEW i \in Nat, NEW d \in Child, Mentions(i, d)'
      PROVE  Mentions(i, d) \/ (d = c /\ i = nextId /\ nextId' = nextId + 1)
  <2>1. CASE queue'[d] # None /\ queue'[d].id = i
    BY <1>2, <1>3, <2>1 DEF Mentions
  <2>2. CASE ~(queue'[d] # None /\ queue'[d].id = i)
    BY <1>6, <2>2 DEF Mentions
  <2> QED
    BY <2>1, <2>2
<1>7. IdsFresh'
  <2>1. ASSUME NEW i \in Nat, NEW d \in Child, Mentions(i, d)' PROVE i < nextId'
    BY <1>1, <1>5, <1>6, <2>1 DEF HandoffInv, IdsFresh
  <2>2. ASSUME NEW i \in Nat, NEW d \in Child, NEW e \in Child, Mentions(i, d)', Mentions(i, e)' PROVE d = e
    <3>1. ~Mentions(nextId, d) /\ ~Mentions(nextId, e)
      BY <1>1 DEF HandoffInv, IdsFresh
    <3> QED
      BY <1>6, <2>2, <3>1 DEF HandoffInv, IdsFresh
  <2> QED
    BY <2>1, <2>2 DEF IdsFresh
<1>8. AppendedOnce' /\ RoundsOwned'
  BY DEF HandoffInv, AppendedOnce, RoundsOwned
<1>9. Durable'
  BY <1>3, DurableStays DEF AcknowledgedBefore
<1> QED
  BY <1>3, <1>4, <1>5, <1>7, <1>8, <1>9

\* The completion block enqueues the result.
LEMMA EnqueueResultKeeps ==
    ASSUME HandoffInv, EnqueueResult
    PROVE  HandoffInv'
<1> DEFINE c == block.child
<1>1. /\ UNCHANGED <<disk, faults, round, wire, answer, memory, shared, host, turns, timeouts, svc, epoch>>
      /\ UNCHANGED <<rec, addr, live, bound, spawning, stopping, recovered>>
  BY DEF EnqueueResult, parent, bounds
<1>2. /\ block \in Block /\ c \in Child /\ block # None /\ block.step = "enqueue" /\ svc = "ready"
      /\ rec \in [Child -> InstanceRecord] /\ rec[c].hash # None
  BY DEF HandoffInv, Base, Typed, TypeOK, Spawned, EnqueueResult, AtStep, Block
<1>3. rec[c].hash \in Nat /\ addr[c] # None
  BY <1>2 DEF HandoffInv, Base, Spawned, Engaged, InstanceRecord
<1>4. EnqueueCompletion(c, rec[c].hash)
  BY DEF EnqueueResult
<1>5. block' = IF EnqueueThrows(queue, c, addr[c], rec[c].hash) THEN None ELSE [block EXCEPT !.step = "mark"]
  BY DEF EnqueueResult
<1> HIDE DEF c
<1>6. /\ queue' \in QueueType /\ nextId' \in Nat /\ wanted' \in [Host -> Nat]
      /\ IdsFresh' /\ AppendedOnce' /\ RoundsOwned' /\ Durable'
      /\ UnacknowledgedStay(queue, queue')
      /\ ~EnqueueThrows(queue, c, addr[c], rec[c].hash) => queue'[c] # None
  BY <1>1, <1>2, <1>3, <1>4, EnqueueKept
<1>7. /\ block' \in {None} \cup Block
      /\ block' # None => block'.child = c /\ block'.step = "mark" /\ queue'[c] # None
  BY <1>2, <1>5, <1>6 DEF Block, c
<1>8. Typed'
  BY <1>1, <1>6, <1>7 DEF HandoffInv, Base, Typed, TypeOK, QueueType
<1>9. \A d \in Child : Engaged(d)' => Engaged(d)
  BY <1>1, <1>2, <1>7 DEF Engaged, c
<1>10. Spawned'
  BY <1>1, <1>2, <1>7, <1>9 DEF HandoffInv, Base, Spawned
<1>11. \A d \in Child : Marked(d)' => Marked(d) \/ queue'[d] # None
  BY <1>1, <1>7 DEF Marked
<1>12. MarkedKept'
  BY <1>1, <1>6, <1>11, MarkedStays
<1>13. OneReader'
  BY <1>1, QuietReader DEF HandoffInv
<1> QED
  BY <1>6, <1>8, <1>10, <1>12, <1>13 DEF HandoffInv, Base

\* Recovery decides what becomes of a record, and enqueues a result that the
\* service had not marked as queued.
LEMMA RecoverRecordKeeps ==
    ASSUME HandoffInv, NEW c \in Child, RecoverRecord(c)
    PROVE  HandoffInv'
<1> DEFINE r == Interrupted(rec[c])
<1>1. /\ UNCHANGED <<disk, faults, round, wire, answer, memory, shared, host, turns, timeouts, svc, epoch>>
      /\ UNCHANGED <<rec, addr, live, bound, spawning, stopping, block>>
  BY DEF RecoverRecord, parent, bounds
<1>2. rec \in [Child -> InstanceRecord] /\ recovered \in [Child -> InstanceRecord \cup {None}] /\ epoch \in Nat
  BY DEF HandoffInv, Base, Typed, TypeOK
<1>3. r \in InstanceRecord /\ r.queued = rec[c].queued
  BY <1>2 DEF Interrupted, InstanceRecord, Status
<1>4. addr[c] # None /\ Engaged(c)
  BY DEF HandoffInv, Base, Spawned, Engaged, RecoverRecord
<1>5. \/ /\ recovered' = [recovered EXCEPT ![c] = r]
         /\ UNCHANGED <<queue, nextId, wanted>>
      \/ /\ r.hash # None
         /\ EnqueueCompletion(c, r.hash)
         /\ recovered' = [recovered EXCEPT ![c] =
                [r EXCEPT !.queued = ~EnqueueThrows(queue, c, addr[c], r.hash)]]
  BY DEF RecoverRecord
<1> HIDE DEF r
<1>6. /\ queue' \in QueueType /\ nextId' \in Nat /\ wanted' \in [Host -> Nat]
      /\ IdsFresh' /\ AppendedOnce' /\ RoundsOwned' /\ Durable'
      /\ UnacknowledgedStay(queue, queue')
      /\ recovered' \in [Child -> InstanceRecord \cup {None}]
      /\ \A d \in Child \ {c} : recovered'[d] = recovered[d]
      /\ recovered'[c].queued => rec[c].queued \/ queue'[c] # None
  <2>1. CASE recovered' = [recovered EXCEPT ![c] = r] /\ UNCHANGED <<queue, nextId, wanted>>
    <3>1. IdsFresh' /\ AppendedOnce' /\ RoundsOwned'
      BY <1>1, <2>1, QuietDelivery DEF HandoffInv
    <3>2. Durable'
      BY <1>1, <2>1, QuietDurable DEF HandoffInv
    <3>3. queue' \in QueueType /\ nextId' \in Nat /\ wanted' \in [Host -> Nat]
      BY <2>1 DEF HandoffInv, Base, Typed, TypeOK, QueueType
    <3>4. UnacknowledgedStay(queue, queue')
      BY <2>1 DEF UnacknowledgedStay
    <3>5. /\ recovered' \in [Child -> InstanceRecord \cup {None}]
          /\ \A d \in Child \ {c} : recovered'[d] = recovered[d]
          /\ recovered'[c].queued => rec[c].queued
      BY <1>2, <1>3, <2>1
    <3> QED
      BY <3>1, <3>2, <3>3, <3>4, <3>5
  <2>2. CASE /\ r.hash # None /\ EnqueueCompletion(c, r.hash)
             /\ recovered' = [recovered EXCEPT ![c] =
                    [r EXCEPT !.queued = ~EnqueueThrows(queue, c, addr[c], r.hash)]]
    <3>1. r.hash \in Nat
      BY <1>3, <2>2 DEF InstanceRecord
    <3>2. /\ queue' \in QueueType /\ nextId' \in Nat /\ wanted' \in [Host -> Nat]
          /\ IdsFresh' /\ AppendedOnce' /\ RoundsOwned' /\ Durable'
          /\ UnacknowledgedStay(queue, queue')
          /\ ~EnqueueThrows(queue, c, addr[c], r.hash) => queue'[c] # None
      BY <1>1, <1>4, <2>2, <3>1, EnqueueKept
    <3> DEFINE ok == ~EnqueueThrows(queue, c, addr[c], r.hash)
               s == [r EXCEPT !.queued = ok]
    <3>3. ok \in BOOLEAN
      BY DEF EnqueueThrows
    <3> HIDE DEF ok
    <3>4. s \in InstanceRecord /\ s.queued = ok
      BY <1>3, <3>3 DEF InstanceRecord
    <3>5. recovered' = [recovered EXCEPT ![c] = s]
      BY <2>2 DEF ok
    <3> HIDE DEF s
    <3>6. /\ recovered' \in [Child -> InstanceRecord \cup {None}]
          /\ \A d \in Child \ {c} : recovered'[d] = recovered[d]
          /\ recovered'[c] = s
      BY <1>2, <3>4, <3>5
    <3> QED
      BY <3>2, <3>4, <3>6 DEF ok
  <2> QED
    BY <1>5, <2>1, <2>2
<1>7. Typed'
  BY <1>1, <1>6 DEF HandoffInv, Base, Typed, TypeOK, QueueType
<1>8. \A d \in Child : Engaged(d)' => Engaged(d)
  BY <1>1, <1>4, <1>6 DEF Engaged
<1>9. Spawned'
  BY <1>1, <1>8 DEF HandoffInv, Base, Spawned
<1>10. \A d \in Child : Marked(d)' => Marked(d) \/ queue'[d] # None
  BY <1>1, <1>6 DEF Marked
<1>11. MarkedKept'
  BY <1>1, <1>6, <1>10, MarkedStays
<1>12. OneReader'
  BY <1>1, QuietReader DEF HandoffInv
<1> QED
  BY <1>6, <1>7, <1>9, <1>11, <1>12 DEF HandoffInv, Base

-----------------------------------------------------------------------------
(* Delivery rounds.                                                        *)

\* The command that is sent carries a claim of the round.
LEMMA SendHeadKept ==
    ASSUME HandoffInv, NEW h \in Host, NEW claims \in Seq(ClaimType), SendHead(h, claims),
           \A k \in 1..Len(claims) : Mentions(claims[k].id, claims[k].child)
    PROVE  /\ wire' \in [Host -> Seq(ClaimType)]
           /\ \A g \in Host : \A k \in 1..Len(wire'[g]) : Mentions(wire'[g][k].id, wire'[g][k].child)
<1>1. wire \in [Host -> Seq(ClaimType)]
  BY DEF HandoffInv, Base, Typed
<1>2. \A g \in Host : \A k \in 1..Len(wire[g]) : Mentions(wire[g][k].id, wire[g][k].child)
  BY DEF Mentions
<1>3. CASE wire' = wire
  BY <1>1, <1>2, <1>3
<1>4. CASE claims # <<>> /\ wire' = [wire EXCEPT ![h] = Append(@, Head(claims))]
  <2>1. Head(claims) \in ClaimType /\ Head(claims) = claims[1] /\ 1 \in 1..Len(claims)
    BY <1>4, EmptySeq, HeadTailProperties
  <2>2. wire[h] \in Seq(ClaimType) /\ wire'[h] = Append(wire[h], Head(claims))
    BY <1>1, <1>4
  <2>3. wire'[h] \in Seq(ClaimType) /\ Len(wire'[h]) = Len(wire[h]) + 1 /\ Len(wire[h]) \in Nat
        /\ (\A i \in 1..Len(wire[h]) : wire'[h][i] = wire[h][i])
        /\ wire'[h][Len(wire[h]) + 1] = Head(claims)
    BY <2>1, <2>2, AppendProperties
  <2>4. \A g \in Host \ {h} : wire'[g] = wire[g]
    BY <1>1, <1>4
  <2>5. wire' \in [Host -> Seq(ClaimType)]
    BY <1>1, <1>4, <2>1, AppendProperties
  <2>6. Mentions(Head(claims).id, Head(claims).child)
    BY <2>1
  <2>7. ASSUME NEW k \in 1..Len(wire'[h]) PROVE Mentions(wire'[h][k].id, wire'[h][k].child)
    <3>1. k \in 1..Len(wire[h]) \/ k = Len(wire[h]) + 1
      BY <2>3, <2>7
    <3> QED
      BY <1>2, <2>3, <2>6, <3>1
  <2> QED
    BY <1>2, <2>4, <2>5, <2>7
<1> QED
  BY <1>3, <1>4 DEF SendHead

\* A step of a round keeps the invariant: it takes or settles claims of its
\* own, in its parent's name, and acknowledges what is on disk.
LEMMA RoundKept ==
    ASSUME HandoffInv, NEW h \in Host, NEW claims \in Seq(ClaimType),
           queue' \in QueueType, NothingNew(queue, queue'), UnacknowledgedStay(queue, queue'),
           \A d \in Child : queue'[d] # None /\ queue'[d].state = "acknowledged" =>
               \/ queue[d] # None /\ queue[d].state = "acknowledged" /\ queue'[d].id = queue[d].id
               \/ faults = 0 => queue'[d].id \in DiskIds,
           \A k \in 1..Len(claims) : claims[k].owner = h /\ Mentions(claims[k].id, claims[k].child),
           round' = [round EXCEPT ![h] = claims], SendHead(h, claims),
           answer' = [answer EXCEPT ![h] = None],
           wanted' \in [Host -> Nat], timeouts' \in Nat,
           UNCHANGED <<svc, epoch, nextId, child, parent, turns, faults>>
    PROVE  HandoffInv'
<1>1. /\ UNCHANGED <<svc, epoch, nextId, disk, faults, memory, shared, host, turns>>
      /\ UNCHANGED <<rec, addr, live, bound, spawning, stopping, block, recovered>>
  BY DEF child, parent
<1>2. /\ wire' \in [Host -> Seq(ClaimType)]
      /\ \A g \in Host : \A k \in 1..Len(wire'[g]) : Mentions(wire'[g][k].id, wire'[g][k].child)
  BY SendHeadKept
<1>3. round \in [Host -> Seq(ClaimType)] /\ answer \in [Host -> {None, "delivered", "refused"}]
  BY DEF HandoffInv, Base, Typed, TypeOK
<1>4. /\ round' \in [Host -> Seq(ClaimType)] /\ round'[h] = claims /\ \A g \in Host \ {h} : round'[g] = round[g]
      /\ answer' \in [Host -> {None, "delivered", "refused"}]
      /\ answer'[h] = None /\ \A g \in Host \ {h} : answer'[g] = answer[g]
  BY <1>3
<1>5. \A g \in Host : \A k \in 1..Len(round'[g]) :
          round'[g][k].owner = g /\ Mentions(round'[g][k].id, round'[g][k].child)
  <2>1. \A g \in Host : \A k \in 1..Len(round[g]) :
            round[g][k].owner = g /\ Mentions(round[g][k].id, round[g][k].child)
    BY DEF HandoffInv, RoundsOwned, Mentions
  <2> QED
    BY <1>4, <2>1
<1>6. Typed'
  BY <1>1, <1>2, <1>4 DEF HandoffInv, Base, Typed, TypeOK, QueueType
<1>7. \A d \in Child : Engaged(d)' => Engaged(d)
  BY <1>1 DEF Engaged
<1>8. Spawned'
  BY <1>1, <1>7 DEF HandoffInv, Base, Spawned
<1>9. \A d \in Child : Marked(d)' => Marked(d)
  BY <1>1 DEF Marked
<1>10. IdsFresh' /\ AppendedOnce' /\ RoundsOwned'
  BY <1>1, <1>2, <1>5, DeliveryKept
<1>11. Durable'
  <2>1. \A g \in Host : (round'[g] = round[g] /\ answer'[g] = answer[g]) \/ answer'[g] = None
    BY <1>4
  <2> QED
    BY <1>1, <2>1, DurableStays
<1>12. MarkedKept'
  BY <1>1, <1>9, MarkedStays
<1>13. OneReader'
  BY <1>1, QuietReader DEF HandoffInv
<1> QED
  BY <1>6, <1>8, <1>10, <1>11, <1>12, <1>13 DEF HandoffInv, Base

\* A finite set is listed by a sequence of its elements.
LEMMA SetToSeqIsSeq ==
    ASSUME NEW S, IsFiniteSet(S)
    PROVE  SetToSeq(S) \in Seq(S) /\ Len(SetToSeq(S)) = Cardinality(S)
<1> DEFINE n == Cardinality(S)
<1>1. n \in Nat /\ ExistsBijection(1..n, S)
  BY FS_CardinalityType
<1> HIDE DEF n
<1>2. \E f \in [1..n -> S] : IsInjective(f)
  BY <1>1 DEF ExistsBijection, Bijection, Injection
<1>3. SetToSeq(S) \in [1..n -> S]
  BY <1>2 DEF SetToSeq, n
<1>4. SetToSeq(S) \in Seq(S)
  BY <1>1, <1>3
<1>5. Len(SetToSeq(S)) = n
  BY <1>1, <1>3, <1>4
<1> QED
  BY <1>4, <1>5 DEF n

\* The claims a round takes are its own.
LEMMA RoundClaims ==
    ASSUME HandoffInv, NEW h \in Host, NEW taken \in Claims(queue, h, Addresses(h))
    PROVE  LET q == Claim(queue, h, taken)
               order == SetToSeq(taken)
               claims == [i \in 1..Len(order) |-> ClaimReceipt(q, order[i])]
           IN  /\ taken \subseteq Claimable(queue, h, Addresses(h))
               /\ QueueStep(queue, q) /\ claims \in Seq(ClaimType)
               /\ Len(claims) = Cardinality(taken)
               /\ \A k \in 1..Len(claims) : claims[k].owner = h /\ Mentions(claims[k].id, claims[k].child)
<1> DEFINE q == Claim(queue, h, taken)
           order == SetToSeq(taken)
           claims == [i \in 1..Len(order) |-> ClaimReceipt(q, order[i])]
<1>1. queue \in QueueType
  BY DEF HandoffInv, Base, Typed, TypeOK, QueueType
<1>2. taken \subseteq Claimable(queue, h, Addresses(h))
  BY DEF Claims
<1>3. taken \in SUBSET Entries(queue) /\ taken \in SUBSET Child
  BY <1>2 DEF Claimable, Entries
<1>4. IsFiniteSet(taken)
  BY <1>3, FS_Subset, QueueAssumption
<1>5. order \in Seq(taken) /\ Len(order) = Cardinality(taken) /\ Len(order) \in Nat
  BY <1>4, SetToSeqIsSeq, FS_CardinalityType
<1>6. /\ QueueStep(queue, q)
      /\ \A c \in taken : q[c] \in CompletionRecord /\ q[c].owner = h /\ q[c].id = queue[c].id
  BY <1>1, <1>3, ClaimStep
<1> HIDE DEF q, order
<1>7. ASSUME NEW k \in 1..Len(order)
      PROVE  /\ ClaimReceipt(q, order[k]) \in ClaimType /\ ClaimReceipt(q, order[k]).owner = h
             /\ Mentions(ClaimReceipt(q, order[k]).id, ClaimReceipt(q, order[k]).child)
  <2>1. order[k] \in taken
    BY <1>5, ElementOfSeq
  <2>2. order[k] \in Child /\ queue[order[k]] # None
    BY <1>3, <2>1 DEF Entries
  <2>3. q[order[k]] \in CompletionRecord /\ q[order[k]].owner = h /\ q[order[k]].id = queue[order[k]].id
    BY <1>6, <2>1
  <2>4. q[order[k]].id \in Nat /\ q[order[k]].generation \in Nat
    BY <2>3 DEF CompletionRecord
  <2>5. Mentions(queue[order[k]].id, order[k])
    BY <2>2 DEF Mentions
  <2> QED
    BY <2>2, <2>3, <2>4, <2>5 DEF ClaimReceipt, ClaimType
<1>8. claims \in Seq(ClaimType) /\ Len(claims) = Len(order) /\ \A k \in 1..Len(order) : claims[k] = ClaimReceipt(q, order[k])
  BY <1>5, <1>7
<1> QED
  BY <1>2, <1>5, <1>6, <1>7, <1>8 DEF q, order

\* A round claims what is there for its parent.
LEMMA StartRoundKeeps ==
    ASSUME HandoffInv, NEW h \in Host, StartRound(h)
    PROVE  HandoffInv'
<1>1. PICK taken \in Claims(queue, h, Addresses(h)) :
        /\ queue' = Claim(queue, h, taken)
        /\ LET order == SetToSeq(taken)
               claims == [i \in 1..Len(order) |-> ClaimReceipt(queue', order[i])]
           IN  round' = [round EXCEPT ![h] = claims] /\ SendHead(h, claims)
  BY DEF StartRound
<1> DEFINE order == SetToSeq(taken)
           claims == [i \in 1..Len(order) |-> ClaimReceipt(Claim(queue, h, taken), order[i])]
<1>2. queue' = Claim(queue, h, taken) /\ round' = [round EXCEPT ![h] = claims] /\ SendHead(h, claims)
  BY <1>1
<1>3. /\ QueueStep(queue, Claim(queue, h, taken)) /\ claims \in Seq(ClaimType)
      /\ \A k \in 1..Len(claims) : claims[k].owner = h /\ Mentions(claims[k].id, claims[k].child)
  BY RoundClaims
<1> HIDE DEF claims
<1>4. QueueStep(queue, queue')
  BY <1>2, <1>3
<1>5. answer \in [Host -> {None, "delivered", "refused"}] /\ wanted \in [Host -> Nat] /\ timeouts \in Nat
  BY DEF HandoffInv, Base, Typed, TypeOK
<1>6. answer' = answer /\ answer[h] = None
  BY DEF StartRound, HandoffInv, Durable
<1>7. answer' = [answer EXCEPT ![h] = None]
  BY <1>5, <1>6
<1>8. wanted' \in [Host -> Nat]
  BY <1>5 DEF StartRound
<1>9. timeouts' \in Nat /\ UNCHANGED <<svc, epoch, nextId, child, parent, turns, faults>>
  BY <1>5 DEF StartRound, bounds
<1> QED
  BY <1>2, <1>3, <1>4, <1>7, <1>8, <1>9, RoundKept DEF QueueStep, AcknowledgedBefore

\* What is left of a round is still its own.
LEMMA RoundTail ==
    ASSUME HandoffInv, NEW h \in Host, round[h] # <<>>
    PROVE  /\ Tail(round[h]) \in Seq(ClaimType) /\ Head(round[h]) \in ClaimType
           /\ \A k \in 1..Len(Tail(round[h])) :
                Tail(round[h])[k].owner = h /\ Mentions(Tail(round[h])[k].id, Tail(round[h])[k].child)
           /\ Len(Tail(round[h])) = Len(round[h]) - 1 /\ Head(round[h]) = round[h][1] /\ 1 \in 1..Len(round[h])
<1>1. round[h] \in Seq(ClaimType)
  BY DEF HandoffInv, Base, Typed
<1>2. /\ Head(round[h]) \in ClaimType /\ Tail(round[h]) \in Seq(ClaimType)
      /\ Len(Tail(round[h])) = Len(round[h]) - 1
      /\ \A i \in 1..Len(Tail(round[h])) : Tail(round[h])[i] = round[h][i + 1]
  BY <1>1, HeadTailProperties
<1>3. \A k \in 1..Len(round[h]) : round[h][k].owner = h /\ Mentions(round[h][k].id, round[h][k].child)
  BY DEF HandoffInv, RoundsOwned, Mentions
<1>4. Len(round[h]) \in Nat \ {0} /\ Head(round[h]) = round[h][1]
  BY <1>1, EmptySeq
<1>5. \A k \in 1..Len(Tail(round[h])) : k + 1 \in 1..Len(round[h])
  BY <1>2, <1>4
<1> QED
  BY <1>2, <1>3, <1>4, <1>5

\* The answer to the head of the round settles its claim.
LEMMA AnswerArrivesKeeps ==
    ASSUME HandoffInv, NEW h \in Host, AnswerArrives(h)
    PROVE  HandoffInv'
<1> DEFINE m == Head(round[h]) claims == Tail(round[h])
<1>1. /\ round[h] # <<>> /\ timeouts' = timeouts
      /\ queue' = IF answer[h] = "delivered" THEN Acknowledge(queue, m) ELSE Release(queue, m)
      /\ round' = [round EXCEPT ![h] = Tail(@)] /\ answer' = [answer EXCEPT ![h] = None]
      /\ SendHead(h, claims)
      /\ UNCHANGED <<svc, epoch, nextId, child, wanted, parent, turns, faults>>
  BY DEF AnswerArrives, NextClaim
<1>2. /\ claims \in Seq(ClaimType) /\ m \in ClaimType
      /\ \A k \in 1..Len(claims) : claims[k].owner = h /\ Mentions(claims[k].id, claims[k].child)
  BY <1>1, RoundTail
<1>3. queue \in QueueType /\ round \in [Host -> Seq(ClaimType)] /\ wanted \in [Host -> Nat] /\ timeouts \in Nat
  BY DEF HandoffInv, Base, Typed, TypeOK, QueueType
<1>4. round' = [round EXCEPT ![h] = claims]
  BY <1>1, <1>3
<1>5. faults = 0 /\ answer[h] = "delivered" => m.id \in DiskIds
  BY DEF HandoffInv, Durable
<1> HIDE DEF m, claims
<1>6. /\ queue' \in QueueType /\ NothingNew(queue, queue') /\ UnacknowledgedStay(queue, queue')
      /\ \A d \in Child : queue'[d] # None /\ queue'[d].state = "acknowledged" =>
               \/ queue[d] # None /\ queue[d].state = "acknowledged" /\ queue'[d].id = queue[d].id
               \/ faults = 0 => queue'[d].id \in DiskIds
  <2>1. CASE answer[h] = "delivered"
    <3>1. queue' = Acknowledge(queue, m)
      BY <1>1, <2>1
    <3> QED
      BY <1>2, <1>3, <1>5, <2>1, <3>1, AcknowledgeStep
  <2>2. CASE answer[h] # "delivered"
    <3>1. queue' = Release(queue, m)
      BY <1>1, <2>2
    <3>2. QueueStep(queue, queue')
      BY <1>2, <1>3, <3>1, ReleaseStep
    <3> QED
      BY <3>2 DEF QueueStep, AcknowledgedBefore
  <2> QED
    BY <2>1, <2>2
<1>7. wanted' \in [Host -> Nat] /\ timeouts' \in Nat
  BY <1>1, <1>3
<1> QED
  BY <1>1, <1>2, <1>4, <1>6, <1>7, RoundKept

\* A request that failed gives its claim back.
LEMMA HandoffFailsKeeps ==
    ASSUME HandoffInv, NEW h \in Host, HandoffFails(h)
    PROVE  HandoffInv'
<1> DEFINE m == Head(round[h]) claims == Tail(round[h])
<1>1. /\ round[h] # <<>> /\ timeouts' \in {timeouts, timeouts + 1} /\ queue' = Release(queue, m)
      /\ round' = [round EXCEPT ![h] = Tail(@)] /\ answer' = [answer EXCEPT ![h] = None]
      /\ SendHead(h, claims)
      /\ UNCHANGED <<svc, epoch, nextId, child, wanted, parent, turns, faults>>
  BY DEF HandoffFails, NextClaim
<1>2. /\ claims \in Seq(ClaimType) /\ m \in ClaimType
      /\ \A k \in 1..Len(claims) : claims[k].owner = h /\ Mentions(claims[k].id, claims[k].child)
  BY <1>1, RoundTail
<1>3. queue \in QueueType /\ round \in [Host -> Seq(ClaimType)] /\ wanted \in [Host -> Nat] /\ timeouts \in Nat
  BY DEF HandoffInv, Base, Typed, TypeOK, QueueType
<1>4. round' = [round EXCEPT ![h] = claims]
  BY <1>1, <1>3
<1> HIDE DEF m, claims
<1>5. QueueStep(queue, queue')
  BY <1>1, <1>2, <1>3, ReleaseStep
<1>6. wanted' \in [Host -> Nat] /\ timeouts' \in Nat
  BY <1>1, <1>3
<1> QED
  BY <1>1, <1>2, <1>4, <1>5, <1>6, RoundKept DEF QueueStep, AcknowledgedBefore

-----------------------------------------------------------------------------
(* The parent process handles a command.                                   *)

\* An entry that the parent does not have in memory is appended once, under an
\* id that stands for the same child as before: unless the session is shared,
\* what the parent has in memory is all that the file has.
LEMMA AppendKept ==
    ASSUME HandoffInv, NEW m \in ClaimType, NEW h \in Host, NEW s \in Session, Mentions(m.id, m.child),
           host[h].up, host[h].session = s, Entry(m) \notin memory[h],
           disk' = [disk EXCEPT ![s] = Append(@, Entry(m))],
           memory' = [memory EXCEPT ![h] = @ \cup {Entry(m)}],
           UNCHANGED <<queue, round, host, shared>>,
           \A g \in Host : \A k \in 1..Len(wire'[g]) : Mentions(wire'[g][k].id, wire'[g][k].child)
    PROVE  /\ disk' \in [Session -> Seq(EntryType)]
           /\ \A i \in Nat, c \in Child : Mentions(i, c)' => Mentions(i, c)
           /\ AppendedOnce' /\ OneReader' /\ DiskIds \subseteq DiskIds' /\ m.id \in DiskIds'
           /\ \A c \in Child : Told(c) => Told(c)'
<1> DEFINE x == Entry(m) n == Len(disk[s])
<1>1. x \in EntryType /\ x.id = m.id /\ x.child = m.child /\ m.id \in Nat /\ m.child \in Child
  BY DEF Entry, EntryType, ClaimType
<1> HIDE DEF x
<1>2. disk \in [Session -> Seq(EntryType)] /\ disk[s] \in Seq(EntryType) /\ n \in Nat
  BY DEF HandoffInv, Base, Typed
<1>3. /\ disk'[s] = Append(disk[s], x) /\ \A t \in Session \ {s} : disk'[t] = disk[t]
  BY <1>2 DEF x
<1>4. /\ disk'[s] \in Seq(EntryType) /\ Len(disk'[s]) = n + 1
      /\ \A k \in 1..n : disk'[s][k] = disk[s][k]
      /\ disk'[s][n + 1] = x
  BY <1>1, <1>2, <1>3, AppendProperties
<1>5. disk' \in [Session -> Seq(EntryType)]
  BY <1>1, <1>2, AppendProperties DEF x
<1>6. \A k \in 1..Len(disk'[s]) : k \in 1..n \/ k = n + 1
  BY <1>2, <1>4
<1>7. \A k \in 1..n : k \in 1..Len(disk'[s])
  BY <1>2, <1>4
<1>8. n + 1 \in 1..Len(disk'[s])
  BY <1>2, <1>4
<1> HIDE DEF n
<1>9. ASSUME NEW i \in Nat, NEW c \in Child, Mentions(i, c)' PROVE Mentions(i, c)
  <2>1. CASE \E t \in Session : \E k \in 1..Len(disk'[t]) : disk'[t][k].id = i /\ disk'[t][k].child = c
    <3>1. PICK t \in Session : \E k \in 1..Len(disk'[t]) : disk'[t][k].id = i /\ disk'[t][k].child = c
      BY <2>1
    <3>2. PICK k \in 1..Len(disk'[t]) : disk'[t][k].id = i /\ disk'[t][k].child = c
      BY <3>1
    <3>3. CASE t # s
      BY <1>3, <3>2, <3>3 DEF Mentions
    <3>4. CASE t = s /\ k \in 1..n
      BY <1>4, <3>2, <3>4 DEF Mentions, n
    <3>5. CASE t = s /\ k = n + 1
      BY <1>1, <1>4, <3>2, <3>5
    <3> QED
      BY <1>6, <3>3, <3>4, <3>5
  <2>2. CASE \E g \in Host : \E k \in 1..Len(wire'[g]) : wire'[g][k].id = i /\ wire'[g][k].child = c
    BY <2>2
  <2> QED
    BY <1>9, <2>1, <2>2 DEF Mentions
<1>10. s \notin shared => \A k \in 1..n : disk[s][k].id # x.id
  <2>1. SUFFICES ASSUME s \notin shared, NEW k \in 1..n, disk[s][k].id = x.id PROVE FALSE
    OBVIOUS
  <2>2. disk[s][k] \in EntryType /\ disk[s][k] \in ToSet(disk[s])
    BY <1>2, ElementOfSeq DEF ToSet, n
  <2>3. Mentions(m.id, disk[s][k].child)
    BY <1>1, <2>1 DEF Mentions, n
  <2>4. disk[s][k].child = m.child
    BY <1>1, <2>2, <2>3 DEF HandoffInv, IdsFresh, EntryType
  <2>5. disk[s][k] = x
    BY <1>1, <2>1, <2>2, <2>4 DEF EntryType
  <2>6. ToSet(disk[s]) \subseteq memory[h]
    BY <2>1 DEF HandoffInv, OneReader, Loaded
  <2> QED
    BY <2>2, <2>5, <2>6 DEF x
<1>11. AppendedOnce'
  <2>1. ASSUME s \notin shared, NEW i \in 1..Len(disk'[s]), NEW j \in 1..Len(disk'[s]), disk'[s][i].id = disk'[s][j].id
        PROVE  i = j
    <3>1. \A a, b \in 1..n : disk[s][a].id = disk[s][b].id => a = b
      BY <2>1 DEF HandoffInv, AppendedOnce, n
    <3> QED
      BY <1>4, <1>6, <1>10, <2>1, <3>1
  <2>2. ASSUME NEW t \in Session \ shared, t # s, NEW i \in 1..Len(disk'[t]), NEW j \in 1..Len(disk'[t]),
               disk'[t][i].id = disk'[t][j].id
        PROVE  i = j
    BY <1>3, <2>2 DEF HandoffInv, AppendedOnce
  <2> QED
    BY <2>1, <2>2 DEF AppendedOnce
<1>12. DiskIds \subseteq DiskIds'
  <2>1. ASSUME NEW i \in DiskIds PROVE i \in DiskIds'
    <3>1. PICK t \in Session : \E k \in 1..Len(disk[t]) : disk[t][k].id = i
      BY DEF DiskIds
    <3>2. PICK k \in 1..Len(disk[t]) : disk[t][k].id = i
      BY <3>1
    <3>3. k \in 1..Len(disk'[t]) /\ disk'[t][k].id = i
      BY <1>3, <1>4, <1>7, <3>2 DEF n
    <3> QED
      BY <3>3 DEF DiskIds
  <2> QED
    BY <2>1
<1>13. m.id \in DiskIds'
  BY <1>1, <1>4, <1>8 DEF DiskIds
<1>14. ASSUME NEW c \in Child, Told(c) PROVE Told(c)'
  <2>1. PICK t \in Session : \E y \in ToSet(disk[t]) : y.child = c
    BY <1>14 DEF Told
  <2>2. disk[t] \in Seq(EntryType) /\ disk'[t] \in Seq(EntryType)
    BY <1>2, <1>5
  <2>3. PICK k \in 1..Len(disk[t]) : disk[t][k].child = c
    BY <2>1, <2>2, LenProperties DEF ToSet
  <2>4. k \in 1..Len(disk'[t]) /\ disk'[t][k].child = c
    BY <1>3, <1>4, <1>7, <2>3 DEF n
  <2>5. disk'[t][k] \in ToSet(disk'[t])
    BY <2>2, <2>4, LenProperties DEF ToSet
  <2> QED
    BY <2>4, <2>5 DEF Told
<1>15. OneReader'
  <2>1. /\ memory \in [Host -> SUBSET EntryType] /\ memory'[h] = memory[h] \cup {x}
        /\ \A g \in Host \ {h} : memory'[g] = memory[g]
    BY DEF HandoffInv, Base, Typed, x
  <2>2. ToSet(disk'[s]) \subseteq ToSet(disk[s]) \cup {x}
    <3>1. SUFFICES ASSUME NEW y \in ToSet(disk'[s]) PROVE y \in ToSet(disk[s]) \cup {x}
      OBVIOUS
    <3>2. PICK k \in 1..Len(disk'[s]) : y = disk'[s][k]
      BY <1>4, LenProperties DEF ToSet
    <3>3. CASE k \in 1..n
      <4>1. y = disk[s][k]
        BY <1>4, <3>2, <3>3
      <4> QED
        BY <1>2, <3>3, <4>1, LenProperties DEF ToSet, n
    <3>4. CASE k = n + 1
      BY <1>4, <3>2, <3>4
    <3> QED
      BY <1>6, <3>3, <3>4
  <2>3. ASSUME NEW g \in Host, host[g].up, host[g].session \notin shared
        PROVE  ToSet(disk'[host[g].session]) \subseteq memory'[g]
    <3>1. ToSet(disk[host[g].session]) \subseteq memory[g]
      BY <2>3 DEF HandoffInv, OneReader, Loaded
    <3>2. CASE g = h
      BY <2>1, <2>2, <3>1, <3>2
    <3>3. CASE g # h
      <4>1. host[g].session # s
        BY <2>3, <3>3 DEF HandoffInv, OneReader
      <4>2. host[g].session \in Session
        BY <2>3 DEF HandoffInv, Base, Typed, TypeOK, ParentState, Spawned
      <4> QED
        BY <1>3, <2>1, <3>1, <3>3, <4>1, <4>2
    <3> QED
      BY <3>2, <3>3
  <2> QED
    BY <2>3 DEF HandoffInv, OneReader, Loaded
<1> QED
  BY <1>5, <1>9, <1>11, <1>12, <1>13, <1>14, <1>15

\* deliverMaestroCompletionHandoff keeps the invariant.
LEMMA ParentHandlesKeeps ==
    ASSUME HandoffInv, NEW h \in Host, ParentHandles(h)
    PROVE  HandoffInv'
<1> DEFINE m == Head(wire[h]) s == host[h].session
<1>1. /\ UNCHANGED <<svc, epoch, queue, nextId, wanted, round, host, shared, turns, timeouts>>
      /\ UNCHANGED <<rec, addr, live, bound, spawning, stopping, block, recovered>>
      /\ host[h].up /\ wire[h] # <<>> /\ wire' = [wire EXCEPT ![h] = Tail(@)]
  BY DEF ParentHandles, child
<1>2. \/ Entry(m) \in memory[h] /\ Reply(h, m, "delivered") /\ UNCHANGED <<disk, memory, faults>>
      \/ Reply(h, m, "refused") /\ UNCHANGED <<disk, memory, faults>>
      \/ /\ Entry(m) \notin memory[h] /\ disk' = [disk EXCEPT ![s] = Append(@, Entry(m))]
         /\ memory' = [memory EXCEPT ![h] = @ \cup {Entry(m)}]
         /\ Reply(h, m, "delivered") /\ faults' = faults
      \/ /\ memory' = [memory EXCEPT ![h] = @ \cup {Entry(m)}] /\ faults' = faults + 1
         /\ Reply(h, m, "refused") /\ disk' = disk
  BY DEF ParentHandles
<1>3. /\ wire \in [Host -> Seq(ClaimType)] /\ memory \in [Host -> SUBSET EntryType] /\ faults \in Nat
      /\ disk \in [Session -> Seq(EntryType)]
      /\ answer \in [Host -> {None, "delivered", "refused"}] /\ host \in [Host -> ParentState]
      /\ s # None
  BY <1>1 DEF HandoffInv, Base, Typed, TypeOK, Spawned
<1>4. s \in Session
  BY <1>3 DEF ParentState
<1>5. \A g \in Host : \A k \in 1..Len(wire[g]) : Mentions(wire[g][k].id, wire[g][k].child)
  BY DEF Mentions
<1>6. /\ m \in ClaimType /\ Mentions(m.id, m.child) /\ wire' \in [Host -> Seq(ClaimType)]
      /\ \A g \in Host : \A k \in 1..Len(wire'[g]) : Mentions(wire'[g][k].id, wire'[g][k].child)
  <2>1. wire[h] \in Seq(ClaimType) /\ Len(wire[h]) \in Nat \ {0} /\ m = wire[h][1]
    BY <1>1, <1>3, EmptySeq
  <2>2. /\ m \in ClaimType /\ Tail(wire[h]) \in Seq(ClaimType) /\ Len(Tail(wire[h])) = Len(wire[h]) - 1
        /\ \A k \in 1..Len(Tail(wire[h])) : Tail(wire[h])[k] = wire[h][k + 1]
    BY <1>1, <2>1, HeadTailProperties
  <2>3. /\ wire'[h] = Tail(wire[h]) /\ \A g \in Host \ {h} : wire'[g] = wire[g]
    BY <1>1, <1>3
  <2>4. wire' \in [Host -> Seq(ClaimType)]
    BY <1>1, <1>3, <2>2
  <2>5. Mentions(m.id, m.child)
    BY <1>5, <2>1
  <2>6. ASSUME NEW k \in 1..Len(wire'[h]) PROVE Mentions(wire'[h][k].id, wire'[h][k].child)
    <3>1. k + 1 \in 1..Len(wire[h]) /\ wire'[h][k] = wire[h][k + 1]
      BY <2>1, <2>2, <2>3
    <3> QED
      BY <1>5, <3>1
  <2> QED
    BY <1>5, <2>2, <2>3, <2>4, <2>5, <2>6
<1> HIDE DEF m, s
<1>7. Entry(m) \in EntryType /\ Entry(m).id = m.id
  BY <1>6 DEF Entry, EntryType, ClaimType
<1>8. /\ disk' \in [Session -> Seq(EntryType)]
      /\ \A i \in Nat, c \in Child : Mentions(i, c)' => Mentions(i, c)
      /\ AppendedOnce' /\ OneReader' /\ DiskIds \subseteq DiskIds'
      /\ \A c \in Child : Told(c) => Told(c)'
  <2>1. CASE disk' = disk /\ \A g \in Host : memory[g] \subseteq memory'[g]
    <3>1. IdsFresh' /\ AppendedOnce' /\ RoundsOwned'
      BY <1>1, <1>6, <2>1, DeliveryKept DEF HandoffInv, RoundsOwned, Base, Typed, TypeOK, QueueType, Mentions, NothingNew
    <3>2. ASSUME NEW i \in Nat, NEW c \in Child, Mentions(i, c)' PROVE Mentions(i, c)
      <4>1. CASE \E g \in Host : \E k \in 1..Len(wire'[g]) : wire'[g][k].id = i /\ wire'[g][k].child = c
        BY <1>6, <4>1
      <4> QED
        BY <1>1, <2>1, <3>2, <4>1 DEF Mentions
    <3>3. OneReader'
      BY <1>1, <2>1, QuietReader DEF HandoffInv
    <3> QED
      BY <1>3, <2>1, <3>1, <3>2, <3>3 DEF DiskIds, Told
  <2>2. CASE /\ Entry(m) \notin memory[h] /\ disk' = [disk EXCEPT ![s] = Append(@, Entry(m))]
             /\ memory' = [memory EXCEPT ![h] = @ \cup {Entry(m)}]
    BY <1>1, <1>4, <1>6, <2>2, AppendKept DEF s
  <2>3. CASE disk' = disk /\ memory' = [memory EXCEPT ![h] = @ \cup {Entry(m)}]
    BY <1>3, <2>1, <2>3
  <2> QED
    BY <1>2, <2>1, <2>2, <2>3
<1>9. /\ faults' \in Nat /\ (faults' = 0 => faults = 0) /\ memory' \in [Host -> SUBSET EntryType]
      /\ faults' = 0 => \A g \in Host : \A e \in memory'[g] : e.id \in DiskIds'
  <2>1. faults = 0 => \A g \in Host : \A e \in memory[g] : e.id \in DiskIds'
    BY <1>8 DEF HandoffInv, Durable
  <2>2. CASE UNCHANGED <<memory, faults>>
    BY <1>3, <2>1, <2>2
  <2>3. CASE memory' = [memory EXCEPT ![h] = @ \cup {Entry(m)}]
    <3>1. memory[h] \cup {Entry(m)} \in SUBSET EntryType
      BY <1>3, <1>7
    <3>2. /\ memory' \in [Host -> SUBSET EntryType] /\ memory'[h] = memory[h] \cup {Entry(m)}
          /\ \A g \in Host \ {h} : memory'[g] = memory[g]
      BY <1>3, <2>3, <3>1
    <3>3. CASE faults' = faults + 1
      <4>1. faults + 1 \in Nat /\ faults + 1 # 0
        BY <1>3
      <4> QED
        BY <3>2, <3>3, <4>1
    <3>4. CASE faults' = faults /\ Entry(m) \notin memory[h] /\ disk' = [disk EXCEPT ![s] = Append(@, Entry(m))]
      <4>1. m.id \in DiskIds'
        BY <1>1, <1>4, <1>6, <2>3, <3>4, AppendKept DEF s
      <4> QED
        BY <1>3, <1>7, <2>1, <3>2, <3>4, <4>1
    <3> QED
      BY <1>2, <1>3, <2>2, <3>3, <3>4
  <2> QED
    BY <1>2, <2>2, <2>3
<1>10. \E a \in {"delivered", "refused"} :
            Reply(h, m, a) /\ (a = "delivered" /\ faults = 0 => m.id \in DiskIds')
  <2>1. CASE Entry(m) \in memory[h] /\ Reply(h, m, "delivered")
    <3>1. faults = 0 => m.id \in DiskIds
      BY <1>7, <2>1 DEF HandoffInv, Durable
    <3> QED
      BY <1>8, <2>1, <3>1
  <2>2. CASE Reply(h, m, "refused")
    BY <2>2
  <2>3. CASE /\ Entry(m) \notin memory[h] /\ disk' = [disk EXCEPT ![s] = Append(@, Entry(m))]
             /\ memory' = [memory EXCEPT ![h] = @ \cup {Entry(m)}]
             /\ Reply(h, m, "delivered")
    <3>1. m.id \in DiskIds'
      BY <1>1, <1>4, <1>6, <2>3, AppendKept DEF s
    <3> QED
      BY <2>3, <3>1
  <2> QED
    BY <1>2, <2>1, <2>2, <2>3
<1>11. PICK a \in {"delivered", "refused"} :
            Reply(h, m, a) /\ (a = "delivered" /\ faults = 0 => m.id \in DiskIds')
  BY <1>10
<1>12. /\ answer' \in [Host -> {None, "delivered", "refused"}]
       /\ \A g \in Host : \/ answer'[g] = answer[g]
                          \/ answer'[g] = a /\ round[g] # <<>> /\ Head(round[g]) = m
  BY <1>3, <1>11 DEF Reply
<1>13. Typed'
  BY <1>1, <1>6, <1>8, <1>9, <1>12 DEF HandoffInv, Base, Typed, TypeOK
<1>14. \A d \in Child : Engaged(d)' => Engaged(d)
  BY <1>1 DEF Engaged
<1>15. Spawned'
  BY <1>1, <1>14 DEF HandoffInv, Base, Spawned
<1>16. IdsFresh' /\ RoundsOwned'
  BY <1>1, <1>8 DEF HandoffInv, IdsFresh, RoundsOwned
<1>17. Durable'
  <2>1. \A g \in Host : round'[g] = <<>> => answer'[g] = None
    BY <1>1, <1>12 DEF HandoffInv, Durable
  <2>2. ASSUME faults' = 0, NEW g \in Host, answer'[g] = "delivered" PROVE Head(round'[g]).id \in DiskIds'
    BY <1>1, <1>8, <1>9, <1>11, <1>12, <2>2 DEF HandoffInv, Durable
  <2>3. ASSUME faults' = 0, NEW c \in Child, queue'[c] # None, queue'[c].state = "acknowledged"
        PROVE  queue'[c].id \in DiskIds'
    BY <1>1, <1>8, <1>9, <2>3 DEF HandoffInv, Durable
  <2> QED
    BY <1>9, <2>1, <2>2, <2>3 DEF HandoffInv, Durable
<1>18. MarkedKept'
  <2>1. \A d \in Child : Marked(d)' => Marked(d)
    BY <1>1 DEF Marked
  <2> QED
    BY <1>1, <1>8, <1>9, <2>1 DEF HandoffInv, MarkedKept
<1> QED
  BY <1>8, <1>13, <1>15, <1>16, <1>17, <1>18 DEF HandoffInv, Base

-----------------------------------------------------------------------------
(* The theorems.                                                           *)

\* The service starts with nothing in its files.
LEMMA InitHolds == Init => HandoffInv
<1> SUFFICES ASSUME Init PROVE HandoffInv
  OBVIOUS
<1>1. /\ Absent \in InstanceRecord /\ Absent.queued = FALSE /\ NoHost \in ParentState /\ NoHost.up = FALSE
  BY DEF Absent, InstanceRecord, Status, NoHost, ParentState
<1>2. <<>> \in Seq(ClaimType) /\ <<>> \in Seq(EntryType) /\ Len(<<>>) = 0
  BY EmptySeq
<1>3. Typed
  BY <1>1, <1>2 DEF Init, Typed, TypeOK, EmptyQueue
<1>4. Spawned
  BY <1>1 DEF Init, Spawned, Engaged
<1>5. \A i, c : c \in Child => ~Mentions(i, c)
  BY <1>2 DEF Init, Mentions, EmptyQueue
<1>6. IdsFresh /\ AppendedOnce /\ RoundsOwned
  BY <1>2, <1>5 DEF Init, IdsFresh, AppendedOnce, RoundsOwned
<1>7. Durable
  BY HandoffAssumption DEF Init, Durable, EmptyQueue
<1>8. MarkedKept
  BY <1>1 DEF Init, MarkedKept, Marked
<1>9. OneReader
  BY <1>1 DEF Init, OneReader
<1> QED
  BY <1>3, <1>4, <1>6, <1>7, <1>8, <1>9 DEF HandoffInv, Base

\* Nothing happens.
LEMMA StutterKeeps ==
    ASSUME HandoffInv, UNCHANGED vars
    PROVE  HandoffInv'
<1>1. /\ UNCHANGED <<svc, epoch, queue, nextId, disk, faults, round, wire, answer, memory, shared, host, wanted, turns, timeouts>>
      /\ UNCHANGED <<rec, addr, live, bound, spawning, stopping, block, recovered>>
  BY DEF vars, child, delivery, parent, bounds
<1>2. OneReader'
  BY <1>1, QuietReader DEF HandoffInv
<1>3. HostStep
  BY <1>1, <1>2 DEF HandoffInv, Base, Typed, TypeOK, Spawned, HostStep, child
<1> QED
  BY <1>3, HostStepKeeps

\* Every step keeps the invariant.
LEMMA HandoffInvKept == HandoffInv /\ [Next]_vars => HandoffInv'
<1> SUFFICES ASSUME HandoffInv, [Next]_vars PROVE HandoffInv'
  OBVIOUS
<1>1. ASSUME NEW c \in Child, ChildNext(c) PROVE HandoffInv'
  BY <1>1, SpawnKeeps, SpawnOnlineKeeps, SpawnThrowsKeeps, FailSpawnKeeps, RpcExitKeeps, StopKeeps, StopDoneKeeps,
     ClaimLapsesKeeps, AcknowledgedExpiresKeeps, RecordExpiresKeeps, RecoverRecordKeeps DEF ChildNext
<1>2. ASSUME NEW h \in Host, HostNext(h) PROVE HandoffInv'
  BY <1>2, StartHostKeeps, SwitchSessionKeeps, HostExitKeeps, StartTurnKeeps, SettleKeeps, RunOverKeeps,
     StartRoundKeeps, AnswerArrivesKeeps, HandoffFailsKeeps, ParentHandlesKeeps DEF HostNext
<1>3. CASE WriteResult \/ EnqueueResult \/ MarkQueued
  BY <1>3, WriteResultKeeps, EnqueueResultKeeps, MarkQueuedKeeps
<1>4. CASE Crash \/ Restart \/ FinishRecovery
  BY <1>4, CrashKeeps, RestartKeeps, FinishRecoveryKeeps
<1>5. CASE UNCHANGED vars
  BY <1>5, StutterKeeps
<1> QED
  BY <1>1, <1>2, <1>3, <1>4, <1>5 DEF Next

\* The invariant holds of every reachable state.
THEOREM HandoffInvHolds == Spec => []HandoffInv
BY InitHolds, HandoffInvKept, PTL DEF Spec

\* A completion is appended at most once to each session file that no two
\* parents had open at once, however often it is redelivered, whichever
\* timed-out command arrives late and however often the session is opened again
\* (deliverMaestroCompletionHandoff).
THEOREM AppendedOnceHolds == Spec => []AppendedOnce
<1>1. HandoffInv => AppendedOnce
  BY DEF HandoffInv
<1> QED
  BY <1>1, HandoffInvHolds, PTL

\* As long as every write of a session file succeeded, an acknowledged
\* completion is in a session file (deliverCompletionClaims).
THEOREM AcknowledgedIsDurableHolds == Spec => [](faults = 0 => AcknowledgedIsDurable)
<1>1. ASSUME HandoffInv, faults = 0 PROVE AcknowledgedIsDurable
  <2>1. SUFFICES ASSUME NEW c \in Acknowledged(queue)
                 PROVE  \E s \in Session : \E m \in ToSet(disk[s]) : m.id = queue[c].id
    BY DEF AcknowledgedIsDurable
  <2>2. queue[c].id \in DiskIds
    BY <1>1 DEF HandoffInv, Durable, Acknowledged, Entries
  <2>3. PICK s \in Session : \E k \in 1..Len(disk[s]) : disk[s][k].id = queue[c].id
    BY <2>2 DEF DiskIds
  <2>4. PICK k \in 1..Len(disk[s]) : disk[s][k].id = queue[c].id
    BY <2>3
  <2>5. disk[s] \in Seq(EntryType)
    BY <1>1 DEF HandoffInv, Base, Typed
  <2>6. disk[s][k] \in ToSet(disk[s])
    BY <2>5 DEF ToSet
  <2> QED
    BY <2>4, <2>6
<1> QED
  BY <1>1, HandoffInvHolds, PTL

\* As long as every write of a session file succeeded, a completion that is
\* marked as queued is in the queue or was told: neither eviction, nor
\* retention, nor a crash at any write loses it (enqueue, recoverAfterRestart).
THEOREM QueuedNeverLostHolds == Spec => [](faults = 0 => QueuedNeverLost)
<1>1. HandoffInv /\ faults = 0 => QueuedNeverLost
  BY DEF HandoffInv, Base, Typed, MarkedKept, Marked, QueuedNeverLost
<1> QED
  BY <1>1, HandoffInvHolds, PTL

-----------------------------------------------------------------------------
(* A claim that has not lapsed is kept.                                     *)

\* The record of child c is under an unexpired claim of h.
HeldBy(c, h) ==
    queue[c] # None /\ queue[c].state = "claimed" /\ queue[c].owner = h /\ ~queue[c].lapsed

Untouched(c) == queue'[c] = [queue[c] EXCEPT !.lapsed = queue'[c].lapsed]

\* A record that stays as it is is untouched.
LEMMA SameUntouched ==
    ASSUME HandoffInv, NEW c \in Child, queue[c] # None, queue'[c] = queue[c]
    PROVE  Untouched(c)
<1>1. queue[c] \in CompletionRecord
  BY DEF HandoffInv, Base, Typed, TypeOK
<1> QED
  BY <1>1 DEF Untouched, CompletionRecord

\* Dropping acknowledged records leaves a claim alone.
LEMMA WithoutUntouched ==
    ASSUME NEW q \in QueueType, NEW c \in Child, q[c].state = "claimed", NEW gone \in SUBSET Acknowledged(q)
    PROVE  Without(q, gone)[c] = q[c]
BY DEF Without, Acknowledged

\* So does an enqueue.
LEMMA EnqueueUntouched ==
    ASSUME HandoffInv, NEW c \in Child, NEW d \in Child, NEW p, NEW hash, NEW i,
           queue[c] # None, queue[c].state = "claimed"
    PROVE  Enqueue(queue, d, p, hash, i)[c] = queue[c]
<1>1. queue \in QueueType
  BY DEF HandoffInv, Base, Typed, TypeOK, QueueType
<1>2. MakeRoom(queue)[c] = queue[c] /\ MakeRoom(queue) \in QueueType
  BY <1>1, WithoutUntouched, WithoutStep DEF MakeRoom, QueueStep
<1>3. CASE queue[d] # None
  BY <1>3 DEF Enqueue
<1>4. CASE queue[d] = None
  BY <1>2, <1>4 DEF Enqueue, QueueType
<1> QED
  BY <1>3, <1>4

\* Another parent's round does not claim it.
LEMMA ClaimUntouched ==
    ASSUME HandoffInv, NEW c \in Child, NEW h \in Host, NEW g \in Host, g # h, HeldBy(c, h),
           NEW taken \in SUBSET Claimable(queue, g, Addresses(g))
    PROVE  Claim(queue, g, taken)[c] = queue[c]
<1>1. c \notin taken
  BY DEF HeldBy, Claimable
<1> QED
  BY <1>1 DEF Claim

\* Another parent's answer or failure does not settle it.
LEMMA SettleUntouched ==
    ASSUME HandoffInv, NEW c \in Child, NEW h \in Host, NEW g \in Host, g # h, HeldBy(c, h),
           NEW m \in ClaimType, m.owner = g
    PROVE  Acknowledge(queue, m)[c] = queue[c] /\ Release(queue, m)[c] = queue[c]
<1>1. queue \in QueueType /\ m.child \in Child
  BY DEF HandoffInv, Base, Typed, TypeOK, QueueType, ClaimType
<1>2. CASE HoldsClaim(queue, m)
  <2>1. m.child # c
    BY <1>2 DEF HoldsClaim, HeldBy
  <2> QED
    BY <1>1, <1>2, <2>1 DEF Acknowledge, Release, QueueType
<1>3. CASE ~HoldsClaim(queue, m)
  BY <1>3 DEF Acknowledge, Release
<1> QED
  BY <1>2, <1>3

\* The head of a round is settled: the round changes.
LEMMA TailDiffers ==
    ASSUME HandoffInv, NEW h \in Host, round[h] # <<>>, round' = [round EXCEPT ![h] = Tail(@)]
    PROVE  round'[h] # round[h]
<1>1. round \in [Host -> Seq(ClaimType)] /\ round[h] \in Seq(ClaimType)
  BY DEF HandoffInv, Base, Typed
<1>2. Len(Tail(round[h])) = Len(round[h]) - 1 /\ Len(round[h]) \in Nat
  BY <1>1, HeadTailProperties
<1>3. round'[h] = Tail(round[h])
  BY <1>1
<1>4. ASSUME round'[h] = round[h] PROVE FALSE
  <2>1. Len(round[h]) = Len(round[h]) - 1
    BY <1>2, <1>3, <1>4
  <2> DEFINE n == Len(round[h])
  <2>2. n \in Nat /\ n = n - 1
    BY <1>2, <2>1
  <2> HIDE DEF n
  <2> QED
    BY <2>2
<1> QED
  BY <1>4

\* A step of a round leaves the claims of other parents alone.
LEMMA RoundUntouched ==
    ASSUME HandoffInv, NEW c \in Child, NEW h \in Host, HeldBy(c, h), NEW g \in Host,
           StartRound(g) \/ AnswerArrives(g) \/ HandoffFails(g)
    PROVE  Untouched(c) \/ round'[h] # round[h]
<1>1. CASE g = h /\ (AnswerArrives(g) \/ HandoffFails(g))
  BY <1>1, TailDiffers DEF AnswerArrives, HandoffFails, NextClaim
<1>2. CASE g # h /\ (AnswerArrives(g) \/ HandoffFails(g))
  <2>1. round[g] # <<>> /\ queue' \in {Acknowledge(queue, Head(round[g])), Release(queue, Head(round[g]))}
    BY <1>2 DEF AnswerArrives, HandoffFails
  <2>2. Head(round[g]) \in ClaimType /\ Head(round[g]).owner = g
    BY <2>1, RoundTail DEF HandoffInv, RoundsOwned
  <2>3. queue'[c] = queue[c]
    BY <1>2, <2>1, <2>2, SettleUntouched
  <2> QED
    BY <2>3, SameUntouched DEF HeldBy
<1>3. CASE StartRound(g)
  <2>1. PICK taken \in Claims(queue, g, Addresses(g)) :
          /\ queue' = Claim(queue, g, taken)
          /\ LET order == SetToSeq(taken)
                 claims == [i \in 1..Len(order) |-> ClaimReceipt(queue', order[i])]
             IN  round' = [round EXCEPT ![g] = claims]
    BY <1>3 DEF StartRound
  <2>2. taken \in SUBSET Claimable(queue, g, Addresses(g)) /\ IsFiniteSet(taken)
    <3>1. taken \in SUBSET Claimable(queue, g, Addresses(g))
      BY DEF Claims
    <3>2. taken \in SUBSET Child
      BY <3>1 DEF Claimable, Entries
    <3> QED
      BY <3>1, <3>2, FS_Subset, QueueAssumption
  <2>3. CASE c \notin taken
    BY <2>1, <2>3, SameUntouched DEF Claim, HeldBy
  <2>4. CASE g # h
    BY <2>1, <2>2, <2>4, ClaimUntouched, SameUntouched DEF HeldBy
  <2>5. CASE g = h /\ c \in taken
    <3> DEFINE order == SetToSeq(taken)
               claims == [i \in 1..Len(order) |-> ClaimReceipt(queue', order[i])]
    <3>1. order \in Seq(taken) /\ Len(order) = Cardinality(taken) /\ Cardinality(taken) \in Nat
      BY <2>2, SetToSeqIsSeq, FS_CardinalityType
    <3>2. Cardinality(taken) # 0
      BY <2>2, <2>5, FS_EmptySet
    <3>3. round \in [Host -> Seq(ClaimType)] /\ round[h] = <<>>
      BY <1>3, <2>5 DEF HandoffInv, Base, Typed, StartRound
    <3>4. round'[h] = claims
      BY <2>1, <2>5, <3>3
    <3> HIDE DEF order
    <3>5. Len(claims) = Len(order)
      BY <3>1
    <3> QED
      BY <3>1, <3>2, <3>3, <3>4, <3>5, EmptySeq
  <2> QED
    BY <2>3, <2>4, <2>5
<1> QED
  BY <1>1, <1>2, <1>3

\* So does every other step.
LEMMA NextUntouched ==
    ASSUME HandoffInv, Next, NEW c \in Child, NEW h \in Host, HeldBy(c, h)
    PROVE  Untouched(c) \/ round'[h] # round[h]
<1>1. queue \in QueueType /\ queue[c] \in CompletionRecord
  BY DEF HandoffInv, Base, Typed, TypeOK, QueueType, HeldBy
<1>2. CASE queue' = queue
  BY <1>2, SameUntouched DEF HeldBy
<1>3. ASSUME NEW d \in Child, ClaimLapses(d) PROVE Untouched(c)
  <2>1. queue' = [queue EXCEPT ![d].lapsed = TRUE]
    BY <1>3 DEF ClaimLapses
  <2>2. CASE d = c
    <3>1. queue'[c] = [queue[c] EXCEPT !.lapsed = TRUE]
      BY <1>1, <2>1, <2>2 DEF QueueType
    <3> QED
      BY <1>1, <3>1 DEF Untouched, CompletionRecord
  <2>3. CASE d # c
    BY <1>1, <2>1, <2>3, SameUntouched DEF HeldBy, QueueType
  <2> QED
    BY <2>2, <2>3
<1>4. ASSUME NEW d \in Child, AcknowledgedExpires(d) PROVE Untouched(c)
  <2>1. queue' = Without(queue, {d} \cap Acknowledged(queue))
    BY <1>4 DEF AcknowledgedExpires, CleanupAcknowledged
  <2> QED
    BY <1>1, <2>1, WithoutUntouched, SameUntouched DEF HeldBy
<1>5. ASSUME NEW d \in Child, NEW hash, EnqueueCompletion(d, hash) PROVE Untouched(c)
  BY <1>5, EnqueueUntouched, SameUntouched DEF EnqueueCompletion, HeldBy
<1>6. ASSUME EnqueueResult PROVE Untouched(c)
  <2>1. block.child \in Child
    BY <1>6 DEF EnqueueResult, AtStep, HandoffInv, Base, Typed, TypeOK, Block
  <2> QED
    BY <1>5, <1>6, <2>1 DEF EnqueueResult
<1>7. ASSUME NEW d \in Child, RecoverRecord(d) PROVE Untouched(c)
  BY <1>2, <1>5, <1>7, SameUntouched DEF RecoverRecord, HeldBy
<1>8. ASSUME NEW d \in Child, ChildNext(d) PROVE queue' = queue \/ Untouched(c)
  BY <1>3, <1>4, <1>7, <1>8
     DEF ChildNext, Spawn, SpawnOnline, SpawnThrows, FailSpawn, RpcExit, Stop, StopDone, RecordExpires
<1>9. ASSUME NEW g \in Host, HostNext(g) PROVE queue' = queue \/ Untouched(c) \/ round'[h] # round[h]
  BY <1>9, RoundUntouched
     DEF HostNext, StartHost, SwitchSession, HostExit, StartTurn, Settle, RunOver, ParentHandles
<1>10. CASE WriteResult \/ MarkQueued \/ Crash \/ Restart \/ FinishRecovery
  BY <1>2, <1>10 DEF WriteResult, MarkQueued, Crash, Restart, FinishRecovery
<1> QED
  BY <1>2, <1>6, <1>8, <1>9, <1>10 DEF Next

\* A claim that has not lapsed ends only in its owner's own round: no other
\* parent claims, releases or acknowledges the record meanwhile (claim,
\* acknowledge, release).
THEOREM ClaimKeptHolds == Spec => ClaimKept
<1> DEFINE Kept == \A c \in Child : \A h \in Host :
        (/\ queue[c] # None /\ queue[c].state = "claimed"
         /\ queue[c].owner = h /\ ~queue[c].lapsed)
        => \/ queue'[c] = [queue[c] EXCEPT !.lapsed = queue'[c].lapsed]
           \/ round'[h] # round[h]
<1>1. HandoffInv /\ [Next]_vars => [Kept]_vars
  BY NextUntouched DEF HeldBy, Untouched
<1>2. Spec => [][Kept]_vars
  BY <1>1, HandoffInvHolds, PTL DEF Spec
<1> QED
  BY <1>2 DEF ClaimKept
=============================================================================
