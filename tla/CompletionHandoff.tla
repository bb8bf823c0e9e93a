-------------------------- MODULE CompletionHandoff --------------------------
(***************************************************************************)
(* How the end of a child session reaches its parent session: the          *)
(* supervisor's instance records and completion blocks (supervisor.ts), the *)
(* durable queue (CompletionQueue), the delivery rounds of each live       *)
(* parent, the handoff command in the parent process                       *)
(* (maestro-completion-handoff.ts) and restart recovery.                   *)
(*                                                                         *)
(* The supervisor is one JavaScript thread: a block without await cannot be *)
(* interleaved with another block but can be cut by a crash of the service  *)
(* after any file write, so a completion block is a chain of actions, one   *)
(* per write, during which only Crash and the parent processes may act.     *)
(*                                                                         *)
(* A parent is a live instance (Host) currently showing one session; it is  *)
(* a separate process with the branch it shows in memory, and several may    *)
(* have one session file open.  The production service gives the supervisor no      *)
(* reconnectRpcProcess, so no instance outlives a crash of the service.     *)
(***************************************************************************)
EXTENDS CompletionQueue, Sequences, SequencesExt

CONSTANTS
    Host, Session,   \* parent instances and their sessions
    MaxActors,       \* bound on children spawned and parents started
    MaxCrashes,      \* bound on crashes of the service
    MaxTurns,        \* bound on turns of all parents together
    MaxTimeouts,     \* bound on handoff requests that time out
    MaxSwitches,     \* bound on session changes of all parents together
    MaxFaults        \* bound on failing writes of a session file

\* "ended" stands for failed, cancelled and stopped, which no property here
\* tells apart.
Status == {"absent", "starting", "online", "stopping", "error", "ended"}
InstanceRecord == [status : Status, hash : Nat \cup {None}, queued : BOOLEAN]
Block == [child : Child, step : {"result", "enqueue", "mark"}]

ASSUME HandoffAssumption ==
    /\ Owner = Host /\ Address = Host \cup Session /\ Host \cap Session = {}
    /\ None \notin InstanceRecord /\ None \notin Block
    /\ None \notin {"delivered", "refused"}
    /\ {MaxActors, MaxCrashes, MaxTurns, MaxTimeouts, MaxSwitches, MaxFaults} \subseteq Nat

VARIABLES
    svc,        \* the service process: "down", "recovering" or "ready"
    epoch,      \* how often the service has started; dates the result hashes
    rec,        \* instances.json
    queue,      \* completions.json
    nextId,     \* source of fresh delivery ids
    addr,       \* the parent address each child was spawned with
    live,       \* children in liveInstances
    bound,      \* children whose RPC events the supervisor listens to
    spawning,   \* spawnManagedInstance of a child: "no", "spawning", "failing"
    stopping,   \* children with a stopManagedInstance awaiting its cleanup
    block,      \* the completion block in progress: None or [child, step]
    recovered,  \* recoverAfterRestart: the records decided so far
    host,       \* each parent: [up, session, mode]
    wanted,     \* delivery rounds chained on completionDelivery
    round,      \* claims of the round in progress, the head being sent
    wire,       \* handoff commands on their way to the parent process
    answer,     \* answer to the command awaited: None, "delivered", "refused"
    disk,       \* the session files: completions appended to each session
    memory,     \* completions in the branch each parent process shows
    shared,     \* sessions that two parents have had open at once
    turns, timeouts, switches, faults

child == <<rec, addr, live, bound, spawning, stopping, block, recovered>>
delivery == <<wanted, round, wire, answer>>
parent == <<host, disk, memory, shared>>
bounds == <<turns, timeouts, switches, faults>>
vars == <<svc, epoch, queue, nextId, child, delivery, parent, bounds>>

-----------------------------------------------------------------------------
WasLive == {"online", "starting"}
Terminal == {"ended"}
Absent == [status |-> "absent", hash |-> None, queued |-> FALSE]
ParentState == [up : BOOLEAN, session : Session \cup {None}, mode : {"idle", "running", "settling"}]
NoHost == [up |-> FALSE, session |-> None, mode |-> "idle"]

Actors == Cardinality({c \in Child : addr[c] # None})
            + Cardinality({h \in Host : host[h].session # None})

Quiet == block = None
Ready == svc = "ready" /\ Quiet

\* The addresses matchesParent accepts for a parent instance.
Addresses(h) == {h, host[h].session}

\* The parent enqueueCompletion finds among the live instances.
LiveParents(c) == {h \in Host : host[h].up /\ addr[c] \in Addresses(h)}

\* Mutant: deduplication that forgets the completions read from disk.
NothingLoaded(s) == {}

\* What a process that opens a session reads from its file; what others append
\* afterwards it does not see.
Loaded(s) == ToSet(disk[s])
Told(c) == \E s \in Session : \E m \in ToSet(disk[s]) : m.child = c

Init ==
    /\ svc = "ready"
    /\ epoch = 1
    /\ rec = [c \in Child |-> Absent]
    /\ queue = EmptyQueue
    /\ nextId = 1
    /\ addr = [c \in Child |-> None]
    /\ live = {} /\ bound = {} /\ stopping = {}
    /\ spawning = [c \in Child |-> "no"]
    /\ block = None
    /\ recovered = [c \in Child |-> None]
    /\ host = [h \in Host |-> NoHost]
    /\ wanted = [h \in Host |-> 0]
    /\ round = [h \in Host |-> <<>>]
    /\ wire = [h \in Host |-> <<>>]
    /\ answer = [h \in Host |-> None]
    /\ disk = [s \in Session |-> <<>>]
    /\ memory = [h \in Host |-> {}] /\ shared = {}
    /\ turns = 0 /\ timeouts = 0 /\ switches = 0 /\ faults = 0

-----------------------------------------------------------------------------
(* The life of a child instance.                                           *)

\* spawnManagedInstance up to its first await.
Spawn(c, h, a) ==
    /\ Ready /\ addr[c] = None /\ Actors < MaxActors
    /\ host[h].up /\ a \in Addresses(h)
    /\ rec' = [rec EXCEPT ![c].status = "starting"]
    /\ addr' = [addr EXCEPT ![c] = a]
    /\ live' = live \cup {c} /\ bound' = bound \cup {c}
    /\ spawning' = [spawning EXCEPT ![c] = "spawning"]
    /\ UNCHANGED <<svc, epoch, queue, nextId, stopping, block, recovered, delivery, parent, bounds>>

\* The awaits of spawnManagedInstance succeed; nothing checks that the
\* instance is still live.
SpawnOnline(c) ==
    /\ Ready /\ spawning[c] = "spawning"
    /\ rec' = [rec EXCEPT ![c].status = "online"]
    /\ spawning' = [spawning EXCEPT ![c] = "no"]
    /\ UNCHANGED <<svc, epoch, queue, nextId, addr, live, bound, stopping, block, recovered, delivery, parent, bounds>>

\* failSpawn: status "error", then the cleanup is awaited.
SpawnThrows(c) ==
    /\ Ready /\ spawning[c] = "spawning"
    /\ rec' = [rec EXCEPT ![c].status = "error"]
    /\ spawning' = [spawning EXCEPT ![c] = "failing"]
    /\ bound' = bound \ {c}
    /\ UNCHANGED <<svc, epoch, queue, nextId, addr, live, stopping, block, recovered, delivery, parent, bounds>>

\* Write the terminal status and enter the completion block.
Conclude(c) ==
    /\ rec' = [rec EXCEPT ![c].status = "ended"]
    /\ live' = live \ {c}
    /\ bound' = bound \ {c}
    /\ block' = [child |-> c, step |-> "result"]

FailSpawn(c) ==
    /\ Ready /\ spawning[c] = "failing"
    /\ Conclude(c)
    /\ spawning' = [spawning EXCEPT ![c] = "no"]
    /\ UNCHANGED <<svc, epoch, queue, nextId, addr, stopping, recovered, delivery, parent, bounds>>

\* handleUnexpectedRpcExit: the child process died by itself.
RpcExit(c) ==
    /\ Ready /\ c \in bound /\ c \in live
    /\ rec[c].status \notin {"stopping", "ended"}
    /\ Conclude(c)
    /\ UNCHANGED <<svc, epoch, queue, nextId, addr, spawning, stopping, recovered, delivery, parent, bounds>>

\* stopManagedInstance up to the await of its cleanup.
Stop(c) ==
    /\ Ready /\ c \in live /\ c \notin stopping
    /\ rec' = [rec EXCEPT ![c].status = "stopping"]
    /\ stopping' = stopping \cup {c}
    /\ bound' = bound \ {c}
    /\ UNCHANGED <<svc, epoch, queue, nextId, addr, live, spawning, block, recovered, delivery, parent, bounds>>

StopDone(c) ==
    /\ Ready /\ c \in stopping
    /\ Conclude(c)
    /\ stopping' = stopping \ {c}
    /\ UNCHANGED <<svc, epoch, queue, nextId, addr, spawning, recovered, delivery, parent, bounds>>

-----------------------------------------------------------------------------
(* completeManagedInstance: write the result, enqueue, mark the record.     *)

AtStep(step) == block # None /\ block.step = step

\* Mutant: the record is marked as queued together with its result.
WriteResultMarked ==
    /\ AtStep("result")
    /\ LET c == block.child IN
        IF rec[c].hash # None
        THEN rec' = rec /\ block' = None
        ELSE /\ rec' = [rec EXCEPT ![c].hash = epoch, ![c].queued = TRUE]
             /\ block' = [block EXCEPT !.step = "enqueue"]
    /\ UNCHANGED <<svc, epoch, queue, nextId, addr, live, bound, spawning, stopping, recovered, delivery, parent, bounds>>

\* terminalState, summary and hash are persisted once per instance.
WriteResult ==
    /\ AtStep("result")
    /\ LET c == block.child IN
        IF rec[c].hash # None
        THEN rec' = rec /\ block' = None
        ELSE /\ rec' = [rec EXCEPT ![c].hash = epoch]
             /\ block' = [block EXCEPT !.step = "enqueue"]
    /\ UNCHANGED <<svc, epoch, queue, nextId, addr, live, bound, spawning, stopping, recovered, delivery, parent, bounds>>

\* enqueueCompletion: the queue write, then a round for the live parent.
EnqueueCompletion(c, hash) ==
    LET throws == EnqueueThrows(queue, c, addr[c], hash)
        told == IF throws THEN {} ELSE LiveParents(c)
    IN  /\ queue' = Enqueue(queue, c, addr[c], hash, nextId)
        /\ nextId' = IF queue'[c] # None /\ queue[c] = None THEN nextId + 1 ELSE nextId
        /\ \/ told = {} /\ wanted' = wanted
           \/ \E h \in told : wanted' = [wanted EXCEPT ![h] = @ + 1]

EnqueueResult ==
    /\ AtStep("enqueue")
    /\ LET c == block.child IN
        /\ EnqueueCompletion(c, rec[c].hash)
        /\ block' = IF EnqueueThrows(queue, c, addr[c], rec[c].hash) THEN None
                    ELSE [block EXCEPT !.step = "mark"]
    /\ UNCHANGED <<svc, epoch, rec, addr, live, bound, spawning, stopping, recovered, round, wire, answer, parent, bounds>>

\* completionQueuedAt is the marker that the outbox entry is in the queue.
MarkQueued ==
    /\ AtStep("mark")
    /\ rec' = [rec EXCEPT ![block.child].queued = TRUE]
    /\ block' = None
    /\ UNCHANGED <<svc, epoch, queue, nextId, addr, live, bound, spawning, stopping, recovered, delivery, parent, bounds>>

-----------------------------------------------------------------------------
(* Delivery rounds: deliverCompletions and deliverCompletionClaims.         *)

SendHead(h, claims) ==
    wire' = IF claims # <<>> /\ host[h].up
            THEN [wire EXCEPT ![h] = Append(@, Head(claims))] ELSE wire

\* The next chained round claims what is there for this parent.
StartRound(h) ==
    /\ Ready /\ host[h].up /\ wanted[h] > 0 /\ round[h] = <<>>
    /\ wanted' = [wanted EXCEPT ![h] = @ - 1]
    /\ \E taken \in Claims(queue, h, Addresses(h)) :
        /\ queue' = Claim(queue, h, taken)
        /\ LET order == SetToSeq(taken)
               claims == [i \in 1..Len(order) |-> ClaimReceipt(queue', order[i])]
           IN  /\ round' = [round EXCEPT ![h] = claims]
               /\ SendHead(h, claims)
    /\ UNCHANGED <<svc, epoch, nextId, child, answer, parent, bounds>>

\* The head of the round is settled and the next claim is sent.
NextClaim(h) ==
    /\ round' = [round EXCEPT ![h] = Tail(@)]
    /\ answer' = [answer EXCEPT ![h] = None]
    /\ SendHead(h, Tail(round[h]))
    /\ UNCHANGED <<svc, epoch, nextId, child, wanted, parent, turns, switches, faults>>

AnswerArrives(h) ==
    /\ Ready /\ round[h] # <<>> /\ answer[h] # None
    /\ queue' = IF answer[h] = "delivered" THEN Acknowledge(queue, Head(round[h]))
                ELSE Release(queue, Head(round[h]))
    /\ NextClaim(h) /\ timeouts' = timeouts

\* Mutant: a request that was sent counts as delivered.
HandoffFailsAcknowledged(h) ==
    /\ Ready /\ round[h] # <<>> /\ answer[h] = None
    /\ \/ ~host[h].up /\ timeouts' = timeouts
       \/ host[h].up /\ timeouts < MaxTimeouts /\ timeouts' = timeouts + 1
    /\ queue' = Acknowledge(queue, Head(round[h]))
    /\ NextClaim(h)

\* The request throws: the parent process is gone, or the request timed out
\* while its command is still on the way.
HandoffFails(h) ==
    /\ Ready /\ round[h] # <<>> /\ answer[h] = None
    /\ \/ ~host[h].up /\ timeouts' = timeouts
       \/ host[h].up /\ timeouts < MaxTimeouts /\ timeouts' = timeouts + 1
    /\ queue' = Release(queue, Head(round[h]))
    /\ NextClaim(h)

-----------------------------------------------------------------------------
(* The parent process.                                                     *)

\* Only the answer to the request awaited now is looked at.
Reply(h, m, a) ==
    answer' = IF round[h] # <<>> /\ Head(round[h]) = m THEN [answer EXCEPT ![h] = a] ELSE answer

Entry(m) == [id |-> m.id, child |-> m.child]

\* deliverMaestroCompletionHandoff: what the branch in memory has is confirmed, a
\* running session defers, and otherwise the entry is appended and written.
ParentHandles(h) ==
    /\ host[h].up /\ wire[h] # <<>>
    /\ wire' = [wire EXCEPT ![h] = Tail(@)]
    /\ LET m == Head(wire[h]) s == host[h].session IN
        \/ /\ Entry(m) \in memory[h]
           /\ Reply(h, m, "delivered") /\ UNCHANGED <<disk, memory, faults>>
        \/ /\ Entry(m) \notin memory[h] /\ host[h].mode # "idle"
           /\ Reply(h, m, "refused") /\ UNCHANGED <<disk, memory, faults>>
        \/ /\ Entry(m) \notin memory[h] /\ host[h].mode = "idle"
           /\ memory' = [memory EXCEPT ![h] = @ \cup {Entry(m)}]
           /\ \/ /\ disk' = [disk EXCEPT ![s] = Append(@, Entry(m))]
                 /\ Reply(h, m, "delivered") /\ faults' = faults
              \/ /\ faults < MaxFaults /\ faults' = faults + 1
                 /\ Reply(h, m, "refused") /\ disk' = disk
    /\ UNCHANGED <<svc, epoch, queue, nextId, child, wanted, round, host, shared, turns, timeouts, switches>>

StartTurn(h) ==
    /\ svc = "ready" /\ host[h].up /\ host[h].mode = "idle" /\ turns < MaxTurns
    /\ host' = [host EXCEPT ![h].mode = "running"]
    /\ turns' = turns + 1
    /\ UNCHANGED <<svc, epoch, queue, nextId, child, delivery, disk, memory, shared, timeouts, switches, faults>>

\* agent_settled is emitted, and starts a round, before the run is over:
\* isRunning stays true until sessionControl.stop() has resolved.
Settle(h) ==
    /\ Ready /\ host[h].up /\ host[h].mode = "running"
    /\ host' = [host EXCEPT ![h].mode = "settling"]
    /\ wanted' = [wanted EXCEPT ![h] = @ + 1]
    /\ UNCHANGED <<svc, epoch, queue, nextId, child, round, wire, answer, disk, memory, shared, bounds>>

RunOver(h) ==
    /\ host[h].up /\ host[h].mode = "settling"
    /\ host' = [host EXCEPT ![h].mode = "idle"]
    /\ UNCHANGED <<svc, epoch, queue, nextId, child, delivery, disk, memory, shared, bounds>>

\* A new instance starts in a new session; a round runs once it is online.
StartHost(h, s) ==
    /\ Ready /\ host[h].session = None /\ Actors < MaxActors
    /\ \A k \in Host : host[k].session # s
    /\ disk[s] = <<>>
    /\ host' = [host EXCEPT ![h] = [up |-> TRUE, session |-> s, mode |-> "idle"]]
    /\ wanted' = [wanted EXCEPT ![h] = 1]
    /\ UNCHANGED <<svc, epoch, queue, nextId, child, round, wire, answer, disk, memory, shared, bounds>>

\* The switch_session command opens a session file in an idle instance,
\* whoever else has it open.
SwitchSession(h, s) ==
    /\ Ready /\ host[h].up /\ host[h].mode = "idle" /\ switches < MaxSwitches
    /\ switches' = switches + 1
    /\ host' = [host EXCEPT ![h].session = s]
    /\ memory' = [memory EXCEPT ![h] = Loaded(s)]
    /\ shared' = shared \cup {t \in {s} : \E k \in Host \ {h} : host[k].up /\ host[k].session = t}
    /\ UNCHANGED <<svc, epoch, queue, nextId, child, delivery, disk, turns, timeouts, faults>>

HostExit(h) ==
    /\ Ready /\ host[h].up
    /\ host' = [host EXCEPT ![h].up = FALSE, ![h].mode = "idle"]
    /\ memory' = [memory EXCEPT ![h] = {}]
    /\ wanted' = [wanted EXCEPT ![h] = 0]
    /\ wire' = [wire EXCEPT ![h] = <<>>]
    /\ UNCHANGED <<svc, epoch, queue, nextId, child, round, answer, disk, shared, bounds>>

-----------------------------------------------------------------------------
(* The service dies at any write, and recovers (recoverAfterRestart).       *)

Crash ==
    /\ svc # "down" /\ epoch <= MaxCrashes
    /\ svc' = "down"
    /\ live' = {} /\ bound' = {} /\ stopping' = {}
    /\ spawning' = [c \in Child |-> "no"]
    /\ block' = None
    /\ recovered' = [c \in Child |-> None]
    /\ host' = [h \in Host |-> [host[h] EXCEPT !.up = FALSE, !.mode = "idle"]]
    /\ wanted' = [h \in Host |-> 0]
    /\ round' = [h \in Host |-> <<>>]
    /\ wire' = [h \in Host |-> <<>>]
    /\ answer' = [h \in Host |-> None]
    /\ memory' = [h \in Host |-> {}]
    /\ UNCHANGED <<epoch, rec, queue, nextId, addr, disk, shared, bounds>>

Restart ==
    /\ svc = "down"
    /\ svc' = "recovering"
    /\ epoch' = epoch + 1
    /\ UNCHANGED <<queue, nextId, child, delivery, parent, bounds>>

\* A record that was live cannot be reconnected and is interrupted.
Interrupted(r) ==
    IF r.status \in WasLive THEN [r EXCEPT !.status = "ended", !.hash = epoch] ELSE r

RecoverRecord(c) ==
    /\ svc = "recovering" /\ rec[c] # Absent /\ recovered[c] = None
    /\ LET r == Interrupted(rec[c]) IN
        \/ /\ r.queued \/ r.hash = None
           /\ recovered' = [recovered EXCEPT ![c] = r]
           /\ UNCHANGED <<queue, nextId, wanted>>
        \/ /\ ~r.queued /\ r.hash # None
           /\ EnqueueCompletion(c, r.hash)
           /\ recovered' = [recovered EXCEPT ![c] =
                [r EXCEPT !.queued = ~EnqueueThrows(queue, c, addr[c], r.hash)]]
    /\ UNCHANGED <<svc, epoch, rec, addr, live, bound, spawning, stopping, block, round, wire, answer, parent, bounds>>

\* saveInstances(recovered), and the service accepts requests.
FinishRecovery ==
    /\ svc = "recovering"
    /\ \A c \in Child : rec[c] # Absent => recovered[c] # None
    /\ rec' = [c \in Child |-> IF recovered[c] # None THEN recovered[c] ELSE Absent]
    /\ recovered' = [c \in Child |-> None]
    /\ svc' = "ready"
    /\ UNCHANGED <<epoch, queue, nextId, addr, live, bound, spawning, stopping, block, delivery, parent, bounds>>

-----------------------------------------------------------------------------
(* Time: a claim's lease and two retention periods run out.                 *)

ClaimLapses(c) ==
    /\ queue[c] # None /\ queue[c].state = "claimed" /\ ~queue[c].lapsed
    /\ queue' = [queue EXCEPT ![c].lapsed = TRUE]
    /\ UNCHANGED <<svc, epoch, nextId, child, delivery, parent, bounds>>

AcknowledgedExpires(c) ==
    /\ Ready /\ c \in Acknowledged(queue)
    /\ queue' = CleanupAcknowledged(queue, {c})
    /\ UNCHANGED <<svc, epoch, nextId, child, delivery, parent, bounds>>

\* loadInstances forgets terminal records after terminalRetentionMs.
RecordExpires(c) ==
    /\ svc # "recovering" /\ Quiet /\ rec[c].status \in Terminal
    /\ c \notin live /\ spawning[c] = "no" /\ c \notin stopping
    /\ rec' = [rec EXCEPT ![c] = Absent]
    /\ UNCHANGED <<svc, epoch, queue, nextId, addr, live, bound, spawning, stopping, block, recovered, delivery, parent, bounds>>

-----------------------------------------------------------------------------
ChildNext(c) ==
    \/ \E h \in Host : \E a \in Addresses(h) : Spawn(c, h, a)
    \/ SpawnOnline(c) \/ SpawnThrows(c) \/ FailSpawn(c)
    \/ RpcExit(c) \/ Stop(c) \/ StopDone(c)
    \/ ClaimLapses(c) \/ AcknowledgedExpires(c) \/ RecordExpires(c)
    \/ RecoverRecord(c)

HostNext(h) ==
    \/ \E s \in Session : StartHost(h, s) \/ SwitchSession(h, s)
    \/ HostExit(h) \/ StartTurn(h) \/ Settle(h) \/ RunOver(h)
    \/ StartRound(h) \/ AnswerArrives(h) \/ HandoffFails(h) \/ ParentHandles(h)

Next ==
    \/ \E c \in Child : ChildNext(c)
    \/ \E h \in Host : HostNext(h)
    \/ WriteResult \/ EnqueueResult \/ MarkQueued
    \/ Crash \/ Restart \/ FinishRecovery

Spec == Init /\ [][Next]_vars

\* The event loop runs every block it has started, a running turn ends, a
\* parent process reads its commands, and the native supervisor restarts the
\* service.  Nobody is obliged to start turns, hosts or children.
Fairness ==
    /\ \A c \in Child :
        /\ WF_vars(SpawnOnline(c) \/ SpawnThrows(c)) /\ WF_vars(FailSpawn(c))
        /\ WF_vars(StopDone(c)) /\ WF_vars(RecoverRecord(c))
    /\ WF_vars(WriteResult) /\ WF_vars(EnqueueResult) /\ WF_vars(MarkQueued)
    /\ WF_vars(Restart) /\ WF_vars(FinishRecovery)
    /\ \A h \in Host :
        /\ WF_vars(StartRound(h)) /\ WF_vars(AnswerArrives(h))
        /\ WF_vars(HandoffFails(h) /\ ~host[h].up) /\ WF_vars(ParentHandles(h))
        /\ WF_vars(Settle(h)) /\ WF_vars(RunOver(h))

FairSpec == Spec /\ Fairness

\* No action distinguishes one child, parent or session from another.
Symmetry == Permutations(Child) \cup Permutations(Host) \cup Permutations(Session)

-----------------------------------------------------------------------------
(* Properties.                                                             *)

\* Every variable holds a value of its kind.
TypeOK ==
    /\ svc \in {"down", "recovering", "ready"} /\ epoch \in Nat /\ nextId \in Nat
    /\ rec \in [Child -> InstanceRecord]
    /\ queue \in [Child -> CompletionRecord \cup {None}]
    /\ addr \in [Child -> Address \cup {None}]
    /\ live \subseteq Child /\ bound \subseteq Child /\ stopping \subseteq Child
    /\ spawning \in [Child -> {"no", "spawning", "failing"}]
    /\ block \in {None} \cup Block
    /\ host \in [Host -> ParentState]
    /\ wanted \in [Host -> Nat]
    /\ answer \in [Host -> {None, "delivered", "refused"}]

\* A child whose record says its completion is queued still has that
\* completion in the queue, or its parent has it on disk: neither eviction at
\* capacity, nor retention, nor a crash loses it (enqueue, MakeRoom).
QueuedNeverLost ==
    TypeOK /\ \A c \in Child : rec[c].queued => queue[c] # None \/ Told(c)

\* An acknowledged completion is in a session file, whatever order the
\* answer, the timeout and the parent's death came in
\* (deliverCompletionClaims, deliverMaestroCompletionHandoff).
AcknowledgedIsDurable ==
    \A c \in Acknowledged(queue) :
        \E s \in Session : \E m \in ToSet(disk[s]) : m.id = queue[c].id

\* A redelivered completion is never appended twice to one session, although
\* a timed-out command may still run after its redelivery was sent, and the
\* process may have read the session again in between; unless two processes
\* had the session open at once, since each looks only at its own branch.
AppendedOnce ==
    \A s \in Session \ shared : \A i, j \in 1..Len(disk[s]) :
        disk[s][i].id = disk[s][j].id => i = j

\* A claim that has not lapsed ends only in its owner's own round: no other
\* parent claims, releases or acknowledges the record meanwhile.
ClaimKept ==
    [][\A c \in Child : \A h \in Host :
        (/\ queue[c] # None /\ queue[c].state = "claimed"
         /\ queue[c].owner = h /\ ~queue[c].lapsed)
        => \/ queue'[c] = [queue[c] EXCEPT !.lapsed = queue'[c].lapsed]
           \/ round'[h] # round[h]]_vars

\* A result that was persisted reaches the queue (or the parent) however
\* often the service dies on the way, unless the queue is full of
\* unacknowledged completions, the record's retention has run out, or a
\* session file could not be written (AcknowledgedIsDurable).
OutboxDrains ==
    \A c \in Child :
        rec[c].hash # None ~> \/ queue[c] # None \/ Told(c) \/ rec[c] = Absent
                              \/ AtCapacity(queue) \/ faults > 0

\* A claim is always settled: acknowledged, released, or left lapsed by a
\* parent that is gone.  No answer, timeout or exit leaves it held for ever.
ClaimsSettle ==
    \A c \in Child : \A h \in Host :
        (queue[c] # None /\ queue[c].state = "claimed" /\ queue[c].owner = h /\ host[h].up)
        ~> (queue[c] = None \/ queue[c].state # "claimed" \/ ~host[h].up)

\* Persisted results leave the outbox and claims do not stay.
HandoffSettles == OutboxDrains /\ ClaimsSettle

=============================================================================
