----------------------- MODULE SessionLifecycleProofs -----------------------
(* The two state machines of a supervised session agree and its workspace   *)
(* has one writer, for any number of sessions, stops and worktrees.         *)
EXTENDS SessionLifecycle, TLAPS

Launching == {"syncing", "registering", "failing", "thrown", "stopping", "cancelling", "awaiting"}
WithResource == {"stopping", "cancelling", "awaiting"}
AskedToEnd == {"CANCEL_REQUESTED"} \cup Terminal

\* Before runLaunch has spawned anything there is no instance.
NotSpawned(i) ==
    launch[i] \in {"none", "queued"} =>
        /\ ~inst[i].rpc /\ ~inst[i].live /\ ~inst[i].owner /\ inst[i].completion = None
        /\ \A c \in Caller : managed[i][c] \notin {"disposing", "cleaning"}

\* A process that is supervised belongs to an active instance that nobody is
\* cleaning up.
Supervised(i) ==
    /\ inst[i].rpc =>
        /\ inst[i].status \in {"starting", "online", "waiting-input"}
        /\ launch[i] # "failing"
        /\ \A c \in Caller : managed[i][c] \notin {"disposing", "cleaning"}
    /\ inst[i].departing => ~inst[i].rpc /\ inst[i].completion # None

\* The adapter has an operation while a launch is under way, with a resource
\* once the launch has one.
OperationHeld(i) ==
    /\ op[i] # None <=> launch[i] \in Launching
    /\ op[i] # None => (op[i].resource <=> launch[i] \in WithResource)
    /\ cancel[i] = "aborting" => launch[i] \in WithResource \cup {"over"}

\* Whoever has asked for the end of a session has told its record.
EndTold(i) ==
    (\/ \E c \in Caller : managed[i][c] # "idle"
     \/ op[i] # None /\ (op[i].stop \/ op[i].cancel)
     \/ launch[i] \in {"stopping", "cancelling"}
     \/ inst[i].completion = "CANCELLED")
    => State(i) \in AskedToEnd

\* The record follows the launch.
RecordFollows(i) ==
    /\ launch[i] = "none" => State(i) = "none"
    /\ launch[i] = "queued" => State(i) \in {"PENDING"} \cup AskedToEnd
    /\ launch[i] \in Launching => State(i) \notin {"none", "PENDING"}
    /\ launch[i] \in {"syncing", "registering"} =>
        /\ ~op[i].stop => State(i) \notin Terminal /\ \A c \in Caller : managed[i][c] = "idle"
        /\ ~op[i].stop /\ ~op[i].cancel => State(i) = "STARTING"

\* An instance that is gone has a completion, and a session that has none has
\* no result either.
Completed(i) ==
    /\ launch[i] \in WithResource /\ ~inst[i].live => inst[i].completion # None
    /\ launch[i] \in {"cancelling", "awaiting"} /\ inst[i].completion = None =>
        State(i) \notin Terminal /\ \A c \in Caller : managed[i][c] \notin {"returned", "done"}

\* What the instance shows and what the record says, with or without an owner.
Agree(i) ==
    launch[i] = "awaiting" /\ inst[i].completion = None /\ State(i) # "CANCEL_REQUESTED" =>
        /\ State(i) = IF inst[i].ui THEN "WAITING_INPUT" ELSE "RUNNING"
        /\ inst[i].status \in {"online", "waiting-input"}
        /\ ~inst[i].ui => inst[i].status = "online"
        /\ inst[i].ui /\ ~inst[i].owner => inst[i].status = "waiting-input"

Sound(i) ==
    NotSpawned(i) /\ Supervised(i) /\ OperationHeld(i) /\ EndTold(i) /\ RecordFollows(i) /\ Completed(i) /\ Agree(i)

LifecycleInv == TypeOK /\ OneWriter /\ \A i \in Session : Sound(i)

-----------------------------------------------------------------------------
(* Types, and what a step at one session leaves alone.                     *)

Statuses == {"none", "starting", "online", "waiting-input", "stopping", "error", "failed", "cancelled"}

Instance ==
    [status : Statuses, live : BOOLEAN, rpc : BOOLEAN, writes : Worktree \cup {None}, ui : BOOLEAN,
     owner : BOOLEAN, departing : BOOLEAN, identified : BOOLEAN, completion : {None} \cup Completion]

LaunchStep == {"none", "queued", "over"} \cup Launching

StopStep == {"idle", "disposing", "cleaning", "returned", "done"}

Record == [state : LifecycleState \cup {"none"}, answered : BOOLEAN]

Child == {"none", "running", "gone", "stuck"}

CancelStep == {"idle", "aborting", "done"}

\* TypeOK in these words.
Typed ==
    /\ record \in [Session -> Record]
    /\ op \in [Session -> {None} \cup Operation]
    /\ launch \in [Session -> LaunchStep]
    /\ inst \in [Session -> Instance]
    /\ child \in [Session -> Child]
    /\ managed \in [Session -> [Caller -> StopStep]]
    /\ cancel \in [Session -> CancelStep]
    /\ \A i \in Session : inst[i].rpc => inst[i].live

\* What every action but RunLaunch does to the supervised processes: it
\* starts none and gives none another worktree.
NoNewWriter(i) == inst'[i].rpc => inst[i].rpc /\ inst'[i].writes = inst[i].writes

SameAt(j) ==
    /\ record'[j] = record[j] /\ op'[j] = op[j] /\ launch'[j] = launch[j] /\ inst'[j] = inst[j]
    /\ managed'[j] = managed[j] /\ cancel'[j] = cancel[j]

Others(i) == \A j \in Session \ {i} : SameAt(j)

\* What a step at i must be shown to do.
Preserves(i) == Typed' /\ Others(i) /\ OneWriter' /\ Sound(i)'

\* Typed is TypeOK.
LEMMA TypedIsTypeOK == Typed <=> TypeOK
BY DEF Typed, TypeOK, Record, LaunchStep, Launching, Statuses, Instance, StopStep, Child,
   CancelStep

\* The same in the next state.
LEMMA TypedIsTypeOKNext == Typed' <=> TypeOK'
BY DEF Typed, TypeOK, Record, LaunchStep, Launching, Statuses, Instance, StopStep, Child,
   CancelStep

\* A session nothing happens to stays sound.
LEMMA SoundKept ==
    ASSUME NEW j \in Session, Sound(j), SameAt(j)
    PROVE  Sound(j)'
<1>1. NotSpawned(j)'
  BY DEF Sound, SameAt, NotSpawned
<1>2. Supervised(j)'
  BY DEF Sound, SameAt, Supervised
<1>3. OperationHeld(j)'
  BY DEF Sound, SameAt, OperationHeld
<1>4. EndTold(j)'
  BY DEF Sound, SameAt, EndTold, State
<1>5. RecordFollows(j)'
  BY DEF Sound, SameAt, RecordFollows, State
<1>6. Completed(j)'
  BY DEF Sound, SameAt, Completed, State
<1>7. Agree(j)'
  BY DEF Sound, SameAt, Agree, State
<1> QED
  BY <1>1, <1>2, <1>3, <1>4, <1>5, <1>6, <1>7 DEF Sound

\* A step at one session that preserves what is said of it preserves the
\* whole invariant.
LEMMA OneSession ==
    ASSUME LifecycleInv, NEW i \in Session, Preserves(i)
    PROVE  LifecycleInv'
<1>1. TypeOK'
  BY TypedIsTypeOKNext DEF Preserves
<1>2. ASSUME NEW j \in Session PROVE Sound(j)'
  <2>1. CASE j = i
    BY <2>1 DEF Preserves
  <2>2. CASE j # i
    BY <2>2, SoundKept DEF Preserves, Others, LifecycleInv
  <2> QED
    BY <2>1, <2>2
<1> QED
  BY <1>1, <1>2 DEF LifecycleInv, Preserves

\* A step that starts no process leaves the writers apart.
LEMMA WritersKept ==
    ASSUME LifecycleInv, NEW i \in Session, Others(i), NoNewWriter(i)
    PROVE  OneWriter'
<1>1. ASSUME NEW j \in Session PROVE inst'[j].rpc => inst[j].rpc /\ inst'[j].writes = inst[j].writes
  <2>1. CASE j = i
    BY <2>1 DEF NoNewWriter
  <2>2. CASE j # i
    BY <2>2 DEF Others, SameAt
  <2> QED
    BY <2>1, <2>2
<1> QED
  BY <1>1 DEF LifecycleInv, OneWriter

-----------------------------------------------------------------------------
(* The operators the actions are built from.                               *)

\* Where a transition leaves the record.
LEMMA TransitionSets ==
    ASSUME record \in [Session -> Record], NEW i \in Session, NEW s \in LifecycleState, Transition(i, s)
    PROVE  /\ record' \in [Session -> Record] /\ record'[i].state = s
           /\ \A j \in Session \ {i} : record'[j] = record[j]
<1> DEFINE r == [state |-> s, answered |-> record[i].answered
                    \/ s \in {"RUNNING", "WAITING_INPUT", "FAILED", "INTERRUPTED", "CANCELLED"}]
<1>1. record' = [record EXCEPT ![i] = r]
  BY DEF Transition
<1>2. r \in Record /\ r.state = s
  BY DEF Record
<1> HIDE DEF r
<1> QED
  BY <1>1, <1>2

\* A transition to the state the record is in is left out.
LEMMA TransitionToSets ==
    ASSUME record \in [Session -> Record], NEW i \in Session, NEW s \in LifecycleState, TransitionTo(i, s)
    PROVE  /\ record' \in [Session -> Record] /\ record'[i].state = s
           /\ \A j \in Session \ {i} : record'[j] = record[j]
<1>1. CASE State(i) = s
  BY <1>1 DEF TransitionTo, State
<1>2. CASE State(i) # s
  BY <1>2, TransitionSets DEF TransitionTo
<1> QED
  BY <1>1, <1>2

\* A record with a result keeps it.
LEMMA UnlessOverSets ==
    ASSUME record \in [Session -> Record], NEW i \in Session, NEW s \in LifecycleState, UnlessOver(i, s)
    PROVE  /\ record' \in [Session -> Record]
           /\ record'[i].state = IF record[i].state \in Terminal THEN record[i].state ELSE s
           /\ \A j \in Session \ {i} : record'[j] = record[j]
<1>1. CASE State(i) \in Terminal
  BY <1>1 DEF UnlessOver, State
<1>2. CASE State(i) \notin Terminal
  BY <1>2, TransitionSets DEF UnlessOver, State
<1> QED
  BY <1>1, <1>2

\* setWaitingInput moves a running session only.
LEMMA SetWaitingInputSets ==
    ASSUME record \in [Session -> Record], NEW i \in Session, NEW w \in BOOLEAN, SetWaitingInput(i, w)
    PROVE  /\ record' \in [Session -> Record]
           /\ record'[i].state = IF record[i].state \in Terminal \cup {"CANCEL_REQUESTED", "PENDING", "STARTING"}
                                 THEN record[i].state
                                 ELSE IF w THEN "WAITING_INPUT" ELSE "RUNNING"
           /\ \A j \in Session \ {i} : record'[j] = record[j]
<1> DEFINE s == IF w THEN "WAITING_INPUT" ELSE "RUNNING"
<1>1. CASE State(i) \in Terminal \cup {"CANCEL_REQUESTED", "PENDING", "STARTING"}
  BY <1>1 DEF SetWaitingInput, State
<1>2. CASE State(i) \notin Terminal \cup {"CANCEL_REQUESTED", "PENDING", "STARTING"}
  <2>1. s \in LifecycleState
    BY DEF LifecycleState
  <2>2. TransitionTo(i, s)
    BY <1>2 DEF SetWaitingInput
  <2>3. record' \in [Session -> Record] /\ record'[i].state = s /\ \A j \in Session \ {i} : record'[j] = record[j]
    <3> HIDE DEF s
    <3> QED
      BY <2>1, <2>2, TransitionToSets
  <2> QED
    BY <1>2, <2>3 DEF State
<1> QED
  BY <1>1, <1>2

\* What cleanupAcquiredResources changes of an instance.
LEMMA UnboundFields ==
    ASSUME NEW n \in Instance, NEW s \in Statuses
    PROVE  LET u == Unbound(n, s)
           IN  /\ u \in Instance /\ u.status = s /\ u.rpc = FALSE /\ u.ui = FALSE
               /\ u.live = n.live /\ u.writes = n.writes /\ u.owner = n.owner /\ u.departing = n.departing
               /\ u.identified = n.identified /\ u.completion = n.completion
BY DEF Unbound, Instance

\* What completeManagedInstance changes of an instance.
LEMMA EndedFields ==
    ASSUME NEW n \in Instance, NEW s \in Statuses, NEW c \in Completion
    PROVE  LET e == Ended(n, s, c)
           IN  /\ e \in Instance /\ e.status = s /\ e.live = FALSE /\ e.owner = FALSE /\ e.departing = FALSE
               /\ e.rpc = n.rpc /\ e.writes = None /\ e.ui = n.ui /\ e.identified = n.identified
               /\ e.completion = IF n.completion = None THEN c ELSE n.completion
BY DEF Ended, Instance

\* What stopManagedInstance does before its first await.
StopBegun(i, c) ==
    /\ inst' \in [Session -> Instance]
    /\ inst'[i].rpc = FALSE /\ inst'[i].live = inst[i].live /\ inst'[i].writes = inst[i].writes
    /\ inst'[i].owner = inst[i].owner /\ inst'[i].departing = inst[i].departing
    /\ inst'[i].completion = inst[i].completion
    /\ \A j \in Session \ {i} : inst'[j] = inst[j] /\ managed'[j] = managed[j]
    /\ managed' \in [Session -> [Caller -> StopStep]]
    /\ managed'[i][c] = IF ~inst[i].live THEN "returned" ELSE IF inst[i].rpc THEN "disposing" ELSE "cleaning"
    /\ \A d \in Caller \ {c} : managed'[i][d] = managed[i][d]

\* BeginStop does that.
LEMMA BeginStopSets ==
    ASSUME Typed, NEW i \in Session, NEW c \in Caller, BeginStop(i, c)
    PROVE  StopBegun(i, c)
<1> DEFINE n == IF inst[i].live THEN Unbound(inst[i], "stopping") ELSE inst[i]
           k == IF ~inst[i].live THEN "returned" ELSE IF inst[i].rpc THEN "disposing" ELSE "cleaning"
           m == [managed[i] EXCEPT ![c] = k]
<1>1. inst[i] \in Instance /\ managed[i] \in [Caller -> StopStep] /\ (inst[i].rpc => inst[i].live)
  BY DEF Typed
<1>2. inst' = [inst EXCEPT ![i] = n] /\ managed' = [managed EXCEPT ![i] = m]
  BY DEF BeginStop
<1>3. /\ n \in Instance /\ n.rpc = FALSE /\ n.live = inst[i].live /\ n.writes = inst[i].writes
      /\ n.owner = inst[i].owner /\ n.departing = inst[i].departing /\ n.completion = inst[i].completion
  <2>1. CASE inst[i].live
    BY <1>1, <2>1, UnboundFields DEF Statuses
  <2>2. CASE ~inst[i].live
    <3>1. inst[i].rpc = FALSE
      BY <1>1, <2>2 DEF Instance
    <3> QED
      BY <1>1, <2>2, <3>1
  <2> QED
    BY <2>1, <2>2
<1>4. k \in StopStep
  BY DEF StopStep
<1>5. m \in [Caller -> StopStep] /\ m[c] = k /\ \A d \in Caller \ {c} : m[d] = managed[i][d]
  <2> HIDE DEF k
  <2> QED
    BY <1>1, <1>4
<1>6. inst' \in [Session -> Instance] /\ inst'[i] = n /\ \A j \in Session \ {i} : inst'[j] = inst[j]
  <2> HIDE DEF n
  <2> QED
    BY <1>2, <1>3 DEF Typed
<1>7. /\ managed' \in [Session -> [Caller -> StopStep]] /\ managed'[i] = m
      /\ \A j \in Session \ {i} : managed'[j] = managed[j]
  <2> HIDE DEF m
  <2> QED
    BY <1>2, <1>5 DEF Typed
<1> HIDE DEF n, m
<1> QED
  BY <1>3, <1>5, <1>6, <1>7 DEF StopBegun

\* dispose settles the child.
LEMMA DisposedSets ==
    ASSUME Typed, NEW i \in Session, Disposed(i)
    PROVE  child' \in [Session -> Child]
BY DEF Disposed, Typed, Child
-----------------------------------------------------------------------------
(* The actions, one at a time.                                             *)

\* launch registers a record.
LEMMA SpawnPreserves ==
    ASSUME LifecycleInv, NEW i \in Session, Spawn(i)
    PROVE  Preserves(i)
<1>1. /\ Typed /\ Sound(i) /\ record[i] \in Record /\ op[i] \in {None} \cup Operation
      /\ inst[i] \in Instance
  BY TypedIsTypeOK DEF LifecycleInv, Typed
<1>2. /\ record' \in [Session -> Record] /\ record'[i].state = ("PENDING")
      /\ \A j \in Session \ {i} : record'[j] = record[j]
  BY <1>1, TransitionSets DEF Spawn, LifecycleState, Typed
<1>3. /\ launch' \in [Session -> LaunchStep] /\ launch'[i] = "queued" /\ launch[i] = "none"
      /\ \A j \in Session \ {i} : launch'[j] = launch[j]
  BY <1>1 DEF Spawn, Typed, LaunchStep, Launching
<1>4. op' = op /\ inst' = inst /\ child' = child /\ managed' = managed /\ cancel' = cancel
  BY DEF Spawn
<1>5. Typed'
  BY <1>1, <1>2, <1>3, <1>4 DEF Typed
<1>6. Others(i) /\ NoNewWriter(i)
  BY <1>2, <1>3, <1>4 DEF Others, SameAt, NoNewWriter
<1>7. NotSpawned(i)'
  BY <1>1, <1>2, <1>3, <1>4 DEF Sound, NotSpawned
<1>8. Supervised(i)'
  BY <1>1, <1>2, <1>3, <1>4 DEF Sound, Supervised
<1>9. OperationHeld(i)'
  BY <1>1, <1>3, <1>4 DEF Sound, OperationHeld, Launching, WithResource
<1>10. EndTold(i)'
  BY <1>1, <1>3, <1>4 DEF Sound, EndTold, RecordFollows, AskedToEnd, Terminal
<1>11. RecordFollows(i)'
  BY <1>2, <1>3 DEF RecordFollows, State, Launching
<1>12. Completed(i)'
  BY <1>3 DEF Completed, WithResource
<1>13. Agree(i)'
  BY <1>1, <1>2, <1>3, <1>4 DEF Sound, Agree, State
<1> QED
  BY <1>5, <1>6, <1>7, <1>8, <1>9, <1>10, <1>11, <1>12, <1>13, WritersKept DEF Preserves,
     Sound

\* runLaunch ends a record that was cancelled first.
LEMMA RunLaunchCancelledPreserves ==
    ASSUME LifecycleInv, NEW i \in Session, RunLaunchCancelled(i)
    PROVE  Preserves(i)
<1>1. /\ Typed /\ Sound(i) /\ record[i] \in Record /\ op[i] \in {None} \cup Operation
      /\ inst[i] \in Instance
  BY TypedIsTypeOK DEF LifecycleInv, Typed
<1>2. /\ record' \in [Session -> Record]
      /\ record'[i].state = (IF record[i].state \in Terminal THEN record[i].state ELSE "CANCELLED")
      /\ \A j \in Session \ {i} : record'[j] = record[j]
  BY <1>1, UnlessOverSets DEF RunLaunchCancelled, LifecycleState, Terminal, Typed
<1>3. /\ launch' \in [Session -> LaunchStep] /\ launch'[i] = "over" /\ launch[i] = "queued"
      /\ record[i].state # "PENDING" /\ \A j \in Session \ {i} : launch'[j] = launch[j]
  BY <1>1 DEF RunLaunchCancelled, Typed, LaunchStep, Launching, State
<1>4. op' = op /\ inst' = inst /\ child' = child /\ managed' = managed /\ cancel' = cancel
  BY DEF RunLaunchCancelled
<1>5. Typed'
  BY <1>1, <1>2, <1>3, <1>4 DEF Typed
<1>6. Others(i) /\ NoNewWriter(i)
  BY <1>2, <1>3, <1>4 DEF Others, SameAt, NoNewWriter
<1>7. NotSpawned(i)'
  BY <1>1, <1>2, <1>3, <1>4 DEF Sound, NotSpawned
<1>8. Supervised(i)'
  BY <1>1, <1>2, <1>3, <1>4 DEF Sound, Supervised
<1>9. OperationHeld(i)'
  BY <1>1, <1>3, <1>4 DEF Sound, OperationHeld, Launching
<1>10. EndTold(i)'
  BY <1>2 DEF EndTold, State, AskedToEnd, Terminal
<1>11. RecordFollows(i)'
  BY <1>2, <1>3 DEF RecordFollows, State, Terminal
<1>12. Completed(i)'
  BY <1>3 DEF Completed, WithResource
<1>13. Agree(i)'
  BY <1>1, <1>2, <1>3, <1>4 DEF Sound, Agree, State
<1> QED
  BY <1>5, <1>6, <1>7, <1>8, <1>9, <1>10, <1>11, <1>12, <1>13, WritersKept DEF Preserves,
     Sound

\* A refused launch.
LEMMA RunLaunchRefusedPreserves ==
    ASSUME LifecycleInv, NEW i \in Session, RunLaunchRefused(i)
    PROVE  Preserves(i)
<1>1. /\ Typed /\ Sound(i) /\ record[i] \in Record /\ op[i] \in {None} \cup Operation
      /\ inst[i] \in Instance
  BY TypedIsTypeOK DEF LifecycleInv, Typed
<1>2. /\ record' \in [Session -> Record] /\ record'[i].state = ("STARTING")
      /\ \A j \in Session \ {i} : record'[j] = record[j]
  BY <1>1, TransitionSets DEF RunLaunchRefused, StartLaunch, LifecycleState, Typed
<1>3. /\ op' \in [Session -> {None} \cup Operation]
      /\ op'[i] = [resource |-> FALSE, cancel |-> FALSE, stop |-> FALSE] /\ op'[i] # None
      /\ \A j \in Session \ {i} : op'[j] = op[j]
  <2> DEFINE o == [resource |-> FALSE, cancel |-> FALSE, stop |-> FALSE]
  <2>1. op' = [op EXCEPT ![i] = o]
    BY DEF RunLaunchRefused, StartLaunch
  <2>2. o \in Operation
    BY DEF Operation
  <2>3. o # None
    <3> HIDE DEF o
    <3> QED
      BY <2>2, SessionLifecycleAssumption
  <2> QED
    BY <1>1, <2>1, <2>2, <2>3 DEF Typed
<1>4. /\ launch' \in [Session -> LaunchStep] /\ launch'[i] = "thrown" /\ launch[i] = "queued"
      /\ record[i].state = "PENDING" /\ \A j \in Session \ {i} : launch'[j] = launch[j]
  BY <1>1 DEF RunLaunchRefused, StartLaunch, Typed, LaunchStep, Launching, State
<1>5. inst' = inst /\ child' = child /\ managed' = managed /\ cancel' = cancel
  BY DEF RunLaunchRefused, StartLaunch
<1>6. Typed'
  BY <1>1, <1>2, <1>3, <1>4, <1>5 DEF Typed
<1>7. Others(i) /\ NoNewWriter(i)
  BY <1>2, <1>3, <1>4, <1>5 DEF Others, SameAt, NoNewWriter
<1>8. NotSpawned(i)'
  BY <1>1, <1>2, <1>3, <1>4, <1>5 DEF Sound, NotSpawned
<1>9. Supervised(i)'
  BY <1>1, <1>2, <1>3, <1>4, <1>5 DEF Sound, Supervised
<1>10. OperationHeld(i)'
  BY <1>1, <1>3, <1>4, <1>5 DEF Sound, OperationHeld, Launching, WithResource
<1>11. EndTold(i)'
  BY <1>1, <1>3, <1>4, <1>5 DEF Sound, EndTold, State, AskedToEnd, Terminal
<1>12. RecordFollows(i)'
  BY <1>2, <1>4 DEF RecordFollows, State
<1>13. Completed(i)'
  BY <1>4 DEF Completed, WithResource
<1>14. Agree(i)'
  BY <1>4 DEF Agree
<1> QED
  BY <1>6, <1>7, <1>8, <1>9, <1>10, <1>11, <1>12, <1>13, <1>14, WritersKept DEF Preserves,
     Sound

\* The child has answered get_state.
LEMMA SyncedPreserves ==
    ASSUME LifecycleInv, NEW i \in Session, Synced(i)
    PROVE  Preserves(i)
<1>1. /\ Typed /\ Sound(i) /\ record[i] \in Record /\ op[i] \in {None} \cup Operation
      /\ inst[i] \in Instance
  BY TypedIsTypeOK DEF LifecycleInv, Typed
<1>2. /\ launch' \in [Session -> LaunchStep] /\ launch'[i] = "registering" /\ launch[i] = "syncing"
      /\ \A j \in Session \ {i} : launch'[j] = launch[j]
  BY <1>1 DEF Synced, Typed, LaunchStep, Launching
<1>3. /\ record' = record /\ op' = op /\ inst' = inst /\ child' = child /\ managed' = managed
      /\ cancel' = cancel
  BY DEF Synced
<1>4. Typed'
  BY <1>1, <1>2, <1>3 DEF Typed
<1>5. Others(i) /\ NoNewWriter(i)
  BY <1>1, <1>2, <1>3 DEF Typed, Others, SameAt, NoNewWriter
<1>6. NotSpawned(i)'
  BY <1>1, <1>2, <1>3 DEF Sound, NotSpawned
<1>7. Supervised(i)'
  BY <1>1, <1>2, <1>3 DEF Sound, Supervised
<1>8. OperationHeld(i)'
  BY <1>1, <1>2, <1>3 DEF Sound, OperationHeld, Launching, WithResource
<1>9. EndTold(i)'
  BY <1>1, <1>2, <1>3 DEF Sound, EndTold, State
<1>10. RecordFollows(i)'
  BY <1>1, <1>2, <1>3 DEF Sound, RecordFollows, State, Launching
<1>11. Completed(i)'
  BY <1>2 DEF Completed, WithResource
<1>12. Agree(i)'
  BY <1>1, <1>2, <1>3 DEF Sound, Agree, State
<1> QED
  BY <1>4, <1>5, <1>6, <1>7, <1>8, <1>9, <1>10, <1>11, <1>12, WritersKept DEF Preserves,
     Sound

\* failSpawn starts its cleanup.
LEMMA SpawnThrowsPreserves ==
    ASSUME LifecycleInv, NEW i \in Session, SpawnThrows(i)
    PROVE  Preserves(i)
<1>1. /\ Typed /\ Sound(i) /\ record[i] \in Record /\ op[i] \in {None} \cup Operation
      /\ inst[i] \in Instance
  BY TypedIsTypeOK DEF LifecycleInv, Typed
<1>2. /\ launch' \in [Session -> LaunchStep] /\ launch'[i] = "failing"
      /\ launch[i] \in {"syncing", "registering"} /\ \A j \in Session \ {i} : launch'[j] = launch[j]
  BY <1>1 DEF SpawnThrows, Typed, LaunchStep, Launching
<1>3. /\ inst' \in [Session -> Instance] /\ inst'[i].status = "error"
      /\ inst'[i].live = inst[i].live /\ inst'[i].rpc = FALSE /\ inst'[i].writes = inst[i].writes
      /\ inst'[i].ui = FALSE /\ inst'[i].owner = inst[i].owner
      /\ inst'[i].departing = inst[i].departing /\ inst'[i].identified = inst[i].identified
      /\ inst'[i].completion = inst[i].completion /\ \A j \in Session \ {i} : inst'[j] = inst[j]
  <2> DEFINE n == Unbound(inst[i], "error")
  <2>1. inst' = [inst EXCEPT ![i] = n]
    BY <1>1 DEF SpawnThrows
  <2>2. /\ n \in Instance /\ n.status = "error" /\ n.live = inst[i].live /\ n.rpc = FALSE
        /\ n.writes = inst[i].writes /\ n.ui = FALSE /\ n.owner = inst[i].owner
        /\ n.departing = inst[i].departing /\ n.identified = inst[i].identified
        /\ n.completion = inst[i].completion
    BY <1>1, UnboundFields DEF Statuses
  <2> HIDE DEF n
  <2> QED
    BY <1>1, <2>1, <2>2 DEF Typed
<1>4. record' = record /\ op' = op /\ child' = child /\ managed' = managed /\ cancel' = cancel
  BY DEF SpawnThrows
<1>5. Typed'
  BY <1>1, <1>2, <1>3, <1>4 DEF Typed
<1>6. Others(i) /\ NoNewWriter(i)
  BY <1>2, <1>3, <1>4 DEF Others, SameAt, NoNewWriter
<1>7. NotSpawned(i)'
  BY <1>1, <1>2, <1>3, <1>4 DEF Sound, NotSpawned
<1>8. Supervised(i)'
  BY <1>1, <1>2, <1>3, <1>4 DEF Sound, Supervised
<1>9. OperationHeld(i)'
  BY <1>1, <1>2, <1>4 DEF Sound, OperationHeld, Launching, WithResource
<1>10. EndTold(i)'
  BY <1>1, <1>2, <1>3, <1>4 DEF Sound, EndTold, State
<1>11. RecordFollows(i)'
  BY <1>1, <1>2, <1>4 DEF Sound, RecordFollows, State, Launching
<1>12. Completed(i)'
  BY <1>2 DEF Completed, WithResource
<1>13. Agree(i)'
  BY <1>1, <1>2, <1>3, <1>4 DEF Sound, Agree, State
<1> QED
  BY <1>5, <1>6, <1>7, <1>8, <1>9, <1>10, <1>11, <1>12, <1>13, WritersKept DEF Preserves,
     Sound

\* A launch that threw.
LEMMA LaunchThrowsPreserves ==
    ASSUME LifecycleInv, NEW i \in Session, LaunchThrows(i)
    PROVE  Preserves(i)
<1>1. /\ Typed /\ Sound(i) /\ record[i] \in Record /\ op[i] \in {None} \cup Operation
      /\ inst[i] \in Instance
  BY TypedIsTypeOK DEF LifecycleInv, Typed
<1>2. /\ record' \in [Session -> Record]
      /\ record'[i].state = (IF record[i].state \in Terminal THEN record[i].state ELSE "FAILED")
      /\ \A j \in Session \ {i} : record'[j] = record[j]
  BY <1>1, UnlessOverSets DEF LaunchThrows, LifecycleState, Terminal, Typed
<1>3. /\ launch' \in [Session -> LaunchStep] /\ launch'[i] = "over" /\ launch[i] = "thrown"
      /\ \A j \in Session \ {i} : launch'[j] = launch[j]
  BY <1>1 DEF LaunchThrows, Typed, LaunchStep, Launching, State
<1>4. /\ op' \in [Session -> {None} \cup Operation] /\ op'[i] = None
      /\ \A j \in Session \ {i} : op'[j] = op[j]
  BY <1>1 DEF LaunchThrows, Typed
<1>5. inst' = inst /\ child' = child /\ managed' = managed /\ cancel' = cancel
  BY DEF LaunchThrows
<1>6. Typed'
  BY <1>1, <1>2, <1>3, <1>4, <1>5 DEF Typed
<1>7. Others(i) /\ NoNewWriter(i)
  BY <1>2, <1>3, <1>4, <1>5 DEF Others, SameAt, NoNewWriter
<1>8. NotSpawned(i)'
  BY <1>1, <1>2, <1>3, <1>4, <1>5 DEF Sound, NotSpawned
<1>9. Supervised(i)'
  BY <1>1, <1>2, <1>3, <1>4, <1>5 DEF Sound, Supervised
<1>10. OperationHeld(i)'
  BY <1>3, <1>4 DEF OperationHeld, Launching
<1>11. EndTold(i)'
  BY <1>2 DEF EndTold, State, AskedToEnd, Terminal
<1>12. RecordFollows(i)'
  BY <1>2, <1>3 DEF RecordFollows, State, Terminal
<1>13. Completed(i)'
  BY <1>3 DEF Completed, WithResource
<1>14. Agree(i)'
  BY <1>3 DEF Agree
<1> QED
  BY <1>6, <1>7, <1>8, <1>9, <1>10, <1>11, <1>12, <1>13, <1>14, WritersKept DEF Preserves,
     Sound

\* The adapter returns CANCELLED.
LEMMA LaunchStoppedPreserves ==
    ASSUME LifecycleInv, NEW i \in Session, LaunchStopped(i)
    PROVE  Preserves(i)
<1>1. /\ Typed /\ Sound(i) /\ record[i] \in Record /\ op[i] \in {None} \cup Operation
      /\ inst[i] \in Instance
  BY TypedIsTypeOK DEF LifecycleInv, Typed
<1>2. /\ record' \in [Session -> Record]
      /\ record'[i].state = (IF record[i].state \in Terminal THEN record[i].state ELSE "CANCELLED")
      /\ \A j \in Session \ {i} : record'[j] = record[j]
  BY <1>1, UnlessOverSets DEF LaunchStopped, LifecycleState, Terminal, Typed
<1>3. /\ launch' \in [Session -> LaunchStep] /\ launch'[i] = "over" /\ launch[i] = "stopping"
      /\ managed[i]["launch"] = "returned" /\ \A j \in Session \ {i} : launch'[j] = launch[j]
  BY <1>1 DEF LaunchStopped, Typed, LaunchStep, Launching, State
<1>4. /\ op' \in [Session -> {None} \cup Operation] /\ op'[i] = None
      /\ \A j \in Session \ {i} : op'[j] = op[j]
  BY <1>1 DEF LaunchStopped, Typed
<1>5. inst' = inst /\ child' = child /\ managed' = managed /\ cancel' = cancel
  BY DEF LaunchStopped
<1>6. Typed'
  BY <1>1, <1>2, <1>3, <1>4, <1>5 DEF Typed
<1>7. Others(i) /\ NoNewWriter(i)
  BY <1>2, <1>3, <1>4, <1>5 DEF Others, SameAt, NoNewWriter
<1>8. NotSpawned(i)'
  BY <1>1, <1>2, <1>3, <1>4, <1>5 DEF Sound, NotSpawned
<1>9. Supervised(i)'
  BY <1>1, <1>2, <1>3, <1>4, <1>5 DEF Sound, Supervised
<1>10. OperationHeld(i)'
  BY <1>3, <1>4 DEF OperationHeld, Launching
<1>11. EndTold(i)'
  BY <1>2 DEF EndTold, State, AskedToEnd, Terminal
<1>12. RecordFollows(i)'
  BY <1>2, <1>3 DEF RecordFollows, State, Terminal
<1>13. Completed(i)'
  BY <1>3 DEF Completed, WithResource
<1>14. Agree(i)'
  BY <1>3 DEF Agree
<1> QED
  BY <1>6, <1>7, <1>8, <1>9, <1>10, <1>11, <1>12, <1>13, <1>14, WritersKept DEF Preserves,
     Sound

\* runLaunch completes the record.
LEMMA SessionEndsPreserves ==
    ASSUME LifecycleInv, NEW i \in Session, SessionEnds(i)
    PROVE  Preserves(i)
<1>1. /\ Typed /\ Sound(i) /\ record[i] \in Record /\ op[i] \in {None} \cup Operation
      /\ inst[i] \in Instance
  BY TypedIsTypeOK DEF LifecycleInv, Typed
<1>2. inst[i].completion \in Completion /\ launch[i] = "awaiting"
  BY <1>1 DEF SessionEnds, Instance
<1>3. PICK s \in Completion : UnlessOver(i, s)
  BY <1>2, SessionLifecycleAssumption DEF SessionEnds, NormalizeCompletionState, Completion
<1>4. /\ record' \in [Session -> Record]
      /\ record'[i].state = (IF record[i].state \in Terminal THEN record[i].state ELSE s)
      /\ \A j \in Session \ {i} : record'[j] = record[j]
  BY <1>1, <1>3, UnlessOverSets DEF LifecycleState, Terminal, Completion, Typed
<1>5. /\ launch' \in [Session -> LaunchStep] /\ launch'[i] = "over"
      /\ \A j \in Session \ {i} : launch'[j] = launch[j]
  BY <1>1 DEF SessionEnds, Typed, LaunchStep, Launching, State
<1>6. /\ op' \in [Session -> {None} \cup Operation] /\ op'[i] = None
      /\ \A j \in Session \ {i} : op'[j] = op[j]
  BY <1>1 DEF SessionEnds, Typed
<1>7. inst' = inst /\ child' = child /\ managed' = managed /\ cancel' = cancel
  BY DEF SessionEnds
<1>8. Typed'
  BY <1>1, <1>4, <1>5, <1>6, <1>7 DEF Typed
<1>9. Others(i) /\ NoNewWriter(i)
  BY <1>4, <1>5, <1>6, <1>7 DEF Others, SameAt, NoNewWriter
<1>10. NotSpawned(i)'
  BY <1>5 DEF NotSpawned
<1>11. Supervised(i)'
  BY <1>1, <1>5, <1>7 DEF Sound, Supervised
<1>12. OperationHeld(i)'
  BY <1>5, <1>6 DEF OperationHeld, Launching
<1>13. EndTold(i)'
  BY <1>4 DEF EndTold, State, AskedToEnd, Terminal, Completion
<1>14. RecordFollows(i)'
  BY <1>5 DEF RecordFollows, Launching
<1>15. Completed(i)'
  BY <1>5 DEF Completed, WithResource
<1>16. Agree(i)'
  BY <1>5 DEF Agree
<1> QED
  BY <1>8, <1>9, <1>10, <1>11, <1>12, <1>13, <1>14, <1>15, <1>16, WritersKept DEF Preserves,
     Sound

\* lifecycle.stop resumes.
LEMMA StopReturnsPreserves ==
    ASSUME LifecycleInv, NEW i \in Session, NEW c \in Stopper, StopReturns(i, c)
    PROVE  Preserves(i)
<1>1. /\ Typed /\ Sound(i) /\ record[i] \in Record /\ op[i] \in {None} \cup Operation
      /\ inst[i] \in Instance
  BY TypedIsTypeOK DEF LifecycleInv, Typed
<1>2. managed[i][c] = "returned" /\ c \in Caller
  BY DEF StopReturns, Caller
<1>3. /\ record' \in [Session -> Record]
      /\ record'[i].state = (IF record[i].state \in Terminal THEN record[i].state ELSE "CANCELLED")
      /\ \A j \in Session \ {i} : record'[j] = record[j]
  BY <1>1, UnlessOverSets DEF StopReturns, LifecycleState, Terminal, Typed
<1>4. /\ managed' \in [Session -> [Caller -> StopStep]] /\ managed'[i][c] = "done"
      /\ (\A d \in Caller \ {c} : managed'[i][d] = managed[i][d])
      /\ \A j \in Session \ {i} : managed'[j] = managed[j]
  <2> DEFINE m == [managed[i] EXCEPT ![c] = "done"]
  <2>1. managed' = [managed EXCEPT ![i] = m] /\ managed[i] \in [Caller -> StopStep]
    BY <1>1 DEF StopReturns, Typed
  <2>2. m \in [Caller -> StopStep] /\ m[c] = "done" /\ \A d \in Caller \ {c} : m[d] = managed[i][d]
    BY <2>1 DEF StopStep, Caller
  <2> HIDE DEF m
  <2> QED
    BY <1>1, <2>1, <2>2 DEF Typed
<1>5. op' = op /\ launch' = launch /\ inst' = inst /\ child' = child /\ cancel' = cancel
  BY DEF StopReturns
<1>6. Typed'
  BY <1>1, <1>2, <1>3, <1>4, <1>5 DEF Typed
<1>7. Others(i) /\ NoNewWriter(i)
  BY <1>3, <1>4, <1>5 DEF Others, SameAt, NoNewWriter
<1>8. NotSpawned(i)'
  BY <1>1, <1>2, <1>3, <1>4, <1>5 DEF Sound, NotSpawned
<1>9. Supervised(i)'
  BY <1>1, <1>2, <1>3, <1>4, <1>5 DEF Sound, Supervised
<1>10. OperationHeld(i)'
  BY <1>1, <1>5 DEF Sound, OperationHeld
<1>11. EndTold(i)'
  BY <1>3 DEF EndTold, State, AskedToEnd, Terminal
<1>12. RecordFollows(i)'
  BY <1>1, <1>2, <1>3, <1>5 DEF Sound, EndTold, RecordFollows, State, AskedToEnd, Terminal
<1>13. Completed(i)'
  BY <1>1, <1>2, <1>5 DEF Sound, Completed
<1>14. Agree(i)'
  BY <1>1, <1>2, <1>5 DEF Sound, Completed, Agree
<1> QED
  BY <1>6, <1>7, <1>8, <1>9, <1>10, <1>11, <1>12, <1>13, <1>14, WritersKept DEF Preserves,
     Sound

\* failSpawn returns.
LEMMA FailSpawnPreserves ==
    ASSUME LifecycleInv, NEW i \in Session, FailSpawn(i)
    PROVE  Preserves(i)
<1>1. /\ Typed /\ Sound(i) /\ record[i] \in Record /\ op[i] \in {None} \cup Operation
      /\ inst[i] \in Instance
  BY TypedIsTypeOK DEF LifecycleInv, Typed
<1>2. /\ launch' \in [Session -> LaunchStep] /\ launch'[i] = "thrown" /\ launch[i] = "failing"
      /\ \A j \in Session \ {i} : launch'[j] = launch[j]
  BY <1>1 DEF FailSpawn, Typed, LaunchStep, Launching, State
<1>3. child' \in [Session -> Child]
  BY <1>1, DisposedSets DEF FailSpawn
<1>4. inst[i].rpc = FALSE
  BY <1>1, <1>2 DEF Sound, Supervised, Instance
<1>5. /\ inst' \in [Session -> Instance] /\ inst'[i].status = "failed" /\ inst'[i].live = FALSE
      /\ inst'[i].rpc = inst[i].rpc /\ inst'[i].writes = None /\ inst'[i].ui = inst[i].ui
      /\ inst'[i].owner = FALSE /\ inst'[i].departing = FALSE
      /\ inst'[i].identified = inst[i].identified
      /\ inst'[i].completion = (IF inst[i].completion = None THEN "FAILED" ELSE inst[i].completion)
      /\ \A j \in Session \ {i} : inst'[j] = inst[j]
  <2> DEFINE n == Ended(inst[i], "failed", "FAILED")
  <2>1. inst' = [inst EXCEPT ![i] = n]
    BY <1>1 DEF FailSpawn
  <2>2. /\ n \in Instance /\ n.status = "failed" /\ n.live = FALSE /\ n.rpc = inst[i].rpc
        /\ n.writes = None /\ n.ui = inst[i].ui /\ n.owner = FALSE /\ n.departing = FALSE
        /\ n.identified = inst[i].identified
        /\ n.completion = (IF inst[i].completion = None THEN "FAILED" ELSE inst[i].completion)
    BY <1>1, EndedFields DEF Statuses, Completion
  <2> HIDE DEF n
  <2> QED
    BY <1>1, <2>1, <2>2 DEF Typed
<1>6. record' = record /\ op' = op /\ managed' = managed /\ cancel' = cancel
  BY DEF FailSpawn
<1>7. Typed'
  BY <1>1, <1>2, <1>3, <1>4, <1>5, <1>6 DEF Typed
<1>8. Others(i) /\ NoNewWriter(i)
  BY <1>2, <1>4, <1>5, <1>6 DEF Others, SameAt, NoNewWriter
<1>9. NotSpawned(i)'
  BY <1>2 DEF NotSpawned
<1>10. Supervised(i)'
  BY <1>4, <1>5 DEF Supervised
<1>11. OperationHeld(i)'
  BY <1>1, <1>2, <1>6 DEF Sound, OperationHeld, Launching, WithResource
<1>12. EndTold(i)'
  BY <1>1, <1>2, <1>5, <1>6 DEF Sound, EndTold, State
<1>13. RecordFollows(i)'
  BY <1>1, <1>2, <1>6 DEF Sound, RecordFollows, State, Launching
<1>14. Completed(i)'
  BY <1>2 DEF Completed, WithResource
<1>15. Agree(i)'
  BY <1>2 DEF Agree
<1> QED
  BY <1>7, <1>8, <1>9, <1>10, <1>11, <1>12, <1>13, <1>14, <1>15, WritersKept DEF Preserves,
     Sound

\* stopManagedInstance returns.
LEMMA StopManagedPreserves ==
    ASSUME LifecycleInv, NEW i \in Session, NEW c \in Caller, StopManaged(i, c)
    PROVE  Preserves(i)
<1>1. /\ Typed /\ Sound(i) /\ record[i] \in Record /\ op[i] \in {None} \cup Operation
      /\ inst[i] \in Instance
  BY TypedIsTypeOK DEF LifecycleInv, Typed
<1>2. managed[i][c] \in {"disposing", "cleaning"}
  BY DEF StopManaged
<1>3. inst[i].rpc = FALSE
  BY <1>1, <1>2 DEF Sound, Supervised, Instance
<1>4. child' \in [Session -> Child]
  BY <1>1, DisposedSets DEF StopManaged, Typed
<1>5. /\ managed' \in [Session -> [Caller -> StopStep]] /\ managed'[i][c] = "returned"
      /\ (\A d \in Caller \ {c} : managed'[i][d] = managed[i][d])
      /\ \A j \in Session \ {i} : managed'[j] = managed[j]
  <2> DEFINE m == [managed[i] EXCEPT ![c] = "returned"]
  <2>1. managed' = [managed EXCEPT ![i] = m] /\ managed[i] \in [Caller -> StopStep]
    BY <1>1 DEF StopManaged, Typed
  <2>2. /\ m \in [Caller -> StopStep] /\ m[c] = "returned"
        /\ \A d \in Caller \ {c} : m[d] = managed[i][d]
    BY <2>1 DEF StopStep, Caller
  <2> HIDE DEF m
  <2> QED
    BY <1>1, <2>1, <2>2 DEF Typed
<1>6. PICK s \in {"failed", "cancelled"}, q \in Completion : inst' = [inst EXCEPT ![i] = Ended(inst[i], s, q)]
  BY DEF StopManaged, Completion
<1>7. s \in Statuses
  BY DEF Statuses
<1>8. /\ inst' \in [Session -> Instance] /\ inst'[i].status = s /\ inst'[i].live = FALSE
      /\ inst'[i].rpc = inst[i].rpc /\ inst'[i].writes = None /\ inst'[i].ui = inst[i].ui
      /\ inst'[i].owner = FALSE /\ inst'[i].departing = FALSE
      /\ inst'[i].identified = inst[i].identified
      /\ inst'[i].completion = (IF inst[i].completion = None THEN q ELSE inst[i].completion)
      /\ \A j \in Session \ {i} : inst'[j] = inst[j]
  <2> DEFINE n == Ended(inst[i], s, q)
  <2>1. inst' = [inst EXCEPT ![i] = n]
    BY <1>1, <1>6 DEF Ended
  <2>2. /\ n \in Instance /\ n.status = s /\ n.live = FALSE /\ n.rpc = inst[i].rpc
        /\ n.writes = None /\ n.ui = inst[i].ui /\ n.owner = FALSE /\ n.departing = FALSE
        /\ n.identified = inst[i].identified
        /\ n.completion = (IF inst[i].completion = None THEN q ELSE inst[i].completion)
    BY <1>1, <1>7, EndedFields
  <2> HIDE DEF n
  <2> QED
    BY <1>1, <2>1, <2>2 DEF Typed
<1>9. record' = record /\ op' = op /\ launch' = launch /\ cancel' = cancel
  BY DEF StopManaged
<1>10. Typed'
  BY <1>1, <1>3, <1>4, <1>5, <1>8, <1>9 DEF Typed
<1>11. Others(i) /\ NoNewWriter(i)
  BY <1>3, <1>5, <1>8, <1>9 DEF Others, SameAt, NoNewWriter
<1>12. NotSpawned(i)'
  BY <1>1, <1>2, <1>9 DEF Sound, NotSpawned
<1>13. Supervised(i)'
  BY <1>3, <1>8 DEF Supervised
<1>14. OperationHeld(i)'
  BY <1>1, <1>9 DEF Sound, OperationHeld
<1>15. EndTold(i)'
  BY <1>1, <1>2, <1>9 DEF Sound, EndTold, State
<1>16. RecordFollows(i)'
  BY <1>1, <1>2, <1>9 DEF Sound, RecordFollows, State
<1>17. Completed(i)'
  BY <1>8, SessionLifecycleAssumption DEF Completed
<1>18. Agree(i)'
  BY <1>8, SessionLifecycleAssumption DEF Agree
<1> QED
  BY <1>10, <1>11, <1>12, <1>13, <1>14, <1>15, <1>16, <1>17, <1>18, WritersKept DEF
     Preserves, Sound

\* A process exits that nobody stopped.
LEMMA RpcExitPreserves ==
    ASSUME LifecycleInv, NEW i \in Session, RpcExit(i)
    PROVE  Preserves(i)
<1>1. /\ Typed /\ Sound(i) /\ record[i] \in Record /\ op[i] \in {None} \cup Operation
      /\ inst[i] \in Instance
  BY TypedIsTypeOK DEF LifecycleInv, Typed
<1>2. inst[i].rpc
  BY DEF RpcExit
<1>3. PICK g \in BOOLEAN : inst' = [inst EXCEPT ![i] = [Ended(Unbound(inst[i], "failed"), "failed", "FAILED") EXCEPT !.live = g, !.departing = g]]
  BY DEF RpcExit
<1>4. /\ inst' \in [Session -> Instance] /\ inst'[i].status = "failed" /\ inst'[i].live = g
      /\ inst'[i].rpc = FALSE /\ inst'[i].writes = None /\ inst'[i].ui = FALSE
      /\ inst'[i].owner = FALSE /\ inst'[i].departing = g
      /\ inst'[i].identified = inst[i].identified
      /\ inst'[i].completion = (IF inst[i].completion = None THEN "FAILED" ELSE inst[i].completion)
      /\ \A j \in Session \ {i} : inst'[j] = inst[j]
  <2> DEFINE u == Unbound(inst[i], "failed")
             e == Ended(u, "failed", "FAILED")
             n == [e EXCEPT !.live = g, !.departing = g]
  <2>1. inst' = [inst EXCEPT ![i] = n]
    BY <1>3
  <2>2. /\ u \in Instance /\ u.status = "failed" /\ u.live = inst[i].live /\ u.rpc = FALSE
        /\ u.writes = inst[i].writes /\ u.ui = FALSE /\ u.owner = inst[i].owner
        /\ u.departing = inst[i].departing /\ u.identified = inst[i].identified
        /\ u.completion = inst[i].completion
    BY <1>1, UnboundFields DEF Statuses
  <2>3. /\ e \in Instance /\ e.status = "failed" /\ e.live = FALSE /\ e.rpc = FALSE
        /\ e.writes = None /\ e.ui = FALSE /\ e.owner = FALSE /\ e.departing = FALSE
        /\ e.identified = inst[i].identified
        /\ e.completion = (IF inst[i].completion = None THEN "FAILED" ELSE inst[i].completion)
    <3>1. "failed" \in Statuses /\ "FAILED" \in Completion
      BY DEF Statuses, Completion
    <3> HIDE DEF u
    <3> QED
      BY <2>2, <3>1, EndedFields
  <2>4. /\ n \in Instance /\ n.status = "failed" /\ n.live = g /\ n.rpc = FALSE /\ n.writes = None
        /\ n.ui = FALSE /\ n.owner = FALSE /\ n.departing = g /\ n.identified = inst[i].identified
        /\ n.completion = (IF inst[i].completion = None THEN "FAILED" ELSE inst[i].completion)
    <3> HIDE DEF e
    <3> QED
      BY <2>3 DEF Instance
  <2> HIDE DEF n
  <2> QED
    BY <1>1, <2>1, <2>4 DEF Typed
<1>5. /\ record' = record /\ op' = op /\ launch' = launch /\ child' = child /\ managed' = managed
      /\ cancel' = cancel
  BY DEF RpcExit
<1>6. Typed'
  BY <1>1, <1>2, <1>3, <1>4, <1>5 DEF Typed
<1>7. Others(i) /\ NoNewWriter(i)
  BY <1>4, <1>5 DEF Others, SameAt, NoNewWriter
<1>8. NotSpawned(i)'
  BY <1>1, <1>2, <1>3, <1>4, <1>5 DEF Sound, NotSpawned
<1>9. Supervised(i)'
  BY <1>4, SessionLifecycleAssumption DEF Supervised, Completion
<1>10. OperationHeld(i)'
  BY <1>1, <1>5 DEF Sound, OperationHeld
<1>11. EndTold(i)'
  BY <1>1, <1>4, <1>5 DEF Sound, EndTold, State
<1>12. RecordFollows(i)'
  BY <1>1, <1>5 DEF Sound, RecordFollows, State
<1>13. Completed(i)'
  BY <1>4, SessionLifecycleAssumption DEF Completed, Completion
<1>14. Agree(i)'
  BY <1>4, SessionLifecycleAssumption DEF Agree, Completion
<1> QED
  BY <1>6, <1>7, <1>8, <1>9, <1>10, <1>11, <1>12, <1>13, <1>14, WritersKept DEF Preserves,
     Sound

\* The presence of an exited process is gone.
LEMMA PresenceDisconnectedPreserves ==
    ASSUME LifecycleInv, NEW i \in Session, PresenceDisconnected(i)
    PROVE  Preserves(i)
<1>1. /\ Typed /\ Sound(i) /\ record[i] \in Record /\ op[i] \in {None} \cup Operation
      /\ inst[i] \in Instance
  BY TypedIsTypeOK DEF LifecycleInv, Typed
<1>2. inst[i].departing /\ inst[i].rpc = FALSE
  BY <1>1 DEF PresenceDisconnected, Sound, Supervised, Instance
<1>3. /\ inst' \in [Session -> Instance] /\ inst'[i].status = inst[i].status
      /\ inst'[i].live = FALSE /\ inst'[i].rpc = inst[i].rpc /\ inst'[i].writes = inst[i].writes
      /\ inst'[i].ui = inst[i].ui /\ inst'[i].owner = inst[i].owner /\ inst'[i].departing = FALSE
      /\ inst'[i].identified = inst[i].identified /\ inst'[i].completion = inst[i].completion
      /\ \A j \in Session \ {i} : inst'[j] = inst[j]
  <2> DEFINE n == [inst[i] EXCEPT !.live = FALSE, !.departing = FALSE]
  <2>1. inst' = [inst EXCEPT ![i] = n]
    BY <1>1 DEF PresenceDisconnected
  <2>2. /\ n \in Instance /\ n.status = inst[i].status /\ n.live = FALSE /\ n.rpc = inst[i].rpc
        /\ n.writes = inst[i].writes /\ n.ui = inst[i].ui /\ n.owner = inst[i].owner
        /\ n.departing = FALSE /\ n.identified = inst[i].identified
        /\ n.completion = inst[i].completion
    BY <1>1 DEF Instance
  <2> HIDE DEF n
  <2> QED
    BY <1>1, <2>1, <2>2 DEF Typed
<1>4. /\ record' = record /\ op' = op /\ launch' = launch /\ child' = child /\ managed' = managed
      /\ cancel' = cancel
  BY DEF PresenceDisconnected
<1>5. Typed'
  BY <1>1, <1>2, <1>3, <1>4 DEF Typed
<1>6. Others(i) /\ NoNewWriter(i)
  BY <1>3, <1>4 DEF Others, SameAt, NoNewWriter
<1>7. NotSpawned(i)'
  BY <1>1, <1>2, <1>3, <1>4 DEF Sound, NotSpawned
<1>8. Supervised(i)'
  BY <1>1, <1>2, <1>3, <1>4 DEF Sound, Supervised
<1>9. OperationHeld(i)'
  BY <1>1, <1>4 DEF Sound, OperationHeld
<1>10. EndTold(i)'
  BY <1>1, <1>3, <1>4 DEF Sound, EndTold, State
<1>11. RecordFollows(i)'
  BY <1>1, <1>4 DEF Sound, RecordFollows, State
<1>12. Completed(i)'
  BY <1>1, <1>2, <1>3 DEF Sound, Supervised, Completed
<1>13. Agree(i)'
  BY <1>1, <1>2, <1>3, <1>4 DEF Sound, Agree, State
<1> QED
  BY <1>5, <1>6, <1>7, <1>8, <1>9, <1>10, <1>11, <1>12, <1>13, WritersKept DEF Preserves,
     Sound

\* A blocking UI request.
LEMMA UiRequestPreserves ==
    ASSUME LifecycleInv, NEW i \in Session, UiRequest(i)
    PROVE  Preserves(i)
<1>1. /\ Typed /\ Sound(i) /\ record[i] \in Record /\ op[i] \in {None} \cup Operation
      /\ inst[i] \in Instance
  BY TypedIsTypeOK DEF LifecycleInv, Typed
<1>2. inst[i].rpc
  BY DEF UiRequest
<1>3. /\ record' \in [Session -> Record]
      /\ record'[i].state = (IF record[i].state \in Terminal \cup {"CANCEL_REQUESTED", "PENDING", "STARTING"} THEN record[i].state ELSE "WAITING_INPUT")
      /\ \A j \in Session \ {i} : record'[j] = record[j]
  BY <1>1, SetWaitingInputSets DEF UiRequest, Typed
<1>4. /\ inst' \in [Session -> Instance]
      /\ inst'[i].status = (IF inst[i].owner \/ inst[i].status # "online" THEN inst[i].status ELSE "waiting-input")
      /\ inst'[i].live = inst[i].live /\ inst'[i].rpc = inst[i].rpc
      /\ inst'[i].writes = inst[i].writes /\ inst'[i].ui = TRUE /\ inst'[i].owner = inst[i].owner
      /\ inst'[i].departing = inst[i].departing /\ inst'[i].identified = inst[i].identified
      /\ inst'[i].completion = inst[i].completion /\ \A j \in Session \ {i} : inst'[j] = inst[j]
  <2> DEFINE n == [inst[i] EXCEPT !.ui = TRUE, !.status = (IF inst[i].owner \/ inst[i].status # "online" THEN inst[i].status ELSE "waiting-input")]
  <2>1. inst' = [inst EXCEPT ![i] = n]
    BY <1>1 DEF UiRequest
  <2>2. /\ n \in Instance
        /\ n.status = (IF inst[i].owner \/ inst[i].status # "online" THEN inst[i].status ELSE "waiting-input")
        /\ n.live = inst[i].live /\ n.rpc = inst[i].rpc /\ n.writes = inst[i].writes /\ n.ui = TRUE
        /\ n.owner = inst[i].owner /\ n.departing = inst[i].departing
        /\ n.identified = inst[i].identified /\ n.completion = inst[i].completion
    BY <1>1 DEF Instance, Statuses
  <2> HIDE DEF n
  <2> QED
    BY <1>1, <2>1, <2>2 DEF Typed
<1>5. op' = op /\ launch' = launch /\ child' = child /\ managed' = managed /\ cancel' = cancel
  BY DEF UiRequest
<1>6. Typed'
  BY <1>1, <1>2, <1>3, <1>4, <1>5 DEF Typed
<1>7. Others(i) /\ NoNewWriter(i)
  BY <1>3, <1>4, <1>5 DEF Others, SameAt, NoNewWriter
<1>8. NotSpawned(i)'
  BY <1>1, <1>2, <1>3, <1>4, <1>5 DEF Sound, NotSpawned
<1>9. Supervised(i)'
  BY <1>1, <1>2, <1>3, <1>4, <1>5 DEF Sound, Supervised
<1>10. OperationHeld(i)'
  BY <1>1, <1>5 DEF Sound, OperationHeld
<1>11. EndTold(i)'
  BY <1>1, <1>3, <1>4, <1>5 DEF Sound, EndTold, State, AskedToEnd
<1>12. RecordFollows(i)'
  BY <1>1, <1>2, <1>3, <1>5 DEF Sound, NotSpawned, OperationHeld, EndTold, RecordFollows,
     State, Launching, AskedToEnd
<1>13. Completed(i)'
  BY <1>1, <1>3, <1>4, <1>5 DEF Sound, Completed, State, Terminal
<1>14. Agree(i)'
  BY <1>1, <1>3, <1>4, <1>5 DEF Sound, Completed, Agree, State
<1> QED
  BY <1>6, <1>7, <1>8, <1>9, <1>10, <1>11, <1>12, <1>13, <1>14, WritersKept DEF Preserves,
     Sound

\* An interactive owner attaches.
LEMMA AttachPreserves ==
    ASSUME LifecycleInv, NEW i \in Session, Attach(i)
    PROVE  Preserves(i)
<1>1. /\ Typed /\ Sound(i) /\ record[i] \in Record /\ op[i] \in {None} \cup Operation
      /\ inst[i] \in Instance
  BY TypedIsTypeOK DEF LifecycleInv, Typed
<1>2. inst[i].rpc
  BY DEF Attach
<1>3. /\ inst' \in [Session -> Instance]
      /\ inst'[i].status = (IF inst[i].status = "waiting-input" THEN "online" ELSE inst[i].status)
      /\ inst'[i].live = inst[i].live /\ inst'[i].rpc = inst[i].rpc
      /\ inst'[i].writes = inst[i].writes /\ inst'[i].ui = inst[i].ui /\ inst'[i].owner = TRUE
      /\ inst'[i].departing = inst[i].departing /\ inst'[i].identified = inst[i].identified
      /\ inst'[i].completion = inst[i].completion /\ \A j \in Session \ {i} : inst'[j] = inst[j]
  <2> DEFINE n == [inst[i] EXCEPT !.owner = TRUE, !.status = (IF inst[i].status = "waiting-input" THEN "online" ELSE inst[i].status)]
  <2>1. inst' = [inst EXCEPT ![i] = n]
    BY <1>1 DEF Attach
  <2>2. /\ n \in Instance
        /\ n.status = (IF inst[i].status = "waiting-input" THEN "online" ELSE inst[i].status)
        /\ n.live = inst[i].live /\ n.rpc = inst[i].rpc /\ n.writes = inst[i].writes
        /\ n.ui = inst[i].ui /\ n.owner = TRUE /\ n.departing = inst[i].departing
        /\ n.identified = inst[i].identified /\ n.completion = inst[i].completion
    BY <1>1 DEF Instance, Statuses
  <2> HIDE DEF n
  <2> QED
    BY <1>1, <2>1, <2>2 DEF Typed
<1>4. /\ record' = record /\ op' = op /\ launch' = launch /\ child' = child /\ managed' = managed
      /\ cancel' = cancel
  BY DEF Attach
<1>5. Typed'
  BY <1>1, <1>2, <1>3, <1>4 DEF Typed
<1>6. Others(i) /\ NoNewWriter(i)
  BY <1>3, <1>4 DEF Others, SameAt, NoNewWriter
<1>7. NotSpawned(i)'
  BY <1>1, <1>2, <1>3, <1>4 DEF Sound, NotSpawned
<1>8. Supervised(i)'
  BY <1>1, <1>2, <1>3, <1>4 DEF Sound, Supervised
<1>9. OperationHeld(i)'
  BY <1>1, <1>4 DEF Sound, OperationHeld
<1>10. EndTold(i)'
  BY <1>1, <1>3, <1>4 DEF Sound, EndTold, State
<1>11. RecordFollows(i)'
  BY <1>1, <1>4 DEF Sound, RecordFollows, State
<1>12. Completed(i)'
  BY <1>1, <1>3, <1>4 DEF Sound, Completed, State
<1>13. Agree(i)'
  BY <1>1, <1>2, <1>3, <1>4 DEF Sound, Agree, State
<1> QED
  BY <1>5, <1>6, <1>7, <1>8, <1>9, <1>10, <1>11, <1>12, <1>13, WritersKept DEF Preserves,
     Sound

\* The owner answers.
LEMMA UiResponsePreserves ==
    ASSUME LifecycleInv, NEW i \in Session, UiResponse(i)
    PROVE  Preserves(i)
<1>1. /\ Typed /\ Sound(i) /\ record[i] \in Record /\ op[i] \in {None} \cup Operation
      /\ inst[i] \in Instance
  BY TypedIsTypeOK DEF LifecycleInv, Typed
<1>2. inst[i].owner /\ inst[i].ui
  BY DEF UiResponse
<1>3. /\ record' \in [Session -> Record]
      /\ record'[i].state = (IF record[i].state \in Terminal \cup {"CANCEL_REQUESTED", "PENDING", "STARTING"} THEN record[i].state ELSE "RUNNING")
      /\ \A j \in Session \ {i} : record'[j] = record[j]
  BY <1>1, SetWaitingInputSets DEF UiResponse, Typed
<1>4. /\ inst' \in [Session -> Instance] /\ inst'[i].status = "online"
      /\ inst'[i].live = inst[i].live /\ inst'[i].rpc = inst[i].rpc
      /\ inst'[i].writes = inst[i].writes /\ inst'[i].ui = FALSE /\ inst'[i].owner = inst[i].owner
      /\ inst'[i].departing = inst[i].departing /\ inst'[i].identified = inst[i].identified
      /\ inst'[i].completion = inst[i].completion /\ \A j \in Session \ {i} : inst'[j] = inst[j]
  <2> DEFINE n == [inst[i] EXCEPT !.ui = FALSE, !.status = "online"]
  <2>1. inst' = [inst EXCEPT ![i] = n]
    BY <1>1 DEF UiResponse
  <2>2. /\ n \in Instance /\ n.status = "online" /\ n.live = inst[i].live /\ n.rpc = inst[i].rpc
        /\ n.writes = inst[i].writes /\ n.ui = FALSE /\ n.owner = inst[i].owner
        /\ n.departing = inst[i].departing /\ n.identified = inst[i].identified
        /\ n.completion = inst[i].completion
    BY <1>1 DEF Instance, Statuses
  <2> HIDE DEF n
  <2> QED
    BY <1>1, <2>1, <2>2 DEF Typed
<1>5. op' = op /\ launch' = launch /\ child' = child /\ managed' = managed /\ cancel' = cancel
  BY DEF UiResponse
<1>6. Typed'
  BY <1>1, <1>2, <1>3, <1>4, <1>5 DEF Typed
<1>7. Others(i) /\ NoNewWriter(i)
  BY <1>3, <1>4, <1>5 DEF Others, SameAt, NoNewWriter
<1>8. NotSpawned(i)'
  BY <1>1, <1>2, <1>3, <1>4, <1>5 DEF Sound, NotSpawned
<1>9. Supervised(i)'
  BY <1>1, <1>2, <1>3, <1>4, <1>5 DEF Sound, Supervised
<1>10. OperationHeld(i)'
  BY <1>1, <1>5 DEF Sound, OperationHeld
<1>11. EndTold(i)'
  BY <1>1, <1>3, <1>4, <1>5 DEF Sound, EndTold, State, AskedToEnd
<1>12. RecordFollows(i)'
  BY <1>1, <1>2, <1>3, <1>5 DEF Sound, NotSpawned, OperationHeld, EndTold, RecordFollows,
     State, Launching, AskedToEnd
<1>13. Completed(i)'
  BY <1>1, <1>3, <1>4, <1>5 DEF Sound, Completed, State, Terminal
<1>14. Agree(i)'
  BY <1>1, <1>3, <1>4, <1>5 DEF Sound, Completed, Agree, State
<1> QED
  BY <1>6, <1>7, <1>8, <1>9, <1>10, <1>11, <1>12, <1>13, <1>14, WritersKept DEF Preserves,
     Sound

\* The owner goes.
LEMMA DetachPreserves ==
    ASSUME LifecycleInv, NEW i \in Session, Detach(i)
    PROVE  Preserves(i)
<1>1. /\ Typed /\ Sound(i) /\ record[i] \in Record /\ op[i] \in {None} \cup Operation
      /\ inst[i] \in Instance
  BY TypedIsTypeOK DEF LifecycleInv, Typed
<1>2. inst[i].owner
  BY DEF Detach
<1>3. /\ inst' \in [Session -> Instance]
      /\ inst'[i].status = (IF inst[i].ui /\ inst[i].status = "online" THEN "waiting-input" ELSE inst[i].status)
      /\ inst'[i].live = inst[i].live /\ inst'[i].rpc = inst[i].rpc
      /\ inst'[i].writes = inst[i].writes /\ inst'[i].ui = inst[i].ui /\ inst'[i].owner = FALSE
      /\ inst'[i].departing = inst[i].departing /\ inst'[i].identified = inst[i].identified
      /\ inst'[i].completion = inst[i].completion /\ \A j \in Session \ {i} : inst'[j] = inst[j]
  <2> DEFINE n == [inst[i] EXCEPT !.owner = FALSE, !.status = (IF inst[i].ui /\ inst[i].status = "online" THEN "waiting-input" ELSE inst[i].status)]
  <2>1. inst' = [inst EXCEPT ![i] = n]
    BY <1>1 DEF Detach
  <2>2. /\ n \in Instance
        /\ n.status = (IF inst[i].ui /\ inst[i].status = "online" THEN "waiting-input" ELSE inst[i].status)
        /\ n.live = inst[i].live /\ n.rpc = inst[i].rpc /\ n.writes = inst[i].writes
        /\ n.ui = inst[i].ui /\ n.owner = FALSE /\ n.departing = inst[i].departing
        /\ n.identified = inst[i].identified /\ n.completion = inst[i].completion
    BY <1>1 DEF Instance, Statuses
  <2> HIDE DEF n
  <2> QED
    BY <1>1, <2>1, <2>2 DEF Typed
<1>4. /\ record' = record /\ op' = op /\ launch' = launch /\ child' = child /\ managed' = managed
      /\ cancel' = cancel
  BY DEF Detach
<1>5. Typed'
  BY <1>1, <1>2, <1>3, <1>4 DEF Typed
<1>6. Others(i) /\ NoNewWriter(i)
  BY <1>3, <1>4 DEF Others, SameAt, NoNewWriter
<1>7. NotSpawned(i)'
  BY <1>1, <1>2, <1>3, <1>4 DEF Sound, NotSpawned
<1>8. Supervised(i)'
  BY <1>1, <1>2, <1>3, <1>4 DEF Sound, Supervised
<1>9. OperationHeld(i)'
  BY <1>1, <1>4 DEF Sound, OperationHeld
<1>10. EndTold(i)'
  BY <1>1, <1>3, <1>4 DEF Sound, EndTold, State
<1>11. RecordFollows(i)'
  BY <1>1, <1>4 DEF Sound, RecordFollows, State
<1>12. Completed(i)'
  BY <1>1, <1>3, <1>4 DEF Sound, Completed, State
<1>13. Agree(i)'
  BY <1>1, <1>2, <1>3, <1>4 DEF Sound, Agree, State
<1> QED
  BY <1>5, <1>6, <1>7, <1>8, <1>9, <1>10, <1>11, <1>12, <1>13, WritersKept DEF Preserves,
     Sound

\* A child ends.
LEMMA ChildDiesPreserves ==
    ASSUME LifecycleInv, NEW i \in Session, ChildDies(i)
    PROVE  Preserves(i)
<1>1. /\ Typed /\ Sound(i) /\ record[i] \in Record /\ op[i] \in {None} \cup Operation
      /\ inst[i] \in Instance
  BY TypedIsTypeOK DEF LifecycleInv, Typed
<1>2. child' \in [Session -> Child]
  BY <1>1 DEF ChildDies, Typed, Child
<1>3. /\ record' = record /\ op' = op /\ launch' = launch /\ inst' = inst /\ managed' = managed
      /\ cancel' = cancel
  BY DEF ChildDies
<1>4. Typed'
  BY <1>1, <1>2, <1>3 DEF Typed
<1>5. Others(i) /\ NoNewWriter(i)
  BY <1>1, <1>2, <1>3 DEF Typed, Others, SameAt, NoNewWriter
<1>6. NotSpawned(i)'
  BY <1>1, <1>2, <1>3 DEF Sound, NotSpawned
<1>7. Supervised(i)'
  BY <1>1, <1>2, <1>3 DEF Sound, Supervised
<1>8. OperationHeld(i)'
  BY <1>1, <1>2, <1>3 DEF Sound, OperationHeld, Launching, WithResource
<1>9. EndTold(i)'
  BY <1>1, <1>3 DEF Sound, EndTold, State
<1>10. RecordFollows(i)'
  BY <1>1, <1>3 DEF Sound, RecordFollows, State
<1>11. Completed(i)'
  BY <1>1, <1>3 DEF Sound, Completed, State
<1>12. Agree(i)'
  BY <1>1, <1>2, <1>3 DEF Sound, Agree, State
<1> QED
  BY <1>4, <1>5, <1>6, <1>7, <1>8, <1>9, <1>10, <1>11, <1>12, WritersKept DEF Preserves,
     Sound

\* The launcher throws without a resource.
LEMMA RegisteredIncompletePreserves ==
    ASSUME LifecycleInv, NEW i \in Session, RegisteredIncomplete(i)
    PROVE  Preserves(i)
<1>1. /\ Typed /\ Sound(i) /\ record[i] \in Record /\ op[i] \in {None} \cup Operation
      /\ inst[i] \in Instance
  BY TypedIsTypeOK DEF LifecycleInv, Typed
<1>2. /\ launch' \in [Session -> LaunchStep] /\ launch'[i] = "thrown" /\ launch[i] = "registering"
      /\ \A j \in Session \ {i} : launch'[j] = launch[j]
  BY <1>1 DEF RegisteredIncomplete, Typed, LaunchStep, Launching, State
<1>3. /\ inst' \in [Session -> Instance]
      /\ inst'[i].status = (IF inst[i].ui THEN "waiting-input" ELSE "online")
      /\ inst'[i].live = inst[i].live /\ inst'[i].rpc = inst[i].rpc
      /\ inst'[i].writes = inst[i].writes /\ inst'[i].ui = inst[i].ui
      /\ inst'[i].owner = inst[i].owner /\ inst'[i].departing = inst[i].departing
      /\ inst'[i].identified = ~inst[i].live /\ inst'[i].completion = inst[i].completion
      /\ \A j \in Session \ {i} : inst'[j] = inst[j]
  <2> DEFINE n == [inst[i] EXCEPT !.status = (IF inst[i].ui THEN "waiting-input" ELSE "online"), !.identified = ~inst[i].live]
  <2>1. inst' = [inst EXCEPT ![i] = n]
    BY <1>1 DEF RegisteredIncomplete
  <2>2. /\ n \in Instance /\ n.status = (IF inst[i].ui THEN "waiting-input" ELSE "online")
        /\ n.live = inst[i].live /\ n.rpc = inst[i].rpc /\ n.writes = inst[i].writes
        /\ n.ui = inst[i].ui /\ n.owner = inst[i].owner /\ n.departing = inst[i].departing
        /\ n.identified = ~inst[i].live /\ n.completion = inst[i].completion
    BY <1>1 DEF Instance, Statuses
  <2> HIDE DEF n
  <2> QED
    BY <1>1, <2>1, <2>2 DEF Typed
<1>4. record' = record /\ op' = op /\ child' = child /\ managed' = managed /\ cancel' = cancel
  BY DEF RegisteredIncomplete
<1>5. Typed'
  BY <1>1, <1>2, <1>3, <1>4 DEF Typed
<1>6. Others(i) /\ NoNewWriter(i)
  BY <1>2, <1>3, <1>4 DEF Others, SameAt, NoNewWriter
<1>7. NotSpawned(i)'
  BY <1>1, <1>2, <1>3, <1>4 DEF Sound, NotSpawned
<1>8. Supervised(i)'
  BY <1>1, <1>2, <1>3, <1>4 DEF Sound, Supervised
<1>9. OperationHeld(i)'
  BY <1>1, <1>2, <1>4 DEF Sound, OperationHeld, Launching, WithResource
<1>10. EndTold(i)'
  BY <1>1, <1>2, <1>3, <1>4 DEF Sound, EndTold, State
<1>11. RecordFollows(i)'
  BY <1>1, <1>2, <1>4 DEF Sound, RecordFollows, State, Launching
<1>12. Completed(i)'
  BY <1>2 DEF Completed, WithResource
<1>13. Agree(i)'
  BY <1>1, <1>2, <1>3, <1>4 DEF Sound, Agree, State
<1> QED
  BY <1>5, <1>6, <1>7, <1>8, <1>9, <1>10, <1>11, <1>12, <1>13, WritersKept DEF Preserves,
     Sound

\* A session that was stopped while it launched is stopped now.
LEMMA RegisteredStopPreserves ==
    ASSUME LifecycleInv, NEW i \in Session, Registered(i), op[i].stop
    PROVE  Preserves(i)
<1>1. /\ Typed /\ Sound(i) /\ record[i] \in Record /\ op[i] \in {None} \cup Operation
      /\ inst[i] \in Instance
  BY TypedIsTypeOK DEF LifecycleInv, Typed
<1>2. launch[i] = "registering" /\ inst[i].live /\ op[i] # None /\ op[i] \in Operation
  BY <1>1 DEF Registered, Sound, OperationHeld, Launching
<1>3. /\ launch' \in [Session -> LaunchStep] /\ launch'[i] = "stopping"
      /\ \A j \in Session \ {i} : launch'[j] = launch[j]
  BY <1>1, <1>2 DEF Registered, Typed, LaunchStep, Launching, State
<1>4. /\ op' \in [Session -> {None} \cup Operation] /\ op'[i] # None /\ op'[i].resource = TRUE
      /\ op'[i].cancel = op[i].cancel /\ op'[i].stop = op[i].stop
      /\ \A j \in Session \ {i} : op'[j] = op[j]
  <2> DEFINE o == [op[i] EXCEPT !.resource = TRUE]
  <2>1. op' = [op EXCEPT ![i] = o]
    BY <1>2 DEF Registered
  <2>2. o \in Operation /\ o.resource = TRUE /\ o.cancel = op[i].cancel /\ o.stop = op[i].stop
    BY <1>2 DEF Operation
  <2> HIDE DEF o
  <2> QED
    BY <1>1, <2>1, <2>2, SessionLifecycleAssumption DEF Typed
<1>5. BeginStop(i, "launch") /\ "launch" \in Caller
  BY <1>2 DEF Registered, Operation, Caller
<1>6. StopBegun(i, "launch")
  BY <1>1, <1>5, BeginStopSets
<1>7. record' = record /\ child' = child /\ cancel' = cancel
  BY <1>1, <1>2, <1>3, <1>4, <1>5, <1>6 DEF Registered
<1>8. Typed'
  BY <1>1, <1>3, <1>4, <1>6, <1>7 DEF Typed, StopBegun
<1>9. Others(i) /\ NoNewWriter(i)
  BY <1>3, <1>4, <1>6, <1>7 DEF Others, SameAt, NoNewWriter, StopBegun
<1>10. NotSpawned(i)'
  BY <1>3 DEF NotSpawned
<1>11. Supervised(i)'
  BY <1>1, <1>6 DEF Sound, Supervised, StopBegun
<1>12. OperationHeld(i)'
  BY <1>3, <1>4 DEF OperationHeld, Launching, WithResource
<1>13. EndTold(i)'
  BY <1>1, <1>2, <1>7 DEF Sound, EndTold, State
<1>14. RecordFollows(i)'
  BY <1>1, <1>2, <1>3, <1>7 DEF Sound, RecordFollows, State, Launching
<1>15. Completed(i)'
  BY <1>2, <1>3, <1>6 DEF Completed, StopBegun
<1>16. Agree(i)'
  BY <1>3 DEF Agree
<1> QED
  BY <1>8, <1>9, <1>10, <1>11, <1>12, <1>13, <1>14, <1>15, <1>16, WritersKept DEF Preserves,
     Sound

\* A session that was cancelled while it launched is aborted now.
LEMMA RegisteredCancelPreserves ==
    ASSUME LifecycleInv, NEW i \in Session, Registered(i), ~op[i].stop, op[i].cancel
    PROVE  Preserves(i)
<1>1. /\ Typed /\ Sound(i) /\ record[i] \in Record /\ op[i] \in {None} \cup Operation
      /\ inst[i] \in Instance
  BY TypedIsTypeOK DEF LifecycleInv, Typed
<1>2. launch[i] = "registering" /\ inst[i].live /\ op[i] # None /\ op[i] \in Operation
  BY <1>1 DEF Registered, Sound, OperationHeld, Launching
<1>3. /\ launch' \in [Session -> LaunchStep] /\ launch'[i] = "cancelling"
      /\ \A j \in Session \ {i} : launch'[j] = launch[j]
  BY <1>1, <1>2 DEF Registered, Typed, LaunchStep, Launching, State
<1>4. /\ op' \in [Session -> {None} \cup Operation] /\ op'[i] # None /\ op'[i].resource = TRUE
      /\ op'[i].cancel = op[i].cancel /\ op'[i].stop = op[i].stop
      /\ \A j \in Session \ {i} : op'[j] = op[j]
  <2> DEFINE o == [op[i] EXCEPT !.resource = TRUE]
  <2>1. op' = [op EXCEPT ![i] = o]
    BY <1>2 DEF Registered
  <2>2. o \in Operation /\ o.resource = TRUE /\ o.cancel = op[i].cancel /\ o.stop = op[i].stop
    BY <1>2 DEF Operation
  <2> HIDE DEF o
  <2> QED
    BY <1>1, <2>1, <2>2, SessionLifecycleAssumption DEF Typed
<1>5. /\ inst' \in [Session -> Instance]
      /\ inst'[i].status = (IF inst[i].ui THEN "waiting-input" ELSE "online")
      /\ inst'[i].live = inst[i].live /\ inst'[i].rpc = inst[i].rpc
      /\ inst'[i].writes = inst[i].writes /\ inst'[i].ui = inst[i].ui
      /\ inst'[i].owner = inst[i].owner /\ inst'[i].departing = inst[i].departing
      /\ inst'[i].identified = inst[i].identified /\ inst'[i].completion = inst[i].completion
      /\ \A j \in Session \ {i} : inst'[j] = inst[j]
  <2> DEFINE n == [inst[i] EXCEPT !.status = (IF inst[i].ui THEN "waiting-input" ELSE "online")]
  <2>1. inst' = [inst EXCEPT ![i] = n]
    BY <1>1, <1>2 DEF Registered
  <2>2. /\ n \in Instance /\ n.status = (IF inst[i].ui THEN "waiting-input" ELSE "online")
        /\ n.live = inst[i].live /\ n.rpc = inst[i].rpc /\ n.writes = inst[i].writes
        /\ n.ui = inst[i].ui /\ n.owner = inst[i].owner /\ n.departing = inst[i].departing
        /\ n.identified = inst[i].identified /\ n.completion = inst[i].completion
    BY <1>1 DEF Instance, Statuses
  <2> HIDE DEF n
  <2> QED
    BY <1>1, <2>1, <2>2 DEF Typed
<1>6. record' = record /\ child' = child /\ managed' = managed /\ cancel' = cancel
  BY <1>1, <1>2, <1>3, <1>4, <1>5 DEF Registered
<1>7. Typed'
  BY <1>1, <1>2, <1>3, <1>4, <1>5, <1>6 DEF Typed
<1>8. Others(i) /\ NoNewWriter(i)
  BY <1>3, <1>4, <1>5, <1>6 DEF Others, SameAt, NoNewWriter
<1>9. NotSpawned(i)'
  BY <1>3 DEF NotSpawned
<1>10. Supervised(i)'
  BY <1>1, <1>3, <1>5, <1>6 DEF Sound, Supervised
<1>11. OperationHeld(i)'
  BY <1>3, <1>4 DEF OperationHeld, Launching, WithResource
<1>12. EndTold(i)'
  BY <1>1, <1>2, <1>6 DEF Sound, EndTold, State
<1>13. RecordFollows(i)'
  BY <1>1, <1>2, <1>3, <1>6 DEF Sound, RecordFollows, State, Launching
<1>14. Completed(i)'
  BY <1>1, <1>2, <1>5, <1>6 DEF Sound, RecordFollows, Completed, State
<1>15. Agree(i)'
  BY <1>3 DEF Agree
<1> QED
  BY <1>7, <1>8, <1>9, <1>10, <1>11, <1>12, <1>13, <1>14, <1>15, WritersKept DEF Preserves,
     Sound

\* A session nobody has stopped runs.
LEMMA RegisteredRunPreserves ==
    ASSUME LifecycleInv, NEW i \in Session, Registered(i), ~op[i].stop, ~op[i].cancel
    PROVE  Preserves(i)
<1>1. /\ Typed /\ Sound(i) /\ record[i] \in Record /\ op[i] \in {None} \cup Operation
      /\ inst[i] \in Instance
  BY TypedIsTypeOK DEF LifecycleInv, Typed
<1>2. launch[i] = "registering" /\ inst[i].live /\ op[i] # None /\ op[i] \in Operation
  BY <1>1 DEF Registered, Sound, OperationHeld, Launching
<1>3. /\ launch' \in [Session -> LaunchStep] /\ launch'[i] = "awaiting"
      /\ \A j \in Session \ {i} : launch'[j] = launch[j]
  BY <1>1, <1>2 DEF Registered, Typed, LaunchStep, Launching, State
<1>4. /\ op' \in [Session -> {None} \cup Operation] /\ op'[i] # None /\ op'[i].resource = TRUE
      /\ op'[i].cancel = op[i].cancel /\ op'[i].stop = op[i].stop
      /\ \A j \in Session \ {i} : op'[j] = op[j]
  <2> DEFINE o == [op[i] EXCEPT !.resource = TRUE]
  <2>1. op' = [op EXCEPT ![i] = o]
    BY <1>2 DEF Registered
  <2>2. o \in Operation /\ o.resource = TRUE /\ o.cancel = op[i].cancel /\ o.stop = op[i].stop
    BY <1>2 DEF Operation
  <2> HIDE DEF o
  <2> QED
    BY <1>1, <2>1, <2>2, SessionLifecycleAssumption DEF Typed
<1>5. /\ inst' \in [Session -> Instance]
      /\ inst'[i].status = (IF inst[i].ui THEN "waiting-input" ELSE "online")
      /\ inst'[i].live = inst[i].live /\ inst'[i].rpc = inst[i].rpc
      /\ inst'[i].writes = inst[i].writes /\ inst'[i].ui = inst[i].ui
      /\ inst'[i].owner = inst[i].owner /\ inst'[i].departing = inst[i].departing
      /\ inst'[i].identified = inst[i].identified /\ inst'[i].completion = inst[i].completion
      /\ \A j \in Session \ {i} : inst'[j] = inst[j]
  <2> DEFINE n == [inst[i] EXCEPT !.status = (IF inst[i].ui THEN "waiting-input" ELSE "online")]
  <2>1. inst' = [inst EXCEPT ![i] = n]
    BY <1>1, <1>2 DEF Registered
  <2>2. /\ n \in Instance /\ n.status = (IF inst[i].ui THEN "waiting-input" ELSE "online")
        /\ n.live = inst[i].live /\ n.rpc = inst[i].rpc /\ n.writes = inst[i].writes
        /\ n.ui = inst[i].ui /\ n.owner = inst[i].owner /\ n.departing = inst[i].departing
        /\ n.identified = inst[i].identified /\ n.completion = inst[i].completion
    BY <1>1 DEF Instance, Statuses
  <2> HIDE DEF n
  <2> QED
    BY <1>1, <2>1, <2>2 DEF Typed
<1>6. record[i].state = "STARTING"
  BY <1>1, <1>2 DEF Sound, RecordFollows, State
<1>7. /\ record' \in [Session -> Record]
      /\ record'[i].state = (IF inst[i].ui THEN "WAITING_INPUT" ELSE "RUNNING")
      /\ \A j \in Session \ {i} : record'[j] = record[j]
  <2> DEFINE s == IF inst[i].ui THEN "WAITING_INPUT" ELSE "RUNNING"
  <2>1. UnlessOver(i, s)
    BY DEF Registered
  <2>2. s \in LifecycleState
    BY DEF LifecycleState
  <2>3. record[i].state \notin Terminal
    BY <1>6 DEF Terminal
  <2> HIDE DEF s
  <2>4. /\ record' \in [Session -> Record] /\ record'[i].state = s
        /\ \A j \in Session \ {i} : record'[j] = record[j]
    BY <1>1, <2>1, <2>2, <2>3, UnlessOverSets DEF Typed
  <2> QED
    BY <2>4 DEF s
<1>8. child' = child /\ managed' = managed /\ cancel' = cancel
  BY <1>1 DEF Registered
<1>9. Typed'
  BY <1>1, <1>3, <1>4, <1>5, <1>7, <1>8 DEF Typed
<1>10. Others(i) /\ NoNewWriter(i)
  BY <1>3, <1>4, <1>5, <1>7, <1>8 DEF Others, SameAt, NoNewWriter
<1>11. NotSpawned(i)'
  BY <1>3 DEF NotSpawned
<1>12. Supervised(i)'
  BY <1>1, <1>3, <1>5, <1>8 DEF Sound, Supervised
<1>13. OperationHeld(i)'
  BY <1>3, <1>4 DEF OperationHeld, Launching, WithResource
<1>14. EndTold(i)'
  BY <1>1, <1>3, <1>4, <1>5, <1>6, <1>8 DEF Sound, EndTold, State, AskedToEnd, Terminal
<1>15. RecordFollows(i)'
  BY <1>3, <1>7 DEF RecordFollows, State
<1>16. Completed(i)'
  BY <1>1, <1>2, <1>5, <1>7, <1>8 DEF Sound, RecordFollows, Completed, State, Terminal
<1>17. Agree(i)'
  BY <1>5, <1>7 DEF Agree, State
<1> QED
  BY <1>9, <1>10, <1>11, <1>12, <1>13, <1>14, <1>15, <1>16, <1>17, WritersKept DEF
     Preserves, Sound

\* The child takes the abort.
LEMMA LaunchCancelTakenPreserves ==
    ASSUME LifecycleInv, NEW i \in Session, LaunchCancelAnswered(i), launch'[i] = "awaiting"
    PROVE  Preserves(i)
<1>1. /\ Typed /\ Sound(i) /\ record[i] \in Record /\ op[i] \in {None} \cup Operation
      /\ inst[i] \in Instance
  BY TypedIsTypeOK DEF LifecycleInv, Typed
<1>2. /\ launch' \in [Session -> LaunchStep] /\ launch'[i] = "awaiting" /\ launch[i] = "cancelling"
      /\ \A j \in Session \ {i} : launch'[j] = launch[j]
  BY <1>1 DEF LaunchCancelAnswered, Typed, LaunchStep, Launching, State
<1>3. /\ record' = record /\ op' = op /\ child' = child /\ managed' = managed /\ cancel' = cancel
      /\ inst' = inst
  BY <1>1, <1>2 DEF LaunchCancelAnswered
<1>4. Typed'
  BY <1>1, <1>2, <1>3 DEF Typed
<1>5. Others(i) /\ NoNewWriter(i)
  BY <1>1, <1>2, <1>3 DEF Typed, Others, SameAt, NoNewWriter
<1>6. NotSpawned(i)'
  BY <1>1, <1>2, <1>3 DEF Sound, NotSpawned
<1>7. Supervised(i)'
  BY <1>1, <1>2, <1>3 DEF Sound, Supervised
<1>8. OperationHeld(i)'
  BY <1>1, <1>2, <1>3 DEF Sound, OperationHeld, Launching, WithResource
<1>9. EndTold(i)'
  BY <1>1, <1>3 DEF Sound, EndTold, State
<1>10. RecordFollows(i)'
  BY <1>1, <1>2, <1>3 DEF Sound, RecordFollows, State, Launching
<1>11. Completed(i)'
  BY <1>1, <1>2, <1>3 DEF Sound, Completed, State, WithResource
<1>12. Agree(i)'
  BY <1>1, <1>2, <1>3 DEF Sound, EndTold, Completed, Agree, State, AskedToEnd
<1> QED
  BY <1>4, <1>5, <1>6, <1>7, <1>8, <1>9, <1>10, <1>11, <1>12, WritersKept DEF Preserves,
     Sound

\* The child refuses the abort.
LEMMA LaunchCancelRefusedPreserves ==
    ASSUME LifecycleInv, NEW i \in Session, LaunchCancelAnswered(i), launch'[i] # "awaiting"
    PROVE  Preserves(i)
<1>1. /\ Typed /\ Sound(i) /\ record[i] \in Record /\ op[i] \in {None} \cup Operation
      /\ inst[i] \in Instance
  BY TypedIsTypeOK DEF LifecycleInv, Typed
<1>2. /\ launch' \in [Session -> LaunchStep] /\ launch'[i] = "stopping" /\ launch[i] = "cancelling"
      /\ \A j \in Session \ {i} : launch'[j] = launch[j]
  BY <1>1 DEF LaunchCancelAnswered, Typed, LaunchStep, Launching, State
<1>3. BeginStop(i, "launch") /\ "launch" \in Caller
  BY <1>1 DEF LaunchCancelAnswered, Caller, Typed
<1>4. StopBegun(i, "launch")
  BY <1>1, <1>3, BeginStopSets
<1>5. record' = record /\ op' = op /\ child' = child /\ cancel' = cancel
  BY <1>1, <1>2, <1>3, <1>4 DEF LaunchCancelAnswered
<1>6. Typed'
  BY <1>1, <1>2, <1>3, <1>4, <1>5 DEF Typed, StopBegun
<1>7. Others(i) /\ NoNewWriter(i)
  BY <1>2, <1>4, <1>5 DEF Others, SameAt, NoNewWriter, StopBegun
<1>8. NotSpawned(i)'
  BY <1>2 DEF NotSpawned
<1>9. Supervised(i)'
  BY <1>1, <1>4 DEF Sound, Supervised, StopBegun
<1>10. OperationHeld(i)'
  BY <1>1, <1>2, <1>5 DEF Sound, OperationHeld, Launching, WithResource
<1>11. EndTold(i)'
  BY <1>1, <1>2, <1>5 DEF Sound, EndTold, State
<1>12. RecordFollows(i)'
  BY <1>1, <1>2, <1>5 DEF Sound, RecordFollows, State, Launching
<1>13. Completed(i)'
  BY <1>1, <1>2, <1>4 DEF Sound, Completed, WithResource, StopBegun
<1>14. Agree(i)'
  BY DEF Agree
<1> QED
  BY <1>6, <1>7, <1>8, <1>9, <1>10, <1>11, <1>12, <1>13, <1>14, WritersKept DEF Preserves,
     Sound

\* A stop of a session with a resource.
LEMMA StopRunningPreserves ==
    ASSUME LifecycleInv, NEW i \in Session, NEW c \in Stopper, Stop(i, c), op[i] # None, op[i].resource
    PROVE  Preserves(i)
<1>1. /\ Typed /\ Sound(i) /\ record[i] \in Record /\ op[i] \in {None} \cup Operation
      /\ inst[i] \in Instance
  BY TypedIsTypeOK DEF LifecycleInv, Typed
<1>2. c \in Caller /\ record[i].state \notin Terminal \cup {"none"}
  BY DEF Stop, Caller, State
<1>3. /\ record' \in [Session -> Record] /\ record'[i].state = ("CANCEL_REQUESTED")
      /\ \A j \in Session \ {i} : record'[j] = record[j]
  BY <1>1, TransitionToSets DEF Stop, LifecycleState, Typed
<1>4. /\ op' \in [Session -> {None} \cup Operation] /\ (op'[i] = None <=> op[i] = None)
      /\ op[i] # None => op'[i].stop = TRUE /\ op'[i].resource = op[i].resource /\ op'[i].cancel = op[i].cancel
      /\ \A j \in Session \ {i} : op'[j] = op[j]
  <2>1. CASE op[i] = None
    BY <1>1, <2>1 DEF Stop, Typed
  <2>2. CASE op[i] # None
    <3> DEFINE o == [op[i] EXCEPT !.stop = TRUE]
    <3>1. op' = [op EXCEPT ![i] = o] /\ op[i] \in Operation
      BY <1>1, <2>2 DEF Stop
    <3>2. o \in Operation /\ o.stop = TRUE /\ o.resource = op[i].resource /\ o.cancel = op[i].cancel
      BY <3>1 DEF Operation
    <3> HIDE DEF o
    <3> QED
      BY <1>1, <2>2, <3>1, <3>2, SessionLifecycleAssumption DEF Typed
  <2> QED
    BY <2>1, <2>2
<1>5. BeginStop(i, c)
  BY DEF Stop
<1>6. StopBegun(i, c)
  BY <1>1, <1>2, <1>5, BeginStopSets
<1>7. launch[i] \in WithResource /\ (~inst[i].live => inst[i].completion # None)
  BY <1>1 DEF Sound, OperationHeld, Completed
<1>8. launch' = launch /\ child' = child /\ cancel' = cancel
  BY <1>1 DEF Stop
<1>9. Typed'
  BY <1>1, <1>3, <1>4, <1>6, <1>8 DEF Typed, StopBegun
<1>10. Others(i) /\ NoNewWriter(i)
  BY <1>3, <1>4, <1>6, <1>8 DEF Others, SameAt, NoNewWriter, StopBegun
<1>11. NotSpawned(i)'
  BY <1>1, <1>7, <1>8 DEF Sound, NotSpawned
<1>12. Supervised(i)'
  BY <1>1, <1>6 DEF Sound, Supervised, StopBegun
<1>13. OperationHeld(i)'
  BY <1>1, <1>4, <1>8 DEF Sound, OperationHeld
<1>14. EndTold(i)'
  BY <1>3 DEF EndTold, State, AskedToEnd
<1>15. RecordFollows(i)'
  BY <1>1, <1>2, <1>3, <1>4, <1>8 DEF Sound, RecordFollows, State, AskedToEnd
<1>16. Completed(i)'
  <2>1. /\ launch'[i] \in WithResource /\ inst'[i].live = inst[i].live
        /\ inst'[i].completion = inst[i].completion
    BY <1>6, <1>7, <1>8 DEF StopBegun
  <2>2. ASSUME launch[i] \in {"cancelling", "awaiting"}, inst[i].completion = None, NEW d \in Caller
        PROVE  managed'[i][d] \notin {"returned", "done"}
    <3>1. CASE d = c
      BY <1>6, <1>7, <2>2, <3>1 DEF StopBegun
    <3>2. CASE d # c
      BY <1>1, <1>6, <2>2, <3>2 DEF StopBegun, Sound, Completed
    <3> QED
      BY <3>1, <3>2
  <2>3. State(i)' \notin Terminal
    BY <1>3 DEF State, Terminal
  <2> QED
    BY <1>7, <1>8, <2>1, <2>2, <2>3 DEF Completed
<1>17. Agree(i)'
  BY <1>3 DEF Agree, State
<1> QED
  BY <1>9, <1>10, <1>11, <1>12, <1>13, <1>14, <1>15, <1>16, <1>17, WritersKept DEF
     Preserves, Sound

\* A stop before there is a resource.
LEMMA StopLaunchingPreserves ==
    ASSUME LifecycleInv, NEW i \in Session, NEW c \in Stopper, Stop(i, c), ~(op[i] # None /\ op[i].resource)
    PROVE  Preserves(i)
<1>1. /\ Typed /\ Sound(i) /\ record[i] \in Record /\ op[i] \in {None} \cup Operation
      /\ inst[i] \in Instance
  BY TypedIsTypeOK DEF LifecycleInv, Typed
<1>2. c \in Caller /\ record[i].state \notin Terminal \cup {"none"}
  BY DEF Stop, Caller, State
<1>3. /\ record' \in [Session -> Record] /\ record'[i].state = ("CANCEL_REQUESTED")
      /\ \A j \in Session \ {i} : record'[j] = record[j]
  BY <1>1, TransitionToSets DEF Stop, LifecycleState, Typed
<1>4. /\ op' \in [Session -> {None} \cup Operation] /\ (op'[i] = None <=> op[i] = None)
      /\ op[i] # None => op'[i].stop = TRUE /\ op'[i].resource = op[i].resource /\ op'[i].cancel = op[i].cancel
      /\ \A j \in Session \ {i} : op'[j] = op[j]
  <2>1. CASE op[i] = None
    BY <1>1, <2>1 DEF Stop, Typed
  <2>2. CASE op[i] # None
    <3> DEFINE o == [op[i] EXCEPT !.stop = TRUE]
    <3>1. op' = [op EXCEPT ![i] = o] /\ op[i] \in Operation
      BY <1>1, <2>2 DEF Stop
    <3>2. o \in Operation /\ o.stop = TRUE /\ o.resource = op[i].resource /\ o.cancel = op[i].cancel
      BY <3>1 DEF Operation
    <3> HIDE DEF o
    <3> QED
      BY <1>1, <2>2, <3>1, <3>2, SessionLifecycleAssumption DEF Typed
  <2> QED
    BY <2>1, <2>2
<1>5. /\ managed' \in [Session -> [Caller -> StopStep]] /\ managed'[i][c] = "returned"
      /\ (\A d \in Caller \ {c} : managed'[i][d] = managed[i][d])
      /\ \A j \in Session \ {i} : managed'[j] = managed[j]
  <2> DEFINE m == [managed[i] EXCEPT ![c] = "returned"]
  <2>1. managed' = [managed EXCEPT ![i] = m] /\ managed[i] \in [Caller -> StopStep]
    BY <1>1 DEF Stop, Typed
  <2>2. /\ m \in [Caller -> StopStep] /\ m[c] = "returned"
        /\ \A d \in Caller \ {c} : m[d] = managed[i][d]
    BY <2>1 DEF StopStep, Caller
  <2> HIDE DEF m
  <2> QED
    BY <1>1, <2>1, <2>2 DEF Typed
<1>6. launch' = launch /\ child' = child /\ cancel' = cancel /\ inst' = inst
  BY <1>1, <1>2, <1>3, <1>4, <1>5 DEF Stop
<1>7. Typed'
  BY <1>1, <1>2, <1>3, <1>4, <1>5, <1>6 DEF Typed
<1>8. Others(i) /\ NoNewWriter(i)
  BY <1>3, <1>4, <1>5, <1>6 DEF Others, SameAt, NoNewWriter
<1>9. NotSpawned(i)'
  BY <1>1, <1>5, <1>6 DEF Sound, NotSpawned
<1>10. Supervised(i)'
  BY <1>1, <1>5, <1>6 DEF Sound, Supervised
<1>11. OperationHeld(i)'
  BY <1>1, <1>4, <1>6 DEF Sound, OperationHeld
<1>12. EndTold(i)'
  BY <1>3 DEF EndTold, State, AskedToEnd
<1>13. RecordFollows(i)'
  BY <1>1, <1>2, <1>3, <1>4, <1>6 DEF Sound, OperationHeld, RecordFollows, State, Launching,
     AskedToEnd
<1>14. Completed(i)'
  BY <1>1, <1>6 DEF Sound, OperationHeld, Completed, Launching, WithResource
<1>15. Agree(i)'
  BY <1>3 DEF Agree, State
<1> QED
  BY <1>7, <1>8, <1>9, <1>10, <1>11, <1>12, <1>13, <1>14, <1>15, WritersKept DEF Preserves,
     Sound

\* A cancellation before runLaunch.
LEMMA CancelPendingPreserves ==
    ASSUME LifecycleInv, NEW i \in Session, Cancel(i), State(i) = "PENDING"
    PROVE  Preserves(i)
<1>1. /\ Typed /\ Sound(i) /\ record[i] \in Record /\ op[i] \in {None} \cup Operation
      /\ inst[i] \in Instance
  BY TypedIsTypeOK DEF LifecycleInv, Typed
<1>2. op[i] = None /\ launch[i] \notin Launching
  BY <1>1 DEF Sound, RecordFollows, OperationHeld, State
<1>3. /\ record' \in [Session -> Record] /\ record'[i].state = ("CANCEL_REQUESTED")
      /\ \A j \in Session \ {i} : record'[j] = record[j]
  BY <1>1, <1>2, TransitionSets DEF Cancel, LifecycleState, Typed
<1>4. /\ cancel' \in [Session -> CancelStep] /\ cancel'[i] = "done"
      /\ \A j \in Session \ {i} : cancel'[j] = cancel[j]
  BY <1>1, <1>2 DEF Cancel, Typed, CancelStep, State
<1>5. op' = op /\ launch' = launch /\ inst' = inst /\ child' = child /\ managed' = managed
  BY <1>1, <1>2, <1>3, <1>4 DEF Cancel
<1>6. Typed'
  BY <1>1, <1>2, <1>3, <1>4, <1>5 DEF Typed
<1>7. Others(i) /\ NoNewWriter(i)
  BY <1>3, <1>4, <1>5 DEF Others, SameAt, NoNewWriter
<1>8. NotSpawned(i)'
  BY <1>1, <1>2, <1>3, <1>4, <1>5 DEF Sound, NotSpawned
<1>9. Supervised(i)'
  BY <1>1, <1>2, <1>3, <1>4, <1>5 DEF Sound, Supervised
<1>10. OperationHeld(i)'
  BY <1>2, <1>4, <1>5 DEF OperationHeld
<1>11. EndTold(i)'
  BY <1>3 DEF EndTold, State, AskedToEnd
<1>12. RecordFollows(i)'
  BY <1>1, <1>3, <1>5 DEF Sound, RecordFollows, State, AskedToEnd, Terminal
<1>13. Completed(i)'
  BY <1>1, <1>3, <1>5 DEF Sound, Completed, State, Terminal
<1>14. Agree(i)'
  BY <1>1, <1>5 DEF Sound, Agree
<1> QED
  BY <1>6, <1>7, <1>8, <1>9, <1>10, <1>11, <1>12, <1>13, <1>14, WritersKept DEF Preserves,
     Sound

\* A cancellation while the session launches.
LEMMA CancelLaunchingPreserves ==
    ASSUME LifecycleInv, NEW i \in Session, Cancel(i), State(i) # "PENDING", op[i] # None, ~op[i].resource
    PROVE  Preserves(i)
<1>1. /\ Typed /\ Sound(i) /\ record[i] \in Record /\ op[i] \in {None} \cup Operation
      /\ inst[i] \in Instance
  BY TypedIsTypeOK DEF LifecycleInv, Typed
<1>2. op[i] \in Operation
  BY <1>1
<1>3. /\ record' \in [Session -> Record] /\ record'[i].state = ("CANCEL_REQUESTED")
      /\ \A j \in Session \ {i} : record'[j] = record[j]
  BY <1>1, <1>2, TransitionToSets DEF Cancel, LifecycleState, Typed
<1>4. /\ cancel' \in [Session -> CancelStep] /\ cancel'[i] = "done"
      /\ \A j \in Session \ {i} : cancel'[j] = cancel[j]
  BY <1>1, <1>2 DEF Cancel, Typed, CancelStep, State
<1>5. /\ op' \in [Session -> {None} \cup Operation] /\ op'[i] # None /\ op'[i].cancel = TRUE
      /\ op'[i].resource = op[i].resource /\ op'[i].stop = op[i].stop
      /\ \A j \in Session \ {i} : op'[j] = op[j]
  <2> DEFINE o == [op[i] EXCEPT !.cancel = TRUE]
  <2>1. op' = [op EXCEPT ![i] = o]
    BY <1>2 DEF Cancel
  <2>2. o \in Operation /\ o.cancel = TRUE /\ o.resource = op[i].resource /\ o.stop = op[i].stop
    BY <1>2 DEF Operation
  <2> HIDE DEF o
  <2> QED
    BY <1>1, <2>1, <2>2, SessionLifecycleAssumption DEF Typed
<1>6. launch' = launch /\ inst' = inst /\ child' = child /\ managed' = managed
  BY <1>1, <1>2, <1>3, <1>4, <1>5 DEF Cancel
<1>7. Typed'
  BY <1>1, <1>2, <1>3, <1>4, <1>5, <1>6 DEF Typed
<1>8. Others(i) /\ NoNewWriter(i)
  BY <1>3, <1>4, <1>5, <1>6 DEF Others, SameAt, NoNewWriter
<1>9. NotSpawned(i)'
  BY <1>1, <1>6 DEF Sound, NotSpawned
<1>10. Supervised(i)'
  BY <1>1, <1>6 DEF Sound, Supervised
<1>11. OperationHeld(i)'
  BY <1>1, <1>4, <1>5, <1>6 DEF Sound, OperationHeld
<1>12. EndTold(i)'
  BY <1>3 DEF EndTold, State, AskedToEnd
<1>13. RecordFollows(i)'
  BY <1>1, <1>3, <1>5, <1>6 DEF Sound, OperationHeld, RecordFollows, State, Launching,
     Terminal
<1>14. Completed(i)'
  BY <1>1, <1>3, <1>6 DEF Sound, Completed, State, Terminal
<1>15. Agree(i)'
  BY <1>3 DEF Agree, State
<1> QED
  BY <1>7, <1>8, <1>9, <1>10, <1>11, <1>12, <1>13, <1>14, <1>15, WritersKept DEF Preserves,
     Sound

\* A cancellation of a session with a resource.
LEMMA CancelRunningPreserves ==
    ASSUME LifecycleInv, NEW i \in Session, Cancel(i), State(i) # "PENDING", op[i] # None, op[i].resource
    PROVE  Preserves(i)
<1>1. /\ Typed /\ Sound(i) /\ record[i] \in Record /\ op[i] \in {None} \cup Operation
      /\ inst[i] \in Instance
  BY TypedIsTypeOK DEF LifecycleInv, Typed
<1>2. op[i] \in Operation
  BY <1>1
<1>3. /\ cancel' \in [Session -> CancelStep] /\ cancel'[i] = "aborting"
      /\ \A j \in Session \ {i} : cancel'[j] = cancel[j]
  BY <1>1, <1>2 DEF Cancel, Typed, CancelStep, State
<1>4. /\ record' = record /\ op' = op /\ launch' = launch /\ inst' = inst /\ child' = child
      /\ managed' = managed
  BY <1>1, <1>2, <1>3 DEF Cancel
<1>5. Typed'
  BY <1>1, <1>2, <1>3, <1>4 DEF Typed
<1>6. Others(i) /\ NoNewWriter(i)
  BY <1>3, <1>4 DEF Others, SameAt, NoNewWriter
<1>7. NotSpawned(i)'
  BY <1>1, <1>2, <1>3, <1>4 DEF Sound, NotSpawned
<1>8. Supervised(i)'
  BY <1>1, <1>2, <1>3, <1>4 DEF Sound, Supervised
<1>9. OperationHeld(i)'
  BY <1>1, <1>4 DEF Sound, OperationHeld
<1>10. EndTold(i)'
  BY <1>1, <1>4 DEF Sound, EndTold, State
<1>11. RecordFollows(i)'
  BY <1>1, <1>4 DEF Sound, RecordFollows, State
<1>12. Completed(i)'
  BY <1>1, <1>4 DEF Sound, Completed, State
<1>13. Agree(i)'
  BY <1>1, <1>2, <1>3, <1>4 DEF Sound, Agree, State
<1> QED
  BY <1>5, <1>6, <1>7, <1>8, <1>9, <1>10, <1>11, <1>12, <1>13, WritersKept DEF Preserves,
     Sound

\* The abort of a cancellation is answered.
LEMMA CancelAnsweredPreserves ==
    ASSUME LifecycleInv, NEW i \in Session, CancelAnswered(i)
    PROVE  Preserves(i)
<1>1. /\ Typed /\ Sound(i) /\ record[i] \in Record /\ op[i] \in {None} \cup Operation
      /\ inst[i] \in Instance
  BY TypedIsTypeOK DEF LifecycleInv, Typed
<1>2. cancel[i] = "aborting"
  BY DEF CancelAnswered
<1>3. /\ cancel' \in [Session -> CancelStep] /\ cancel'[i] = "done"
      /\ \A j \in Session \ {i} : cancel'[j] = cancel[j]
  BY <1>1, <1>2 DEF CancelAnswered, Typed, CancelStep, State
<1>4. /\ record' \in [Session -> Record] /\ \A j \in Session \ {i} : record'[j] = record[j]
      /\ \/ record'[i].state = record[i].state
         \/ record[i].state \notin Terminal /\ record'[i].state = "CANCEL_REQUESTED"
  <2>1. CASE record' = record
    BY <1>1, <2>1 DEF Typed
  <2>2. CASE State(i) \notin Terminal /\ TransitionTo(i, "CANCEL_REQUESTED")
    BY <1>1, <2>2, TransitionToSets DEF LifecycleState, State, Typed
  <2> QED
    BY <2>1, <2>2 DEF CancelAnswered
<1>5. op' = op /\ launch' = launch /\ inst' = inst /\ child' = child /\ managed' = managed
  BY DEF CancelAnswered
<1>6. Typed'
  BY <1>1, <1>2, <1>3, <1>4, <1>5 DEF Typed
<1>7. Others(i) /\ NoNewWriter(i)
  BY <1>3, <1>4, <1>5 DEF Others, SameAt, NoNewWriter
<1>8. NotSpawned(i)'
  BY <1>1, <1>2, <1>3, <1>4, <1>5 DEF Sound, NotSpawned
<1>9. Supervised(i)'
  BY <1>1, <1>2, <1>3, <1>4, <1>5 DEF Sound, Supervised
<1>10. OperationHeld(i)'
  BY <1>1, <1>2, <1>5 DEF Sound, OperationHeld
<1>11. EndTold(i)'
  BY <1>1, <1>4, <1>5 DEF Sound, EndTold, State, AskedToEnd
<1>12. RecordFollows(i)'
  BY <1>1, <1>2, <1>4, <1>5 DEF Sound, OperationHeld, RecordFollows, State, WithResource
<1>13. Completed(i)'
  BY <1>1, <1>4, <1>5 DEF Sound, Completed, State, Terminal
<1>14. Agree(i)'
  BY <1>1, <1>4, <1>5 DEF Sound, Agree, State
<1> QED
  BY <1>6, <1>7, <1>8, <1>9, <1>10, <1>11, <1>12, <1>13, <1>14, WritersKept DEF Preserves,
     Sound

\* A launched session writes a worktree no supervised session writes.
LEMMA RunLaunchPreserves ==
    ASSUME LifecycleInv, NEW i \in Session, RunLaunch(i)
    PROVE  Preserves(i)
<1>1. /\ Typed /\ Sound(i) /\ record[i] \in Record /\ op[i] \in {None} \cup Operation
      /\ inst[i] \in Instance
  BY TypedIsTypeOK DEF LifecycleInv, Typed
<1>2. /\ record' \in [Session -> Record] /\ record'[i].state = ("STARTING")
      /\ \A j \in Session \ {i} : record'[j] = record[j]
  BY <1>1, TransitionSets DEF RunLaunch, StartLaunch, LifecycleState, Typed
<1>3. /\ op' \in [Session -> {None} \cup Operation]
      /\ op'[i] = [resource |-> FALSE, cancel |-> FALSE, stop |-> FALSE] /\ op'[i] # None
      /\ \A j \in Session \ {i} : op'[j] = op[j]
  <2> DEFINE o == [resource |-> FALSE, cancel |-> FALSE, stop |-> FALSE]
  <2>1. op' = [op EXCEPT ![i] = o]
    BY DEF RunLaunch, StartLaunch
  <2>2. o \in Operation
    BY DEF Operation
  <2>3. o # None
    <3> HIDE DEF o
    <3> QED
      BY <2>2, SessionLifecycleAssumption
  <2> QED
    BY <1>1, <2>1, <2>2, <2>3 DEF Typed
<1>4. PICK tree \in Worktree \cup {None}, parent \in (Session \ {i}) \cup {None}, started \in BOOLEAN :
         /\ Admits(tree, parent)
         /\ launch' = [launch EXCEPT ![i] = IF started THEN "syncing" ELSE "failing"]
         /\ inst' = [inst EXCEPT
              ![i].status = IF started THEN "starting" ELSE "error",
              ![i].live = TRUE, ![i].rpc = started, ![i].writes = tree]
         /\ child' = [child EXCEPT ![i] = IF started THEN "running" ELSE "none"]
  BY DEF RunLaunch
<1>5. /\ launch[i] = "queued" /\ record[i].state = "PENDING" /\ launch' \in [Session -> LaunchStep]
      /\ launch'[i] = (IF started THEN "syncing" ELSE "failing")
      /\ \A j \in Session \ {i} : launch'[j] = launch[j]
  BY <1>1, <1>4 DEF RunLaunch, StartLaunch, Typed, LaunchStep, Launching, State
<1>6. child' \in [Session -> Child]
  BY <1>1, <1>4 DEF Typed, Child
<1>7. /\ inst' \in [Session -> Instance]
      /\ inst'[i].status = (IF started THEN "starting" ELSE "error") /\ inst'[i].live = TRUE
      /\ inst'[i].rpc = started /\ inst'[i].writes = tree /\ inst'[i].ui = inst[i].ui
      /\ inst'[i].owner = inst[i].owner /\ inst'[i].departing = inst[i].departing
      /\ inst'[i].identified = inst[i].identified /\ inst'[i].completion = inst[i].completion
      /\ \A j \in Session \ {i} : inst'[j] = inst[j]
  <2> DEFINE n == [inst[i] EXCEPT !.status = (IF started THEN "starting" ELSE "error"), !.live = TRUE, !.rpc = started, !.writes = tree]
  <2>1. inst' = [inst EXCEPT ![i] = n]
    BY <1>1, <1>4 DEF Typed
  <2>2. /\ n \in Instance /\ n.status = (IF started THEN "starting" ELSE "error") /\ n.live = TRUE
        /\ n.rpc = started /\ n.writes = tree /\ n.ui = inst[i].ui /\ n.owner = inst[i].owner
        /\ n.departing = inst[i].departing /\ n.identified = inst[i].identified
        /\ n.completion = inst[i].completion
    BY <1>1, <1>4 DEF Instance, Statuses
  <2> HIDE DEF n
  <2> QED
    BY <1>1, <2>1, <2>2 DEF Typed
<1>8. managed' = managed /\ cancel' = cancel
  BY DEF RunLaunch, StartLaunch
<1>9. Typed'
  BY <1>1, <1>2, <1>3, <1>5, <1>6, <1>7, <1>8 DEF Typed
<1>10. Others(i)
  BY <1>2, <1>3, <1>4, <1>7, <1>8 DEF Others, SameAt
<1>11. OneWriter'
  <2>1. ASSUME NEW j \in Session \ {i}, inst[j].rpc, tree # None PROVE inst[j].writes # tree
    <3>1. Active(j)
      BY <1>1, <2>1 DEF LifecycleInv, Sound, Supervised, Active, Typed
    <3> QED
      <4>1. CASE j = parent
        BY <1>4, <2>1, <3>1, <4>1, SessionLifecycleAssumption DEF Admits
      <4>2. CASE j # parent
        BY <1>4, <2>1, <3>1, <4>2 DEF Admits
      <4> QED
        BY <4>1, <4>2
  <2>2. SUFFICES ASSUME NEW j \in Session, NEW k \in Session, j # k, inst'[j].rpc, inst'[k].rpc, inst'[j].writes # None
                 PROVE  inst'[j].writes # inst'[k].writes
    BY DEF OneWriter
  <2>3. CASE j = i
    BY <1>7, <2>1, <2>2, <2>3
  <2>4. CASE k = i
    BY <1>7, <2>1, <2>2, <2>4
  <2>5. CASE j # i /\ k # i
    BY <1>7, <2>2, <2>5 DEF LifecycleInv, OneWriter
  <2> QED
    BY <2>3, <2>4, <2>5
<1>12. NotSpawned(i)'
  BY <1>5 DEF NotSpawned
<1>13. Supervised(i)'
  BY <1>1, <1>5, <1>7, <1>8 DEF Sound, NotSpawned, Supervised
<1>14. OperationHeld(i)'
  BY <1>1, <1>3, <1>5, <1>8 DEF Sound, OperationHeld, Launching, WithResource
<1>15. EndTold(i)'
  BY <1>1, <1>3, <1>5, <1>7, <1>8 DEF Sound, EndTold, State, AskedToEnd, Terminal
<1>16. RecordFollows(i)'
  BY <1>1, <1>2, <1>5, <1>8 DEF Sound, EndTold, RecordFollows, State, AskedToEnd, Terminal
<1>17. Completed(i)'
  BY <1>5, <1>7 DEF Completed
<1>18. Agree(i)'
  BY <1>5 DEF Agree
<1> QED
  BY <1>9, <1>10, <1>11, <1>12, <1>13, <1>14, <1>15, <1>16, <1>17, <1>18 DEF Preserves,
     Sound

-----------------------------------------------------------------------------
(* The invariant.                                                          *)

\* It holds before anything was asked for.
LEMMA InitSound == Init => LifecycleInv
<1> SUFFICES ASSUME Init PROVE LifecycleInv
  OBVIOUS
<1> DEFINE n == [status |-> "none", live |-> FALSE, rpc |-> FALSE, writes |-> None, ui |-> FALSE, owner |-> FALSE,
                 departing |-> FALSE, identified |-> TRUE, completion |-> None]
<1>1. n \in Instance
  BY DEF Instance, Statuses
<1>2. Typed
  <2>1. inst \in [Session -> Instance] /\ \A i \in Session : inst[i] = n
    <3>1. inst = [i \in Session |-> n]
      BY DEF Init
    <3> HIDE DEF n
    <3> QED
      BY <1>1, <3>1
  <2>2. \A i \in Session : inst[i].rpc => inst[i].live
    BY <2>1
  <2> HIDE DEF n
  <2> QED
    BY <2>1 DEF Init, Typed, Record, LaunchStep, StopStep, Child, CancelStep
<1>3. TypeOK
  BY <1>2, TypedIsTypeOK
<1>4. OneWriter
  BY DEF Init, OneWriter
<1>5. ASSUME NEW i \in Session PROVE Sound(i)
  <2>1. /\ launch[i] = "none" /\ op[i] = None /\ State(i) = "none" /\ cancel[i] = "idle"
        /\ ~inst[i].rpc /\ ~inst[i].live /\ ~inst[i].owner /\ ~inst[i].departing /\ inst[i].completion = None
        /\ \A c \in Caller : managed[i][c] = "idle"
    BY DEF Init, State
  <2> QED
    BY <2>1, SessionLifecycleAssumption DEF Sound, NotSpawned, Supervised, OperationHeld,
       EndTold, RecordFollows, Completed, Agree, Launching, WithResource, Completion
<1> QED
  BY <1>3, <1>4, <1>5 DEF LifecycleInv

\* The cases of an action that has several.
LEMMA RegisteredPreserves ==
    ASSUME LifecycleInv, NEW i \in Session, Registered(i)
    PROVE  Preserves(i)
BY RegisteredStopPreserves, RegisteredCancelPreserves, RegisteredRunPreserves

\* The child takes the abort or refuses it.
LEMMA LaunchCancelAnsweredPreserves ==
    ASSUME LifecycleInv, NEW i \in Session, LaunchCancelAnswered(i)
    PROVE  Preserves(i)
BY LaunchCancelTakenPreserves, LaunchCancelRefusedPreserves

\* The session has a resource or not.
LEMMA StopPreserves ==
    ASSUME LifecycleInv, NEW i \in Session, NEW c \in Stopper, Stop(i, c)
    PROVE  Preserves(i)
BY StopRunningPreserves, StopLaunchingPreserves

\* The session is queued, launches or runs.
LEMMA CancelPreserves ==
    ASSUME LifecycleInv, NEW i \in Session, Cancel(i)
    PROVE  Preserves(i)
<1>1. CASE State(i) = "PENDING"
  BY <1>1, CancelPendingPreserves
<1>2. CASE State(i) # "PENDING"
  <2>1. op[i] # None
    BY <1>2 DEF Cancel
  <2> QED
    BY <1>2, <2>1, CancelLaunchingPreserves, CancelRunningPreserves
<1> QED
  BY <1>1, <1>2

\* A continuation preserves the invariant.
LEMMA MicrotaskPreserves ==
    ASSUME LifecycleInv, NEW i \in Session, Microtask(i)
    PROVE  Preserves(i)
BY LaunchThrowsPreserves, LaunchStoppedPreserves, SessionEndsPreserves, StopReturnsPreserves
   DEF Microtask

\* So does an event.
LEMMA EventPreserves ==
    ASSUME LifecycleInv, NEW i \in Session, Event(i)
    PROVE  Preserves(i)
<1>1. CASE RunLaunchCancelled(i) \/ RunLaunchRefused(i) \/ RunLaunch(i)
  BY <1>1, RunLaunchCancelledPreserves, RunLaunchRefusedPreserves, RunLaunchPreserves
<1>2. CASE Synced(i) \/ SpawnThrows(i) \/ FailSpawn(i)
  BY <1>2, SyncedPreserves, SpawnThrowsPreserves, FailSpawnPreserves
<1>3. CASE Registered(i) \/ RegisteredIncomplete(i) \/ LaunchCancelAnswered(i)
  BY <1>3, RegisteredPreserves, RegisteredIncompletePreserves, LaunchCancelAnsweredPreserves
<1>4. CASE CancelAnswered(i) \/ RpcExit(i) \/ PresenceDisconnected(i) \/ \E c \in Caller : StopManaged(i, c)
  BY <1>4, CancelAnsweredPreserves, RpcExitPreserves, PresenceDisconnectedPreserves,
     StopManagedPreserves
<1> QED
  BY <1>1, <1>2, <1>3, <1>4 DEF Event

\* And what is asked of a session.
LEMMA RequestPreserves ==
    ASSUME LifecycleInv, NEW i \in Session, Request(i) \/ ChildDies(i) \/ UiRequest(i)
    PROVE  Preserves(i)
<1>1. CASE Spawn(i) \/ Cancel(i) \/ \E c \in Stopper : Stop(i, c)
  BY <1>1, SpawnPreserves, CancelPreserves, StopPreserves
<1>2. CASE Attach(i) \/ UiResponse(i) \/ Detach(i)
  BY <1>2, AttachPreserves, UiResponsePreserves, DetachPreserves
<1>3. CASE ChildDies(i) \/ UiRequest(i)
  BY <1>3, ChildDiesPreserves, UiRequestPreserves
<1> QED
  BY <1>1, <1>2, <1>3 DEF Request

\* Every step preserves it.
LEMMA StepSound ==
    ASSUME LifecycleInv, [Next]_vars
    PROVE  LifecycleInv'
<1>1. CASE Next
  <2>1. PICK i \in Session : Microtask(i) \/ Event(i) \/ Request(i) \/ ChildDies(i) \/ UiRequest(i)
    BY <1>1 DEF Next
  <2>2. Preserves(i)
    BY <2>1, MicrotaskPreserves, EventPreserves, RequestPreserves
  <2> QED
    BY <2>2, OneSession
<1>2. CASE UNCHANGED vars
  <2>1. TypeOK' /\ OneWriter'
    BY <1>2 DEF LifecycleInv, TypeOK, OneWriter, vars
  <2>2. ASSUME NEW j \in Session PROVE Sound(j)'
    BY <1>2, SoundKept DEF LifecycleInv, SameAt, vars
  <2> QED
    BY <2>1, <2>2 DEF LifecycleInv
<1> QED
  BY <1>1, <1>2

(* LifecycleInv holds of every reachable state.                            *)
THEOREM LifecycleInvHolds == Spec => []LifecycleInv
<1>1. Init => LifecycleInv
  BY InitSound
<1>2. LifecycleInv /\ [Next]_vars => LifecycleInv'
  BY StepSound
<1> QED
  BY <1>1, <1>2, PTL DEF Spec

\* Without a settled continuation, an awaiting session has no completion, and
\* Agree says what its instance shows.
LEMMA InvProjects == LifecycleInv => SessionsConsistent
<1> SUFFICES ASSUME LifecycleInv PROVE ProjectionConsistent
  BY DEF SessionsConsistent, LifecycleInv
<1> SUFFICES ASSUME NEW i \in Session, launch[i] = "awaiting", ~Settled(i), ~inst[i].owner,
                    State(i) # "CANCEL_REQUESTED"
             PROVE  InstanceLifecycleState(inst[i].status) = State(i)
  BY DEF ProjectionConsistent
<1>1. inst[i].completion = None
  BY DEF Settled
<1>2. /\ State(i) = IF inst[i].ui THEN "WAITING_INPUT" ELSE "RUNNING"
      /\ ~inst[i].ui => inst[i].status = "online"
      /\ inst[i].ui => inst[i].status = "waiting-input"
  BY <1>1 DEF LifecycleInv, Sound, Agree
<1>3. CASE inst[i].ui
  BY <1>2, <1>3 DEF InstanceLifecycleState
<1>4. CASE ~inst[i].ui
  BY <1>2, <1>4 DEF InstanceLifecycleState
<1> QED
  BY <1>3, <1>4

(* No two supervised sessions write one worktree, and the lifecycle record  *)
(* and the instance of a session that nobody has cancelled agree while no   *)
(* owner is attached: workspace-safety.ts admits by status and supervisor.ts *)
(* updates the two state machines separately.                               *)
THEOREM SessionsConsistentHolds == Spec => []SessionsConsistent
BY LifecycleInvHolds, InvProjects, PTL

-----------------------------------------------------------------------------
(* The moves of the record.                                                *)

LegalMove(i) ==
    \/ record'[i].state = record[i].state
    \/ record[i].state = "none"
    \/ record'[i].state \in LegalTransitions[record[i].state]

\* What LEGAL_TRANSITIONS allows.
LEMMA TransitionTable ==
    /\ LegalTransitions["PENDING"] = {"STARTING", "CANCEL_REQUESTED", "FAILED"}
    /\ LegalTransitions["STARTING"] = {"RUNNING", "WAITING_INPUT", "CANCEL_REQUESTED", "FAILED", "INTERRUPTED"}
    /\ LegalTransitions["RUNNING"] = {"WAITING_INPUT", "CANCEL_REQUESTED", "SUCCEEDED", "FAILED", "INTERRUPTED"}
    /\ LegalTransitions["WAITING_INPUT"] = {"RUNNING", "CANCEL_REQUESTED", "SUCCEEDED", "FAILED", "INTERRUPTED"}
    /\ LegalTransitions["CANCEL_REQUESTED"] = Terminal
BY DEF LegalTransitions, LifecycleState, Terminal

\* From every state without a result a session may fail or be cancelled.
LEMMA AlwaysLegal ==
    ASSUME NEW s \in LifecycleState \ Terminal
    PROVE  "FAILED" \in LegalTransitions[s] /\ (s = "CANCEL_REQUESTED" \/ "CANCEL_REQUESTED" \in LegalTransitions[s])
BY TransitionTable DEF LifecycleState, Terminal

\* The continuations: a result is legal because the end was told before, or
\* because it is a failure.
LEMMA MicrotaskLegal ==
    ASSUME LifecycleInv, NEW i \in Session, Microtask(i)
    PROVE  LegalMove(i)
<1>1. Typed /\ Sound(i) /\ record[i].state \in LifecycleState \cup {"none"} /\ inst[i] \in Instance
  BY TypedIsTypeOK DEF LifecycleInv, Typed, Record
<1>2. CASE LaunchThrows(i)
  <2>1. record'[i].state = IF record[i].state \in Terminal THEN record[i].state ELSE "FAILED"
    BY <1>1, <1>2, UnlessOverSets DEF LaunchThrows, LifecycleState, Terminal, Typed
  <2> QED
    BY <1>1, <2>1, AlwaysLegal DEF LegalMove
<1>3. CASE LaunchStopped(i)
  <2>1. record'[i].state = IF record[i].state \in Terminal THEN record[i].state ELSE "CANCELLED"
    BY <1>1, <1>3, UnlessOverSets DEF LaunchStopped, LifecycleState, Terminal, Typed
  <2>2. record[i].state \in AskedToEnd
    BY <1>1, <1>3 DEF LaunchStopped, Sound, EndTold, State
  <2> QED
    BY <2>1, <2>2, TransitionTable DEF LegalMove, AskedToEnd, Terminal
<1>4. CASE SessionEnds(i)
  <2> DEFINE s == NormalizeCompletionState(State(i), inst[i].completion)
  <2>1. inst[i].completion \in Completion
    BY <1>1, <1>4 DEF SessionEnds, Instance
  <2>2. s = inst[i].completion /\ UnlessOver(i, s)
    BY <1>4, <2>1 DEF SessionEnds, NormalizeCompletionState, Completion
  <2>3. s \in LifecycleState
    BY <2>1, <2>2 DEF LifecycleState, Terminal, Completion
  <2> HIDE DEF s
  <2>4. record'[i].state = IF record[i].state \in Terminal THEN record[i].state ELSE s
    BY <1>1, <2>2, <2>3, UnlessOverSets DEF Typed
  <2>5. s = "CANCELLED" => record[i].state \in AskedToEnd
    BY <1>1, <2>2 DEF Sound, EndTold, State
  <2>6. s = "FAILED" \/ s = "CANCELLED"
    BY <2>1, <2>2 DEF Completion
  <2>7. CASE s = "FAILED"
    BY <1>1, <2>4, <2>7, AlwaysLegal DEF LegalMove
  <2>8. CASE s = "CANCELLED"
    BY <2>4, <2>5, <2>8, TransitionTable DEF LegalMove, AskedToEnd, Terminal
  <2> QED
    BY <2>6, <2>7, <2>8
<1>5. ASSUME NEW c \in Stopper, StopReturns(i, c) PROVE LegalMove(i)
  <2>1. record'[i].state = IF record[i].state \in Terminal THEN record[i].state ELSE "CANCELLED"
    BY <1>1, <1>5, UnlessOverSets DEF StopReturns, LifecycleState, Terminal, Typed
  <2>2. record[i].state \in AskedToEnd
    BY <1>1, <1>5 DEF StopReturns, Sound, EndTold, State, Caller
  <2> QED
    BY <2>1, <2>2, TransitionTable DEF LegalMove, AskedToEnd, Terminal
<1> QED
  BY <1>2, <1>3, <1>4, <1>5 DEF Microtask

\* The launch: a record that waits for its launch is pending or cancelled,
\* and one whose launch returns undisturbed is starting.
LEMMA EventLegal ==
    ASSUME LifecycleInv, NEW i \in Session, Event(i)
    PROVE  LegalMove(i)
<1>1. Typed /\ Sound(i) /\ record[i].state \in LifecycleState \cup {"none"}
  BY TypedIsTypeOK DEF LifecycleInv, Typed, Record
<1>2. CASE RunLaunchCancelled(i)
  <2>1. record'[i].state = IF record[i].state \in Terminal THEN record[i].state ELSE "CANCELLED"
    BY <1>1, <1>2, UnlessOverSets DEF RunLaunchCancelled, LifecycleState, Terminal, Typed
  <2>2. record[i].state \in AskedToEnd
    BY <1>1, <1>2 DEF RunLaunchCancelled, Sound, RecordFollows, State
  <2> QED
    BY <2>1, <2>2, TransitionTable DEF LegalMove, AskedToEnd, Terminal
<1>3. CASE RunLaunchRefused(i) \/ RunLaunch(i)
  <2>1. record[i].state = "PENDING" /\ Transition(i, "STARTING")
    BY <1>3 DEF RunLaunchRefused, RunLaunch, StartLaunch, State
  <2>2. record'[i].state = "STARTING"
    BY <1>1, <2>1, TransitionSets DEF LifecycleState, Typed
  <2> QED
    BY <2>1, <2>2, TransitionTable DEF LegalMove
<1>4. CASE Registered(i)
  <2>1. CASE record' = record
    BY <2>1 DEF LegalMove
  <2>2. CASE record' # record
    <3> DEFINE s == IF inst[i].ui THEN "WAITING_INPUT" ELSE "RUNNING"
    <3>1. launch[i] = "registering" /\ ~op[i].stop /\ ~op[i].cancel /\ UnlessOver(i, s)
      BY <1>4, <2>2 DEF Registered
    <3>2. record[i].state = "STARTING"
      BY <1>1, <3>1 DEF Sound, RecordFollows, State
    <3>3. s \in {"WAITING_INPUT", "RUNNING"}
      OBVIOUS
    <3> HIDE DEF s
    <3>4. record'[i].state = s
      BY <1>1, <3>1, <3>2, <3>3, UnlessOverSets DEF LifecycleState, Terminal, Typed
    <3> QED
      BY <3>2, <3>3, <3>4, TransitionTable DEF LegalMove
  <2> QED
    BY <2>1, <2>2
<1>5. CASE CancelAnswered(i)
  <2>1. CASE record' = record
    BY <2>1 DEF LegalMove
  <2>2. CASE State(i) \notin Terminal /\ TransitionTo(i, "CANCEL_REQUESTED")
    <3>1. record'[i].state = "CANCEL_REQUESTED"
      BY <1>1, <2>2, TransitionToSets DEF LifecycleState, Typed
    <3> QED
      BY <1>1, <2>2, <3>1, AlwaysLegal DEF LegalMove, State
  <2> QED
    BY <1>5, <2>1, <2>2 DEF CancelAnswered
<1>6. CASE record' = record
  BY <1>6 DEF LegalMove
<1> QED
  BY <1>2, <1>3, <1>4, <1>5, <1>6 DEF Event, Synced, SpawnThrows, FailSpawn,
     RegisteredIncomplete, LaunchCancelAnswered, RpcExit, PresenceDisconnected, StopManaged

\* Requests: stop and cancel only reach records without a result, and UI
\* requests move running sessions.
LEMMA RequestLegal ==
    ASSUME LifecycleInv, NEW i \in Session, Request(i) \/ ChildDies(i) \/ UiRequest(i)
    PROVE  LegalMove(i)
<1>1. Typed /\ Sound(i) /\ record[i].state \in LifecycleState \cup {"none"}
  BY TypedIsTypeOK DEF LifecycleInv, Typed, Record
<1>2. CASE Spawn(i)
  <2>1. record[i].state = "none"
    BY <1>1, <1>2 DEF Spawn, Sound, RecordFollows, State
  <2> QED
    BY <2>1 DEF LegalMove
<1>3. CASE Cancel(i) \/ \E c \in Stopper : Stop(i, c)
  <2>1. record[i].state \notin Terminal
    BY <1>3 DEF Cancel, Stop, State
  <2>2. record'[i].state \in {record[i].state, "CANCEL_REQUESTED"}
    BY <1>1, <1>3, TransitionSets, TransitionToSets DEF Cancel, Stop, LifecycleState, Typed
  <2> QED
    BY <1>1, <2>1, <2>2, AlwaysLegal DEF LegalMove
<1>4. CASE UiResponse(i) \/ UiRequest(i)
  <2>1. PICK w \in BOOLEAN : SetWaitingInput(i, w)
    BY <1>4 DEF UiResponse, UiRequest
  <2>2. record'[i].state = IF record[i].state \in Terminal \cup {"CANCEL_REQUESTED", "PENDING", "STARTING"}
                           THEN record[i].state
                           ELSE IF w THEN "WAITING_INPUT" ELSE "RUNNING"
    BY <1>1, <2>1, SetWaitingInputSets DEF Typed
  <2> QED
    BY <1>1, <2>2, TransitionTable DEF LegalMove, LifecycleState
<1>5. CASE record' = record
  BY <1>5 DEF LegalMove
<1> QED
  BY <1>2, <1>3, <1>4, <1>5 DEF Request, Attach, Detach, ChildDies

(* The lifecycle record only moves as LEGAL_TRANSITIONS of lifecycle-       *)
(* contract.ts allows, so transition of lifecycle-service.ts never throws,  *)
(* for any number of sessions and requests in any order.                    *)
THEOREM OnlyLegalTransitionsHolds == Spec => OnlyLegalTransitions
<1> DEFINE AllLegal == \A i \in Session : LegalMove(i)
<1>1. ASSUME LifecycleInv, [Next]_vars PROVE [AllLegal]_vars
  <2>1. CASE Next
    <3>1. PICK i \in Session : Microtask(i) \/ Event(i) \/ Request(i) \/ ChildDies(i) \/ UiRequest(i)
      BY <2>1 DEF Next
    <3>2. LegalMove(i)
      BY <1>1, <3>1, MicrotaskLegal, EventLegal, RequestLegal
    <3>3. Preserves(i)
      BY <1>1, <3>1, MicrotaskPreserves, EventPreserves, RequestPreserves
    <3>4. ASSUME NEW j \in Session \ {i} PROVE LegalMove(j)
      BY <3>3 DEF Preserves, Others, SameAt, LegalMove
    <3> QED
      BY <3>2, <3>4
  <2>2. CASE UNCHANGED vars
    BY <2>2
  <2> QED
    BY <1>1, <2>1, <2>2
<1>2. LifecycleInv /\ [Next]_vars => [AllLegal]_vars
  BY <1>1
<1> QED
  BY <1>2, LifecycleInvHolds, PTL DEF Spec, OnlyLegalTransitions, LegalMove
=============================================================================
