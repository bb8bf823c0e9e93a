-------------------------- MODULE SessionLifecycle --------------------------
(***************************************************************************)
(* The life of a supervised session, from launch to result, across the two  *)
(* state machines that describe it: the lifecycle record of                 *)
(* MaestroLifecycleService (lifecycle-service.ts, through the full-session  *)
(* adapter of lifecycle-adapters.ts) and the instance of                    *)
(* OrchestratorSupervisor (supervisor.ts), with the workspace admission of  *)
(* workspace-safety.ts and the projection of state-projection.ts.           *)
(*                                                                         *)
(* A step is a run of code between two awaits.  The steps that only resume  *)
(* after a promise already settled (Microtask) come before any other step,  *)
(* as in Node.  All worktrees belong to one Git repository.                 *)
(***************************************************************************)
EXTENDS Integers, FiniteSets

CONSTANTS
    Session,       \* instance ids
    Stopper,       \* calls of lifecycle.stop, each for one session
    Worktree,      \* worktree identities
    MaxLive,       \* maxLiveInstances
    MaxRequests,   \* bound: requests to spawn, stop and cancel sessions
    MaxDialogs,    \* bound: sessions with an owner, or a UI request, at a time
    None

\* An operation of the adapter, and how terminalCompletion is resolved here.
Operation == [resource : BOOLEAN, cancel : BOOLEAN, stop : BOOLEAN]
Completion == {"FAILED", "CANCELLED"}

ASSUME SessionLifecycleAssumption ==
    /\ MaxLive \in Nat \ {0} /\ MaxRequests \in Nat /\ MaxDialogs \in Nat
    /\ None \notin Session \cup Worktree \cup Operation \cup Completion
    /\ "launch" \notin Stopper

VARIABLES
    record,        \* lifecycle records: [state, answered]
    op,            \* the adapter's operations
    launch,        \* where runLaunch of each session stands
    inst,          \* supervisor instances
    child,         \* their processes
    managed,       \* calls of stopManagedInstance
    cancel         \* calls of lifecycle.cancel

vars == <<record, op, launch, inst, child, managed, cancel>>

Terminal == {"SUCCEEDED", "FAILED", "INTERRUPTED", "CANCELLED"}
LifecycleState ==
    {"PENDING", "STARTING", "RUNNING", "WAITING_INPUT", "CANCEL_REQUESTED"} \cup Terminal

LegalTransitions == [s \in LifecycleState |->
    CASE s = "PENDING" -> {"STARTING", "CANCEL_REQUESTED", "FAILED"}
      [] s = "STARTING" -> {"RUNNING", "WAITING_INPUT", "CANCEL_REQUESTED", "FAILED", "INTERRUPTED"}
      [] s = "RUNNING" -> {"WAITING_INPUT", "CANCEL_REQUESTED", "SUCCEEDED", "FAILED", "INTERRUPTED"}
      [] s = "WAITING_INPUT" -> {"RUNNING", "CANCEL_REQUESTED", "SUCCEEDED", "FAILED", "INTERRUPTED"}
      [] s = "CANCEL_REQUESTED" -> Terminal
      [] s \in Terminal -> {}]

State(i) == record[i].state
Active(i) == inst[i].live /\ inst[i].status \in {"starting", "online", "waiting-input"}

Caller == Stopper \cup {"launch"}
Unused(c) == \A i \in Session : managed[i][c] = "idle"

Asked ==
    Cardinality({i \in Session : launch[i] # "none"})
        + Cardinality({i \in Session : cancel[i] # "idle"})
        + Cardinality({c \in Stopper : ~Unused(c)})

Init ==
    /\ record = [i \in Session |-> [state |-> "none", answered |-> FALSE]]
    /\ op = [i \in Session |-> None]
    /\ launch = [i \in Session |-> "none"]
    /\ inst = [i \in Session |->
         [status |-> "none", live |-> FALSE, rpc |-> FALSE, writes |-> None, ui |-> FALSE,
          owner |-> FALSE, departing |-> FALSE, identified |-> TRUE, completion |-> None]]
    /\ child = [i \in Session |-> "none"]
    /\ managed = [i \in Session |-> [c \in Caller |-> "idle"]]
    /\ cancel = [i \in Session |-> "idle"]

-----------------------------------------------------------------------------
(* MaestroLifecycleService.                                                *)

\* transition; the spawn request observes it through waitForLifecycleStart.
Transition(i, s) ==
    record' = [record EXCEPT ![i] =
        [state |-> s,
         answered |-> @.answered \/ s \in {"RUNNING", "WAITING_INPUT", "FAILED", "INTERRUPTED", "CANCELLED"}]]

TransitionTo(i, s) == IF State(i) = s THEN UNCHANGED record ELSE Transition(i, s)

\* complete and transition, for callers that leave a record with a result alone.
UnlessOver(i, s) == IF State(i) \in Terminal THEN UNCHANGED record ELSE Transition(i, s)

NormalizeCompletionState(current, completed) ==
    IF current = "CANCEL_REQUESTED" /\ completed = "INTERRUPTED" THEN "CANCELLED" ELSE completed

\* Mutant: setWaitingInput forgets that a cancellation may be under way.
SetWaitingInputAlways(i, waiting) ==
    IF State(i) \in Terminal \cup {"PENDING", "STARTING"} THEN UNCHANGED record
    ELSE TransitionTo(i, IF waiting THEN "WAITING_INPUT" ELSE "RUNNING")

SetWaitingInput(i, waiting) ==
    IF State(i) \in Terminal \cup {"CANCEL_REQUESTED", "PENDING", "STARTING"} THEN UNCHANGED record
    ELSE TransitionTo(i, IF waiting THEN "WAITING_INPUT" ELSE "RUNNING")

\* spawnInstance: launch registers the record and queues runLaunch.
Spawn(i) ==
    /\ launch[i] = "none" /\ Asked < MaxRequests
    /\ i = CHOOSE j \in Session : launch[j] = "none"
    /\ launch' = [launch EXCEPT ![i] = "queued"]
    /\ Transition(i, "PENDING")
    /\ UNCHANGED <<op, inst, child, managed, cancel>>

-----------------------------------------------------------------------------
(* Launching: runLaunch, the adapter's launch, spawnManagedInstance.        *)

\* Mutant: a session that waits for input is not counted as active.
AdmitsBesideWaiting(tree, parent) ==
    LET active == {j \in Session : Active(j) /\ inst[j].status # "waiting-input"}
    IN  /\ Cardinality({j \in Session : inst[j].live}) < MaxLive
        /\ parent # None => parent \in active
        /\ tree # None => \A j \in active : inst[j].writes # tree

\* The live limit and assertWorkspaceAdmission.  `tree` is the worktree the
\* session is to write, None for a read-only session.  The parent is compared
\* on its own: the scan over the other active instances leaves it out.
Admits(tree, parent) ==
    LET active == {j \in Session : Active(j)}
    IN  /\ Cardinality({j \in Session : inst[j].live}) < MaxLive
        /\ parent # None => parent \in active
        /\ tree # None =>
             /\ parent # None => inst[parent].writes # tree
             /\ \A j \in active \ {parent} : inst[j].writes # tree

\* runLaunch finds the record cancelled before the launch.
RunLaunchCancelled(i) ==
    /\ launch[i] = "queued" /\ State(i) # "PENDING"
    /\ launch' = [launch EXCEPT ![i] = "over"]
    /\ UnlessOver(i, "CANCELLED")
    /\ UNCHANGED <<op, inst, child, managed, cancel>>

StartLaunch(i) ==
    /\ launch[i] = "queued" /\ State(i) = "PENDING"
    /\ Transition(i, "STARTING")
    /\ op' = [op EXCEPT ![i] = [resource |-> FALSE, cancel |-> FALSE, stop |-> FALSE]]
    /\ UNCHANGED <<managed, cancel>>

\* spawnManagedInstance throws before there is an instance.
RunLaunchRefused(i) ==
    /\ StartLaunch(i)
    /\ \E tree \in Worktree \cup {None}, parent \in (Session \ {i}) \cup {None} : ~Admits(tree, parent)
    /\ launch' = [launch EXCEPT ![i] = "thrown"]
    /\ UNCHANGED <<inst, child>>

\* The instance is registered and its child started; createRpcProcess may
\* throw, and failSpawn then has no process to dispose of.
RunLaunch(i) ==
    /\ StartLaunch(i)
    /\ \E tree \in Worktree \cup {None}, parent \in (Session \ {i}) \cup {None}, started \in BOOLEAN :
         /\ Admits(tree, parent)
         /\ launch' = [launch EXCEPT ![i] = IF started THEN "syncing" ELSE "failing"]
         /\ inst' = [inst EXCEPT
              ![i].status = IF started THEN "starting" ELSE "error",
              ![i].live = TRUE, ![i].rpc = started, ![i].writes = tree]
         /\ child' = [child EXCEPT ![i] = IF started THEN "running" ELSE "none"]

\* syncInstanceRecord: the child has answered get_state.
Synced(i) ==
    /\ launch[i] = "syncing" /\ inst[i].rpc
    /\ launch' = [launch EXCEPT ![i] = "registering"]
    /\ UNCHANGED <<record, op, inst, child, managed, cancel>>

\* cleanupAcquiredResources up to its first await.
Unbound(n, status) == [n EXCEPT !.status = status, !.rpc = FALSE, !.ui = FALSE]

\* get_state or registerPi fails: failSpawn starts its cleanup.
SpawnThrows(i) ==
    /\ launch[i] \in {"syncing", "registering"}
    /\ launch' = [launch EXCEPT ![i] = "failing"]
    /\ inst' = [inst EXCEPT ![i] = Unbound(@, "error")]
    /\ UNCHANGED <<record, op, child, managed, cancel>>

\* dispose returns with the child gone, or gives up on it.
Disposed(i) ==
    child' \in IF child[i] = "running"
               THEN {[child EXCEPT ![i] = "gone"], [child EXCEPT ![i] = "stuck"]}
               ELSE {child}

\* completeManagedInstance; the instance leaves liveInstances.
Ended(n, status, completion) ==
    [n EXCEPT !.status = status, !.live = FALSE, !.writes = None, !.owner = FALSE, !.departing = FALSE,
              !.completion = IF @ = None THEN completion ELSE @]

FailSpawn(i) ==
    /\ launch[i] = "failing"
    /\ Disposed(i)
    /\ inst' = [inst EXCEPT ![i] = Ended(@, "failed", "FAILED")]
    /\ launch' = [launch EXCEPT ![i] = "thrown"]
    /\ UNCHANGED <<record, op, managed, cancel>>

\* stopManagedInstance up to its first await.  Only the first of several
\* calls finds the process; a call that finds no live instance returns.
BeginStop(i, c) ==
    /\ inst' = [inst EXCEPT ![i] = IF @.live THEN Unbound(@, "stopping") ELSE @]
    /\ managed' = [managed EXCEPT ![i][c] =
         IF ~inst[i].live THEN "returned" ELSE IF inst[i].rpc THEN "disposing" ELSE "cleaning"]

\* registerPi answers while the instance is live and the launcher finds its
\* identity: the adapter has its resource, and looks at what was asked of the
\* session meanwhile.
Registered(i) ==
    LET status == IF inst[i].ui THEN "waiting-input" ELSE "online"
    IN  /\ launch[i] = "registering" /\ inst[i].live
        /\ op' = [op EXCEPT ![i].resource = TRUE]
        /\ UNCHANGED <<child, cancel>>
        /\ \/ /\ op[i].stop
              /\ launch' = [launch EXCEPT ![i] = "stopping"]
              /\ BeginStop(i, "launch")
              /\ UNCHANGED record
           \/ /\ ~op[i].stop /\ op[i].cancel
              /\ launch' = [launch EXCEPT ![i] = "cancelling"]
              /\ inst' = [inst EXCEPT ![i].status = status]
              /\ UNCHANGED <<record, managed>>
           \/ /\ ~op[i].stop /\ ~op[i].cancel
              /\ launch' = [launch EXCEPT ![i] = "awaiting"]
              /\ inst' = [inst EXCEPT ![i].status = status]
              /\ UnlessOver(i, IF inst[i].ui THEN "WAITING_INPUT" ELSE "RUNNING")
              /\ UNCHANGED managed

\* registerPi answers, the status is written, and the launcher then finds
\* the instance gone, or its process or session identity missing: it throws
\* without a resource, and nothing stops the child.
RegisteredIncomplete(i) ==
    /\ launch[i] = "registering"
    /\ launch' = [launch EXCEPT ![i] = "thrown"]
    /\ inst' = [inst EXCEPT
         ![i].status = IF inst[i].ui THEN "waiting-input" ELSE "online",
         ![i].identified = ~inst[i].live]
    /\ UNCHANGED <<record, op, child, managed, cancel>>

\* The abort for a cancellation requested during the launch: when the child
\* refuses it, the session is stopped instead.
LaunchCancelAnswered(i) ==
    /\ launch[i] = "cancelling"
    /\ UNCHANGED <<record, op, child, cancel>>
    /\ \/ /\ inst[i].rpc \/ child[i] = "running"
          /\ launch' = [launch EXCEPT ![i] = "awaiting"]
          /\ UNCHANGED <<inst, managed>>
       \/ /\ launch' = [launch EXCEPT ![i] = "stopping"]
          /\ BeginStop(i, "launch")

-----------------------------------------------------------------------------
(* Stop, cancel, exit.                                                     *)

\* Mutant: stop does not tell an operation that has no resource yet.
StopUnnoted(i, c) ==
    /\ State(i) \notin Terminal \cup {"none"} /\ Asked < MaxRequests
    /\ Unused(c) /\ c = CHOOSE d \in Stopper : Unused(d)
    /\ TransitionTo(i, "CANCEL_REQUESTED")
    /\ IF op[i] # None /\ op[i].resource
       THEN BeginStop(i, c)
       ELSE managed' = [managed EXCEPT ![i][c] = "returned"] /\ UNCHANGED inst
    /\ UNCHANGED <<op, launch, child, cancel>>

\* lifecycle.stop, for a handle whose record has no result.
Stop(i, c) ==
    /\ State(i) \notin Terminal \cup {"none"} /\ Asked < MaxRequests
    /\ Unused(c) /\ c = CHOOSE d \in Stopper : Unused(d)
    /\ TransitionTo(i, "CANCEL_REQUESTED")
    /\ op' = IF op[i] = None THEN op ELSE [op EXCEPT ![i].stop = TRUE]
    /\ IF op[i] # None /\ op[i].resource
       THEN BeginStop(i, c)
       ELSE managed' = [managed EXCEPT ![i][c] = "returned"] /\ UNCHANGED inst
    /\ UNCHANGED <<launch, child, cancel>>

\* stopManagedInstance after cleanupAcquiredResources: dispose may give up on
\* the child, and disconnecting the presence may fail.
StopManaged(i, c) ==
    /\ managed[i][c] \in {"disposing", "cleaning"}
    /\ IF managed[i][c] = "disposing" THEN Disposed(i) ELSE UNCHANGED child
    /\ \E diagnosed \in BOOLEAN :
         LET failed == diagnosed \/ (managed[i][c] = "disposing" /\ child'[i] = "stuck")
         IN  inst' = [inst EXCEPT ![i] =
               IF failed THEN Ended(@, "failed", "FAILED") ELSE Ended(@, "cancelled", "CANCELLED")]
    /\ managed' = [managed EXCEPT ![i][c] = "returned"]
    /\ UNCHANGED <<record, op, launch, cancel>>

\* lifecycle.cancel before runLaunch, while launching, or with a resource;
\* what it leaves in the operation then is read by nobody.
Cancel(i) ==
    /\ State(i) \notin Terminal \cup {"none"}
    /\ cancel[i] = "idle" /\ Asked < MaxRequests
    /\ UNCHANGED <<launch, inst, child, managed>>
    /\ \/ /\ State(i) = "PENDING"
          /\ Transition(i, "CANCEL_REQUESTED")
          /\ cancel' = [cancel EXCEPT ![i] = "done"] /\ UNCHANGED op
       \/ /\ op[i] # None /\ ~op[i].resource
          /\ TransitionTo(i, "CANCEL_REQUESTED")
          /\ op' = [op EXCEPT ![i].cancel = TRUE]
          /\ cancel' = [cancel EXCEPT ![i] = "done"]
       \/ /\ op[i] # None /\ op[i].resource /\ inst[i].live /\ inst[i].rpc
          /\ cancel' = [cancel EXCEPT ![i] = "aborting"]
          /\ UNCHANGED <<record, op>>

\* cancelManagedInstance's abort is answered, or fails.
CancelAnswered(i) ==
    /\ cancel[i] = "aborting"
    /\ cancel' = [cancel EXCEPT ![i] = "done"]
    /\ \/ /\ inst[i].rpc \/ child[i] = "running"
          /\ IF State(i) \in Terminal THEN UNCHANGED record ELSE TransitionTo(i, "CANCEL_REQUESTED")
       \/ UNCHANGED record
    /\ UNCHANGED <<op, launch, inst, child, managed>>

ChildDies(i) ==
    /\ child[i] = "running"
    /\ child' = [child EXCEPT ![i] = "gone"]
    /\ UNCHANGED <<record, op, launch, inst, managed, cancel>>

\* handleUnexpectedRpcExit; a registered presence is disconnected before the
\* instance leaves liveInstances.
RpcExit(i) ==
    /\ child[i] = "gone" /\ inst[i].rpc
    /\ \E registered \in BOOLEAN :
         /\ registered => launch[i] \notin {"syncing", "registering"}
         /\ inst' = [inst EXCEPT ![i] =
              [Ended(Unbound(@, "failed"), "failed", "FAILED") EXCEPT
                 !.live = registered, !.departing = registered]]
    /\ UNCHANGED <<record, op, launch, child, managed, cancel>>

PresenceDisconnected(i) ==
    /\ inst[i].departing
    /\ inst' = [inst EXCEPT ![i].live = FALSE, ![i].departing = FALSE]
    /\ UNCHANGED <<record, op, launch, child, managed, cancel>>

-----------------------------------------------------------------------------
(* Extension UI requests and the interactive owner.                        *)

\* handleUiRequest with a blocking request that can be retained.
UiRequest(i) ==
    /\ inst[i].rpc
    /\ Cardinality({j \in Session \ {i} : inst[j].ui}) < MaxDialogs
    /\ SetWaitingInput(i, TRUE)
    /\ inst' = [inst EXCEPT ![i].ui = TRUE,
         ![i].status = IF inst[i].owner \/ @ # "online" THEN @ ELSE "waiting-input"]
    /\ UNCHANGED <<op, launch, child, managed, cancel>>

\* openRpcStream in interactive mode.
Attach(i) ==
    /\ inst[i].live /\ inst[i].rpc /\ ~inst[i].owner
    /\ Cardinality({j \in Session : inst[j].owner}) < MaxDialogs
    /\ inst' = [inst EXCEPT ![i].owner = TRUE, ![i].status = IF @ = "waiting-input" THEN "online" ELSE @]
    /\ UNCHANGED <<record, op, launch, child, managed, cancel>>

UiResponse(i) ==
    /\ inst[i].owner /\ inst[i].ui
    /\ inst' = [inst EXCEPT ![i].ui = FALSE, ![i].status = "online"]
    /\ SetWaitingInput(i, FALSE)
    /\ UNCHANGED <<op, launch, child, managed, cancel>>

\* close of the owner's stream.
Detach(i) ==
    /\ inst[i].owner
    /\ inst' = [inst EXCEPT ![i].owner = FALSE,
         ![i].status = IF inst[i].ui /\ @ = "online" THEN "waiting-input" ELSE @]
    /\ UNCHANGED <<record, op, launch, child, managed, cancel>>

-----------------------------------------------------------------------------
(* Continuations of settled promises.                                      *)

\* runLaunch's catch, after the adapter has deleted its operation.
LaunchThrows(i) ==
    /\ launch[i] = "thrown"
    /\ UnlessOver(i, "FAILED")
    /\ launch' = [launch EXCEPT ![i] = "over"] /\ op' = [op EXCEPT ![i] = None]
    /\ UNCHANGED <<inst, child, managed, cancel>>

\* The adapter returns CANCELLED after stopping its resource.
LaunchStopped(i) ==
    /\ launch[i] = "stopping" /\ managed[i]["launch"] = "returned"
    /\ UnlessOver(i, "CANCELLED")
    /\ launch' = [launch EXCEPT ![i] = "over"] /\ op' = [op EXCEPT ![i] = None]
    /\ UNCHANGED <<inst, child, managed, cancel>>

\* terminalCompletion is resolved and runLaunch completes the record.
SessionEnds(i) ==
    /\ launch[i] = "awaiting" /\ inst[i].completion # None
    /\ UnlessOver(i, NormalizeCompletionState(State(i), inst[i].completion))
    /\ launch' = [launch EXCEPT ![i] = "over"] /\ op' = [op EXCEPT ![i] = None]
    /\ UNCHANGED <<inst, child, managed, cancel>>

\* lifecycle.stop resumes, behind the continuation of runLaunch.
StopReturns(i, c) ==
    /\ managed[i][c] = "returned"
    /\ ~(launch[i] = "awaiting" /\ inst[i].completion # None)
    /\ UnlessOver(i, "CANCELLED")
    /\ managed' = [managed EXCEPT ![i][c] = "done"]
    /\ UNCHANGED <<op, launch, inst, child, cancel>>

Settled(i) ==
    \/ launch[i] = "thrown"
    \/ launch[i] = "stopping" /\ managed[i]["launch"] = "returned"
    \/ launch[i] = "awaiting" /\ inst[i].completion # None
    \/ \E c \in Stopper : managed[i][c] = "returned"

Microtask(i) ==
    \/ LaunchThrows(i) \/ LaunchStopped(i) \/ SessionEnds(i)
    \/ \E c \in Stopper : StopReturns(i, c)

\* Node takes the next event when no continuation is left.
Idle == \A i \in Session : ~Settled(i)

\* What the timers of the code, the child and the network answer to.
Event(i) ==
    /\ Idle
    /\ \/ RunLaunchCancelled(i) \/ RunLaunchRefused(i) \/ RunLaunch(i)
       \/ Synced(i) \/ SpawnThrows(i) \/ FailSpawn(i)
       \/ Registered(i) \/ RegisteredIncomplete(i) \/ LaunchCancelAnswered(i)
       \/ CancelAnswered(i) \/ RpcExit(i) \/ PresenceDisconnected(i)
       \/ \E c \in Caller : StopManaged(i, c)

Request(i) ==
    \/ Spawn(i) \/ Cancel(i) \/ Attach(i) \/ UiResponse(i) \/ Detach(i)
    \/ \E c \in Stopper : Stop(i, c)

Next ==
    \E i \in Session :
        \/ Microtask(i) \/ Event(i)
        \/ Idle /\ (Request(i) \/ ChildDies(i) \/ UiRequest(i))

Spec == Init /\ [][Next]_vars

\* A settled promise is continued; requests to the child and the presence
\* service have deadlines, and dispose returns.  Nobody has to ask for anything
\* and no child has to die.
FairSpec ==
    /\ Spec
    /\ WF_vars(\E i \in Session : Microtask(i))
    /\ WF_vars(\E i \in Session : Event(i))

-----------------------------------------------------------------------------

(* The variables hold what the declarations of the code allow, and what is  *)
(* bound to a process is live.                                              *)
TypeOK ==
    /\ record \in [Session -> [state : LifecycleState \cup {"none"}, answered : BOOLEAN]]
    /\ op \in [Session -> {None} \cup Operation]
    /\ launch \in [Session -> {"none", "queued", "syncing", "registering", "failing", "thrown",
                               "stopping", "cancelling", "awaiting", "over"}]
    /\ inst \in [Session ->
         [status : {"none", "starting", "online", "waiting-input", "stopping", "error", "failed", "cancelled"},
          live : BOOLEAN, rpc : BOOLEAN, writes : Worktree \cup {None}, ui : BOOLEAN, owner : BOOLEAN,
          departing : BOOLEAN, identified : BOOLEAN, completion : {None} \cup Completion]]
    /\ child \in [Session -> {"none", "running", "gone", "stuck"}]
    /\ managed \in [Session -> [Caller -> {"idle", "disposing", "cleaning", "returned", "done"}]]
    /\ cancel \in [Session -> {"idle", "aborting", "done"}]
    /\ \A i \in Session : inst[i].rpc => inst[i].live

(* No step asks the lifecycle record for a transition that isLegal-         *)
(* MaestroTransition refuses: transition never throws, whatever the order   *)
(* of stop, cancel, UI requests, exits and the launch.                      *)
OnlyLegalTransitions ==
    [][\A i \in Session :
         \/ record'[i].state = record[i].state
         \/ record[i].state = "none"
         \/ record'[i].state \in LegalTransitions[record[i].state]]_vars

(* No two sessions whose children are supervised write the same worktree.   *)
(* (A child that is being disposed of is no longer counted: admission looks *)
(* at the status, which is "stopping" or "error" by then.)                  *)
OneWriter ==
    \A i, j \in Session :
        (i # j /\ inst[i].rpc /\ inst[j].rpc /\ inst[i].writes # None)
            => inst[i].writes # inst[j].writes

InstanceLifecycleState(status) ==
    CASE status = "starting" -> "STARTING"
      [] status = "online" -> "RUNNING"
      [] status = "waiting-input" -> "WAITING_INPUT"
      [] status = "stopping" -> "CANCEL_REQUESTED"
      [] status \in {"failed", "error"} -> "FAILED"
      [] status = "cancelled" -> "CANCELLED"

(* The two state machines agree about a session that has started and that   *)
(* nobody has cancelled or stopped, while no owner is attached: project-    *)
(* MaestroState reports no divergence for it, whether or not it waits.      *)
ProjectionConsistent ==
    \A i \in Session :
        (launch[i] = "awaiting" /\ ~Settled(i) /\ ~inst[i].owner /\ State(i) # "CANCEL_REQUESTED")
            => InstanceLifecycleState(inst[i].status) = State(i)

(* One writer per worktree, and two state machines that agree.              *)
SessionsConsistent == TypeOK /\ OneWriter /\ ProjectionConsistent

(* A session whose lifecycle record has a result is gone in the end: its    *)
(* child is not left running and it occupies no live slot, even when it was *)
(* stopped or cancelled while it launched.  Left out: launches that fail    *)
(* because the identity of a started child could not be read.               *)
EndReapsChild ==
    \A i \in Session :
        (State(i) \in Terminal) ~>
            ((child[i] # "running" /\ ~inst[i].live) \/ ~inst[i].identified)

(* Every spawn request is answered, unless the session is cancelled while   *)
(* it launches.                                                             *)
SpawnAnswered ==
    \A i \in Session :
        (launch[i] = "queued") ~> (record[i].answered \/ (op[i] # None /\ op[i].cancel))

(* No session is left behind, running or unanswered.                        *)
SessionsSettle == EndReapsChild /\ SpawnAnswered

=============================================================================
