----------------------------- MODULE ServiceOwner -----------------------------
(***************************************************************************)
(* How one Maestro service process comes to own the user's service         *)
(* directory, serves, and gives it up (service-ownership.ts,               *)
(* service-runtime.ts and the socket handling of ipc/server.ts).           *)
(*                                                                         *)
(* Processes share four files: the owner receipt, the IPC socket, the      *)
(* health snapshot and the restart history.  Every file operation is one   *)
(* action, because other processes run between two of them and a process   *)
(* may be killed between two of them.  A process is one incarnation with a *)
(* start receipt of its own (process-identity.ts), so a receipt verifies   *)
(* exactly while its process is alive.                                     *)
(*                                                                         *)
(* serveMaestro runs two chains in one process: the start, and a shutdown  *)
(* that may be asked for over IPC while the start still awaits the         *)
(* recovery.  Nothing cancels the start: it publishes "ready" and installs *)
(* the heartbeat whenever its recovery is done, even after the shutdown    *)
(* has released the ownership.                                             *)
(***************************************************************************)
EXTENDS Integers, FiniteSets

CONSTANTS
    Incarnations,  \* bound on the process incarnations
    MaxStarting,   \* bound on the processes acquiring at once
    MaxOvertaken,  \* bound on the starts a shutdown overtakes
    MaxAttempts,   \* the bound of the acquire loop, 4 in the code
    None

\* Numbered in the order in which they are started.
Process == 1..Incarnations

ServiceId == Process \X (1..MaxAttempts)
ExitKind == {"planned", "process-crash"}
Receipt == [by : Process, n : 1..MaxAttempts, full : BOOLEAN]

ASSUME ServiceOwnerAssumption ==
    /\ None \notin Process /\ None \notin Receipt
    /\ None \notin ServiceId /\ None \notin ExitKind
    /\ Incarnations \in Nat
    /\ MaxStarting \in Nat \ {0}
    /\ MaxOvertaken \in Nat
    /\ MaxAttempts \in Nat \ {0}

VARIABLES
    pc,            \* where each process is
    attempt,       \* loop counter of acquireServiceOwnership
    seen,          \* `existing`, the receipt a starter has read
    ownerFile,     \* the receipt file: None, or [by, n, full]
    socket,        \* the socket path: None, or the process that bound it
    health,        \* the health file: [id, exit, ready] of the last writer
    history,       \* restart diagnostics: [id, exit]
    exit,          \* the classification each shutdown began with
    late,          \* what became of a start that a shutdown has overtaken
    starters       \* how many processes may be acquiring at once: one where
                   \* the native supervisor (systemd, IgnoreNew) starts the
                   \* service, more with manual `maestro serve`; never changes

vars == <<pc, attempt, seen, ownerFile, socket, health, history, exit, late, starters>>

NoService == [id |-> None, exit |-> None, ready |-> FALSE]

AcquireStates == {"open", "write", "read", "inspect", "rename", "diagnose"}
ServeStates == {"persist", "probe", "unlinkSocket", "listen", "recover", "ready"}
StopStates == {"draining", "removeSocket", "release", "unlinkOwner"}
OverStates == {"failed", "dead"}

\* "no": not overtaken; "going": the recovery is still awaited; then it failed,
\* or it wrote "ready", which the end of the shutdown takes back in memory.
LateStates == {"no", "going", "ready", "stopped", "failed"}

\* A released service is a live process until its event loop ends.
Alive(p) == pc[p] \in AcquireStates \cup ServeStates \cup StopStates \cup {"released"}
Listening(p) == pc[p] \in {"recover", "ready", "draining"}
Owner(p) == pc[p] \in ServeStates \cup StopStates
MyId(p) == <<p, attempt[p]>>

Init ==
    /\ pc = [p \in Process |-> "off"]
    /\ attempt = [p \in Process |-> 1]
    /\ seen = [p \in Process |-> None]
    /\ ownerFile = None
    /\ socket = None
    /\ health = NoService
    /\ history = {}
    /\ exit = [p \in Process |-> None]
    /\ late = [p \in Process |-> "no"]
    /\ starters \in 1..MaxStarting

Goto(p, l) == pc' = [pc EXCEPT ![p] = l]

-----------------------------------------------------------------------------
(* acquireServiceOwnership *)

Start(p) ==
    /\ pc[p] = "off" /\ \A q \in 1..(p - 1) : pc[q] # "off"
    /\ Cardinality({q \in Process : pc[q] \in AcquireStates}) < starters
    /\ Goto(p, "open")
    /\ UNCHANGED <<attempt, seen, ownerFile, socket, health, history, exit, late, starters>>

\* openSync(ownerPath, "wx"): creates the file, empty, or fails with EEXIST.
OpenExclusive(p) ==
    /\ pc[p] = "open"
    /\ \/ /\ ownerFile = None
          /\ ownerFile' = [by |-> p, n |-> attempt[p], full |-> FALSE]
          /\ Goto(p, "write")
       \/ /\ ownerFile # None
          /\ Goto(p, "read")
          /\ UNCHANGED ownerFile
    /\ UNCHANGED <<attempt, seen, socket, health, history, exit, late, starters>>

\* writeFileSync and fsyncSync through the descriptor: they reach the file
\* wherever it is now.  The process owns the service from here on.
WriteReceipt(p) ==
    /\ pc[p] = "write"
    /\ ownerFile' = IF ownerFile = [by |-> p, n |-> attempt[p], full |-> FALSE]
                    THEN [ownerFile EXCEPT !.full = TRUE]
                    ELSE ownerFile
    /\ Goto(p, "persist")
    /\ UNCHANGED <<attempt, seen, socket, health, history, exit, late, starters>>

\* `existing` is a variable of one turn of the loop.
Forget(p) == seen' = [seen EXCEPT ![p] = None]

\* `continue`: the next attempt, or the error after the last.
Retry(p) ==
    IF attempt[p] < MaxAttempts
    THEN Goto(p, "open") /\ attempt' = [attempt EXCEPT ![p] = @ + 1]
    ELSE Goto(p, "failed") /\ UNCHANGED attempt

\* parseJsonFile(ownerPath): gone, malformed (refused), or a receipt.
ReadOwner(p) ==
    /\ pc[p] = "read"
    /\ \/ /\ ownerFile = None
          /\ Retry(p)
          /\ UNCHANGED seen
       \/ /\ ownerFile # None /\ ~ownerFile.full
          /\ Goto(p, "failed")
          /\ UNCHANGED <<seen, attempt>>
       \/ /\ ownerFile # None /\ ownerFile.full
          /\ seen' = [seen EXCEPT ![p] = ownerFile]
          /\ Goto(p, "inspect")
          /\ UNCHANGED attempt
    /\ UNCHANGED <<ownerFile, socket, health, history, exit, late, starters>>

\* Mutant: the process identity is not verified.
InspectNothing(p) ==
    /\ pc[p] = "inspect"
    /\ Goto(p, "rename")
    /\ UNCHANGED <<attempt, seen, ownerFile, socket, health, history, exit, late, starters>>

\* verifyProcessIdentity(existing.processIdentity, inspect(pid)).
InspectOwner(p) ==
    /\ pc[p] = "inspect"
    /\ \/ /\ Alive(seen[p].by)
          /\ Goto(p, "failed")
          /\ Forget(p)
       \/ /\ ~Alive(seen[p].by)
          /\ Goto(p, "rename")
          /\ UNCHANGED seen
    /\ UNCHANGED <<attempt, ownerFile, socket, health, history, exit, late, starters>>

\* Mutant: the stale receipt is left in place.
RenameNothing(p) ==
    /\ pc[p] = "rename"
    /\ Goto(p, "diagnose")
    /\ UNCHANGED <<attempt, seen, ownerFile, socket, health, history, exit, late, starters>>

\* renameSync(ownerPath, stalePath): moves whatever the path names now.
RenameStale(p) ==
    /\ pc[p] = "rename"
    /\ \/ /\ ownerFile = None
          /\ Retry(p)
          /\ Forget(p)
       \/ /\ ownerFile # None
          /\ Goto(p, "diagnose")
          /\ UNCHANGED <<attempt, seen>>
    /\ ownerFile' = None
    /\ UNCHANGED <<socket, health, history, exit, late, starters>>

\* Mutant: the health snapshot is believed whoever wrote it.
ClassifyLastWriter(s) == IF health.exit = "planned" THEN "planned" ELSE "process-crash"

\* classifyPreviousOwner: planned only on the word of that service's health.
Classify(s) ==
    IF health.id = s /\ health.exit = "planned" THEN "planned" ELSE "process-crash"

\* appendRestartDiagnostic, then the stale receipt is unlinked and retried.
Diagnose(p) ==
    /\ pc[p] = "diagnose"
    /\ LET s == <<seen[p].by, seen[p].n>>
       IN  history' = history \cup {[id |-> s, exit |-> Classify(s)]}
    /\ Retry(p)
    /\ Forget(p)
    /\ UNCHANGED <<ownerFile, socket, health, exit, late, starters>>

-----------------------------------------------------------------------------
(* serveMaestro *)

\* The first refreshHealth(): the snapshot is now this service's.
PersistStarting(p) ==
    /\ pc[p] = "persist"
    /\ health' = [id |-> MyId(p), exit |-> None, ready |-> FALSE]
    /\ Goto(p, "probe")
    /\ UNCHANGED <<attempt, seen, ownerFile, socket, history, exit, late, starters>>

\* shutdown(): health records the classification before anything is closed.
BeginShutdown(p, kind) ==
    /\ exit' = [exit EXCEPT ![p] = kind]
    /\ health' = [id |-> MyId(p), exit |-> kind, ready |-> FALSE]
    /\ Goto(p, "draining")

\* removeStaleSocketIfNeeded: connect to an existing path to see if it lives.
ProbeSocket(p) ==
    /\ pc[p] = "probe"
    /\ \/ /\ socket = None
          /\ Goto(p, "listen")
          /\ UNCHANGED <<health, exit>>
       \/ /\ socket # None /\ Listening(socket)
          /\ BeginShutdown(p, "process-crash")
       \/ /\ socket # None /\ ~Listening(socket)
          /\ Goto(p, "unlinkSocket")
          /\ UNCHANGED <<health, exit>>
    /\ UNCHANGED <<attempt, seen, ownerFile, socket, history, late, starters>>

UnlinkSocket(p) ==
    /\ pc[p] = "unlinkSocket"
    /\ socket' = None
    /\ Goto(p, "listen")
    /\ UNCHANGED <<attempt, seen, ownerFile, health, history, exit, late, starters>>

\* server.listen: EADDRINUSE when the path exists.
Listen(p) ==
    /\ pc[p] = "listen"
    /\ \/ /\ socket = None
          /\ socket' = p
          /\ Goto(p, "recover")
          /\ UNCHANGED <<health, exit>>
       \/ /\ socket # None
          /\ BeginShutdown(p, "process-crash")
          /\ UNCHANGED socket
    /\ UNCHANGED <<attempt, seen, ownerFile, history, late, starters>>

\* recoverAfterRestart is done: health "ready", requests are accepted.
BecomeReady(p) ==
    /\ pc[p] = "recover"
    /\ health' = [id |-> MyId(p), exit |-> None, ready |-> TRUE]
    /\ Goto(p, "ready")
    /\ UNCHANGED <<attempt, seen, ownerFile, socket, history, exit, late, starters>>

\* recoverAfterRestart throws: the catch awaits a shutdown.
RecoveryFails(p) ==
    /\ pc[p] = "recover"
    /\ BeginShutdown(p, "process-crash")
    /\ UNCHANGED <<attempt, seen, ownerFile, socket, history, late, starters>>

\* A shutdown request, a signal or a fatal error.
Shutdown(p, kind) ==
    /\ pc[p] = "ready"
    /\ BeginShutdown(p, kind)
    /\ UNCHANGED <<attempt, seen, ownerFile, socket, history, late, starters>>

\* The server already answers while the recovery is awaited, and a shutdown
\* request is not refused; the start goes on beside the shutdown.  (A signal
\* has no handler yet: it is a Crash.)
ShutdownOvertakes(p) ==
    /\ pc[p] = "recover"
    /\ Cardinality({q \in Process : late[q] # "no"}) < MaxOvertaken
    /\ BeginShutdown(p, "planned")
    /\ late' = [late EXCEPT ![p] = "going"]
    /\ UNCHANGED <<attempt, seen, ownerFile, socket, history, starters>>

\* The overtaken start ends: refreshHealth({state: "ready"}) spreads the updates
\* over the snapshot in memory, so the classification stays; or it throws.
LateReady(p) ==
    /\ late[p] = "going" /\ Alive(p)
    /\ \/ /\ late' = [late EXCEPT ![p] = "ready"]
          /\ health' = [id |-> MyId(p), exit |-> exit[p], ready |-> TRUE]
       \/ /\ late' = [late EXCEPT ![p] = "failed"]
          /\ UNCHANGED health
    /\ UNCHANGED <<pc, attempt, seen, ownerFile, socket, history, exit, starters>>

\* The interval the start installs last.  A shutdown clears the one it finds;
\* that of an overtaken start comes after, and runs as long as the process.
Heartbeat(p) ==
    /\ \/ pc[p] = "ready"
       \/ late[p] \in {"ready", "stopped"} /\ Alive(p)
    /\ health' = [id |-> MyId(p), exit |-> exit[p],
                  ready |-> pc[p] = "ready" \/ late[p] = "ready"]
    /\ UNCHANGED <<pc, attempt, seen, ownerFile, socket, history, exit, late, starters>>

\* closeIpcServer: closing a listening pipe also unlinks its path (libuv);
\* then the supervised children drain.
CloseServer(p) ==
    /\ pc[p] = "draining"
    /\ socket' = IF socket = p THEN None ELSE socket
    /\ Goto(p, "removeSocket")
    /\ UNCHANGED <<attempt, seen, ownerFile, health, history, exit, late, starters>>

\* removeFilesystemSocket() unlinks the path, and health says "stopped".
RemoveSocket(p) ==
    /\ pc[p] = "removeSocket"
    /\ socket' = None
    /\ health' = [id |-> MyId(p), exit |-> exit[p], ready |-> FALSE]
    /\ late' = [late EXCEPT ![p] = IF @ = "ready" THEN "stopped" ELSE @]
    /\ Goto(p, "release")
    /\ UNCHANGED <<attempt, seen, ownerFile, history, exit, starters>>

\* release(): read the receipt; only one's own is removed.
ReadOwn(p) ==
    /\ pc[p] = "release"
    /\ Goto(p, IF ownerFile = [by |-> p, n |-> attempt[p], full |-> TRUE]
               THEN "unlinkOwner" ELSE "released")
    /\ UNCHANGED <<attempt, seen, ownerFile, socket, health, history, exit, late, starters>>

UnlinkOwner(p) ==
    /\ pc[p] = "unlinkOwner"
    /\ ownerFile' = None
    /\ Goto(p, "released")
    /\ UNCHANGED <<attempt, seen, socket, health, history, exit, late, starters>>

\* Nothing goes on in a process that is over.
EndLate(p) == late' = [late EXCEPT ![p] = IF @ = "no" THEN @ ELSE "failed"]

\* serveMaestro returns once both chains are over, and nothing keeps the
\* process any longer: the heartbeat is unref'd.
Exit(p) ==
    /\ pc[p] = "released" /\ late[p] # "going"
    /\ Goto(p, "dead")
    /\ EndLate(p)
    /\ UNCHANGED <<attempt, seen, ownerFile, socket, health, history, exit, starters>>

\* The process is killed: its memory goes, the files stay as they are.
Crash(p) ==
    /\ Alive(p)
    /\ Goto(p, "dead")
    /\ Forget(p) /\ EndLate(p)
    /\ UNCHANGED <<attempt, ownerFile, socket, health, history, exit, starters>>

\* The steps a live process takes by itself.
Step(p) ==
    \/ OpenExclusive(p) \/ WriteReceipt(p) \/ ReadOwner(p) \/ InspectOwner(p)
    \/ RenameStale(p) \/ Diagnose(p)
    \/ PersistStarting(p) \/ ProbeSocket(p) \/ UnlinkSocket(p) \/ Listen(p) \/ BecomeReady(p)
    \/ CloseServer(p) \/ RemoveSocket(p) \/ ReadOwn(p) \/ UnlinkOwner(p)

Next ==
    \E p \in Process :
        \/ Start(p)
        \/ Step(p)
        \/ \E kind \in ExitKind : Shutdown(p, kind)
        \/ RecoveryFails(p) \/ ShutdownOvertakes(p)
        \/ LateReady(p) \/ Heartbeat(p)
        \/ Exit(p) \/ Crash(p)

\* Synchronous code runs on unless its process is killed; nobody has to
\* start, stop or kill a service.
Spec == Init /\ [][Next]_vars /\ \A p \in Process : WF_vars(Step(p))

-----------------------------------------------------------------------------
(* Properties. *)

\* Receipts, health and sockets name processes, and every process stands at a
\* step of the start, the service or the shutdown.
TypeOK ==
    /\ pc \in [Process -> {"off"} \cup AcquireStates \cup ServeStates
                                  \cup StopStates \cup {"released"} \cup OverStates]
    /\ attempt \in [Process -> 1..MaxAttempts]
    /\ seen \in [Process -> Receipt \cup {None}]
    /\ ownerFile \in Receipt \cup {None}
    /\ socket \in Process \cup {None}
    /\ health \in [id : ServiceId \cup {None}, exit : ExitKind \cup {None}, ready : BOOLEAN]
    /\ history \subseteq [id : ServiceId, exit : ExitKind]
    /\ exit \in [Process -> ExitKind \cup {None}]
    /\ late \in [Process -> LateStates]
    /\ starters \in 1..MaxStarting

\* "Maestro is the single supervisor": at most one live process believes it
\* owns the service directory, from its receipt to its release.
OneOwner ==
    \A p, q \in Process : Owner(p) /\ Owner(q) => p = q

\* A service that says it is ready can be reached: the socket path is there
\* and is its own, whatever dead or stopping services did to it.  So can one of
\* which the health file says it, while its process lives; the exception is a
\* service told to stop before it was ready, which goes on to say so.
ReadyReachable ==
    /\ \A p \in Process : pc[p] = "ready" => socket = p
    /\ health.ready =>
          LET p == health.id[1] IN
          Alive(p) /\ late[p] = "no" => pc[p] = "ready" /\ socket = p

\* Where the native supervisor runs one start at a time, one process owns the
\* directory and a ready service is reachable, through kills, restarts and
\* overtaken starts at any file operation.
SupervisedOneOwner ==
    TypeOK /\ (starters = 1 => OneOwner /\ ReadyReachable)

\* No other service than q was told to stop before it was ready.
NoneLateBut(q) == \A p \in Process \ {q} : late[p] = "no"

\* A restart diagnostic tells how that service ended: never "planned" of one
\* that had not begun a planned shutdown, and always of one that had, unless
\* the overtaken start of another service wrote over its health.
DiagnosisTruthful ==
    starters = 1 => \A d \in history :
        /\ d.exit = "planned" => exit[d.id[1]] = "planned"
        /\ exit[d.id[1]] = "planned" /\ NoneLateBut(d.id[1]) => d.exit = "planned"

\* Starters that fight over the receipt do not livelock, and none waits on
\* another: each serves, or gives up, or is killed.
EveryStartSettles ==
    \A p \in Process :
        pc[p] = "open" ~> pc[p] \in {"ready", "draining"} \cup OverStates

\* A service left behind a crash can be started again: a starter that finds
\* no live service and no ambiguous receipt becomes the owner or dies itself.
RestartSucceeds ==
    \A p \in Process :
        (/\ pc[p] = "open" /\ starters = 1
         /\ \A q \in Process \ {p} : ~Alive(q)
         /\ ownerFile # None => ownerFile.full)
        ~> (Owner(p) \/ pc[p] = "dead")

\* Every start ends, and a restart after a crash ends in an owner.
StartsSettle == EveryStartSettles /\ RestartSucceeds

=============================================================================
