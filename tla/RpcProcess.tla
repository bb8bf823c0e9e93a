----------------------------- MODULE RpcProcess -----------------------------
(***************************************************************************)
(* RpcProcessInstance (packages/orchestrator/src/rpc-process.ts): the       *)
(* request/response client Maestro keeps for each child process.  Requests  *)
(* go down the child's stdin and answers come up its stdout, both in order; *)
(* requests may be cancelled or time out while the child still works on     *)
(* them, and the child may die, be killed or be disposed of at any moment.  *)
(*                                                                         *)
(* Node reports an exit independently of what is still buffered on stdout,  *)
(* so answers may be read after the exit.  Events and extension UI messages *)
(* pass through without touching this state and are left out.               *)
(*                                                                         *)
(* The child (packages/coding-agent/src/modes/rpc/rpc-mode.ts) handles every *)
(* line it reads beside the ones it has not answered.  A prompt is answered  *)
(* after its preflight and may start a turn then, of which one runs at a     *)
(* time; an abort reaches that turn only while the harness's loop runs.      *)
(***************************************************************************)
EXTENDS Integers, Sequences, FiniteSets

CONSTANTS
    Call,          \* calls of send
    Id,            \* request ids; clients choose theirs, and may repeat one
    Disposer,      \* calls of dispose
    MaxPending,    \* maxPendingRequests
    MaxIds,        \* MAX_REQUEST_IDS_PER_PROCESS
    None

Command == {"prompt", "abort", "get_state"}
Request == [id : Id, command : Command]

ASSUME RpcProcessAssumption ==
    /\ None \notin Call \cup Id /\ None \notin Request
    /\ MaxPending \in Nat \ {0} /\ MaxIds \in Nat

VARIABLES
    exited, disposing,
    used,          \* usedRequestIds
    request,       \* each call: None, or its [id, command]
    outcome,       \* the promise of each call
    answer,        \* the call whose command the resolving answer was for
    stdin, stdout, \* messages on their way to and from the child
    working,       \* calls whose command the child has read and not answered
    turn,          \* the call whose prompt's turn the child runs
    phase,         \* of that turn: deaf to an abort, in its loop, or stopping
    missed,        \* prompts in hand that were deaf to an abort
    last,          \* the last prompt the child has read
    proc,          \* the child process
    exitSeen,      \* its exit event was emitted
    told,          \* how often the exit listeners were notified
    dispose        \* each call of dispose

client == <<used, request, outcome, answer>>
child == <<working, turn, phase, missed, last>>
ending == <<exitSeen, told, dispose>>
vars == <<exited, disposing, client, stdin, stdout, child, proc, ending>>

Over == {"gone", "unspawned"}

Pending == {r \in Call : outcome[r] = "pending"}
PendingPrompts == {r \in Pending : request[r].command = "prompt"}

\* The prompts the child has read and not answered.
Preflight == {r \in working : request[r].command = "prompt"}

Init ==
    /\ exited = FALSE /\ disposing = FALSE
    /\ used = {}
    /\ request = [r \in Call |-> None]
    /\ outcome = [r \in Call |-> "unused"]
    /\ answer = [r \in Call |-> None]
    /\ stdin = <<>> /\ stdout = <<>>
    /\ working = {} /\ turn = None /\ phase = "none" /\ missed = {} /\ last = None
    /\ proc \in {"running", "unspawned"}
    /\ exitSeen = FALSE /\ told = 0
    /\ dispose = [d \in Disposer |-> "none"]

-----------------------------------------------------------------------------
(* Requests.                                                               *)

\* Mutant: an id may be used again once its request is over.
RefusesPendingIds(id, command) ==
    \/ exited \/ disposing
    \/ Cardinality(Pending) >= MaxPending
    \/ command = "prompt" /\ PendingPrompts # {}
    \/ \E r \in Pending : request[r].id = id

\* The checks with which send throws.
Refuses(id, command) ==
    \/ exited \/ disposing
    \/ Cardinality(Pending) >= MaxPending
    \/ command = "prompt" /\ PendingPrompts # {}
    \/ Cardinality(used) >= MaxIds
    \/ id \in used

Write(m) == stdin' = IF proc \in Over THEN stdin ELSE Append(stdin, m)

Unrefused(r, id, command) ==
    /\ outcome[r] = "unused" /\ ~Refuses(id, command)
    /\ used' = used \cup {id}
    /\ request' = [request EXCEPT ![r] = [id |-> id, command |-> command]]
    /\ UNCHANGED <<exited, disposing, answer, stdout, child, proc, ending>>

\* send; `aim` is the prompt an abort command is for, if it comes from cancel.
SendFor(r, id, command, aim) ==
    /\ Unrefused(r, id, command)
    /\ outcome' = [outcome EXCEPT ![r] = "pending"]
    /\ Write([command |-> command, call |-> r, aim |-> aim])

Send(r, id, command) == SendFor(r, id, command, None)

\* cancel(commandId) of a pending prompt sends an abort request.
Cancel(r, id) ==
    \E p \in PendingPrompts : SendFor(r, id, "abort", p)

\* requestBestEffortAbort and writeBestEffort: only prompts are aborted.
BestEffortAbort(r) ==
    IF request[r].command = "prompt" /\ ~exited /\ ~disposing
    THEN Write([command |-> "abort", call |-> None, aim |-> r])
    ELSE stdin' = stdin

\* send with a signal that is already aborted: the command is not written.
SendAborted(r, id, command) ==
    /\ Unrefused(r, id, command)
    /\ outcome' = [outcome EXCEPT ![r] = "rejected"]
    /\ stdin' = IF command = "prompt" /\ proc \notin Over
                THEN Append(stdin, [command |-> "abort", call |-> None, aim |-> None])
                ELSE stdin

\* Mutant: the child is not told that nobody waits for its answer.
GiveUpSilently(r) ==
    /\ outcome[r] = "pending"
    /\ outcome' = [outcome EXCEPT ![r] = "rejected"]
    /\ UNCHANGED <<exited, disposing, used, request, answer, stdin, stdout, child, proc, ending>>

\* Mutant: prompts, which run long, have no deadline.
GiveUpNoPrompt(r) ==
    /\ outcome[r] = "pending" /\ request[r].command # "prompt"
    /\ outcome' = [outcome EXCEPT ![r] = "rejected"]
    /\ UNCHANGED <<exited, disposing, used, request, answer, stdin, stdout, child, proc, ending>>

\* The deadline of a request passes, or its signal aborts.
GiveUp(r) ==
    /\ outcome[r] = "pending"
    /\ outcome' = [outcome EXCEPT ![r] = "rejected"]
    /\ BestEffortAbort(r)
    /\ UNCHANGED <<exited, disposing, used, request, answer, stdout, child, proc, ending>>

\* The write callback reports an error: the child has closed its end.
WriteFails(r) ==
    /\ outcome[r] = "pending" /\ proc \in Over
    /\ outcome' = [outcome EXCEPT ![r] = "rejected"]
    /\ UNCHANGED <<exited, disposing, used, request, answer, stdin, stdout, child, proc, ending>>

\* rejectAllPending
RejectAllPending ==
    outcome' = [r \in Call |-> IF outcome[r] = "pending" THEN "rejected" ELSE outcome[r]]

\* handleLine of a response: the pending request with that id is resolved;
\* an answer nobody waits for is ignored.
HandleLine ==
    /\ stdout # <<>> /\ stdout' = Tail(stdout)
    /\ LET m == Head(stdout) IN
        \/ \E r \in Pending :
            /\ request[r].id = m.id
            /\ outcome' = [outcome EXCEPT ![r] = "resolved"]
            /\ answer' = [answer EXCEPT ![r] = m.call]
        \/ /\ \A r \in Pending : request[r].id # m.id
           /\ UNCHANGED <<outcome, answer>>
    /\ UNCHANGED <<exited, disposing, used, request, stdin, child, proc, ending>>

\* failProtocol: a line that does not parse or has no end.  `exited` stays
\* false until the exit event.
FailProtocol ==
    /\ proc = "running"
    /\ RejectAllPending
    /\ proc' = "killed"
    /\ UNCHANGED <<exited, disposing, used, request, answer, stdin, stdout, child, ending>>

-----------------------------------------------------------------------------
(* The child process.                                                      *)

\* What is still in hand of a set of calls.
StillIn(calls) == calls \cap (working' \cup {turn'})

\* An abort (abortRetry and harness.abort) ends the loop that runs, and
\* nothing else: not a preflight, nor a turn before its loop or between two.
Abort ==
    /\ phase' = IF phase = "loop" THEN "stopping" ELSE phase
    /\ missed' = missed \cup Preflight \cup (IF phase = "deaf" THEN {turn} ELSE {})

\* The child reads its next line and starts to handle it.
ChildReads ==
    /\ proc = "running" /\ stdin # <<>>
    /\ stdin' = Tail(stdin)
    /\ LET m == Head(stdin) IN
        /\ working' = working \cup ({m.call} \ {None})
        /\ last' = IF m.command = "prompt" THEN m.call ELSE last
        /\ IF m.command = "abort" THEN Abort ELSE UNCHANGED <<phase, missed>>
    /\ UNCHANGED <<exited, disposing, client, stdout, turn, proc, ending>>

\* It answers a command, in any order.  A prompt that finds no turn running
\* starts its own, unless an extension handled it or it is refused; one that
\* finds a turn is queued for that turn or refused.
ChildAnswers(r) ==
    /\ proc = "running" /\ r \in working
    /\ working' = working \ {r}
    /\ stdout' = Append(stdout, [id |-> request[r].id, call |-> r])
    /\ \/ /\ r \in Preflight /\ turn = None
          /\ turn' = r /\ phase' = "deaf"
       \/ UNCHANGED <<turn, phase>>
    /\ missed' = StillIn(missed)
    /\ UNCHANGED <<exited, disposing, client, stdin, last, proc, ending>>

\* The turn enters its loop (the harness's runAbortController is set), and
\* leaves it to retry or to compact.
TurnMoves ==
    /\ proc = "running"
    /\ \/ phase = "deaf" /\ phase' = "loop"
       \/ phase = "loop" /\ phase' = "deaf"
    /\ UNCHANGED <<exited, disposing, client, stdin, stdout, working, turn, missed, last, proc, ending>>

\* The turn is over.
TurnEnds ==
    /\ proc = "running" /\ turn # None
    /\ turn' = None /\ phase' = "none"
    /\ working' = working /\ missed' = StillIn(missed)
    /\ UNCHANGED <<exited, disposing, client, stdin, stdout, last, proc, ending>>

\* It exits, by itself, on SIGTERM, or because it was killed.
ChildExits ==
    /\ proc \in {"running", "killed"}
    /\ proc' = "gone" /\ stdin' = <<>>
    /\ working' = {} /\ turn' = None /\ phase' = "none" /\ missed' = {}
    /\ UNCHANGED <<exited, disposing, client, stdout, last, ending>>

-----------------------------------------------------------------------------
(* The end of the process: the error and exit events, and dispose.          *)

\* Mutant: an exit after an error event is reported again.
MarkExitedAgain ==
    /\ exited' = TRUE
    /\ RejectAllPending
    /\ told' = told + 1

\* markExited, once.
MarkExited ==
    \/ exited /\ UNCHANGED <<exited, outcome, told>>
    \/ /\ ~exited
       /\ exited' = TRUE
       /\ RejectAllPending
       /\ told' = told + 1

\* The error event of a process that could not be spawned.
ErrorEvent ==
    /\ proc = "unspawned" /\ ~exited
    /\ MarkExited
    /\ UNCHANGED <<disposing, used, request, answer, stdin, stdout, child, proc, exitSeen, dispose>>

\* The exit event; Node may or may not emit one after an error event.
ExitEvent ==
    /\ ~exitSeen
    /\ proc = "gone" \/ (proc = "unspawned" /\ exited)
    /\ exitSeen' = TRUE
    /\ MarkExited
    /\ UNCHANGED <<disposing, used, request, answer, stdin, stdout, child, proc, dispose>>

\* dispose up to its first await.  SIGTERM lets ChildExits happen any time.
Dispose(d) ==
    /\ dispose[d] = "none"
    /\ disposing' = TRUE
    /\ RejectAllPending
    /\ dispose' = [dispose EXCEPT ![d] = IF exited THEN "exited" ELSE "graceful"]
    /\ UNCHANGED <<exited, used, request, answer, stdin, stdout, child, proc, exitSeen, told>>

\* waitForExit resolves at the exit event.
WaitResolves(d) ==
    /\ dispose[d] \in {"graceful", "forced"} /\ exitSeen
    /\ dispose' = [dispose EXCEPT ![d] = "exited"]
    /\ UNCHANGED <<exited, disposing, client, stdin, stdout, child, proc, exitSeen, told>>

\* Its timer resolves it with `exited`: the graceful wait is followed by
\* SIGKILL and a second wait, after which dispose returns all the same.
WaitTimesOut(d) ==
    /\ dispose[d] \in {"graceful", "forced"} /\ ~exitSeen
    /\ \/ /\ exited
          /\ dispose' = [dispose EXCEPT ![d] = "exited"]
          /\ proc' = proc
       \/ /\ ~exited /\ dispose[d] = "graceful"
          /\ dispose' = [dispose EXCEPT ![d] = "forced"]
          /\ proc' = IF proc = "running" THEN "killed" ELSE proc
       \/ /\ ~exited /\ dispose[d] = "forced"
          /\ dispose' = [dispose EXCEPT ![d] = "unverified"]
          /\ proc' = proc
    /\ UNCHANGED <<exited, disposing, client, stdin, stdout, child, exitSeen, told>>

-----------------------------------------------------------------------------
\* Calls and ids are only compared, so it does not matter which unused one a
\* client comes with: the next call, and a used id or the next one.
NextCall ==
    LET unused == {r \in Call : outcome[r] = "unused"}
    IN  IF unused = {} THEN {} ELSE {CHOOSE r \in unused : TRUE}

OfferedIds ==
    used \cup (IF Id \subseteq used THEN {} ELSE {CHOOSE id \in Id : id \notin used})

Next ==
    \/ \E r \in NextCall : \E id \in OfferedIds :
        \/ \E c \in Command : Send(r, id, c) \/ SendAborted(r, id, c)
        \/ Cancel(r, id)
    \/ \E r \in Call : GiveUp(r) \/ WriteFails(r) \/ ChildAnswers(r)
    \/ HandleLine \/ FailProtocol \/ ChildReads \/ TurnMoves \/ TurnEnds \/ ChildExits
    \/ ErrorEvent \/ ExitEvent
    \/ \E d \in Disposer : Dispose(d) \/ WaitResolves(d) \/ WaitTimesOut(d)

Spec == Init /\ [][Next]_vars

\* Timers fire and events are delivered.  The child owes nothing: it may
\* never read, answer or exit, and nobody has to call dispose.
FairSpec ==
    /\ Spec
    /\ \A r \in Call : WF_vars(GiveUp(r))
    /\ WF_vars(ErrorEvent) /\ WF_vars(proc = "gone" /\ ExitEvent)
    /\ \A d \in Disposer : WF_vars(WaitResolves(d)) /\ WF_vars(WaitTimesOut(d))

-----------------------------------------------------------------------------
(* Properties.                                                             *)

\* Every variable holds a value of its kind.
TypeOK ==
    /\ {exited, disposing, exitSeen} \subseteq BOOLEAN
    /\ used \subseteq Id
    /\ request \in [Call -> Request \cup {None}]
    /\ outcome \in [Call -> {"unused", "pending", "resolved", "rejected"}]
    /\ answer \in [Call -> Call \cup {None}]
    /\ working \subseteq Call /\ missed \subseteq Call
    /\ turn \in Call \cup {None} /\ last \in Call \cup {None}
    /\ phase = "none" <=> turn = None
    /\ phase \in {"none", "deaf", "loop", "stopping"}
    /\ proc \in {"unspawned", "running", "killed", "gone"}
    /\ told \in Nat
    /\ dispose \in [Disposer -> {"none", "graceful", "forced", "exited", "unverified"}]

\* A caller gets the answer to its own command: the late answer of a request
\* that timed out never resolves a later request (usedRequestIds).
AnswerIsOwn ==
    TypeOK /\ \A r \in Call : outcome[r] = "resolved" => answer[r] = r

\* Once the process has exited or is being disposed of nothing is pending, so
\* that no caller waits out its deadline on a process that is gone.
NothingPendingAfterEnd ==
    exited \/ disposing => Pending = {}

\* The child works on two prompts at once only if it was deaf to the abort of
\* the earlier one: a prompt given up by its caller is aborted before the next
\* one can reach the child.
OnePromptOpen ==
    Cardinality(Preflight \ missed) <= 1

\* A turn whose caller gave up is being stopped, or the abort is on its way,
\* or the abort came when the child was deaf to it, in which case the turn
\* runs to its end; the process itself is stopped otherwise.
GivenUpStops ==
    turn # None /\ outcome[turn] = "rejected" /\ proc = "running" /\ ~disposing =>
        \/ phase = "stopping" \/ turn \in missed
        \/ \E k \in 1..Len(stdin) : stdin[k].command = "abort"

\* The prompt the child has read last when it reads the k-th message on stdin.
LastBefore(k) ==
    LET prompts == {j \in 1..(k - 1) : stdin[j].command = "prompt"}
    IN  IF prompts = {} THEN last
        ELSE stdin[CHOOSE j \in prompts : \A i \in prompts : i <= j].call

\* An abort written for one prompt never hits a later one: not after a
\* deadline, not from cancel racing the prompt's answer.
AbortHitsItsPrompt ==
    \A k \in 1..Len(stdin) :
        stdin[k].command = "abort" /\ stdin[k].aim # None => LastBefore(k) = stdin[k].aim

\* The supervisor hears of an exit once, though a process may report an
\* error and an exit, and never of an exit that did not happen.
ExitToldOnce ==
    told <= 1 /\ (told = 1 <=> exited) /\ (exited => proc \in Over)

\* dispose reports a verified exit only of a process that is gone, whichever
\* of the exit event, the two timers and another dispose came first.
DisposeTruthful ==
    \A d \in Disposer : dispose[d] = "exited" => proc \in Over

\* Every request is settled, whatever the child does.
EveryRequestSettles ==
    \A r \in Call : outcome[r] = "pending" ~> outcome[r] # "pending"

\* dispose returns, even if the child cannot be killed.
DisposeReturns ==
    \A d \in Disposer : dispose[d] # "none" ~> dispose[d] \in {"exited", "unverified"}

\* Prompts do not mix, as far as aborts reach: one at a time in preflight, no
\* abort of one ever hits a later one, and a prompt given up does not run on.
PromptsSeparate == OnePromptOpen /\ AbortHitsItsPrompt /\ GivenUpStops

\* The end of the process is told once and truly, and leaves no caller behind.
EndToldTruly == NothingPendingAfterEnd /\ ExitToldOnce /\ DisposeTruthful

\* Every request and every disposal comes to an end.
EverythingReturns == EveryRequestSettles /\ DisposeReturns

=============================================================================
