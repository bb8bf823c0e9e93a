# TLA+ specifications of Maestro and the agent runtime

Maestro (`packages/orchestrator`) is the service of this repository that starts
coding sessions as child processes, supervises them, serialises what clients ask
of them, and tells parent sessions how their children ended. Inside such a
session the agent runtime (`packages/agent`, `packages/coding-agent/src/core`)
runs turns against a model, executes tools, queues what the user says meanwhile,
delegates to named workers and keeps a durable journal in a session file, which
other processes may have open. These are the parts of
the repository in which processes, timers, files and continuations meet, and
therefore the parts specified here. The modules are translated from the
TypeScript source; `PROJECT.json` maps every definition to the lines it stands
for.

Contents: [Inventory](#inventory), [Modules](#modules-and-code),
[Runs](#runs), [Fairness](#fairness), [Proofs](#proofs),
[Findings](#findings), [Limits](#what-is-left-out), [Plan](#plan).

## Inventory

### Maestro

| Component | State | Operations | Interacts with |
| --- | --- | --- | --- |
| Turn leases (`turn-lease.ts`) | map session id → lease (aliases after a rebind), holder and FIFO of waiters per lease | `acquire`, `release`, `rebind`, eviction at the limit | called by the supervisor around every prompt |
| Supervisor, turns (`supervisor.ts` 509–534, 801–836) | `turnLease`, session id, identity-sync chain per instance | prompt, `agent_settled`, `compaction_end`, session switch, exit | turn leases, RPC process |
| RPC process (`rpc-process.ts`) | pending requests, used ids, exited / disposing | `send`, `cancel`, answers, deadlines, protocol failure, exit, `dispose` | child over stdin and stdout; supervisor through events |
| Lifecycle service and adapter (`lifecycle-service.ts`, `lifecycle-adapters.ts`) | a record per session (PENDING … terminal), the adapter's operation | `launch`, `stop`, `cancel`, `setWaitingInput`, `attach`, `detach` | supervisor launcher and its `terminalCompletion` promise |
| Supervisor, instances (`supervisor.ts`) | live instances: status, process, pending UI request, owner | spawn, `failSpawn`, stop, cancel, unexpected exit, UI request and answer | lifecycle, RPC process, storage, presence |
| Workspace admission (`workspace-safety.ts`) | receipts of live instances | `assertWorkspaceAdmission` | called inside spawn |
| State projection (`state-projection.ts`) | none | `projectMaestroState` | list, status and health |
| Completion queue (`completion-queue.ts`) | durable records: pending, claimed (with a lease), acknowledged | `enqueue`, `claim`, `release`, `acknowledge`, expiry, eviction | supervisor; file |
| Completion handoff (`supervisor.ts` 412–469, 536–630, 939–1087; `maestro-completion-handoff.ts`) | stored instance records, delivery rounds, the parent's transcript | the four writes that end a child, delivery rounds, recovery after a restart | queue, storage, parent process |
| Service ownership (`service-ownership.ts`, `service-runtime.ts`) | owner receipt, health file, socket | acquire, verify, take over, listen, shutdown, release | other service processes through files only |
| Storage, IPC, presence, native registration, dashboard | files, sockets, HTTP | — | all of the above |

### Agent runtime

| Component | State | Operations | Interacts with |
| --- | --- | --- | --- |
| Agent loop and `Agent` (`agent-loop.ts`, `agent.ts`) | transcript, the loop's own copy of it, steering and follow-up queues, active run, tool batch | `prompt`, `continue`, `steer`, `followUp`, `abort`, provider calls, tool batches | driven by the session; providers, tools and listeners through awaits |
| Session driver (`agent-session.ts`) | `_isAgentRunActive`, retry counter and its timer, queues as displayed | `prompt`, `clearQueue`, `abort`, automatic retry, continuation, settled event | `Agent`, user, extensions |
| Agent harness and journal (`agent-harness.ts`, `recode-harness-journal.ts`) | phase, three queues, deferred session writes, durable records of operations, turns and tools | `prompt`, `sendMessage`, `retry`, `compact`, `appendMessage`, `abort`, recovery | the loop, the session file |
| Aizen runtime (`recode-aizen-runtime.ts`) | the active run, retries, one overflow compaction | `executeWithRecovery`, `sendUserMessage`, `compactSession` | harness, session control |
| File mutation queue (`file-mutation-queue.ts`, `edit.ts`, `write.ts`) | registration queue, last call per file | `withFileMutationQueue` around each edit and write | parallel tool calls, file system, language servers |
| Session files (`session-manager.ts`, `recode-session-storage.ts`) | a tree of entries in memory, its leaf, a JSONL file | append, flush, branch, label, compact, open with migration, fork | harness, session driver; the file is shared with other processes |
| Session control (`recode-session-control.ts`, `interactive-mode.ts` 2311–2411) | record and socket path of the process that runs a session, connections, what an observer shows | `start`, `stop`, `connect`, `abort`, `settled` | Aizen runtimes and interactive modes of several processes |
| Worker delegation (`worker-directory.ts`, `named-worker.ts`, `worker-chat.ts`) | conversation records, abort controllers, one-shot counts, the user's direct chats | start, message, cancel, close, restore, teardown | tools of a turn, the user, workers' runs |

The rest of the repository (the other session stores, providers, extensions,
terminal UI, packages) is listed in `PROJECT.json` with the reason why it is not modelled.

### What is hard

* **Everything is a continuation.** The supervisor is single-threaded, but
  each `await` lets a stop, a cancel, an exit or a UI answer in. Two state
  machines, the lifecycle record and the instance status, describe one session
  and are updated at different points.
* **Requests outlive their callers.** A prompt that timed out may still run in
  the child; a handoff that timed out may still be appended by the parent; a
  client may reuse the id of a request that is over.
* **Crashes between writes.** Ending a child takes four writes (status, result,
  queue record, queued marker), starting a service takes several file operations
  next to other starters.
* **Writes that stop half way.** A session file is appended to line by line; a
  write may fail or the process die after any part of it, and what comes next is
  written behind the rest.
* **Shared keys.** Several instances may show the same durable session, and a
  session changes its id while its turn runs.
* **Bounds.** The lease map, the queue, the pending requests and the ids of a
  process are limited, and what happens at the limit is code of its own.

### What makes each component correct

* Leases: one authoritative turn per session; a release always finds its lease;
  no waiter is stranded or overtaken.
* Turns: a running turn keeps its lease; turns on one session never overlap; the
  lease comes back.
* RPC process: an answer reaches the caller whose command it answers; an abort
  hits no later prompt; a prompt given up does not run on, unless the child was deaf
  to its abort; everything settles; dispose tells the truth.
* Lifecycle: only legal transitions; both state machines agree; what has ended
  is reaped; a spawn is answered; writers do not share a worktree.
* Completions: never lost once queued, never appended twice, acknowledged only
  when on disk, claims not taken over while valid.
* Ownership: one owner; the socket of a ready service is its own; a restart
  succeeds, and its diagnosis of the last end is right.
* Agent loop: the transcript stays one a provider accepts; a queued message is
  neither lost nor sent twice; an idle session has nothing left to do; every
  prompt and every tool ends.
* Harness and runtime: the journal tells what a dead process left open, and
  closes it once; operations exclude each other; messages are kept; nothing is
  left busy.
* File mutations: parallel edits of a file behave as if each were instantaneous,
  in call order; each gets its turn.
* Session files: what a session shows can be read back; a failed write harms only
  what comes after it; the tree stays closed; a fork has the conversation it was
  cut from.
* Workers: caps hold over batches; a run can always be cancelled; no
  conversation stays running.

The hazards behind these properties are listed with their lines in
`PROJECT.json`.

## Modules and code

A step of a module is a piece of code between two awaits or two durable writes.

* **`TurnLease`** – `SessionTurnLeaseRegistry`. `leases` is the map, a member of
  `Lease` a lease object with its `holder` and `waiters`; a token has its bound
  `sessionId`, its `promise` and whether it was `released`. Actions: `Acquire`
  (with `getOrCreate` and `evictIdle`), `WaitTimeout`, `Release` (with
  `grantNext`), `Rebind` (with the alias it leaves behind).
* **`TurnAuthority`** – the contract: a turn begins on a free session, ends,
  hands over or moves. `TurnLease` implements it.
* **`TurnLeaseProofs`** – theorems, see [below](#proofs). So are `MaestroTurnsProofs`,
  `RpcProcessProofs`, `SessionLifecycleProofs`, `CompletionHandoffProofs`,
  and `ServiceOwnerProofs`, each of which extends the module it is named after;
  `CodingAgentProofs`, which extends `FileMutationQueue`, `WorkerDirectory` and
  `AgentLoop`; and `SessionHistoryProofs`, which extends `AizenRuntime` and
  `SessionFile`. So that modules can stand beside each other there, some prefix what
  every module has: `LoopSpec`, `DirectoryInit`, `SessionNext` and so on.
* **`MaestroTurns`** – `handleRpcForLive`, `queueSessionIdentitySync`,
  `syncInstanceRecord` and the event handlers, composed with an instance of
  `TurnLease`. An instance has the session its child really shows and the one
  the supervisor believes, a stage of its prompt, and the queued sync chain. `own`
  has the children that run a turn no prompt asked for: `external_event` with
  `triggerTurn`, or an extension's message (`rpc-mode.ts` 430–453, 654–729).
* **`RpcProcess`** – `RpcProcessInstance` with the two pipes, the exit event, which may
  overtake buffered answers, and the child's side as `rpc-mode.ts` has it: every
  line is handled beside the ones still unanswered (`working`); a prompt is answered
  after its preflight and may start the turn, of which one runs at a time; an abort
  reaches a turn only in the harness's loop (`phase`), not a preflight, a turn
  before its loop or one about to retry or compact. `missed` is the trace of that.
* **`SessionLifecycle`** – lifecycle record, adapter operation, launch chain,
  instance, child, stop and cancel calls, UI request and owner. `Microtask`
  steps, continuations of promises already settled, precede other steps as in
  Node. `Admits` is the live limit with `assertWorkspaceAdmission`.
* **`CompletionQueue`** – the queue's operations as operators on the set of
  records, and its limits.
* **`CompletionHandoff`** – extends `CompletionQueue` with the children, the
  stored records, the four writes, the delivery rounds, parent processes with the
  branch each has in memory and the session files, crashes, restart and recovery.
  A parent reads a file when it opens the session and does not see what others
  append later; `shared` remembers the sessions that two had open at once.
* **`ServiceOwner`** – one program counter per service process; every file
  operation of `acquireServiceOwnership`, the socket probe, listen, shutdown
  and release is a step, and a process can be killed at any of them. `late` is the
  second chain of a process whose start a shutdown has overtaken: it may still
  write `ready` and beat after the release, until the process exits.
* **`AgentLoop`** – `AgentSession.prompt` up to `_handlePostAgentRun`, `Agent` and
  `runLoop`. Each prompt call is a `driver`; `owner` is the driver of the active
  run, `pc` where the loop stands, `messages` the agent's transcript and
  `context` the loop's copy. `batch` holds the calls of the message under way, of which
  those up to `at` are prepared and the results of those up to `out` emitted. Tools end
  in any order; listeners of events may throw. A message that fails keeps the calls it
  had got to (`Failed`). A custom message goes straight into the transcript
  (`SendCustomMessage`); `inserted` remembers that one came in beside a run.
* **`AizenRuntime`** – `executeWithRecovery` (`run.stage`), the harness's `phase`,
  queues and deferred writes, and the journal inside the session file, which
  alone survives `Crash`.
* **`FileMutationQueue`** – `withFileMutationQueue` and what `edit` and `write` do
  under it, each file operation a step. A file's content is the set of mutations
  whose text it holds.
* **`AtomicFiles`** – the contract: a mutation takes effect at one instant, in call
  order per file. `FileMutationQueue` implements it.
* **`WorkerDirectory`** – records, the `stored` ids in order of their last update,
  runs with their abort signal, one-shot counts, and the sends of direct chats.

* **`SessionFile`** – `SessionManager` and the fork of `agent-session-runtime.ts`.
  `entries` and `leaf` are the manager's memory, `flushed` whether it takes the file
  as written, `disk` the files as sequences of lines with the state of the last
  one. `Persist` decides between buffering, creating and appending; every write has
  outcomes in which only a part of it arrives.

Decisions a reader would otherwise have to guess:

* The service never supplies `reconnectRpcProcess`, so recovery after a restart
  ends every record it finds live; there is no reconnect action.
* Requests are refused until recovery has finished (`service-runtime.ts`), so
  recovery steps exclude client steps.
* A save of one file is one atomic step: `atomicWriteText` writes, syncs and
  renames. Eviction and insertion into the queue are one save.
* In `CompletionHandoff` waiting for input is not told apart from online, nor a
  failed record from a cancelled or stopped one (`ended`),
  a child's exit and the end of its block are one step up to the first write,
  and the supervisor's view of a parent's session is refreshed with the switch.
  `MaestroTurns` models that lag; `SessionLifecycle` the status.
* An extension may handle a prompt without a turn: `PromptHandled`.
* In `SessionLifecycle` session ids and stop calls are interchangeable, so the
  next unused one is taken. Where the code forgets an instance, its owner and
  worktree are cleared, since nothing reads them again. All worktrees belong to
  one repository. A dialog is pending or not; which one is not distinguished.
* `dispose` is detailed in `RpcProcess`. Elsewhere it is one step that leaves
  the child gone or, after its deadline, stuck.
* `AgentLoop` has automatic compaction switched off, as its setting allows;
  `AizenRuntime` has compaction, and leaves the iteration budget, argument checks
  and terminating tools to `AgentLoop`.
* An event's listeners run inside the step that emits it, unless what they await
  lets another party in. Where a listener's failure matters there is an action
  for it (`ListenerThrows`, `DrainFails`, `PreparedHookFails` …).
* Recovery of the journal is one append per step, so a crash inside recovery
  happens too.
* In `SessionFile` a kind of entry stands for all that are treated alike: every
  message but an assistant's, every entry no model is shown. Sessions are
  persistent; an in-memory one writes nothing. A version 1 file is the one old
  format, since it lacks what the others have.
* Of a worker's four results none decides anything in the directory; a result is
  recorded or not. Restored conversations are idle.

Definitions whose comment begins with "Mutant:" are faulty variants of the
definition below them. They are used in no specification; `PROJECT.json` names
for each property the variant under which it fails.

## Runs

`tlc -config <cfg> <module>`; each finishes in a minute or two on two
cores. "States" are distinct states.

| Run | Config | Bounds | States | Shows |
| --- | --- | --- | --- | --- |
| `turn_lease` | `MCTurnLease` | 4 acquires, 2 sessions, 3 lease objects, room for 1 idle entry | 27,295 | exclusion, releases find their lease, no stranded waiter, arrival order, the refinement of `TurnAuthority`, every waiter answered |
| `turns_composed` | `MCMaestroTurns` | 2 instances, 2 prompts, 2 upsets among session changes, pipelined commands, RPC timeouts and the children's own turns | 731,256 | a turn keeps its lease unless overtaken, and no two overlap on a shown session (`TurnsKeepLeases`), the lease comes back |
| `rpc_process` | `MCRpcProcess` | 3 requests, 3 ids, 2 disposals, 2 pending | 508,980 | answers reach their own, a prompt given up does not go on beside the next (`PromptsSeparate`), exits and disposals are told truly (`EndToldTruly`), everything returns |
| `session_lifecycle` | `MCSessionLifecycle` | 2 sessions, 1 worktree, 3 requests among spawn, stop and cancel, 1 dialog at a time | 97,733 | legal transitions, one supervised writer and a consistent projection (`SessionsConsistent`), ended sessions reaped, spawns answered |
| `handoff_safety` | `MCHandoffSafety` | 2 children, 2 parents, 2 sessions, queue of 1, 1 crash, 1 timeout, 1 session change | 703,839 | queued completions are never lost, acknowledged is durable, claims are kept, nothing is appended twice |
| `handoff_outbox` | `MCHandoffOutbox` | 1 child, 2 crashes, 1 turn, 1 timeout, 1 session opened again, 1 failing write | 97,949 | results reach the queue and claims settle (`HandoffSettles`) |
| `service_owner` | `MCServiceOwner` | 3 processes, 1 or 2 starting at once, 3 attempts, killed anywhere, 1 overtaken start | 354,515 | one owner when supervised, own socket, true diagnosis, starts settle |
| `agent_loop` | `MCAgentLoop` | 3 messages, 2 calls, 4 inputs, 2 provider calls per run, 1 retry | 570,284 | acceptable transcripts, messages kept, idle means done, everything ends |
| `aizen_runtime` | `MCAizenRuntime` | 2 messages, 2 tools, 4 events, 1 retry | 876,522 | journal exact through crashes, messages kept, operations exclusive, everything settles |
| `file_mutation` | `MCFileMutation` | 3 calls, 2 files, 1 link, 1 missing file | 243,108 | queue map exact, the refinement of `AtomicFiles`, every mutation settles |
| `session_file` | `MCSessionFile` | 4 entries, a failing write taking the place of one; a session and a fork of it | 2,259,426 | what a session shows is in its file, a failed write harms only what follows, the tree stays closed, a fork keeps path, labels and context |
| `worker_directory` | `MCWorkerDirectory` | 2 workers, 3 conversations, 2 active, 1 per worker, 3 calls | 125,104 | caps hold, every run can be cancelled, no turn stays running |

Why the bounds are enough to be interesting. A lease hazard needs a holder, a
waiter, an alias and an eviction: three lease objects with a limit of one give
all of them to four tokens. A turn hazard needs two instances on one session and
a move of one of them. An RPC hazard needs a request that is over, one pending
and one abort. A lifecycle hazard needs one session against two calls, or two
sessions and one call; an instance with four requests (455,550 states,
safety only) was also explored without error. Capacity needs two children for one place;
delivery two parents and two sessions for one record; one session change is enough to
read a session again between two deliveries or to have two parents in one. Ownership needs a dead
owner and two successors. In the agent loop three messages give a run, one
message injected into it and one queued behind that; two calls are a batch with
an order, or one that fails and one that is answered; a custom message counts for two
inputs, enough to have one inside a batch; with two provider calls per run the budget runs out after a tool turn.
In the runtime two messages and four further events combine a crash with a
compaction, an abort or a failing listener around a retry. Three mutations over a
file, a link to it and a missing file give a chain with a middle that can fail.
Three calls against two active workers and one per worker reach every limit with
a batch of two. In a session file three entries are one before a failed write, the
one that failed and one behind it; four give a label, an answer and a compaction
or a branch to fork.

Deadlock is not checked in most runs: a service without requests is at rest.

Excuses built into properties, each the trace of a case where the code does not
give more:

* `live.turnLease` has room for one token, and `agent_settled` releases whichever
  is there. `TurnKeepsLease` therefore holds as long as no prompt of the instance
  was granted while a turn of its child ran, nor on its way when the child began a
  turn of its own (`overtaken`), and no prompt request has timed out in the RPC
  client (`timeouts`); `TurnGivesLeaseBack` as long as nothing was overtaken and no
  client sends a command before the last one on the instance was answered (`early`).
  `NoneOvertaken` says what overtaking takes: a session that was changed, a timeout,
  or a turn of the child's own. With three prompts and two changes it happens: a
  rebind is refused because another instance holds the target session, or a sync
  answered late brings back the old id, and the next prompt is granted another
  lease than the one the running turn holds. A turn of the child's own takes no
  lease at all. The supervisor grants the next prompt beside it, its
  `agent_settled` releases that prompt's lease, and `OneTurnPerShownSession`, which
  is about the turns of prompts, says nothing of it.
* `ReadyReachable` and `DiagnosisTruthful` except services told to stop while they
  recovered: nothing cancels their start, which says `ready` after all, and its
  writes of the health file hide what another service wrote there.
* `OnePromptOpen` and `GivenUpStops` except prompts whose abort found the child deaf to
  it (`missed`): nothing remembers such an abort, so the prompt goes on, beside the
  next one or as a turn nobody waits for, and still answers.
* `OneTurnPerShownSession` holds until a session is changed, a prompt request
  times out or a prompt is overtaken: the supervisor learns of each too late.
* `OutboxDrains` leaves out completions refused by a full queue, which are
  retried only at the next start, and behaviours with a failed session write.
  `AcknowledgedIsDurable` is checked where session writes do not fail: after a
  failed one the retry finds the entry in memory, and the completion is
  acknowledged without being on disk.
* `AppendedOnce` is about sessions that no two parents had open at once (`shared`).
  `switch_session` does not ask whether another process has the session, and each
  process looks for a delivery in its own branch only: when a handoff times out, or a
  claim lapses, and the other process claims the completion, both append it.
* `OneWriter` is about children still supervised: admission no longer counts
  a writer that is being stopped.
* `ProjectionConsistent` is about sessions without an owner and without an
  accepted cancel; with either, the two state machines differ by design of the
  handlers, and the service's health is reported as degraded meanwhile.
* Of `SessionsSettle`, `EndReapsChild` leaves out launches in which the started child's identity could
  not be read; such a child stays, with a record that is FAILED.
  `SpawnAnswered` leaves out spawns whose session is cancelled while launching.
* `IdleMeansDone` excuses prompts that overlapped (`raced`): two may both pass the
  `isStreaming` check, and the one the Agent refuses marks the session settled
  under the other.
* `MessagesKept` and `HarnessMessagesKept` excuse a listener that threw while the
  loop held the message, and a crash; the latter also a failed drain whose queue
  an abort replaced.
* `TranscriptWellFormed` wants all results of a batch only where nothing was aborted and
  no listener threw, none for the calls of a failed message, and nothing once a custom message
  came in beside a run (`inserted`): the run's copy does not have it, and it can land
  between a call and its results.
* `JournalExact` allows a second end record for a tool that a failing listener let
  outlive its batch (`finishOpenChildren` meets `tool_execution_end`).
* `HarnessExclusive` excuses two races with a manual compaction: `retry` checks
  the phase, awaits the branch and takes the phase only then, and a listener of
  `agent_end` that throws makes `emitRunFailure` reset a phase that is no longer
  its own.
* `WorkerLimits` counts runs that have not been told to stop: a closed
  conversation's run is beyond the code's count until it ends.
* `HistoryKept` wants nothing of what comes after a failed write until the session
  is read again from whole lines, and nothing of a file that a truncating write
  left half written; `TreeClosed` is about sessions without a failed write, without
  version 1 entries copied by `forkFrom`, and without a leaf entry whose target
  was a label a fork took out. `ForkKeepsConversation` leaves out the context where
  a compaction keeps entries from a label on (see [Findings](#findings)).
* `ImplementsAtomicFiles` is checked where links lead to existing files. The key
  of a missing file is the path as given, so that through a link and directly it
  has two keys, and two first writes of it are not serialised.

## Fairness

* `TurnLease`: who holds the turn releases it, an assumption on callers.
  Timers get none, so waiters are answered by releases alone.
* `MaestroTurns`: a running turn settles, whoever began it, and queued synchronisation runs
  (promise continuations; `get_state` has a deadline).
* `RpcProcess`: timers fire and events are delivered. The child owes nothing.
* `SessionLifecycle`: continuations run; requests to the child and the presence
  service have deadlines (`rpc-process.ts` 321, `RADIUS_REQUEST_TIMEOUT_MS`), and
  `dispose` returns (`DisposeReturns`). No client acts and no child dies of
  necessity. Fairness on the disjunction of these steps is enough, since a
  session takes finitely many of them.
* `CompletionHandoff`: started blocks finish, a turn ends, a live parent reads
  its commands, the native supervisor restarts a dead service. Nobody must
  start turns, hosts or children.
* `ServiceOwner`: synchronous code goes on and a recovery ends, unless the process is
  killed. An overtaken start, heartbeats and the exit get no fairness.
* `AgentLoop`, `AizenRuntime`: providers, tools, hooks and timers answer in the
  end, if only with an error (request timeouts, abort signals); nobody must
  prompt, abort or clear. A manual compaction ends on its own.
* `FileMutationQueue`: file operations and the language server answer; the
  latter is awaited with a timeout.
* `SessionFile`: none, it has safety properties only.
* `WorkerDirectory`: a worker's run, the transformation of its result and a chat's
  context lookup end. Timeouts get no fairness, so `TurnsSettle` does not rest on
  them.

## Proofs

`TurnLeaseProofs` proves, for any sets of sessions, tokens and lease objects and
any limit of the map (the `ASSUME` of `TurnLease`):

* `TypeOKAlways`: type correctness, on which the others rest;
* `OneTurnPerSessionAlways`, `ReleaseAlwaysFindsLease`, `NoStrandedWaiterAlways`: the
  safety invariants of the run `turn_lease`;
* `NoOvertakingAlways`: the action property of that run, waiters are served in order;
* `RegistryImplementsAuthority`: `Spec => Authority!Spec`, the refinement of
  `TurnAuthority` under `turn[t] = sessionId[t]` while `t` is live.

Exclusion is not inductive: that two live tokens have different session ids
says nothing about aliases. `IndInv` adds that the map leads from a holder's id
to the lease it holds (`HolderIndexed`), the same for waiters, whose lease always
has a holder (`WaiterIndexed`), that nobody is queued twice (`WaiterUnique`), and
that each live or waiting token is where its promise says (`TokenPlaced`). Two
live tokens on one session id then hold the same lease, hence are equal. One
lemma per action shows that `IndInv` is kept; `SpliceElements` and
`SuffixElements` say what removing a timed-out waiter and serving the next one
leave of a queue; `GetOrCreateKeeps` says that eviction takes only leases
without holder and waiters. The refinement uses `IndInv` before and after the
step.

`CodingAgentProofs` has three parts. For the file mutation queue it proves, for any
number of calls, any files, links and missing files (the `ASSUME` of
`FileMutationQueue`):

* `QueueMapExactAlways`: the map of the queue names a live call for a key exactly
  as long as one is registered there;
* `QueueImplementsAtomicFiles`: `Spec => Files!Spec`, the refinement of
  `AtomicFiles`, under the further assumption that the files links lead to are
  not missing, for the reason given above.

That an entry is dropped only when nobody waits behind it depends on order. The
invariant says that the registration queue holds the registering calls in call
order (`RegistrationFifo`), that calls register in that order (`KeyedInOrder`), that
the map names the last live call of a key (`LastChained`), and that behind a live
call every later one of its key waits for a call not before it (`Chained`). So the
call at work is the first live one of its key (`FirstIsFree`), and if it is also
the one the map names, the last. For the refinement `FileState` adds that keys are
files and that what an edit has read is what its file holds, or held before the
write under way; `OneAtWork` and `NobodyAhead` then give `Apply` its guard.

For the workers, for any workers, conversations and limits with `MaxActive <=
MaxConversations` (every directory the program makes keeps the defaults 8 and 64; the check
for a free slot then always succeeds, while one that failed would throw with every idle
conversation already deleted):

* `DirectoryInvariant`: the inductive invariant `DirectoryInv`;
* `WorkerLimitsHolds`, `CancelReachesRunHolds`: the safety invariants of the run
  `worker_directory`.

That a run can be cancelled, and that the limits hold of runs although the code counts
conversations, come from one fact: a run that nobody told to stop is the run of a stored
running conversation whose controller is its own (`TurnOwned`), and a conversation has one
controller. The limits are then those of the conversations and of the one-shots that were
admitted and not yet counted down (`Counted`). An eviction takes only idle
conversations, and a batch is admitted as a whole, so the sums over a batch are those of
its members.

For the run loop, for any number of messages, calls, inputs, provider calls and retries:

* `TranscriptHolds`, `IdleHolds`, `MessagesKeptHolds`: the safety invariants of the run
  `agent_loop`.

All three rest on `PartsOK`, the types with what each place of the loop lets its
locals be (`RunShape`). Each has an invariant of its own on top of that:

* The loop's copy of the transcript lacks exactly the results emitted since the batch
  began (`CopyTrails`: `messages` is `BatchSoFar(context, batch, out)`), until a custom message
  comes in beside a run, which is never forgotten. So a new result
  extends the answers of the batch's message, which is the last of `context`
  (`EachAnswers`, `AllAnswered`); a failed message, which is what a retry drops, has no
  answers, and a new entry stands behind the answers there are (`CompleteKept`).
* Unless prompts raced one driver is under way and the session says so (`OneDriver`),
  `owner` and `sleeper` name it (`DriversKnown`). When it settles the queues are empty
  of what was queued meanwhile (`NoneLeft`): it may return without looking at them only
  if the run has left no assistant message (`LastKnown`), and `continue` throws only on an
  empty transcript or one that ends with an assistant message while nothing is
  queued (`UserFirst`).
* A message is numbered (`Numbered`), what is queued, in the turn's hands and sent are
  taken in their order (`InOrder`, with `SentInOrder`, `Rising` and `AllPrecede` for its
  parts), a prompt whose driver has not begun is nowhere yet (`PromptsFresh`), and
  whatever came in is somewhere or was given back or lost to a failure (`Accounted`).
  Two places of one message, or two messages in the wrong order, would contradict
  `InOrder`, in which no message precedes itself. Each way a message moves is a lemma:
  sent from `pending`, taken from a queue by a poll or by `continue`, cleared, dropped
  with a failed run.

The other modules of theorems follow the same plan: an inductive invariant made of
named parts, one lemma for each action or group of actions alike, and the theorems
from the invariant by a step of temporal logic. Each invariant was first checked
with TLC on the bounds of the run. All constants are arbitrary; the assumptions
are those of the component's module, which say that bounds are natural numbers and
that `None` is no value of the kinds it stands beside.

`MaestroTurnsProofs` – `TurnsKeepLeasesHolds`. The composition has the registry as an
instance, and the proof takes the registry's invariant from `TurnLeaseProofs` by
instance too: `TurnsInv` is `Proved!IndInv` and the supervisor's own parts. A running
turn keeps its lease because whoever could release it is accounted for: the one
prompt of an instance on its way to the child has its lease (`SendingHeld`), none is
on its way while a turn runs, a prompt's or the child's own (`RunsAlone`), and a queued sync that releases is of a
turn that is over (`ReleasesOver`). That turns on one shown session do not overlap is
then the exclusion of the registry, since while nothing has moved every token is
bound to the session its instance shows (`Unmoved`).

`RpcProcessProofs` – `AnswerIsOwnHolds`, `EndToldTrulyHolds`, `PromptsSeparateHolds`. Answers
rest on ids (`IdsOwned`: the id of a call is its own for ever, though the set of
remembered ids is what refuses a second use) and on `Traffic`: whatever is in a pipe
is of a call that was sent. That one prompt is in preflight at a time, apart from the
ones deaf to their abort, is a property of both
pipes together: between two prompts that reach the child lies an abort
(`AbortsSeparate`), a prompt whose caller has given up has one behind it
(`AbandonedAborted`), so has the turn it started (`TurnHeeded`), a call is in one
place on its way (`OnePlace`), and an abort follows the prompt it was meant for (`AimsRight`, with the prompt that was read last
given by `LastIn` where the module counts with `LastBefore`).

`SessionLifecycleProofs` – `SessionsConsistentHolds`, `OnlyLegalTransitionsHolds`. The two
state machines agree only because each place of the launch chain fixes what record,
instance, operation and stop calls can be: `Sound(i)` says so for one session, and
steps at one session leave the others' alone, except that a launch must show that its
worktree has no other supervised writer (`OneWriter`). Legality of a transition is read
off `RecordFollows` and `EndTold`: whoever asks for the end of a session has told
its record before anything else can move it.

`CompletionHandoffProofs` – `AppendedOnceHolds`, `QueuedNeverLostHolds`,
`AcknowledgedIsDurableHolds`, `ClaimKeptHolds`. A delivery id stands for one child for ever,
wherever it is still known (`IdsFresh`), what is acknowledged is on disk (`Durable`), and
the supervisor calls a completion queued only while it is, or has been told of
(`MarkedKept`). `QueuedNeverLost` and `AcknowledgedIsDurable` are proved under `faults = 0`,
that is until a write of a session file fails, which is how the run
`handoff_safety` checks them (`MaxFaults = 0`); after such a failure they are false, as
[above](#runs). The other two hold without the condition. `AppendedOnce` rests on
`OneReader`: of a session that is not `shared` at most one running parent is a reader,
and what the file has, that parent has in memory.

`ServiceOwnerProofs` – `SupervisedOneOwnerHolds`, `DiagnosisTruthfulHolds`. The invariant is
about services started one at a time: the complete receipt in the file is of a process
past its start and of its last attempt (`ReceiptSound`), what a starter has read stays
true until it renames and diagnoses it (`StarterKnows`), a shutdown is classified
once (`ExitSound`), and health says `ready` only of a ready service, a dead one or one
whose start was overtaken (`ReadySound`). Such a start writes health at any time; what
health tells of a service (`HealthTells`) is therefore asked only while no other one's
start is late, which is the exception in the property (`LateWriteKeeps`). With several starters `StarterKnows` fails, which is the finding
[below](#findings); the types hold for any number.

`SessionHistoryProofs` has two parts. The first proves, for the runtime,
`JournalExactHolds`, `HarnessExclusiveHolds` and `HarnessMessagesKeptHolds`. Where the
run stands (`run.stage`) decides everything: whether an operation is active and whether its turn or
tools can be (`ActiveFits`), and what the phase is (`PhaseHeld`), by cases of the
operation's kind, since a prompt takes the phase after its journal record and a message
before it. `ActiveOpen` and `NothingElseOpen` say that the journal's memory and its
records agree but for tools swept already, `Recorded` that an operation is closed last;
recovery keeps it because it closes tools first, then turns, then operations. For the
messages, `Times` counts the positions that hold a message; what it is in a sequence with
an element more or less, in a joined and in a divided one follows from the library's
facts about cardinality (`TimesConcat`, `TimesSplit`, `TimesAppend`, `TimesEnds`). The
invariant then says that a message which came in is in one place or was lost
(`EachOnce`), and where a message may be at each stage (`HeldWhere`): the run's hands
are empty once the operation took its message, and nothing is pending where a drain or
a failure message would drop it. Most actions move nothing (`Quiet`), five move the
deferred writes (`Flushing`), and each of the others has a lemma.

The second part proves, for session files, with any numbers of entries, files, new
sessions and failing writes:

* `HistoryKeptHolds`, `TreeClosedHolds`: the safety invariants of the run `session_file`.

Both follow from one inductive invariant, `SessionInv`:

* Of each file (`FileOk`): its entries are numbered in the order they were made, each
  after its parent (`Numbered`). A file that is not broken ends in a whole line. In a
  broken one, what it held before the failed write are whole lines (`SafeIn`), and those
  no later write can touch: an append spoils at most the one line without newline.
* Of the open session (`Synced`): unless a write failed, its file is a header and the
  entries of the memory, or it is unflushed and has no answer and no file.
* Of entries without a failed write (`Connected`): each parent is found before its
  children. This is asked of the files too, since an open or a fork reads the
  tree from there.

The excuses of `TreeClosed` are needed in the induction as well: appending may not make
an excused tree count again (`ConnectedAppend`). That a fork's path is a tree rests on
`BranchOf`, a recursive function over the index by id. It exists (`PathExists`) because
parents have smaller numbers, so the recursion reaches a root; this is shown by a least
counterexample (`LeastOf`), and so is that a path lists entries in the order they were
made (`PathGood`). Rechaining or migrating such a list, and putting labels behind it,
gives a chain (`ChainConnected`).

Only model-checked:

* all liveness properties, which are out of the prover's reach, as is `ENABLED`;
* `ForkKeepsConversation` of `SessionFile`. It compares the paths, labels and contexts of
  a session and of its fork through `SelectSeq`, a recursive operator of the standard
  library that the prover does not expand.

## Findings

Where the code does not do what a line of the repository says, the properties are
stated with the exception named above, and TLC has found the trace that makes it
necessary:

* A stale receipt is renamed by path after it was judged (`service-ownership.ts`
  212); two manual starts at once can both own the service, against `enforces one
  verified owner` (`test/service-supervision.test.ts` 44). Started one at a time, as
  the native supervisors do, the service has one owner (`SupervisedOneOwner`).
* A fork takes the labels out of its path (`session-manager.ts` 1407), but a
  compaction may name a label as the first entry it keeps (`compaction.ts` 442–449):
  in the fork no kept entry is found, where line 425 promises the kept entries
  from `firstKeptEntryId` on. Five entries are needed: a message, its label, an
  answer, the compaction, and the label put back.
* `forkFrom` copies the entries of a version 1 file without migrating them, under a
  current header (1585–1594), where line 1545 promises the full history: the
  context of the fork is its last message.

Behaviour of the code the models contain and no property forbids, for whoever
changes it next:

* A shutdown request that comes while `recoverAfterRestart` is awaited is carried out
  beside the start. The start then publishes `ready`, `acceptingRequests` and a
  heartbeat for a service that has closed its socket and released its ownership,
  over the health of its successor if there is one (`service-runtime.ts` 213–219).
* Two parents that have one session open can append the same completion to it: the
  check for a delivery id reads the process's own branch
  (`maestro-completion-handoff.ts` 87, `rpc-mode.ts` 641).
* A crash between a child's terminal status and its result leaves a record that
  recovery skips; the parent is never told (`supervisor.ts` 957).
* A turn the child begins by itself has no lease, but its `agent_settled` releases
  the one of whichever prompt is in `live.turnLease` (`supervisor.ts` 516, 674).
* An abort that finds the child deaf stops nothing; a prompt given up before it was
  written still has an abort written, which stops the turn of an earlier one.
* A prompt handled by an extension without a turn keeps the session's lease
  until the instance exits; later prompts time out behind it (`supervisor.ts`
  830).
* `agent_settled` is emitted before the parent's run is cleared: a handoff it
  triggers may be refused as retryable, and is not retried until the next turn.
* `spawnManagedInstance` writes `online` after its awaits without looking whether
  the instance is still live (`supervisor.ts` 1153); a second stop reports
  CANCELLED while the first still disposes of the child (1172).
* An errored or aborted assistant message keeps the tool calls it had got to, and
  nobody answers them (`agent-loop.ts` 227–231). What makes the transcript acceptable is that
  `transformMessages` leaves such messages out of every request (`transform-messages.ts`
  189–197).
* A custom message that neither queues nor starts a turn is pushed into the transcript
  at once (`agent-session.ts` 1608). During a tool batch it separates a call from its
  results, and later runs send them like that; the run under way does not see it.
* `clearQueue` returns what the display lists; a message already drained by the
  loop and not yet shown as sent is then both returned and sent
  (`agent-session.ts` 1693).
* A before-agent-start hook that throws loses the next-turn messages, which by
  then are in a local variable only (`agent-harness.ts` 649).
* A worker chat closed during a send ends up naming a conversation the directory
  has removed; further sends and closes of that chat throw (`worker-chat.ts` 36).
* A line of a session file that was cut short swallows the entry appended behind it
  (`session-manager.ts` 997); an append that failed leaves its entry as the parent of
  later ones, which the file then has without it (1013); a creation that failed
  part way makes every later append fail with EEXIST until a flush (986);
  migration rewrites the file in place (870).
* A fork before the first answer fails, as the file does not exist yet; a fork to
  a leaf entry whose target was a label leads nowhere.
* Two processes prompted together can both run a session: `start` reads the record
  long before it writes its own (`recode-session-control.ts` 96).
* `packages/agent/docs/agent-harness.md` line 22 says that the journal "records
  inspectable operation, turn, tool, compaction, and tree outcomes"; the code
  journals prompts, messages and retries only.

## What is left out

* Contents of prompts, events, summaries and hashes: records are told apart by
  the child they are about. The event tail and read-only subscribers change no
  modelled state.
* Parsing, validation, authentication, permissions, Git inspection.
* The lock between processes that have one session open
  (`recode-session-control.ts`): to Maestro and the runtime it is a delay or a
  refusal.
* Session-v4 storage, and the backup that replaces an unreadable state file
  (`storage.ts` 282), which is one write older: the modules take a completed save
  as durable.
* Token estimates and summaries of a compaction, matching and formatting of edits, prompt
  building, the workers' workspaces: functions of text.
* Custom messages that are queued or start a turn go the way of the messages modelled;
  those kept for the next turn are part of its prompt.
* Of the harness: skills, prompt templates, tree navigation and setters; of the
  session: bash, model switching, tree navigation, automatic compaction.
* Most of the repository's lines are terminal UI, provider adapters with generated
  model catalogues, extension and package management, HTML export and scripts.
  They keep no state that several parties change, or wrap external services; a
  model of them would restate them. They are why the share of mapped lines is
  small.
* Expiry of terminal lifecycle records and correlation ids; the named-worker
  adapter, which the supervisor does not install.
* A completion addressed to an instance that a restart has ended stays in the
  queue until it expires; rounds deliver at most `ClaimLimit` records, the rest
  waits for the next trigger. Both are behaviours of the model, not properties.
* Deduplication of completions looks at the current branch of the parent's session;
  branches are part of `SessionFile` and not of `CompletionHandoff`, where sessions
  have their file. The first flush of a new session, which rewrites a file whole, and
  a switch to a path without a file are left to `SessionFile`.

## Plan

Done, in this order: `TurnLease` with its contract and proofs, `ServiceOwner`,
`CompletionQueue` and `CompletionHandoff`, `MaestroTurns`, `RpcProcess`,
`SessionLifecycle`, `AgentLoop`, `AizenRuntime`, `FileMutationQueue` with its contract
and proofs, `WorkerDirectory`, `SessionFile`; then the proofs about `ServiceOwner`,
`RpcProcess`, `CompletionHandoff`, `SessionLifecycle`, `MaestroTurns`, `AizenRuntime`,
`WorkerDirectory`, `AgentLoop` and `SessionFile`.

Next, model:

1. `SessionControl` – record, socket and observers of a session that several
   processes have open; with `SessionFile`, what a process that was not told of
   another's run writes behind it.
2. `Storage` – the atomic write with backup, and what recovery from the backup
   means to the queue (composed with `CompletionQueue`).
3. Session-v4 storage: the append-only tree and its recovery, under the journal
   of `AizenRuntime`.
4. Ids for UI requests in `SessionLifecycle`, expiry of terminal records.

Next, prove:

1. `SessionFile`: that a fork has the path it was cut from, the first part of
   `ForkKeepsConversation` (needs: a filter the provers can expand instead of
   `SelectSeq`, and that a path and its rechained copy have the same ids).
2. `MaestroTurns`: whether a session change overtakes nothing as long as no rebind is
   refused and no sync is answered late.
