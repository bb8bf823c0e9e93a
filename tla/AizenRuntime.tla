----------------------------- MODULE AizenRuntime -----------------------------
(***************************************************************************)
(* The Aizen runtime: executeWithRecovery around AgentHarness              *)
(* (packages/coding-agent/src/core/recode-aizen-runtime.ts), the harness's *)
(* phase, queues and deferred session writes                               *)
(* (packages/agent/src/harness/agent-harness.ts) and its durable journal   *)
(* (packages/agent/src/harness/recode-harness-journal.ts).                 *)
(*                                                                         *)
(* One run of the runtime is a sequence of harness operations: a prompt or *)
(* message, retries of it, compactions.  run.stage says where it stands,   *)
(* run.intent which operation is under way.  Manual compaction, aborts,    *)
(* sends and appends come in at any time; listeners may throw.  The        *)
(* process may die at any moment: the session file with the journal in it  *)
(* remains, everything else goes.  The iteration budget, argument checks   *)
(* and terminating tools of the loop are in AgentLoop, not here.           *)
(***************************************************************************)
EXTENDS Integers, Sequences, FiniteSets, SequencesExt

CONSTANTS
    MaxMessages,   \* user and extension messages of a behaviour
    MaxTools,      \* tool calls
    MaxEvents,     \* messages, tools, aborts, manual compactions, crashes, faults
    MaxRetries     \* recovery.retry.maxRetries

ASSUME AizenAssumption == {MaxMessages, MaxTools, MaxEvents, MaxRetries} \subseteq Nat

Msg == 1..MaxMessages

VARIABLES
    phase,      \* harness.phase
    run,        \* executeWithRecovery and the harness operation under it
    manual,     \* compactSession called by the user is working
    kind,       \* how each message came in
    q,          \* the queues, the drained messages, the deferred writes, the waiting sends
    given,      \* messages handed back: cleared by abort, or refused
    session,    \* the session file: user messages, roles of its branch's end, journal
    active,     \* the journal's activeOperation, activeTurnId, activeTools
    executing,  \* tools that run, by their place in the journal
    recovered,  \* recoveryPromise has settled
    count       \* events so far

vars == <<phase, run, manual, kind, q, given, session, active, executing, recovered, count>>

NoRun == [stage |-> "none", intent |-> "none", input |-> 0,
          controller |-> FALSE, aborted |-> FALSE,    \* runAbortController, its signal
          resp |-> "none",                            \* how the last response stopped
          more |-> FALSE, first |-> FALSE,            \* another turn is due; the first turn
          from |-> "none", detached |-> FALSE,        \* queue of a drain; abort replaced it
          retries |-> 0, overflow |-> FALSE, compact |-> FALSE]

NoQueues == [steer |-> <<>>, followUp |-> <<>>, nextTurn |-> <<>>, pending |-> <<>>,
             writes |-> <<>>, waiting |-> <<>>]

NoActive == [op |-> 0, turn |-> 0, tools |-> {}, swept |-> {}]

Events == Cardinality({m \in Msg : kind[m] # "none"}) + count.tools + count.aborts
            + count.compactions + count.crashes + count.faults + count.drainFaults

MayHappen == Events < MaxEvents

Fresh == {m \in Msg : /\ MayHappen
                      /\ kind[m] = "none"
                      /\ \A n \in Msg : n < m => kind[n] # "none"}

At(stage) == run.stage = stage

To(stage) == run' = [run EXCEPT !.stage = stage]

-----------------------------------------------------------------------------
(* The session file. *)

\* appendMessage of a message whose role the code looks at.
Appended(s, role) == [s EXCEPT !.before = s.last, !.last = role]

\* A user message is also kept by its number.
AppendedUser(s, ms) ==
    IF ms = <<>> THEN s ELSE [Appended(s, "user") EXCEPT !.messages = s.messages \o ms]

\* The journal's records: an item for each start, and how often it was closed.
Item(level, op) == [level |-> level, op |-> op, of |-> run.intent, closes |-> 0]

Started(s, level) ==
    [s EXCEPT !.journal = Append(@, Item(level, active.op))]

Closed(s, i) == [s EXCEPT !.journal[i].closes = @ + 1]

Place(s) == Len(s.journal) + 1

Open == {i \in DOMAIN session.journal : session.journal[i].closes = 0}

Init ==
    /\ phase = "idle"
    /\ run = NoRun
    /\ manual = FALSE
    /\ kind = [m \in Msg |-> "none"]
    /\ q = NoQueues
    /\ given = {}
    /\ session = [messages |-> <<>>, last |-> "none", before |-> "none", journal |-> <<>>]
    /\ active = NoActive
    /\ executing = {}
    /\ recovered = FALSE
    /\ count = [tools |-> 0, aborts |-> 0, compactions |-> 0, crashes |-> 0, faults |-> 0,
                drainFaults |-> 0]

-----------------------------------------------------------------------------
(* Messages in. *)

\* runWithRecovery, which throws when a run is active.
StartRun(m, intent) ==
    /\ At("none")
    /\ run' = [NoRun EXCEPT !.stage = "starting", !.intent = intent, !.input = m]

Prompt(m) ==
    /\ m \in Fresh
    /\ kind' = [kind EXCEPT ![m] = "prompt"]
    /\ StartRun(m, "prompt")
    /\ UNCHANGED <<phase, manual, q, given, session, active, executing, recovered, count>>

\* sendUserMessage: a run of its own, a queue of the active one, or, when the
\* harness is idle inside an active run, another try after that run.
SendUserMessage(m) ==
    /\ m \in Fresh
    /\ kind' = [kind EXCEPT ![m] = "send"]
    /\ \/ StartRun(m, "message") /\ UNCHANGED q
       \/ /\ ~At("none")
          /\ IF phase # "idle"
             THEN \E name \in {"steer", "followUp"} : q' = [q EXCEPT ![name] = Append(@, m)]
             ELSE q' = [q EXCEPT !.waiting = Append(@, m)]
          /\ UNCHANGED run
    /\ UNCHANGED <<phase, manual, given, session, active, executing, recovered, count>>

\* The run a send waited for is over.
Resend ==
    /\ q.waiting # <<>>
    /\ q' = [q EXCEPT !.waiting = Tail(@)]
    /\ StartRun(Head(q.waiting), "message")
    /\ UNCHANGED <<phase, manual, kind, given, session, active, executing, recovered, count>>

NextTurnMessage(m) ==
    /\ m \in Fresh
    /\ kind' = [kind EXCEPT ![m] = "nextTurn"]
    /\ q' = [q EXCEPT !.nextTurn = Append(@, m)]
    /\ UNCHANGED <<phase, run, manual, given, session, active, executing, recovered, count>>

\* Written at once in phase idle, deferred otherwise.
AppendMessage(m) ==
    /\ m \in Fresh
    /\ kind' = [kind EXCEPT ![m] = "append"]
    /\ IF phase = "idle"
       THEN session' = AppendedUser(session, <<m>>) /\ UNCHANGED q
       ELSE q' = [q EXCEPT !.writes = Append(@, m)] /\ UNCHANGED session
    /\ UNCHANGED <<phase, run, manual, given, active, executing, recovered, count>>

\* abort hands back the queues and aborts the run that has a controller;
\* clearQueuedMessages only hands them back.
ClearQueues(abort) ==
    /\ MayHappen
    /\ count' = [count EXCEPT !.aborts = @ + 1]
    /\ given' = given \cup ToSet(q.steer) \cup ToSet(q.followUp)
    /\ q' = [q EXCEPT !.steer = <<>>, !.followUp = <<>>]
    /\ run' = [run EXCEPT !.detached = At("drained"),
                          !.aborted = @ \/ (abort /\ run.controller)]
    /\ UNCHANGED <<phase, manual, kind, session, active, executing, recovered>>

-----------------------------------------------------------------------------
(* The start of an operation. *)

\* The caller of a prompt or message gets an error.
Refused == given' = IF run.input = 0 THEN given ELSE given \cup {run.input}

\* sessionControl.start may throw, outside of executeWithRecovery's try.  A
\* message takes the phase before its journal record, a prompt after it.
Start ==
    /\ At("starting")
    /\ \/ run' = NoRun /\ Refused /\ UNCHANGED phase
       \/ To("begin") /\ run.intent = "prompt" /\ UNCHANGED <<phase, given>>
       \/ /\ run.intent = "message" /\ phase = "idle"
          /\ phase' = "turn"
          /\ To("begin")
          /\ UNCHANGED given
       \/ /\ run.intent = "message" /\ phase # "idle"
          /\ Refused
          /\ run' = [run EXCEPT !.stage = "settling", !.input = 0]
          /\ UNCHANGED phase
    /\ UNCHANGED <<manual, kind, q, session, active, executing, recovered, count>>

\* recoverUnfinishedWork closes what the records leave open: tools, then
\* turns, then operations, one append at a time.
RecoverNext(i) ==
    /\ i \in Open
    /\ \A j \in Open \ {i} :
         LET mine == session.journal[i].level
             other == session.journal[j].level
         IN  CASE mine = "tool" -> other = "tool" => i < j
               [] mine = "turn" -> other = "op" \/ (other = "turn" /\ i < j)
               [] OTHER -> other = "op" /\ i < j

Recover ==
    /\ At("begin") /\ ~recovered
    /\ \/ \E i \in Open : RecoverNext(i) /\ session' = Closed(session, i) /\ UNCHANGED recovered
       \/ Open = {} /\ recovered' = TRUE /\ UNCHANGED session
    /\ UNCHANGED <<phase, run, manual, kind, q, given, active, executing, count>>

BeginOperation ==
    /\ At("begin") /\ recovered
    /\ active.op = 0
    /\ session' = [session EXCEPT !.journal =
                     Append(@, Item("op", Place(session)))]
    /\ active' = [active EXCEPT !.op = Place(session)]
    /\ To("work")
    /\ UNCHANGED <<phase, manual, kind, q, given, executing, recovered, count>>

\* promptUnjournaled resets the phase where it catches; sendMessage and
\* retry reset it once the operation's end is recorded.
Throw ==
    /\ phase' = IF run.intent = "prompt" THEN "idle" ELSE phase
    /\ run' = [run EXCEPT !.stage = "interrupting", !.input = 0, !.controller = FALSE,
                          !.aborted = FALSE]

\* Mutant: a prompt does not look at the phase.
NeverBusy == FALSE

\* promptUnjournaled refuses a busy harness; a message has checked already.
Busy == run.intent = "prompt" /\ phase # "idle"

\* A prompt checks the phase here.  executeTurn takes the next-turn messages.
Work ==
    /\ At("work") /\ run.intent # "retry"
    /\ IF Busy
       THEN /\ Refused
            /\ run' = [run EXCEPT !.stage = "interrupting", !.input = 0]
            /\ UNCHANGED <<phase, q>>
       ELSE /\ phase' = "turn"
            /\ q' = [q EXCEPT !.pending = q.nextTurn \o <<run.input>>, !.nextTurn = <<>>]
            /\ run' = [run EXCEPT !.stage = "prepared", !.input = 0]
            /\ UNCHANGED given
    /\ UNCHANGED <<manual, kind, session, active, executing, recovered, count>>

\* emitQueueUpdate and the before_agent_start hook have run.
Prepared ==
    /\ At("prepared")
    /\ run' = [run EXCEPT !.stage = "turn", !.controller = TRUE, !.first = TRUE]
    /\ UNCHANGED <<phase, manual, kind, q, given, session, active, executing, recovered, count>>

\* emitQueueUpdate threw: the next-turn messages go back to their queue.
PreparedQueueFails ==
    /\ At("prepared") /\ MayHappen /\ Len(q.pending) > 1
    /\ count' = [count EXCEPT !.drainFaults = @ + 1]
    /\ q' = [q EXCEPT !.nextTurn = Front(q.pending) \o @, !.pending = <<>>]
    /\ given' = given \cup {Last(q.pending)}
    /\ Throw
    /\ UNCHANGED <<manual, kind, session, active, executing, recovered>>

\* before_agent_start threw: the messages are in a local variable only.
PreparedHookFails ==
    /\ At("prepared") /\ MayHappen
    /\ count' = [count EXCEPT !.faults = @ + 1]
    /\ q' = [q EXCEPT !.pending = <<>>]
    /\ given' = given \cup {Last(q.pending)}
    /\ Throw
    /\ UNCHANGED <<manual, kind, session, active, executing, recovered>>

\* executeContinuation; the loop refuses to continue from an assistant message.
WorkRetry ==
    /\ At("work") /\ run.intent = "retry"
    /\ \/ /\ session.last \in {"user", "toolResult"}
          /\ run' = [run EXCEPT !.stage = "turn", !.controller = TRUE, !.first = TRUE]
          /\ UNCHANGED phase
       \/ session.last \notin {"user", "toolResult"} /\ Throw
    /\ UNCHANGED <<manual, kind, q, given, session, active, executing, recovered, count>>

-----------------------------------------------------------------------------
(* The agent loop. *)

\* flushPendingSessionWrites.
Flushed(s) == AppendedUser(s, q.writes)

TurnStart ==
    /\ At("turn")
    /\ session' = Started(session, "turn")
    /\ active' = [active EXCEPT !.turn = Place(session)]
    /\ To("inject")
    /\ UNCHANGED <<phase, manual, kind, q, given, executing, recovered, count>>

\* Pending messages are appended one by one.  The first turn polls the
\* steering queue before it streams.
Inject ==
    /\ At("inject")
    /\ IF q.pending = <<>>
       THEN /\ To(IF run.first THEN "poll" ELSE "stream")
            /\ UNCHANGED <<q, session>>
       ELSE /\ session' = AppendedUser(session, <<Head(q.pending)>>)
            /\ q' = [q EXCEPT !.pending = Tail(@)]
            /\ UNCHANGED run
    /\ UNCHANGED <<phase, manual, kind, given, active, executing, recovered, count>>

\* drainQueuedMessages, up to its await: one message or all of them.
Drain(name) ==
    /\ q[name] # <<>>
    /\ \E n \in {1, Len(q[name])} :
         q' = [q EXCEPT !.pending = SubSeq(q[name], 1, n),
                        ![name] = SubSeq(q[name], n + 1, Len(q[name]))]
    /\ run' = [run EXCEPT !.stage = "drained", !.from = name, !.detached = FALSE]

\* Steering messages come first; follow-ups are looked at when no turn is due.
Poll ==
    /\ At("poll")
    /\ \/ Drain("steer")
       \/ /\ q.steer = <<>>
          /\ run.first \/ run.more
          /\ run' = [run EXCEPT !.stage = IF run.first THEN "stream" ELSE "turn", !.first = FALSE]
          /\ UNCHANGED q
       \/ /\ q.steer = <<>> /\ ~run.first /\ ~run.more
          /\ \/ Drain("followUp")
             \/ q.followUp = <<>> /\ To("agentEnd") /\ UNCHANGED q
    /\ UNCHANGED <<phase, manual, kind, given, session, active, executing, recovered, count>>

\* emitQueueUpdate ended: the messages are the next pending ones.
Drained ==
    /\ At("drained")
    /\ run' = [run EXCEPT !.stage = IF run.first THEN "inject" ELSE "turn", !.first = FALSE]
    /\ UNCHANGED <<phase, manual, kind, q, given, session, active, executing, recovered, count>>

\* Mutant: a drain whose queue update fails drops its messages.
NotRestored == [q EXCEPT !.pending = <<>>]

\* It threw: the messages go back to the array they came from, which is no
\* longer the queue if an abort replaced it meanwhile.
Restored ==
    [q EXCEPT !.pending = <<>>, ![run.from] = IF run.detached THEN @ ELSE q.pending \o @]

DrainFails ==
    /\ At("drained") /\ MayHappen
    /\ count' = [count EXCEPT !.drainFaults = @ + 1]
    /\ q' = Restored
    /\ To("failing")
    /\ UNCHANGED <<phase, manual, kind, given, session, active, executing, recovered>>

\* The response without tool calls: appended, then the turn ends.
Respond(resp) ==
    /\ At("stream")
    /\ resp = "aborted" => run.aborted
    /\ run' = [run EXCEPT !.stage = "turnEnd", !.resp = resp, !.more = FALSE]
    /\ session' = Appended(session, IF resp \in {"error", "overflow"} THEN "error" ELSE "assistant")
    /\ UNCHANGED <<phase, manual, kind, q, given, active, executing, recovered, count>>

\* A response that calls tools: their starts are recorded before any runs.
RespondTools(n) ==
    /\ At("stream")
    /\ count.tools + n <= MaxTools /\ Events + n <= MaxEvents
    /\ count' = [count EXCEPT !.tools = @ + n]
    /\ LET first == Place(session)
           ts == first .. (first + n - 1)
       IN  /\ session' = [Appended(session, "assistant") EXCEPT !.journal =
                            @ \o [i \in 1..n |-> Item("tool", active.op)]]
           /\ active' = [active EXCEPT !.tools = ts]
           /\ executing' = executing \cup ts
    /\ run' = [run EXCEPT !.stage = "tools", !.resp = "tools", !.more = TRUE]
    /\ UNCHANGED <<phase, manual, kind, q, given, recovered>>

\* tool_execution_end.  A tool outlives its batch when a listener of another
\* one threw; the journal ignores it unless it still has it as active.
ToolEnds(t) ==
    /\ t \in executing
    /\ executing' = executing \ {t}
    /\ IF active.op # 0 /\ t \in active.tools
       THEN session' = Closed(session, t) /\ active' = [active EXCEPT !.tools = @ \ {t}]
       ELSE UNCHANGED <<session, active>>
    /\ UNCHANGED <<phase, run, manual, kind, q, given, recovered, count>>

BatchEnds ==
    /\ At("tools") /\ active.tools = {}
    /\ session' = Appended(session, "toolResult")
    /\ To("turnEnd")
    /\ UNCHANGED <<phase, manual, kind, q, given, active, executing, recovered, count>>

\* Mutant: the end of a turn is not recorded.
TurnNotClosed(s) == s

\* recordAgentEvent(turn_end): nothing without an active turn.
TurnClosed(s) == IF active.turn = 0 THEN s ELSE Closed(s, active.turn)

\* turn_end: deferred writes, the turn's record; an error or abort ends the loop.
TurnEnd ==
    /\ At("turnEnd")
    /\ session' = TurnClosed(Flushed(session))
    /\ q' = [q EXCEPT !.writes = <<>>]
    /\ active' = [active EXCEPT !.turn = 0]
    /\ To(IF run.resp \in {"error", "overflow", "aborted"} THEN "agentEnd" ELSE "poll")
    /\ UNCHANGED <<phase, manual, kind, given, executing, recovered, count>>

AgentEnd ==
    /\ At("agentEnd")
    /\ session' = Flushed(session)
    /\ q' = [q EXCEPT !.writes = <<>>]
    /\ phase' = "idle"
    /\ To("ended")
    /\ UNCHANGED <<manual, kind, given, active, executing, recovered, count>>

\* A listener of one of the loop's events throws; what was drained is lost.
ListenerThrows ==
    /\ run.stage \in {"turn", "inject", "stream", "tools", "turnEnd", "agentEnd", "ended"}
    /\ MayHappen
    /\ count' = [count EXCEPT !.faults = @ + 1]
    /\ q' = [q EXCEPT !.pending = <<>>]
    /\ To("failing")
    /\ UNCHANGED <<phase, manual, kind, given, session, active, executing, recovered>>

\* emitRunFailure appends a failure message and ends the turn and the run.
EmitRunFailure ==
    /\ At("failing") /\ run.intent # "retry"
    /\ session' = TurnClosed(Flushed(Appended(session, IF run.aborted THEN "assistant" ELSE "error")))
    /\ q' = [q EXCEPT !.writes = <<>>]
    /\ active' = [active EXCEPT !.turn = 0]
    /\ phase' = "idle"
    /\ run' = [run EXCEPT !.stage = "ended", !.resp = IF run.aborted THEN "aborted" ELSE "error"]
    /\ UNCHANGED <<manual, kind, given, executing, recovered, count>>

\* It throws too, or there is none (a retry): the operation is interrupted.
FailureThrows ==
    /\ At("failing")
    /\ \/ run.intent = "retry" /\ UNCHANGED count
       \/ /\ run.intent # "retry" /\ MayHappen
          /\ count' = [count EXCEPT !.faults = @ + 1]
    /\ session' = Flushed(session)
    /\ q' = [q EXCEPT !.writes = <<>>]
    /\ Throw
    /\ UNCHANGED <<manual, kind, given, active, executing, recovered>>

\* The finally of executeTurn and executeContinuation.
ExecuteEnds ==
    /\ At("ended")
    /\ session' = Flushed(session)
    /\ q' = [q EXCEPT !.writes = <<>>]
    /\ run' = [run EXCEPT !.stage = "closing", !.controller = FALSE, !.aborted = FALSE]
    /\ UNCHANGED <<phase, manual, kind, given, active, executing, recovered, count>>

-----------------------------------------------------------------------------
(* finishOperation and interruptOperation. *)

Closing == run.stage \in {"closing", "interrupting"}

\* finishOpenChildren: the tools one by one, then the turn.
FinishOpenTool ==
    /\ Closing
    /\ \E t \in active.tools \ active.swept :
         /\ \A u \in active.tools \ active.swept : t <= u
         /\ session' = Closed(session, t)
         /\ active' = [active EXCEPT !.swept = @ \cup {t}]
    /\ UNCHANGED <<phase, run, manual, kind, q, given, executing, recovered, count>>

FinishOpenTurn ==
    /\ Closing
    /\ active.tools \subseteq active.swept
    /\ active.turn # 0
    /\ session' = Closed(session, active.turn)
    /\ active' = [active EXCEPT !.tools = {}, !.swept = {}, !.turn = 0]
    /\ UNCHANGED <<phase, run, manual, kind, q, given, executing, recovered, count>>

\* Mutant: sendMessage and retry do not reset the phase when they throw.
PhaseKept == phase

\* The phase once an interrupted operation's end is recorded.
PhaseReset == IF run.intent = "prompt" THEN phase ELSE "idle"

FinishOperation ==
    /\ Closing
    /\ active.tools \subseteq active.swept
    /\ active.turn = 0
    /\ session' = Closed(session, active.op)
    /\ active' = NoActive
    /\ IF At("closing")
       THEN To("decide") /\ UNCHANGED phase
       ELSE To("settling") /\ phase' = PhaseReset
    /\ UNCHANGED <<manual, kind, q, given, executing, recovered, count>>

-----------------------------------------------------------------------------
(* executeWithRecovery after a response. *)

\* harness.retry, up to its read of the branch.
CallRetry(compact) ==
    run' = [run EXCEPT !.stage = IF phase = "idle" THEN "retrying" ELSE "settling",
                       !.compact = compact, !.overflow = @ \/ compact]

\* An error may be retryable; a context overflow is compacted once.
Decide ==
    /\ At("decide")
    /\ \/ /\ run.resp = "error" /\ run.retries < MaxRetries
          /\ run' = [run EXCEPT !.stage = "sleep", !.retries = @ + 1]
       \/ run.resp = "overflow" /\ ~run.overflow /\ CallRetry(TRUE)
       \/ (run.resp = "overflow" => run.overflow) /\ To("threshold")
    /\ UNCHANGED <<phase, manual, kind, q, given, session, active, executing, recovered, count>>

\* The delay is over, or abortRetry cut it short.
Wake ==
    /\ At("sleep")
    /\ CallRetry(FALSE) \/ To("threshold")
    /\ UNCHANGED <<phase, manual, kind, q, given, session, active, executing, recovered, count>>

\* The branch must end in an error, which is taken off it; then compact.
RetryFromParent ==
    /\ At("retrying")
    /\ IF session.last # "error"
       THEN To("settling") /\ UNCHANGED <<phase, session>>
       ELSE /\ session' = [session EXCEPT !.last = session.before]
            /\ IF ~run.compact THEN To("leafSet") /\ UNCHANGED phase
               ELSE IF phase = "idle" THEN To("compacting") /\ phase' = "compaction"
               ELSE To("settling") /\ UNCHANGED phase
    /\ UNCHANGED <<manual, kind, q, given, active, executing, recovered, count>>

\* phase = "retry", whatever it was.
RetryStarts ==
    /\ At("leafSet")
    /\ phase' = "retry"
    /\ run' = [run EXCEPT !.stage = "begin", !.intent = "retry"]
    /\ UNCHANGED <<manual, kind, q, given, session, active, executing, recovered, count>>

\* The threshold compaction: not after an abort; a busy harness is swallowed.
Threshold ==
    /\ At("threshold")
    /\ \/ To("settling") /\ UNCHANGED phase
       \/ /\ run.resp # "aborted" /\ phase = "idle"
          /\ phase' = "compaction"
          /\ run' = [run EXCEPT !.stage = "compacting", !.compact = FALSE]
    /\ UNCHANGED <<manual, kind, q, given, session, active, executing, recovered, count>>

\* compact ends; only one that succeeds lets the overflow's retry go on.
CompactEnds ==
    /\ At("compacting")
    /\ phase' = "idle"
    /\ (run.compact /\ To("leafSet")) \/ To("settling")
    /\ UNCHANGED <<manual, kind, q, given, session, active, executing, recovered, count>>

\* The finally block: agent_settled, sessionControl.stop, activeRun cleared.
Settle ==
    /\ At("settling")
    /\ run' = NoRun
    /\ UNCHANGED <<phase, manual, kind, q, given, session, active, executing, recovered, count>>

-----------------------------------------------------------------------------

ManualCompact ==
    /\ MayHappen /\ ~manual
    /\ phase = "idle"
    /\ phase' = "compaction"
    /\ manual' = TRUE
    /\ count' = [count EXCEPT !.compactions = @ + 1]
    /\ UNCHANGED <<run, kind, q, given, session, active, executing, recovered>>

\* The finally of compact: phase = "idle", whatever it was.
ManualCompactEnds ==
    /\ manual
    /\ phase' = "idle"
    /\ manual' = FALSE
    /\ UNCHANGED <<run, kind, q, given, session, active, executing, recovered, count>>

\* The process dies; another one opens the session file.
Crash ==
    /\ MayHappen
    /\ count' = [count EXCEPT !.crashes = @ + 1]
    /\ phase' = "idle" /\ run' = NoRun /\ manual' = FALSE
    /\ q' = NoQueues /\ active' = NoActive /\ executing' = {} /\ recovered' = FALSE
    /\ UNCHANGED <<kind, given, session>>

\* Steps that need no further input.
Internal ==
    \/ Resend \/ Start \/ Recover \/ BeginOperation \/ Work \/ Prepared \/ WorkRetry
    \/ TurnStart \/ Inject \/ Poll \/ Drained
    \/ (\E resp \in {"stop", "error", "overflow", "aborted"} : Respond(resp))
    \/ (\E t \in executing : ToolEnds(t))
    \/ BatchEnds \/ TurnEnd \/ AgentEnd \/ EmitRunFailure \/ FailureThrows \/ ExecuteEnds
    \/ FinishOpenTool \/ FinishOpenTurn \/ FinishOperation
    \/ Decide \/ Wake \/ RetryFromParent \/ RetryStarts \/ Threshold \/ CompactEnds \/ Settle
    \/ ManualCompactEnds

Next ==
    \/ \E m \in Msg : Prompt(m) \/ SendUserMessage(m) \/ NextTurnMessage(m) \/ AppendMessage(m)
    \/ \E abort \in BOOLEAN : ClearQueues(abort)
    \/ \E n \in 1..2 : RespondTools(n)
    \/ PreparedQueueFails \/ PreparedHookFails \/ DrainFails \/ ListenerThrows
    \/ ManualCompact \/ Crash
    \/ Internal

\* Every await ends: providers and tools answer or time out, timers fire, the
\* event loop serves every continuation, a compaction and a tool of their own too.
Spec ==
    /\ Init /\ [][Next]_vars
    /\ WF_vars(Internal)
    /\ WF_vars(ManualCompactEnds)

-----------------------------------------------------------------------------

TypeOK ==
    /\ phase \in {"idle", "turn", "compaction", "retry"}
    /\ manual \in BOOLEAN /\ recovered \in BOOLEAN
    /\ given \subseteq Msg
    /\ \A name \in DOMAIN q : q[name] \in Seq(Msg)
    /\ active.tools \cup active.swept \cup executing \subseteq DOMAIN session.journal
    /\ {active.op, active.turn} \subseteq {0} \cup DOMAIN session.journal

\* The durable journal tells the truth about what a process left unfinished:
\* every started operation, turn and tool gets one terminal record (a tool a
\* second one only when a listener's failure let it outlive its batch), an
\* operation is never closed before its turns and tools, and once recovery
\* has run nothing is open but what belongs to the active operation, however
\* crashes, failing listeners, aborts and retries fall.
JournalExact ==
    /\ TypeOK
    /\ \A i \in DOMAIN session.journal :
         LET item == session.journal[i] IN
           /\ item.closes <= IF item.level = "tool" /\ count.faults > 0 THEN 2 ELSE 1
           /\ item.level = "op" /\ item.closes > 0 =>
                \A j \in DOMAIN session.journal : session.journal[j].op = i => j \notin Open
           /\ recovered /\ i \in Open => item.op = active.op

Times(m, s) == Cardinality({i \in DOMAIN s : s[i] = m})

\* How often a message is somewhere.
Held(m) ==
    Times(m, q.steer) + Times(m, q.followUp) + Times(m, q.nextTurn) + Times(m, q.pending)
      + Times(m, q.writes) + Times(m, q.waiting) + Times(m, session.messages)
      + (IF run.input = m THEN 1 ELSE 0) + (IF m \in given THEN 1 ELSE 0)

\* A message the harness took is queued, under way, in the session or handed
\* back, never twice, whatever aborts, retries and compactions do meanwhile.
\* It may go missing only with a crash, with a listener that threw while the
\* loop held it, or when a failed drain met an abort that replaced the queue.
HarnessMessagesKept ==
    \A m \in Msg :
      /\ Held(m) <= 1
      /\ kind[m] # "none" /\ Held(m) = 0 =>
           \/ count.crashes + count.faults > 0
           \/ count.drainFaults > 0 /\ count.aborts > 0

\* "Only one foreground operation or compaction/tree operation may own the
\* harness at a time."  While the loop of an operation runs the phase says so
\* and no manual compaction works beside it.  There are two ways out.  A retry
\* checks the phase before it reads the branch and takes it after, and a
\* listener of agent_end that throws lets the failure message reset a phase
\* that is no longer the run's: a compaction that started in between loses
\* the phase, and the next operation runs beside it.
HarnessExclusive ==
    run.stage \in {"prepared", "turn", "inject", "poll", "drained", "stream", "tools", "turnEnd"} =>
      \/ phase \in {"turn", "retry"} /\ ~manual
      \/ /\ count.compactions > 0
         /\ \/ count.faults > 0
            \/ \E i \in DOMAIN session.journal : session.journal[i].of = "retry"

\* Whatever happens, the run, its retries and compactions end, sends that
\* waited for it are taken up, and the harness is not left busy.
EverythingSettles == <>[](At("none") /\ ~manual /\ q.waiting = <<>> /\ phase = "idle")

=============================================================================
