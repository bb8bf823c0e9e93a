------------------------------ MODULE AgentLoop ------------------------------
(***************************************************************************)
(* The run loop of a coding-agent session: AgentSession's driver around a  *)
(* run (packages/coding-agent/src/core/agent-session.ts), Agent with its   *)
(* steering and follow-up queues (packages/agent/src/agent.ts), and        *)
(* runLoop with its tool batches (packages/agent/src/agent-loop.ts).       *)
(*                                                                         *)
(* Every call of AgentSession.prompt that reaches _runAgentPrompt is a     *)
(* driver of its own, which runs the agent, retries and continues it until *)
(* nothing is left to do.  Agent allows one run at a time; `owner` is the  *)
(* driver whose call started it.  An action is what happens between two    *)
(* suspensions that other parties can use; continuations that follow one   *)
(* another without waiting for anything run as one step.                   *)
(*                                                                         *)
(* A listener may throw (a transcript write fails, say), a tool may ignore *)
(* its abort signal.  Automatic compaction is switched off, as its setting *)
(* allows.                                                                 *)
(***************************************************************************)
EXTENDS Integers, Sequences, FiniteSets, SequencesExt

CONSTANTS
    MaxMessages,     \* user messages of a behaviour
    MaxCalls,        \* tool calls of a behaviour
    MaxInputs,       \* all inputs: messages, calls, aborts, failures, clearings
    MaxIterations,   \* provider calls per run
    MaxRetries       \* settings.retry.maxRetries

ASSUME AgentLoopAssumption ==
    /\ {MaxMessages, MaxCalls, MaxInputs, MaxRetries} \subseteq Nat
    /\ MaxIterations \in Nat \ {0}

Msg == 1..MaxMessages
Call == 1..MaxCalls

VARIABLES
    mode,        \* steeringMode and followUpMode
    via,         \* how each message came in
    driver,      \* the prompt call of each message
    streaming,   \* _isAgentRunActive
    sleeper,     \* whose _retryAbortController is set, 0 if none
    retries,     \* _retryAttempt
    last,        \* _lastAssistantMessage
    steering, followUp,  \* the agent's queues
    shown,       \* _steeringMessages and _followUpMessages
    restored,    \* messages clearQueue gave back to the editor
    early,       \* messages queued while a driver was at work
    owner,       \* activeRun: the driver that started it, 0 if none
    signalled,   \* its abort signal
    pc,          \* where runLoop stands
    skip, more, pending, budget,  \* locals of the run
    messages,    \* the agent's transcript
    context,     \* the loop's own copy
    batch, batchMode, at, out,    \* the tool batch: calls, last prepared, results
    tool,        \* how far each call is
    aborts, faults, clears,       \* how often each has happened
    raced,                        \* a prompt came in while another was not over
    inserted                      \* a custom message came in beside a run

session == <<mode, via, driver, streaming, sleeper, retries, last>>
queue == <<steering, followUp, shown, restored, early>>
loop == <<pc, skip, more, pending, budget>>
tools == <<batch, batchMode, at, out, tool>>
loopVars == <<session, queue, owner, signalled, loop, messages, context, tools, aborts, faults, clears,
              raced, inserted>>

User(m) == [role |-> "user", id |-> m]
Assistant(calls) == [role |-> "assistant", calls |-> calls, failed |-> FALSE]

\* A message with stopReason "error" or "aborted": it keeps the tool calls it
\* had got to, nobody runs or answers them, and transformMessages leaves it
\* out of what is sent to a provider.
Failed(calls) == [role |-> "assistant", calls |-> calls, failed |-> TRUE]

Custom == [role |-> "custom"]
Result(c) == [role |-> "toolResult", call |-> c]

Users(ms) == [i \in 1..Len(ms) |-> User(ms[i])]
Results(cs) == [i \in 1..Len(cs) |-> Result(cs[i])]

UnusedCalls == {c \in Call : tool[c] = "unused"}

Customs == Cardinality({i \in DOMAIN messages : messages[i] = Custom})

\* A custom message counts for two: it adds to the interleavings of a run
\* and little to those of several.
Inputs == Cardinality({m \in Msg : via[m] # "none"}) + Cardinality(Call \ UnusedCalls)
            + aborts + faults + clears + 2 * Customs

\* The next message to come in; messages are numbered in arrival order.
Fresh == {m \in Msg : /\ Inputs < MaxInputs
                      /\ via[m] = "none"
                      /\ \A n \in Msg : n < m => via[n] # "none"}

AtWork == \E m \in Msg : driver[m] \in {"running", "sleeping"}

\* PendingMessageQueue.drain.
Drain(q) == IF mode = "all" THEN q ELSE SubSeq(q, 1, IF q = <<>> THEN 0 ELSE 1)

\* Mutant: taking one message drops the others.
RestDropped(q) == <<>>

Rest(q) == SubSeq(q, Len(Drain(q)) + 1, Len(q))

LoopInit ==
    /\ mode \in {"all", "one-at-a-time"}
    /\ via = [m \in Msg |-> "none"]
    /\ driver = [m \in Msg |-> "none"]
    /\ streaming = FALSE
    /\ sleeper = 0
    /\ retries = 0
    /\ last = "none"
    /\ steering = <<>>
    /\ followUp = <<>>
    /\ shown = {}
    /\ restored = {}
    /\ early = {}
    /\ owner = 0
    /\ signalled = FALSE
    /\ pc = "off"
    /\ skip = FALSE
    /\ more = FALSE
    /\ pending = <<>>
    /\ budget = 0
    /\ messages = <<>>
    /\ context = <<>>
    /\ batch = <<>>
    /\ batchMode = "parallel"
    /\ at = 0
    /\ out = 0
    /\ tool = [c \in Call |-> "unused"]
    /\ aborts = 0
    /\ faults = 0
    /\ clears = 0
    /\ raced = FALSE
    /\ inserted = FALSE

-----------------------------------------------------------------------------
(* The queues. *)

Enqueue(m) ==
    /\ shown' = shown \cup {m}
    /\ early' = IF AtWork THEN early \cup {m} ELSE early

\* AgentSession.steer, and prompt with streamingBehavior "steer".
Steer(m) ==
    /\ m \in Fresh
    /\ via' = [via EXCEPT ![m] = "steer"]
    /\ steering' = Append(steering, m)
    /\ Enqueue(m)
    /\ UNCHANGED <<mode, driver, streaming, sleeper, retries, last, followUp, restored,
                   owner, signalled, loop, messages, context, tools, aborts, faults, clears, raced, inserted>>

\* AgentSession.followUp, and prompt with streamingBehavior "followUp".
FollowUp(m) ==
    /\ m \in Fresh
    /\ via' = [via EXCEPT ![m] = "followUp"]
    /\ followUp' = Append(followUp, m)
    /\ Enqueue(m)
    /\ UNCHANGED <<mode, driver, streaming, sleeper, retries, last, steering, restored,
                   owner, signalled, loop, messages, context, tools, aborts, faults, clears, raced, inserted>>

\* clearQueue returns what the display lists and empties the agent's queues.
ClearQueue ==
    /\ shown # {}
    /\ Inputs < MaxInputs
    /\ clears' = clears + 1
    /\ restored' = restored \cup shown
    /\ shown' = {}
    /\ steering' = <<>>
    /\ followUp' = <<>>
    /\ UNCHANGED <<session, early, owner, signalled, loop, messages, context, tools, aborts, faults,
                   raced, inserted>>

\* sendCustomMessage that neither queues nor starts a turn: the message goes
\* right into the agent's transcript, past a run that is under way.
SendCustomMessage ==
    /\ Inputs + 2 <= MaxInputs
    /\ messages' = Append(messages, Custom)
    /\ inserted' = (inserted \/ owner # 0)
    /\ UNCHANGED <<session, queue, owner, signalled, loop, context, tools, aborts, faults, clears, raced>>

-----------------------------------------------------------------------------
(* Starting a run, and what a driver does when one has ended. *)

\* runPromptMessages: the loop's context already holds the prompts.
RunPrompts(d, ms, skipPoll, transcript) ==
    /\ owner' = d
    /\ signalled' = FALSE
    /\ pc' = "prompts"
    /\ pending' = ms
    /\ skip' = skipPoll
    /\ more' = TRUE
    /\ budget' = 0
    /\ context' = transcript \o Users(ms)

\* runContinuation.
RunContinuation(d, transcript) ==
    /\ owner' = d
    /\ signalled' = FALSE
    /\ pc' = "poll"
    /\ pending' = <<>>
    /\ skip' = FALSE
    /\ more' = TRUE
    /\ budget' = 0
    /\ context' = transcript

\* The locals of a batch are gone; tools already launched are not.
NoBatch == batch' = <<>> /\ batchMode' = "parallel" /\ at' = 0 /\ out' = 0 /\ UNCHANGED tool

NoRun ==
    /\ owner' = 0
    /\ signalled' = FALSE
    /\ pc' = "off"
    /\ pending' = <<>>
    /\ skip' = FALSE
    /\ more' = FALSE
    /\ budget' = 0
    /\ context' = <<>>

SameRun == UNCHANGED <<owner, signalled, loop, context>>

\* _runAgentPrompt's finally: _emitAgentSettled.
Settle(d, how) ==
    /\ driver' = [driver EXCEPT ![d] = how]
    /\ streaming' = FALSE

EndsWithAssistant(transcript) == transcript # <<>> /\ Last(transcript).role = "assistant"

\* Agent.continue with no run active.  From an assistant message it needs a
\* queued message to go on with.
Continue(d, transcript) ==
    \/ /\ EndsWithAssistant(transcript)
       /\ steering # <<>>
       /\ driver' = [driver EXCEPT ![d] = "running"]
       /\ RunPrompts(d, Drain(steering), TRUE, transcript)
       /\ steering' = Rest(steering)
       /\ UNCHANGED <<streaming, followUp>>
    \/ /\ EndsWithAssistant(transcript)
       /\ steering = <<>>
       /\ followUp # <<>>
       /\ driver' = [driver EXCEPT ![d] = "running"]
       /\ RunPrompts(d, Drain(followUp), FALSE, transcript)
       /\ followUp' = Rest(followUp)
       /\ UNCHANGED <<streaming, steering>>
    \/ /\ ~EndsWithAssistant(transcript)
       /\ transcript # <<>>
       /\ driver' = [driver EXCEPT ![d] = "running"]
       /\ RunContinuation(d, transcript)
       /\ UNCHANGED <<streaming, steering, followUp>>
    \/ /\ transcript = <<>> \/ (EndsWithAssistant(transcript) /\ steering = <<>> /\ followUp = <<>>)
       /\ Settle(d, "threw")
       /\ NoRun
       /\ UNCHANGED <<steering, followUp>>

\* Agent.continue while another driver's run is active throws.
ContinueBusy(d) == Settle(d, "threw") /\ SameRun /\ UNCHANGED <<steering, followUp>>

\* Mutant: what was queued after the last poll does not continue the run.
SettleAtOnce(d, transcript) ==
    /\ Settle(d, "returned")
    /\ NoRun
    /\ UNCHANGED <<steering, followUp>>

\* The end of _handlePostAgentRun: continue if anything is queued.
ContinueOrSettle(d, transcript) ==
    \/ /\ steering # <<>> \/ followUp # <<>>
       /\ Continue(d, transcript)
    \/ /\ steering = <<>> /\ followUp = <<>>
       /\ Settle(d, "returned")
       /\ NoRun
       /\ UNCHANGED <<steering, followUp>>

-----------------------------------------------------------------------------
(* Prompts. *)

\* prompt finds the session not streaming and goes on to its checks and its
\* before_agent_start hooks, which suspend.
Prompt(m) ==
    /\ m \in Fresh
    /\ ~streaming
    /\ via' = [via EXCEPT ![m] = "prompt"]
    /\ raced' = (raced \/ \E d \in Msg : driver[d] \in {"preflight", "running", "sleeping"})
    /\ driver' = [driver EXCEPT ![m] = "preflight"]
    /\ UNCHANGED <<mode, streaming, sleeper, retries, last, queue, owner, signalled, loop,
                   messages, context, tools, aborts, faults, clears, inserted>>

\* No model, no key, or a hook that throws.
PreflightFails(m) ==
    /\ driver[m] = "preflight"
    /\ driver' = [driver EXCEPT ![m] = "threw"]
    /\ UNCHANGED <<mode, via, streaming, sleeper, retries, last, queue, owner, signalled, loop,
                   messages, context, tools, aborts, faults, clears, raced, inserted>>

\* _runAgentPrompt: Agent.prompt throws if a run is active, and the finally
\* block settles the session all the same.
RunAgentPrompt(m) ==
    /\ driver[m] = "preflight"
    /\ \/ /\ owner = 0
          /\ driver' = [driver EXCEPT ![m] = "running"]
          /\ streaming' = TRUE
          /\ RunPrompts(m, <<m>>, FALSE, messages)
       \/ /\ owner # 0
          /\ Settle(m, "threw")
          /\ SameRun
    /\ UNCHANGED <<mode, via, sleeper, retries, last, queue, messages, tools, aborts, faults, clears,
                   raced, inserted>>

-----------------------------------------------------------------------------
(* runLoop. *)

\* The next prompt or injected message is emitted: it leaves the display's
\* queue and joins the transcript, and the context if it was injected.
EmitMessage ==
    LET m == Head(pending)
    IN  /\ pc \in {"prompts", "inject"}
        /\ messages' = Append(messages, User(m))
        /\ context' = IF pc = "inject" THEN Append(context, User(m)) ELSE context
        /\ shown' = shown \ {m}
        /\ pending' = Tail(pending)
        /\ pc' = IF Len(pending) > 1 THEN pc ELSE IF pc = "prompts" THEN "poll" ELSE "request"
        /\ UNCHANGED <<session, steering, followUp, restored, early, owner, signalled, skip, more,
                       budget, tools, aborts, faults, clears, raced, inserted>>

\* getSteeringMessages, before the first turn and after every turn.
PollSteering ==
    LET polled == IF skip THEN <<>> ELSE Drain(steering)
    IN  /\ pc = "poll"
        /\ pending' = polled
        /\ steering' = IF skip THEN steering ELSE Rest(steering)
        /\ skip' = FALSE
        /\ pc' = IF polled # <<>> THEN "inject" ELSE IF more THEN "request" ELSE "follow"
        /\ UNCHANGED <<session, followUp, shown, restored, early, owner, signalled, more, budget,
                       messages, context, tools, aborts, faults, clears, raced, inserted>>

\* getFollowUpMessages, when the agent would stop.
PollFollowUps ==
    /\ pc = "follow"
    /\ pending' = Drain(followUp)
    /\ followUp' = Rest(followUp)
    /\ pc' = IF followUp # <<>> THEN "inject" ELSE "end"
    /\ UNCHANGED <<session, steering, shown, restored, early, owner, signalled, skip, more, budget,
                   messages, context, tools, aborts, faults, clears, raced, inserted>>

\* The turn's provider call, or the error message that replaces it when the
\* run's budget is spent.
Request ==
    /\ pc = "request"
    /\ \/ /\ budget < MaxIterations
          /\ budget' = budget + 1
          /\ pc' = "stream"
          /\ UNCHANGED <<last, messages, context>>
       \/ /\ budget = MaxIterations
          /\ messages' = Append(messages, Failed(<<>>))
          /\ context' = Append(context, Failed(<<>>))
          /\ last' = "error"
          /\ pc' = "end"
          /\ UNCHANGED budget
    /\ UNCHANGED <<mode, via, driver, streaming, sleeper, retries, queue, owner, signalled, skip,
                   more, pending, tools, aborts, faults, clears, raced, inserted>>

\* The message the provider streamed has ended.
Streamed(message, outcome) ==
    /\ pc = "stream"
    /\ messages' = Append(messages, message)
    /\ context' = Append(context, message)
    /\ last' = outcome
    /\ retries' = IF outcome \in {"error", "retryable"} THEN retries ELSE 0
    /\ UNCHANGED <<mode, via, driver, streaming, sleeper, queue, owner, signalled, skip, pending,
                   budget, aborts, faults, clears, raced, inserted>>

\* The calls of one message: the next ones, in order.
NewCalls == {calls \in UNION {[1..n -> UnusedCalls] : n \in {n \in Call : Inputs + n <= MaxInputs}} :
                /\ \A c \in UnusedCalls : calls[1] <= c
                /\ \A i \in 2..Len(calls) : calls[i] = calls[i - 1] + 1}

\* The calls of a message, and how far they are.
CallsBecome(calls, state) == tool' = [c \in Call |-> IF c \in ToSet(calls) THEN state ELSE tool[c]]

\* An error or an abort ends the turn, whatever calls the message had got to.
StreamFails ==
    \E calls \in NewCalls \cup {<<>>}, outcome \in {"error", "retryable", "aborted"} :
        /\ outcome = "aborted" => signalled
        /\ Streamed(Failed(calls), outcome)
        /\ pc' = "end"
        /\ CallsBecome(calls, "partial")
        /\ UNCHANGED <<more, batch, batchMode, at, out>>

StreamStops ==
    /\ Streamed(Assistant(<<>>), "ok")
    /\ pc' = "turnEnd"
    /\ more' = FALSE
    /\ UNCHANGED tools

\* One sequential tool makes the batch sequential.
StreamCallsTools ==
    \E calls \in NewCalls, how \in {"parallel", "sequential"} :
        /\ Streamed(Assistant(calls), "ok")
        /\ pc' = "prepare"
        /\ batch' = calls
        /\ batchMode' = how
        /\ at' = 1
        /\ out' = 0
        /\ CallsBecome(calls, "todo")
        /\ UNCHANGED more

\* Cut off by the output limit: every call fails without being executed.
StreamTruncated ==
    \E calls \in NewCalls :
        /\ Streamed(Assistant(calls), "ok")
        /\ pc' = "execute"
        /\ batch' = calls
        /\ batchMode' = "truncated"
        /\ at' = Len(calls)
        /\ out' = 0
        /\ CallsBecome(calls, "done")
        /\ UNCHANGED more

-----------------------------------------------------------------------------
(* The tool batch. *)

Launched(prepared) ==
    [c \in Call |-> IF c \in ToSet(batch) /\ prepared[c] = "prepared" THEN "running" ELSE prepared[c]]

\* prepareToolCall settles: the call is answered at once (unknown tool, bad
\* arguments, blocked by a hook, aborted) or prepared.  A parallel batch
\* launches its prepared calls together, a sequential one each on its own.
PrepareToolCall(s) ==
    LET prepared == [tool EXCEPT ![batch[at]] = s]
        launch == batchMode = "sequential" \/ signalled \/ at = Len(batch)
    IN  /\ pc = "prepare"
        /\ s = "prepared" => ~signalled
        /\ tool' = IF launch THEN Launched(prepared) ELSE prepared
        /\ pc' = IF launch THEN "execute" ELSE "prepare"
        /\ at' = IF launch THEN at ELSE at + 1
        /\ UNCHANGED <<session, queue, owner, signalled, skip, more, pending, budget, messages,
                       context, batch, batchMode, out, aborts, faults, clears, raced, inserted>>

\* A tool returns or throws and its end is announced.  Nothing happens then
\* if its run has ended without it.
ToolEnds(c) ==
    /\ tool[c] = "running"
    /\ tool' = [tool EXCEPT ![c] = "done"]
    /\ UNCHANGED <<session, queue, owner, signalled, loop, messages, context, batch, batchMode, at,
                   out, aborts, faults, clears, raced, inserted>>

\* Mutant: the batch also waits for calls that an abort kept from starting.
BatchDoneAll == \A i \in 1..Len(batch) : tool[batch[i]] = "done"

\* Promise.all over the launched calls.
BatchDone == \A i \in 1..at : tool[batch[i]] = "done"

\* Mutant: a sequential batch breaks off after its first call.
BatchEndedEarly(n) == n = at

\* Whether the n-th result is the batch's last.
BatchEnded(n) == n = at /\ (batchMode # "sequential" \/ signalled \/ at = Len(batch))

\* Results in call order.  A sequential batch then takes its next call unless
\* aborted; the end of a batch puts all results into the context.  A tool may
\* ask to terminate, but not one that was never executed.
EmitResult ==
    LET n == out + 1
    IN  /\ pc = "execute"
        /\ BatchDone
        /\ messages' = Append(messages, Result(batch[n]))
        /\ out' = n
        /\ \/ /\ BatchEnded(n)
              /\ context' = context \o Results(SubSeq(batch, 1, n))
              /\ more' \in IF batchMode = "truncated" THEN {TRUE} ELSE BOOLEAN
              /\ pc' = "turnEnd"
              /\ UNCHANGED at
           \/ /\ ~BatchEnded(n)
              /\ pc' = IF n = at THEN "prepare" ELSE "execute"
              /\ at' = IF n = at THEN at + 1 ELSE at
              /\ UNCHANGED <<more, context>>
        /\ UNCHANGED <<session, queue, owner, signalled, skip, pending, budget, batch, batchMode,
                       tool, aborts, faults, clears, raced, inserted>>

\* turn_end and prepareNextTurn.
TurnEnd ==
    /\ pc = "turnEnd"
    /\ pc' = "poll"
    /\ NoBatch
    /\ UNCHANGED <<session, queue, owner, signalled, skip, more, pending, budget, messages, context,
                   aborts, faults, clears, raced, inserted>>

-----------------------------------------------------------------------------
(* The end of a run. *)

\* agent_end has been emitted (or, at "failEnd", that of a failed run):
\* finishRun, then _handlePostAgentRun of the driver that awaits the run.
Finish ==
    /\ pc \in {"end", "failEnd"}
    /\ last' = "none"
    /\ \/ /\ last = "none"
          /\ Settle(owner, "returned")
          /\ NoRun
          /\ UNCHANGED <<sleeper, retries, messages, steering, followUp>>
       \/ /\ last = "retryable"
          /\ retries < MaxRetries
          /\ retries' = retries + 1
          /\ sleeper' = owner
          /\ messages' = IF EndsWithAssistant(messages) THEN Front(messages) ELSE messages
          /\ driver' = [driver EXCEPT ![owner] = "sleeping"]
          /\ NoRun
          /\ UNCHANGED <<streaming, steering, followUp>>
       \/ /\ last # "none"
          /\ ~(last = "retryable" /\ retries < MaxRetries)
          /\ retries' = IF last \in {"error", "retryable"} THEN 0 ELSE retries
          /\ ContinueOrSettle(owner, messages)
          /\ UNCHANGED <<sleeper, messages>>
    /\ UNCHANGED <<mode, via, shown, restored, early, tools, aborts, faults, clears, raced, inserted>>

\* The retry's backoff is over.
Wake(d) ==
    /\ driver[d] = "sleeping"
    /\ sleeper' = 0
    /\ \/ owner = 0 /\ Continue(d, messages)
       \/ owner # 0 /\ ContinueBusy(d)
    /\ UNCHANGED <<mode, via, retries, last, shown, restored, early, messages, tools, aborts, faults, clears,
                   raced, inserted>>

\* abort: the signal of the active run, and the backoff of a retry.
AbortSession ==
    /\ Inputs < MaxInputs
    /\ owner # 0 \/ sleeper # 0
    /\ aborts' = aborts + 1
    /\ \/ /\ sleeper = 0
          /\ signalled' = TRUE
          /\ UNCHANGED <<session, steering, followUp, owner, loop, context>>
       \/ /\ sleeper # 0
          /\ sleeper' = 0
          /\ retries' = 0
          /\ \/ owner = 0 /\ ContinueOrSettle(sleeper, messages)
             \/ /\ owner # 0
                /\ Settle(sleeper, IF steering # <<>> \/ followUp # <<>> THEN "threw" ELSE "returned")
                /\ signalled' = TRUE
                /\ UNCHANGED <<owner, loop, context, steering, followUp>>
          /\ UNCHANGED <<mode, via, last>>
    /\ UNCHANGED <<shown, restored, early, messages, tools, faults, clears, raced, inserted>>

\* A listener of the event being emitted throws.  A message whose
\* message_end it was is in the transcript by then, what is still pending is
\* dropped, and tools already launched go on running.
ListenerThrows ==
    /\ Inputs < MaxInputs
    /\ pc \in {"prompts", "inject", "poll", "stream", "prepare", "execute", "turnEnd", "end"}
    /\ faults' = faults + 1
    /\ messages' \in {messages} \cup
          (IF pc \in {"prompts", "inject"} THEN {Append(messages, User(Head(pending)))} ELSE {})
    /\ shown' = IF pending # <<>> /\ messages' # messages THEN shown \ {Head(pending)} ELSE shown
    /\ pending' = <<>>
    /\ pc' = "failing"
    /\ context' = <<>>
    /\ NoBatch
    /\ UNCHANGED <<session, steering, followUp, restored, early, owner, signalled, skip, more,
                   budget, aborts, clears, raced, inserted>>

\* handleRunFailure.
HandleRunFailure ==
    /\ pc = "failing"
    /\ messages' = Append(messages, Failed(<<>>))
    /\ last' \in IF signalled THEN {"aborted"} ELSE {"error", "retryable"}
    /\ retries' = IF signalled THEN 0 ELSE retries
    /\ pc' = "failEnd"
    /\ UNCHANGED <<mode, via, driver, streaming, sleeper, queue, owner, signalled, skip, more,
                   pending, budget, context, tools, aborts, faults, clears, raced, inserted>>

\* A listener throws while the failure is reported: the run rejects and its
\* driver passes the error on.
FailureThrows ==
    /\ Inputs < MaxInputs
    /\ pc \in {"failing", "failEnd"}
    /\ faults' = faults + 1
    /\ Settle(owner, "threw")
    /\ NoRun
    /\ UNCHANGED <<mode, via, sleeper, retries, last, queue, messages, tools, aborts, clears, raced, inserted>>

-----------------------------------------------------------------------------

Input ==
    \/ \E m \in Msg : Steer(m) \/ FollowUp(m) \/ Prompt(m)
    \/ ClearQueue
    \/ SendCustomMessage
    \/ AbortSession

Progress ==
    \/ \E m \in Msg : PreflightFails(m) \/ RunAgentPrompt(m) \/ Wake(m)
    \/ EmitMessage \/ PollSteering \/ PollFollowUps \/ Request
    \/ StreamFails \/ StreamStops \/ StreamCallsTools \/ StreamTruncated
    \/ \E s \in {"prepared", "done"} : PrepareToolCall(s)
    \/ \E c \in Call : ToolEnds(c)
    \/ EmitResult \/ TurnEnd \/ Finish \/ HandleRunFailure

Fault == ListenerThrows \/ FailureThrows

LoopNext == Input \/ Progress \/ Fault

\* Providers, tools, hooks and timers answer in the end.
LoopSpec == LoopInit /\ [][LoopNext]_loopVars /\ WF_loopVars(Progress)

-----------------------------------------------------------------------------
(* Properties. *)

\* An entry of the transcript.
Entry == [role : {"user"}, id : Msg] \cup [role : {"assistant"}, calls : Seq(Call), failed : BOOLEAN]
            \cup [role : {"toolResult"}, call : Call] \cup {Custom}

LoopTypeOK ==
    /\ mode \in {"all", "one-at-a-time"}
    /\ via \in [Msg -> {"none", "prompt", "steer", "followUp"}]
    /\ driver \in [Msg -> {"none", "preflight", "running", "sleeping", "returned", "threw"}]
    /\ streaming \in BOOLEAN
    /\ sleeper \in Msg \cup {0}
    /\ retries \in 0..MaxRetries
    /\ last \in {"none", "ok", "error", "retryable", "aborted"}
    /\ {steering, followUp, pending} \subseteq Seq(Msg)
    /\ shown \cup restored \cup early \subseteq Msg
    /\ owner \in Msg \cup {0}
    /\ signalled \in BOOLEAN
    /\ pc \in {"off", "prompts", "poll", "inject", "request", "stream", "prepare", "execute",
              "turnEnd", "follow", "end", "failing", "failEnd"}
    /\ owner # 0 <=> pc # "off"
    /\ {skip, more, raced, inserted} \subseteq BOOLEAN
    /\ budget \in 0..MaxIterations
    /\ {messages, context} \subseteq Seq(Entry)
    /\ batch \in Seq(Call)
    /\ batchMode \in {"parallel", "sequential", "truncated"}
    /\ at \in 0..Len(batch)
    /\ out \in 0..at
    /\ tool \in [Call -> {"unused", "partial", "todo", "prepared", "running", "done"}]
    /\ {aborts, faults, clears} \subseteq Nat

\* The j-th entry is a result of the call of the i-th, an assistant message
\* that did not fail, and so are all entries between them, in the order of
\* its calls.
Answers(i, j) ==
    /\ messages[i].role = "assistant"
    /\ ~messages[i].failed
    /\ \A k \in i + 1 .. j : k - i <= Len(messages[i].calls) /\ messages[k] = Result(messages[i].calls[k - i])

\* The transcript stays one that can be sent to a provider as it is, though
\* the loop keeps its own copy of it, tools end in any order and an errored
\* or aborted message may hold calls nobody will run: what is sent is the
\* transcript, results stand right behind the message that asked for them,
\* in call order and once each, never behind one that failed, and none is
\* missing of a message that did not fail unless the run was aborted or
\* failed.  A custom message that came in beside a run excuses all of it.
TranscriptWellFormed ==
    /\ LoopTypeOK
    /\ inserted \/
         /\ pc = "stream" => context = messages
         /\ \A j \in 1..Len(messages) :
               messages[j].role = "toolResult" => \E i \in 1 .. j - 1 : Answers(i, j)
         /\ (pc = "stream" /\ aborts = 0 /\ faults = 0) =>
               \A i \in 1..Len(messages) :
                  (messages[i].role = "assistant" /\ ~messages[i].failed) =>
                     LET end == i + Len(messages[i].calls)
                     IN  end <= Len(messages) /\ Answers(i, end)

\* The places an accepted message can be in, with repetitions.
Places(m) ==
    LET In(s) == Cardinality({i \in DOMAIN s : s[i] = m})
    IN  In(steering) + In(followUp) + In(pending)
            + Cardinality({i \in DOMAIN messages : messages[i] = User(m)})

\* No interleaving of polling, injecting, clearing, retrying and aborting
\* loses a queued message or sends it twice: it is in one queue, in the
\* turn's hands or in the transcript, given back to the editor, or lost to a
\* listener that threw.  Of two messages of one kind the earlier goes first.
MessagesKept ==
    /\ \A m \in Msg :
          /\ Places(m) <= 1
          /\ (via[m] \in {"steer", "followUp"} /\ Places(m) = 0) => (m \in restored \/ faults > 0)
    /\ \A i, j \in 1..Len(messages) :
          (i < j /\ messages[i].role = "user" /\ messages[j].role = "user") =>
              ~(via[messages[i].id] = via[messages[j].id] /\ via[messages[i].id] # "prompt"
                  /\ messages[i].id > messages[j].id)

\* isIdle says "Whether the session has no active agent run, retry,
\* auto-compaction, or queued continuation", and it does unless prompts
\* raced: two may both pass the isStreaming check, and the one the Agent
\* refuses marks the session settled under the other.  When the last
\* driver has settled no message queued before is left behind, whatever
\* arrived between the loop's last poll and agent_end (_handlePostAgentRun).
IdleMeansDone ==
    /\ ~streaming => (owner = 0 /\ ~AtWork) \/ raced
    /\ ~AtWork /\ faults = 0 => (ToSet(steering) \cup ToSet(followUp)) \cap early = {}

\* Once input stops, every prompt has returned or thrown and every launched
\* tool has ended, through errors, retries, aborts, failing listeners and the
\* iteration budget: nobody waits for a call that never started or for a run
\* that is already over.
EverythingEnds ==
    <>[](/\ owner = 0
         /\ \A m \in Msg : driver[m] \in {"none", "returned", "threw"}
         /\ \A c \in Call : tool[c] # "running")

=============================================================================
