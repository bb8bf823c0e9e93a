---------------------------- MODULE WorkerDirectory ----------------------------
(***************************************************************************)
(* Delegation to named workers                                             *)
(* (packages/coding-agent/src/core/delegation/): the directory of worker   *)
(* conversations with its limits (worker-directory.ts), the run of one     *)
(* worker with its abort and timeout (named-worker.ts), and the direct     *)
(* chats of the user (worker-chat.ts).                                     *)
(*                                                                         *)
(* JavaScript is single-threaded: what the code does between two awaits is *)
(* one action.  The awaits are the worker's run, the transformation of its *)
(* result and the context lookup of a chat; tools, the user and timers act *)
(* in between.  Prompts, history and workspaces are left out: no decision  *)
(* of this component depends on them once the arguments are valid.         *)
(***************************************************************************)
EXTENDS Integers, Sequences, FiniteSets, SequencesExt

CONSTANTS
    Worker,              \* the named workers
    MaxConversations,    \* maxConversations: stored conversations
    MaxActive,           \* maxActiveConversations
    MaxActivePerWorker,  \* maxActiveConversationsPerWorker
    MaxRequests          \* bound: calls of the tools and of the user

\* As in every WorkerDirectory the program makes, which keeps the defaults
\* of 64 and 8, a conversation that may run can always be stored.
ASSUME WorkerAssumption ==
    /\ IsFiniteSet(Worker)
    /\ {MaxConversations, MaxActive, MaxActivePerWorker} \subseteq Nat \ {0}
    /\ MaxActive <= MaxConversations
    /\ MaxRequests \in Nat

VARIABLES
    record,     \* conversation records, in the order of their creation
    stored,     \* the ids in `conversations`
    clock,      \* Date.now(): the updates of records so far
    run,        \* runs of runNamedWorker, in the order of their start
    oneShots,   \* activeOneShotsByWorker
    chat,       \* WorkerChatController.conversations: a record per worker, or 0
    chatActive, \* activeControllers: a send per worker, or 0
    send,       \* calls of WorkerChatController.send
    open,       \* the session has not been torn down
    requests

directoryVars == <<record, stored, clock, run, oneShots, chat, chatActive, send, open, requests>>

chatVars == <<chat, chatActive, send>>

\* A call starts at most two runs.
MaxRuns == 2 * MaxRequests

MayCall == open /\ requests < MaxRequests

Called == requests' = requests + 1

Live(r) == run[r].stage # "done"

DirectoryInit ==
    /\ record = <<>> /\ stored = {} /\ run = <<>> /\ send = <<>>
    /\ clock = 0
    /\ oneShots = [w \in Worker |-> 0]
    /\ chat = [w \in Worker |-> 0]
    /\ chatActive = [w \in Worker |-> 0]
    /\ open = TRUE
    /\ requests = 0

-----------------------------------------------------------------------------
(* Limits. *)

Running == {c \in stored : record[c].status = "running"}

RunningOf(w) == {c \in Running : record[c].worker = w}

\* The sum of the counts, a slot for each one-shot run.
ActiveOneShots == Cardinality(UNION {{w} \X (1..oneShots[w]) : w \in Worker})

Requested(ws, w) == Cardinality({i \in DOMAIN ws : ws[i] = w})

\* Mutant: a batch is checked as if it were one conversation.
CanStartOne(ws) ==
    /\ Cardinality(Running) + ActiveOneShots + 1 <= MaxActive
    /\ \A w \in ToSet(ws) : Cardinality(RunningOf(w)) + oneShots[w] + 1 <= MaxActivePerWorker

\* assertCanStartWorkerIds.
CanStart(ws) ==
    /\ Cardinality(Running) + ActiveOneShots + Len(ws) <= MaxActive
    /\ \A w \in ToSet(ws) :
         Cardinality(RunningOf(w)) + oneShots[w] + Requested(ws, w) <= MaxActivePerWorker

\* The order by updatedAt; the sort is stable and the map in creation order.
Before(rec, c, d) ==
    rec[c].updated < rec[d].updated \/ (rec[c].updated = rec[d].updated /\ c < d)

\* What is left when idle conversations are removed, the least recently
\* updated first, until at most `room` are left or none is idle: an idle one
\* stays if it fits in with those that run and those updated after it.
Kept(s, rec, room) ==
    LET Runs(c) == rec[c].status = "running"
    IN  {c \in s : Runs(c) \/ Cardinality({d \in s : Runs(d) \/ ~Before(rec, d, c)}) <= room}

\* ensureConversationSlots.  After CanStart it finds the slots, as at most
\* MaxActive conversations run; if it did not, it would throw with every idle
\* conversation already deleted.
HasSlots(n) ==
    /\ n <= MaxConversations
    /\ Cardinality(Kept(stored, record, MaxConversations - n)) + n <= MaxConversations

-----------------------------------------------------------------------------
(* Starting turns. *)

NewRun(w, c) == [worker |-> w, conv |-> c, stage |-> "running", aborted |-> FALSE]

\* The signal given with a call has already fired.
Signalled(r, fired) == [r EXCEPT !.aborted = fired]

Tick == clock' = clock + 1

\* runOneShot.
RunOneShot(w) ==
    /\ MayCall /\ Called
    /\ CanStart(<<w>>)
    /\ oneShots' = [oneShots EXCEPT ![w] = @ + 1]
    /\ run' = Append(run, NewRun(w, 0))
    /\ UNCHANGED <<record, stored, clock, chatVars, open>>

\* startConversations: nothing changes unless the whole batch fits; the new
\* records run before the first await.
Start(ws, fired) ==
    /\ CanStart(ws)
    /\ HasSlots(Len(ws))
    /\ record' = record \o [i \in DOMAIN ws |->
                              [worker |-> ws[i], status |-> "running",
                               controller |-> Len(run) + i, updated |-> clock + 1]]
    /\ stored' = Kept(stored, record, MaxConversations - Len(ws))
                   \cup {Len(record) + i : i \in DOMAIN ws}
    /\ Tick
    /\ run' = run \o [i \in DOMAIN ws |-> Signalled(NewRun(ws[i], Len(record) + i), fired)]

StartConversations(ws) ==
    /\ MayCall /\ Called
    /\ Start(ws, FALSE)
    /\ UNCHANGED <<oneShots, chatVars, open>>

\* messageConversation: a stored conversation that does not run.
Message(c, fired) ==
    /\ c \in stored
    /\ CanStart(<<record[c].worker>>)
    /\ record[c].status # "running"
    /\ record' = [record EXCEPT ![c] = [@ EXCEPT !.status = "running", !.controller = Len(run) + 1,
                                                !.updated = clock + 1]]
    /\ Tick
    /\ UNCHANGED stored
    /\ run' = Append(run, Signalled(NewRun(record[c].worker, c), fired))

MessageConversation(c) ==
    /\ MayCall /\ Called
    /\ Message(c, FALSE)
    /\ UNCHANGED <<oneShots, chatVars, open>>

-----------------------------------------------------------------------------
(* The run of a worker. *)

\* requestAbort; a run that is over has removed its listener.
Aborted(rs) ==
    [r \in DOMAIN run |-> IF r \in rs /\ run[r].stage = "running"
                          THEN [run[r] EXCEPT !.aborted = TRUE] ELSE run[r]]

Timeout(r) ==
    /\ run[r].stage = "running" /\ ~run[r].aborted
    /\ run' = Aborted({r})
    /\ UNCHANGED <<record, stored, clock, oneShots, chatVars, open, requests>>

\* runNamedWorker returns, with whatever result; a one-shot is over with it.
RunEnds(r) ==
    /\ run[r].stage = "running"
    /\ run' = [run EXCEPT ![r].stage = IF run[r].conv = 0 THEN "done" ELSE "transform",
                          ![r].aborted = FALSE]
    /\ oneShots' = IF run[r].conv = 0 THEN [oneShots EXCEPT ![run[r].worker] = @ - 1] ELSE oneShots
    /\ UNCHANGED <<record, stored, clock, chatVars, open, requests>>

\* Mutant: a result is recorded only when it could be transformed.
RecordTransformed(c, ok) ==
    [record EXCEPT ![c] = [@ EXCEPT !.status = IF ok THEN "ended" ELSE @, !.controller = 0,
                                    !.updated = clock + 1]]

\* recordResult, then the finally block; an error is recorded as a failed
\* result.  Which of the four results it is decides nothing here.
RecordResult(c, ok) ==
    [record EXCEPT ![c] = [@ EXCEPT !.status = "ended", !.controller = 0, !.updated = clock + 1]]

\* transformResult ended, or threw.  The record may have left the directory.
TurnEnds(r) ==
    /\ run[r].stage = "transform"
    /\ \E ok \in BOOLEAN : record' = RecordResult(run[r].conv, ok)
    /\ Tick
    /\ run' = [run EXCEPT ![r].stage = "done"]
    /\ UNCHANGED <<stored, oneShots, chatVars, open, requests>>

-----------------------------------------------------------------------------
(* Cancelling and closing. *)

\* Runs whose signal the controllers of these records fire.
ControlledBy(cs) == {record[c].controller : c \in cs} \ {0}

CancelConversation(c) ==
    /\ MayCall /\ Called
    /\ c \in Running
    /\ record[c].controller # 0
    /\ run' = Aborted(ControlledBy({c}))
    /\ UNCHANGED <<record, stored, clock, oneShots, chatVars, open>>

\* Mutant: a conversation is closed without aborting its turn.
KeepRunning(cs, others) == run' = run

AbortRuns(cs, others) == run' = Aborted(ControlledBy(cs) \cup others)

\* The run goes on until its abort is served; only the record is forgotten.
Close(c) ==
    /\ c \in stored
    /\ record' = [record EXCEPT ![c].status = "closed"]
    /\ stored' = stored \ {c}
    /\ UNCHANGED clock

CloseConversation(c) ==
    /\ MayCall /\ Called
    /\ Close(c)
    /\ AbortRuns({c}, {})
    /\ UNCHANGED <<oneShots, chatVars, open>>

\* restoreConversationTurn with the saved turn of a conversation this
\* directory does not hold, last updated at any time before; the directory
\* may prune it at once, and then the chat is not restored.
RestoreConversationTurn(w) ==
    /\ MayCall /\ Called
    /\ \E updated \in 0..clock :
         LET c == Len(record) + 1
             recordNew == Append(record, [worker |-> w, status |-> "ended", controller |-> 0,
                                          updated |-> updated])
             kept == Kept(stored \cup {c}, recordNew, MaxConversations - 1)
         IN  /\ record' = recordNew
             /\ stored' = kept
             /\ chat' = IF Cardinality(kept) < MaxConversations /\ c \in kept
                        THEN [chat EXCEPT ![w] = c] ELSE chat
    /\ UNCHANGED <<clock, run, oneShots, chatActive, send, open>>

-----------------------------------------------------------------------------
(* Direct chats. *)

\* send, up to the await of getContext.
ChatSend(w) ==
    /\ MayCall /\ Called
    /\ send' = Append(send, [worker |-> w, stage |-> "context", conv |-> chat[w], run |-> 0,
                             aborted |-> FALSE])
    /\ chatActive' = [chatActive EXCEPT ![w] = Len(send) + 1]
    /\ UNCHANGED <<record, stored, clock, run, oneShots, chat, open>>

ClearActive(s) ==
    [chatActive EXCEPT ![send[s].worker] = IF @ = s THEN 0 ELSE @]

\* The conversation the chat had before getContext, or a new one; what the
\* directory refuses, send rejects.
ChatTurn(s) ==
    /\ send[s].stage = "context"
    /\ \/ /\ \/ send[s].conv = 0 /\ Start(<<send[s].worker>>, send[s].aborted)
             \/ send[s].conv # 0 /\ Message(send[s].conv, send[s].aborted)
          /\ send' = [send EXCEPT ![s].stage = "turn", ![s].run = Len(run) + 1]
          /\ UNCHANGED <<oneShots, chat, chatActive>>
       \/ /\ IF send[s].conv = 0
             THEN ~(CanStart(<<send[s].worker>>) /\ HasSlots(1))
             ELSE ~(/\ send[s].conv \in stored
                    /\ CanStart(<<send[s].worker>>)
                    /\ record[send[s].conv].status # "running")
          /\ send' = [send EXCEPT ![s].stage = "done", ![s].aborted = FALSE]
          /\ chatActive' = ClearActive(s)
          /\ UNCHANGED <<record, stored, clock, run, oneShots, chat>>
    /\ UNCHANGED <<open, requests>>

\* The turn is over: the chat continues with its conversation.
ChatSendEnds(s) ==
    /\ send[s].stage = "turn"
    /\ ~Live(send[s].run)
    /\ chat' = [chat EXCEPT ![send[s].worker] = run[send[s].run].conv]
    /\ chatActive' = ClearActive(s)
    /\ send' = [send EXCEPT ![s].stage = "done", ![s].run = 0, ![s].aborted = FALSE]
    /\ UNCHANGED <<record, stored, clock, run, oneShots, open, requests>>

\* Aborting a send's controller: its run, or the run it will start.
SignalSends(ss) ==
    send' = [s \in DOMAIN send |-> IF s \in ss THEN [send[s] EXCEPT !.aborted = TRUE] ELSE send[s]]

RunsOfSends(ss) == {send[s].run : s \in ss} \ {0}

\* cancel: the active send of the worker, or else its conversation's turn.
ChatCancel(w) ==
    /\ MayCall /\ Called
    /\ LET ss == {chatActive[w]} \ {0} IN
         /\ ss # {} \/ chat[w] \in Running
         /\ SignalSends(ss)
         /\ run' = Aborted(RunsOfSends(ss) \cup (IF ss = {} THEN ControlledBy({chat[w]}) ELSE {}))
    /\ UNCHANGED <<record, stored, clock, oneShots, chat, chatActive, open>>

\* close throws, after aborting, when the directory no longer holds the chat.
ChatClose(w) ==
    /\ MayCall /\ Called
    /\ chatActive[w] # 0 \/ chat[w] # 0
    /\ LET ss == {chatActive[w]} \ {0} IN
         /\ SignalSends(ss)
         /\ IF chat[w] \in stored
            THEN /\ Close(chat[w])
                 /\ AbortRuns({chat[w]}, RunsOfSends(ss))
                 /\ chat' = [chat EXCEPT ![w] = 0]
            ELSE /\ run' = Aborted(RunsOfSends(ss))
                 /\ UNCHANGED <<record, stored, clock, chat>>
    /\ UNCHANGED <<oneShots, chatActive, open>>

\* session_shutdown and teardown: clear, then closeAll.
CloseAll ==
    /\ open
    /\ open' = FALSE
    /\ LET ss == {chatActive[w] : w \in Worker} \ {0} IN
         /\ SignalSends(ss)
         /\ run' = Aborted(ControlledBy(stored) \cup RunsOfSends(ss)
                            \cup {r \in DOMAIN run : run[r].conv = 0})
    /\ chatActive' = [w \in Worker |-> 0]
    /\ record' = [c \in DOMAIN record |-> IF c \in {chat[w] : w \in Worker} \cap stored
                                          THEN [record[c] EXCEPT !.status = "closed"] ELSE record[c]]
    /\ chat' = [w \in Worker |-> 0]
    /\ stored' = {}
    /\ UNCHANGED <<clock, oneShots, requests>>

-----------------------------------------------------------------------------

DirectoryNext ==
    \/ \E w \in Worker : \/ RunOneShot(w) \/ RestoreConversationTurn(w)
                         \/ ChatSend(w) \/ ChatCancel(w) \/ ChatClose(w)
    \/ \E ws \in UNION {[1..n -> Worker] : n \in 1..2} : StartConversations(ws)
    \/ \E c \in DOMAIN record :
         MessageConversation(c) \/ CancelConversation(c) \/ CloseConversation(c)
    \/ \E r \in DOMAIN run : Timeout(r) \/ RunEnds(r) \/ TurnEnds(r)
    \/ \E s \in DOMAIN send : ChatTurn(s) \/ ChatSendEnds(s)
    \/ CloseAll

\* A harness that runs answers or fails, a transformation and a context
\* lookup end: no fairness for timers, tools or the user.
DirectorySpec ==
    /\ DirectoryInit /\ [][DirectoryNext]_directoryVars
    /\ \A r \in 1..MaxRuns :
         WF_directoryVars(r \in DOMAIN run /\ (RunEnds(r) \/ TurnEnds(r)))
    /\ \A s \in 1..MaxRequests :
         WF_directoryVars(s \in DOMAIN send /\ (ChatTurn(s) \/ ChatSendEnds(s)))

-----------------------------------------------------------------------------

ConversationRecord ==
    [worker : Worker, status : {"running", "ended", "closed"}, controller : Nat, updated : Nat]

WorkerRun ==
    [worker : Worker, conv : Nat, stage : {"running", "transform", "done"}, aborted : BOOLEAN]

ChatSendCall ==
    [worker : Worker, stage : {"context", "turn", "done"}, conv : Nat, run : Nat, aborted : BOOLEAN]

DirectoryTypeOK ==
    /\ record \in Seq(ConversationRecord)
    /\ run \in Seq(WorkerRun)
    /\ send \in Seq(ChatSendCall)
    /\ \A c \in DOMAIN record : record[c].controller \in 0..Len(run) /\ record[c].updated <= clock
    /\ \A r \in DOMAIN run : run[r].conv \in 0..Len(record)
    /\ \A s \in DOMAIN send : /\ send[s].conv \in 0..Len(record)
                              /\ send[s].run \in 0..Len(run)
                              /\ send[s].stage = "turn" => send[s].run # 0
    /\ stored \subseteq DOMAIN record
    /\ clock \in Nat
    /\ oneShots \in [Worker -> Nat]
    /\ chat \in [Worker -> 0..Len(record)]
    /\ chatActive \in [Worker -> 0..Len(send)]
    /\ open \in BOOLEAN
    /\ requests \in 0..MaxRequests

Unaborted(rs) == {r \in rs : Live(r) /\ ~run[r].aborted}

\* The caps on stored and active conversations hold over whole batches, one-
\* shots, chats, evictions and restores: never more than MaxActive workers
\* run (or MaxActivePerWorker of one worker) without having been told to
\* stop.  Runs of closed conversations are beyond the count but all aborted.
WorkerLimits ==
    /\ DirectoryTypeOK
    /\ Cardinality(stored) <= MaxConversations
    /\ Cardinality(Unaborted({r \in DOMAIN run : run[r].stage = "running"})) <= MaxActive
    /\ \A w \in Worker :
         Cardinality(Unaborted({r \in DOMAIN run : run[r].stage = "running" /\ run[r].worker = w}))
           <= MaxActivePerWorker

\* A turn can always be stopped through its conversation: a live run belongs
\* to a stored running conversation whose controller is the run's own, or it
\* has been aborted already, or only its result is still being transformed.
\* Hence a conversation never has two turns at once.
CancelReachesRun ==
    \A r \in DOMAIN run :
      run[r].stage = "running" /\ ~run[r].aborted /\ run[r].conv # 0 =>
        /\ run[r].conv \in Running
        /\ record[run[r].conv].controller = r

\* "Never leaves a conversation stuck running": every run ends, its result is
\* recorded even when the transformation throws, one-shot slots come back and
\* every chat send is answered.
TurnsSettle ==
    <>[](/\ \A r \in DOMAIN run : ~Live(r)
         /\ \A c \in DOMAIN record : record[c].status # "running"
         /\ \A w \in Worker : oneShots[w] = 0
         /\ \A s \in DOMAIN send : send[s].stage = "done")

=============================================================================
