---------------------------- MODULE MaestroTurns ----------------------------
(***************************************************************************)
(* How the supervisor uses the turn-lease registry (supervisor.ts:          *)
(* handleRpcForLive, queueSessionIdentitySync, releaseTurnLease and the     *)
(* event and exit handlers), composed with the registry itself (TurnLease). *)
(*                                                                         *)
(* A prompt is one token: it acquires the lease of the session the          *)
(* supervisor knows for the instance, is sent to the child process, and is  *)
(* released by the identity sync that agent_settled queues, by an error, or *)
(* by the child's exit.  A child also starts turns of its own, for an        *)
(* external event or an extension; they take no lease, but settle like the   *)
(* others.  `known` is live.record.sessionId, `shown` what the *)
(* child really shows: the two differ until a get_state answer arrives.     *)
(***************************************************************************)
EXTENDS Integers, Sequences, FiniteSets

CONSTANTS
    Session, Token, Lease, MaxEntries, None,   \* of the registry
    Inst,           \* supervised instances
    MaxUpsets       \* bound on commands a client sends before the last one on
                    \* the same instance was answered, session changes, RPC
                    \* requests that time out and turns that children start
                    \* of their own, all together

ASSUME MaestroTurnsAssumption ==
    /\ MaxUpsets \in Nat /\ MaxEntries \in Nat \ {0}
    /\ None \notin Session \cup Token \cup Lease \cup Inst

VARIABLES
    leases, holder, waiters, sessionId, promise, released,
    by,        \* the instance a prompt is for
    stage,     \* the prompt's progress in handleRpcForLive
    lease,     \* live.turnLease
    known,     \* live.record.sessionId
    asking,    \* instances whose session command awaits get_state
    shown,     \* the session the child process shows
    run,       \* the prompt whose turn the child is running, or None
    own,       \* instances whose child runs a turn of its own
    syncs,     \* live.identitySync: the chained syncs, the first in progress
    closing,   \* instances whose sync is in its finally block
    up,        \* instances whose child process runs
    moves, timeouts, owns, early,
    overtaken  \* a prompt was granted while a turn of its child ran, or the
               \* child began a turn of its own while a prompt was on its way

Registry == INSTANCE TurnLease
registry == <<leases, holder, waiters, sessionId, promise, released>>
supervisor == <<by, stage, lease, known, asking, syncs, closing>>
child == <<shown, run, own, up>>
vars == <<registry, supervisor, child, moves, timeouts, owns, early, overtaken>>

Stage == {"none", "acquiring", "sending", "late", "accepted", "done"}

\* The finally block runs right after the answer: nothing comes in between.
Quiet == closing = {}

\* The child of i runs a turn: Aizen has one at a time.
Running(i) == run[i] # None \/ i \in own

\* Every command sent to i was answered; the answer of a session command
\* comes after the supervisor has refreshed the session id.
Answered(i) ==
    /\ i \notin asking
    /\ \A t \in Token : by[t] = i => stage[t] \notin {"acquiring", "sending"}

MayUpset == moves + timeouts + owns + early < MaxUpsets

\* A client sends a command to i, early or after the last answer.
SendTo(i) ==
    \/ Answered(i) /\ early' = early
    \/ ~Answered(i) /\ MayUpset /\ early' = early + 1

Init ==
    /\ Registry!Init
    /\ by = [t \in Token |-> None]
    /\ stage = [t \in Token |-> "none"]
    /\ lease = [i \in Inst |-> None]
    /\ known \in [Inst -> Session]
    /\ shown = known
    /\ asking = {}
    /\ run = [i \in Inst |-> None] /\ own = {}
    /\ syncs = [i \in Inst |-> <<>>]
    /\ closing = {}
    /\ up = Inst
    /\ moves = 0 /\ timeouts = 0 /\ owns = 0 /\ early = 0 /\ overtaken = FALSE

-----------------------------------------------------------------------------
(* A prompt, from the request to the answer.                               *)

Prompt(i, t) ==
    /\ Quiet /\ i \in up /\ stage[t] = "none" /\ SendTo(i)
    /\ Registry!Acquire(t, known[i])
    /\ by' = [by EXCEPT ![t] = i]
    /\ stage' = [stage EXCEPT ![t] = "acquiring"]
    /\ UNCHANGED <<lease, known, syncs, closing, child, moves, timeouts, asking, overtaken, owns>>

\* acquire rejects with TurnLeaseTimeoutError.
PromptTimesOut(t) ==
    /\ Quiet /\ stage[t] = "acquiring"
    /\ Registry!WaitTimeout(t)
    /\ stage' = [stage EXCEPT ![t] = "done"]
    /\ UNCHANGED <<by, lease, known, syncs, closing, child, moves, timeouts, asking, early, overtaken, owns>>

\* Whether rpcProcess.send throws: no child, or a prompt is already pending.
SendThrows(t) ==
    \/ by[t] \notin up
    \/ \E u \in Token : by[u] = by[t] /\ stage[u] = "sending"

\* releaseTurnLease(live, token)
ReleaseTurnLease(i, t, current) ==
    /\ IF Registry!Active(t) THEN Registry!Release(t) ELSE UNCHANGED registry
    /\ lease' = [lease EXCEPT ![i] = IF current = t THEN None ELSE current]

\* acquire has resolved: live.turnLease is overwritten and the prompt sent.
Granted(t) ==
    /\ Quiet /\ stage[t] = "acquiring" /\ promise[t] = "granted"
    /\ overtaken' = (overtaken \/ Running(by[t]))
    /\ \/ /\ SendThrows(t)
          /\ ReleaseTurnLease(by[t], t, t)
          /\ stage' = [stage EXCEPT ![t] = "done"]
       \/ /\ ~SendThrows(t)
          /\ lease' = [lease EXCEPT ![by[t]] = t]
          /\ stage' = [stage EXCEPT ![t] = "sending"]
          /\ UNCHANGED registry
    /\ UNCHANGED <<by, known, syncs, closing, child, moves, timeouts, asking, early, owns>>

\* The child accepts the prompt: it starts a turn, or queues it into the
\* running one (steer, followUp).
PromptAccepted(t) ==
    /\ Quiet /\ stage[t] = "sending" /\ by[t] \in up
    /\ stage' = [stage EXCEPT ![t] = "accepted"]
    /\ run' = [run EXCEPT ![by[t]] = IF Running(by[t]) THEN @ ELSE t]
    /\ UNCHANGED <<registry, by, lease, known, syncs, closing, shown, own, up, moves, timeouts, asking, early, overtaken, owns>>

\* An extension command or input hook handles the prompt, or the run fails
\* before it starts: the child has answered success, runs no turn and emits no
\* agent_settled.
PromptHandled(t) ==
    /\ Quiet /\ stage[t] = "sending" /\ by[t] \in up
    /\ stage' = [stage EXCEPT ![t] = "accepted"]
    /\ UNCHANGED <<registry, by, lease, known, syncs, closing, child, moves, timeouts, asking, early, overtaken, owns>>

\* The answer is an error, or send rejects because the child is gone.
PromptFails(t) ==
    /\ Quiet /\ stage[t] = "sending"
    /\ ReleaseTurnLease(by[t], t, lease[by[t]])
    /\ stage' = [stage EXCEPT ![t] = "done"]
    /\ UNCHANGED <<by, known, syncs, closing, child, moves, timeouts, asking, early, overtaken, owns>>

\* The request times out while the child is still about to read it.
SendTimesOut(t) ==
    /\ Quiet /\ stage[t] = "sending" /\ by[t] \in up /\ MayUpset
    /\ ReleaseTurnLease(by[t], t, lease[by[t]])
    /\ stage' = [stage EXCEPT ![t] = "late"]
    /\ timeouts' = timeouts + 1
    /\ UNCHANGED <<by, known, syncs, closing, child, moves, asking, early, overtaken, owns>>

LateStart(t) ==
    /\ stage[t] = "late" /\ by[t] \in up /\ ~Running(by[t])
    /\ stage' = [stage EXCEPT ![t] = "done"]
    /\ run' = [run EXCEPT ![by[t]] = t]
    /\ UNCHANGED <<registry, by, lease, known, syncs, closing, shown, own, up, moves, timeouts, asking, early, overtaken, owns>>

-----------------------------------------------------------------------------
(* Events of the child, and the identity sync they queue.                   *)

\* queueSessionIdentitySync captures the token of the moment.
QueueSync(i, release) ==
    syncs' = IF lease[i] = None THEN syncs
             ELSE [syncs EXCEPT ![i] = Append(@, [token |-> lease[i], release |-> release])]

\* An external event with triggerTurn, or an extension's message, in an idle
\* child: the turn begins without a lease.
OwnTurn(i) ==
    /\ Quiet /\ i \in up /\ ~Running(i) /\ MayUpset
    /\ own' = own \cup {i} /\ owns' = owns + 1
    /\ overtaken' = (overtaken \/ \E t \in Token : by[t] = i /\ stage[t] = "sending")
    /\ UNCHANGED <<registry, supervisor, shown, run, up, moves, timeouts, early>>

\* agent_settled, of whichever turn
Settled(i) ==
    /\ Quiet /\ i \in up /\ Running(i)
    /\ run' = [run EXCEPT ![i] = None] /\ own' = own \ {i}
    /\ QueueSync(i, TRUE)
    /\ UNCHANGED <<registry, by, stage, lease, known, closing, shown, up, moves, timeouts, asking, early, overtaken, owns>>

\* A compaction rotates the session to a new id and emits compaction_end.
Compacted(i, s) ==
    /\ Quiet /\ i \in up /\ Running(i) /\ MayUpset
    /\ \A j \in Inst : shown[j] # s /\ known[j] # s
    /\ shown' = [shown EXCEPT ![i] = s]
    /\ QueueSync(i, FALSE)
    /\ moves' = moves + 1
    /\ UNCHANGED <<registry, by, stage, lease, known, closing, run, own, up, timeouts, asking, early, overtaken, owns>>

\* switch_session, new_session or fork in an idle child.
SwitchSession(i, s) ==
    /\ Quiet /\ i \in up /\ ~Running(i) /\ s # shown[i] /\ MayUpset
    /\ SendTo(i) /\ i \notin asking
    /\ shown' = [shown EXCEPT ![i] = s]
    /\ asking' = asking \cup {i}
    /\ moves' = moves + 1
    /\ UNCHANGED <<registry, by, stage, lease, known, syncs, closing, run, own, up, timeouts, overtaken, owns>>

\* syncInstanceRecord after such a command: the get_state answer.
RefreshSession(i) ==
    /\ Quiet /\ i \in asking
    /\ asking' = asking \ {i}
    /\ known' = IF i \in up THEN [known EXCEPT ![i] = shown[i]] ELSE known
    /\ UNCHANGED <<registry, by, stage, lease, syncs, closing, child, moves, timeouts, early, overtaken, owns>>

\* Mutant: the release belongs to the success path, not to finally.
SyncAnswerWithoutFinally(i) ==
    /\ Quiet /\ syncs[i] # <<>>
    /\ \/ /\ i \in up
          /\ known' = [known EXCEPT ![i] = shown[i]]
          /\ closing' = {i}
          /\ UNCHANGED <<syncs, timeouts>>
       \/ /\ i \in up /\ MayUpset
          /\ timeouts' = timeouts + 1
          /\ syncs' = [syncs EXCEPT ![i] = Tail(@)]
          /\ UNCHANGED <<known, closing>>
    /\ UNCHANGED <<registry, by, stage, lease, child, moves, asking, early, overtaken, owns>>

\* The sync's get_state: the answer moves the token to the session the child
\* shows; what rebind returns is ignored.  A get_state that fails skips that.
SyncAnswer(i) ==
    /\ Quiet /\ syncs[i] # <<>>
    /\ \/ /\ i \in up
          /\ known' = [known EXCEPT ![i] = shown[i]]
          /\ LET t == Head(syncs[i]).token IN
                IF Registry!MayRebind(t, shown[i]) THEN Registry!Rebind(t, shown[i])
                ELSE UNCHANGED registry
          /\ UNCHANGED timeouts
       \/ /\ i \notin up
          /\ UNCHANGED <<known, registry, timeouts>>
       \/ /\ i \in up /\ MayUpset
          /\ timeouts' = timeouts + 1
          /\ UNCHANGED <<known, registry>>
    /\ closing' = {i}
    /\ UNCHANGED <<by, stage, lease, syncs, child, moves, asking, early, overtaken, owns>>

\* Mutant: every sync releases the turn, the one after a compaction too.
SyncFinallyAlways(i) ==
    /\ i \in closing
    /\ ReleaseTurnLease(i, Head(syncs[i]).token, lease[i])
    /\ syncs' = [syncs EXCEPT ![i] = Tail(@)]
    /\ closing' = {}
    /\ UNCHANGED <<by, stage, known, child, moves, timeouts, asking, early, overtaken, owns>>

SyncFinally(i) ==
    /\ i \in closing
    /\ LET sync == Head(syncs[i]) IN
        IF sync.release THEN ReleaseTurnLease(i, sync.token, lease[i])
        ELSE UNCHANGED <<registry, lease>>
    /\ syncs' = [syncs EXCEPT ![i] = Tail(@)]
    /\ closing' = {}
    /\ UNCHANGED <<by, stage, known, child, moves, timeouts, asking, early, overtaken, owns>>

\* The child exits or is stopped: handleUnexpectedRpcExit, cleanup.
Exit(i) ==
    /\ Quiet /\ i \in up
    /\ up' = up \ {i}
    /\ run' = [run EXCEPT ![i] = None] /\ own' = own \ {i}
    /\ IF lease[i] # None THEN ReleaseTurnLease(i, lease[i], lease[i])
       ELSE UNCHANGED <<registry, lease>>
    /\ UNCHANGED <<by, stage, known, syncs, closing, shown, moves, timeouts, asking, early, overtaken, owns>>

-----------------------------------------------------------------------------
\* Prompts are interchangeable until they are sent, so the next one is taken.
NextToken ==
    LET unused == {t \in Token : stage[t] = "none"}
    IN  IF unused = {} THEN {} ELSE {CHOOSE t \in unused : TRUE}

Next ==
    \/ \E i \in Inst : \E t \in NextToken : Prompt(i, t)
    \/ \E t \in Token :
        \/ PromptTimesOut(t) \/ Granted(t) \/ PromptAccepted(t) \/ PromptHandled(t)
        \/ PromptFails(t) \/ SendTimesOut(t) \/ LateStart(t)
    \/ \E i \in Inst :
        \/ OwnTurn(i) \/ Settled(i) \/ RefreshSession(i) \/ SyncAnswer(i) \/ SyncFinally(i) \/ Exit(i)
        \/ \E s \in Session : Compacted(i, s) \/ SwitchSession(i, s)

Spec == Init /\ [][Next]_vars

\* Turns end and the event loop runs what it has queued.
FairSpec ==
    /\ Spec
    /\ \A i \in Inst : WF_vars(Settled(i)) /\ WF_vars(SyncAnswer(i)) /\ WF_vars(SyncFinally(i))

-----------------------------------------------------------------------------
(* Properties.                                                             *)

\* Every variable of the composition holds a value of its kind.
TypeOK ==
    /\ Registry!TypeOK
    /\ by \in [Token -> Inst \cup {None}]
    /\ stage \in [Token -> Stage]
    /\ lease \in [Inst -> Token \cup {None}]
    /\ known \in [Inst -> Session] /\ shown \in [Inst -> Session]
    /\ run \in [Inst -> Token \cup {None}]
    /\ syncs \in [Inst -> Seq([token : Token, release : BOOLEAN])]
    /\ {moves, timeouts, owns, early} \subseteq Nat
    /\ overtaken \in BOOLEAN
    /\ up \subseteq Inst /\ own \subseteq Inst /\ closing \subseteq Inst /\ asking \subseteq Inst

\* The turn of a prompt keeps its lease until it has settled: no sync, exit,
\* failed prompt or rebind, and no turn of the child's own that went before,
\* gives the session away under it, as long as no request timed out and no
\* prompt was granted beside a turn, or under way when the child began its own.
TurnKeepsLease ==
    timeouts = 0 /\ ~overtaken => \A i \in Inst : run[i] # None => Registry!Active(run[i])

\* No prompt is granted beside a running turn of its child, however prompts
\* are pipelined, unless a session was changed, a request timed out, or the
\* child began a turn of its own.
NoneOvertaken == moves = 0 /\ timeouts = 0 /\ owns = 0 => ~overtaken

\* Instances that show one session never run turns of prompts on it at the
\* same time, however prompts are pipelined, as long as no session was changed,
\* no request timed out, and no turn of a child's own overlapped a prompt.
OneTurnPerShownSession ==
    moves = 0 /\ timeouts = 0 /\ ~overtaken =>
        \A i, j \in Inst : run[i] # None /\ run[j] # None /\ shown[i] = shown[j] => i = j

\* Turns and leases stay together while nothing overtakes them.
TurnsKeepLeases == TypeOK /\ TurnKeepsLease /\ NoneOvertaken /\ OneTurnPerShownSession

\* A turn that was accepted gives its lease back, whether the identity sync
\* succeeds, fails, or the child exits first, unless another prompt of the
\* instance overwrote live.turnLease: one that was pipelined, or one that was
\* granted while a turn ran.
TurnGivesLeaseBack ==
    \A i \in Inst : \A t \in Token : run[i] = t ~> ~Registry!Active(t) \/ early > 0 \/ overtaken

=============================================================================
