------------------------- MODULE MaestroTurnsProofs -------------------------
(* The supervisor and the turn-lease registry together: a running turn keeps *)
(* its lease, and turns on one session do not overlap, for any number of     *)
(* instances, sessions and prompts.  The registry's own invariant is proved  *)
(* in TurnLeaseProofs and used here through an instance of that module.      *)
EXTENDS MaestroTurns, SequenceTheorems, TLAPS

Proved == INSTANCE TurnLeaseProofs

Sync == [token : Token, release : BOOLEAN]

Queued(q) == {q[k] : k \in 1..Len(q)}

Shape ==
    /\ by \in [Token -> Inst \cup {None}]
    /\ stage \in [Token -> Stage]
    /\ lease \in [Inst -> Token \cup {None}]
    /\ known \in [Inst -> Session] /\ shown \in [Inst -> Session]
    /\ run \in [Inst -> Token \cup {None}]
    /\ syncs \in [Inst -> Seq(Sync)]
    /\ {moves, timeouts, owns, early} \subseteq Nat
    /\ overtaken \in BOOLEAN
    /\ up \subseteq Inst /\ own \subseteq Inst /\ closing \subseteq Inst /\ asking \subseteq Inst
    /\ owns = 0 => own = {}

\* A prompt has an instance once it has a promise, and its token is not
\* released before acquire has answered.
Staged ==
    \A t \in Token :
        /\ (stage[t] = "none") <=> (promise[t] = "unused")
        /\ (stage[t] = "none") <=> (by[t] = None)
        /\ stage[t] = "acquiring" => ~released[t]
        /\ stage[t] = "late" => timeouts > 0

\* What refers to a token refers to a prompt of the same instance that has
\* its answer from acquire.
Referred ==
    \A i \in Inst :
        /\ lease[i] # None => by[lease[i]] = i /\ stage[lease[i]] \in {"sending", "accepted"}
        /\ run[i] # None => by[run[i]] = i /\ stage[run[i]] \in {"accepted", "done"}
        /\ i \in closing => syncs[i] # <<>>

\* So does a sync that is chained.
Chained ==
    \A i \in Inst : \A e \in Queued(syncs[i]) :
        e \in Sync /\ by[e.token] = i /\ stage[e.token] \notin {"none", "acquiring"}

\* send refuses a second prompt while one is pending.
OneSending ==
    \A t, u \in Token : stage[t] = "sending" /\ stage[u] = "sending" /\ by[t] = by[u] => t = u

\* No request has timed out and nothing has overtaken a turn.
Calm == timeouts = 0 /\ ~overtaken

\* While that is so, a child that runs a turn has no prompt on its way,
RunsAlone ==
    Calm => \A i \in Inst, t \in Token : Running(i) /\ by[t] = i => stage[t] # "sending"

\* a sync that releases is that of a turn that is over,
ReleasesOver ==
    Calm => \A i \in Inst : \A e \in Queued(syncs[i]) :
                e.release => stage[e.token] # "sending" /\ run[i] # e.token

\* a prompt on its way to a child has its lease,
SendingHeld ==
    Calm => \A t \in Token : stage[t] = "sending" /\ by[t] \in up => Registry!Active(t)

\* and so has a running turn.
RunningHeld ==
    Calm => \A i \in Inst : run[i] # None => Registry!Active(run[i])

\* While nothing has moved, every token is bound to the session its instance
\* shows, and nothing overtakes a turn unless a child began one of its own.
Unmoved ==
    moves = 0 /\ timeouts = 0 =>
        /\ known = shown /\ asking = {} /\ (owns = 0 => ~overtaken)
        /\ \A t \in Token : by[t] # None => sessionId[t] = known[by[t]]

Parts ==
    /\ Shape /\ Staged /\ Referred /\ Chained /\ OneSending
    /\ RunsAlone /\ ReleasesOver /\ SendingHeld /\ RunningHeld /\ Unmoved

TurnsInv == Proved!IndInv /\ Parts

-----------------------------------------------------------------------------
(* The registry as the supervisor sees it.                                 *)

\* The definitions of the two instances are the same.
LEMMA SameActive == \A t : Proved!Active(t) <=> Registry!Active(t)
BY DEF Proved!Active, Registry!Active

\* An entry is idle in both.
LEMMA SameIdle == \A l : Proved!Idle(l) <=> Registry!Idle(l)
BY DEF Proved!Idle, Registry!Idle, Proved!HasUnsettledWaiter, Registry!HasUnsettledWaiter,
   Proved!Settled, Registry!Settled

\* Both may evict the same entries.
LEMMA SameEvictIdle == Proved!EvictIdle = Registry!EvictIdle
<1>1. Proved!IdleEntries = Registry!IdleEntries /\ Proved!Entries = Registry!Entries
  BY SameIdle DEF Proved!IdleEntries, Registry!IdleEntries, Proved!Entries, Registry!Entries
<1>2. \A S : Proved!Cardinality(S) = Registry!Cardinality(S)
  BY DEF Proved!Cardinality, Registry!Cardinality
<1>3. ASSUME NEW E PROVE E \in Proved!EvictIdle <=> E \in Registry!EvictIdle
  BY <1>1, <1>2 DEF Proved!EvictIdle, Registry!EvictIdle
<1> QED
  BY <1>3 DEF Proved!EvictIdle, Registry!EvictIdle

\* getOrCreate is the same.
LEMMA SameGetOrCreate == \A s, l : Proved!GetOrCreate(s, l) <=> Registry!GetOrCreate(s, l)
BY SameEvictIdle DEF Proved!GetOrCreate, Registry!GetOrCreate, Proved!Fresh, Registry!Fresh

\* grantNext is the same.
LEMMA SameGrantNext == \A l : Proved!GrantNext(l) <=> Registry!GrantNext(l)
BY DEF Proved!GrantNext, Registry!GrantNext, Proved!HasUnsettledWaiter,
   Registry!HasUnsettledWaiter, Proved!Settled, Registry!Settled

\* What the registry's invariant says of types.
LEMMA RegistryTypes ==
    ASSUME Proved!IndInv
    PROVE  /\ Registry!TypeOK
           /\ promise \in [Token -> {"unused", "waiting", "granted", "rejected"}]
           /\ released \in [Token -> BOOLEAN] /\ sessionId \in [Token -> Session \cup {None}]
BY DEF Proved!IndInv, Proved!TypeOK, Registry!TypeOK, Proved!PromiseState,
   Registry!PromiseState

\* The same in the next state.
LEMMA RegistryTypesNext ==
    ASSUME Proved!IndInv'
    PROVE  /\ Registry!TypeOK'
           /\ promise' \in [Token -> {"unused", "waiting", "granted", "rejected"}]
           /\ released' \in [Token -> BOOLEAN] /\ sessionId' \in [Token -> Session \cup {None}]
BY DEF Proved!IndInv, Proved!TypeOK, Registry!TypeOK, Proved!PromiseState,
   Registry!PromiseState

\* Two tokens with one session are not both active.
LEMMA RegistryExcludes ==
    ASSUME Proved!IndInv, NEW t \in Token, NEW u \in Token, Registry!Active(t), Registry!Active(u),
           sessionId[t] = sessionId[u]
    PROVE  t = u
<1>1. Proved!OneTurnPerSession
  BY Proved!IndInvOneTurn, MaestroTurnsAssumption
<1> QED
  BY <1>1, SameActive DEF Proved!OneTurnPerSession

\* What acquire does to the tokens.
LEMMA AcquireDoes ==
    ASSUME Proved!IndInv, NEW t \in Token, NEW s \in Session, Registry!Acquire(t, s)
    PROVE  /\ Proved!IndInv' /\ promise[t] = "unused" /\ promise'[t] \in {"waiting", "granted"}
           /\ \A u \in Token \ {t} : promise'[u] = promise[u] /\ sessionId'[u] = sessionId[u]
           /\ sessionId'[t] = s /\ released' = released
<1>1. Proved!Acquire(t, s)
  BY SameGetOrCreate DEF Proved!Acquire, Registry!Acquire
<1>2. Proved!IndInv'
  BY <1>1, Proved!AcquireInd, MaestroTurnsAssumption
<1> QED
  BY <1>2, RegistryTypes DEF Registry!Acquire

\* What the timer of a waiter does.
LEMMA WaitTimeoutDoes ==
    ASSUME Proved!IndInv, NEW t \in Token, Registry!WaitTimeout(t)
    PROVE  /\ Proved!IndInv' /\ promise[t] = "waiting" /\ promise'[t] = "rejected"
           /\ \A u \in Token \ {t} : promise'[u] = promise[u]
           /\ sessionId' = sessionId /\ released' = released
<1>1. Proved!WaitTimeout(t)
  BY DEF Proved!WaitTimeout, Registry!WaitTimeout
<1>2. Proved!IndInv'
  BY <1>1, Proved!WaitTimeoutInd, MaestroTurnsAssumption
<1> QED
  BY <1>2, RegistryTypes DEF Registry!WaitTimeout

\* What rebind does.
LEMMA RebindDoes ==
    ASSUME Proved!IndInv, NEW t \in Token, NEW n \in Session, Registry!Rebind(t, n)
    PROVE  /\ Proved!IndInv' /\ promise' = promise /\ released' = released /\ sessionId[t] # n
<1>1. Proved!Rebind(t, n)
  BY SameActive, SameIdle DEF Proved!Rebind, Registry!Rebind, Proved!MayRebind,
     Registry!MayRebind
<1>2. Proved!IndInv'
  BY <1>1, Proved!RebindInd, MaestroTurnsAssumption
<1> QED
  BY <1>2 DEF Registry!Rebind, Registry!MayRebind

\* What release does: a waiter may be granted.
LEMMA ReleaseDoes ==
    ASSUME Proved!IndInv, NEW t \in Token, Registry!Release(t)
    PROVE  /\ Proved!IndInv' /\ sessionId' = sessionId /\ released' = [released EXCEPT ![t] = TRUE]
           /\ \A u \in Token : promise'[u] = promise[u] \/ (promise[u] = "waiting" /\ promise'[u] = "granted")
<1>1. Proved!Release(t)
  BY SameActive, SameGrantNext DEF Proved!Release, Registry!Release
<1>2. Proved!IndInv'
  BY <1>1, Proved!ReleaseInd, MaestroTurnsAssumption
<1>3. CASE promise' = promise
  <2>1. sessionId' = sessionId /\ released' = [released EXCEPT ![t] = TRUE]
    BY DEF Registry!Release
  <2> QED
    BY <1>2, <1>3, <2>1
<1>4. CASE promise' # promise
  <2> DEFINE l == leases[sessionId[t]]
  <2>1. l # None /\ Registry!GrantNext(l)
    BY <1>4 DEF Registry!Release
  <2> HIDE DEF l
  <2>2. PICK i \in 1..Len(waiters[l]) :
            promise[waiters[l][i]] = "waiting" /\ promise' = [promise EXCEPT ![waiters[l][i]] = "granted"]
    BY <1>4, <2>1 DEF Registry!GrantNext, Registry!Settled
  <2>3. promise \in [Token -> {"unused", "waiting", "granted", "rejected"}]
    BY RegistryTypes
  <2>4. sessionId' = sessionId /\ released' = [released EXCEPT ![t] = TRUE]
    BY DEF Registry!Release
  <2> QED
    BY <1>2, <2>2, <2>3, <2>4
<1> QED
  BY <1>3, <1>4

-----------------------------------------------------------------------------
(* The chained syncs, and releaseTurnLease.                                *)

\* What is chained has its type.
LEMMA QueuedTyped ==
    ASSUME NEW S, NEW q \in Seq(S)
    PROVE  Queued(q) \subseteq S
BY DEF Queued

\* One more sync is chained.
LEMMA QueuedAppend ==
    ASSUME NEW S, NEW q \in Seq(S), NEW e \in S
    PROVE  Append(q, e) \in Seq(S) /\ Append(q, e) # <<>> /\ Queued(Append(q, e)) \subseteq Queued(q) \cup {e}
BY DEF Queued

\* The first sync is done.
LEMMA QueuedTail ==
    ASSUME NEW S, NEW q \in Seq(S), q # <<>>
    PROVE  Head(q) \in Queued(q) /\ Tail(q) \in Seq(S) /\ Queued(Tail(q)) \subseteq Queued(q)
BY DEF Queued

\* What releaseTurnLease leaves of the other tokens.
Given(t) ==
    /\ Proved!IndInv' /\ sessionId' = sessionId
    /\ \A u \in Token : promise'[u] = "unused" <=> promise[u] = "unused"
    /\ \A u \in Token \ {t} : released'[u] = released[u] /\ (Registry!Active(u) => Registry!Active(u)')

\* A token that is not active any more is left alone.
LEMMA ReleaseTurnLeaseDoes ==
    ASSUME Proved!IndInv, Shape, NEW i \in Inst, NEW t \in Token, NEW c \in Token \cup {None},
           ReleaseTurnLease(i, t, c)
    PROVE  /\ Given(t) /\ lease' \in [Inst -> Token \cup {None}]
           /\ lease'[i] = IF c = t THEN None ELSE c
           /\ \A j \in Inst \ {i} : lease'[j] = lease[j]
<1>1. Given(t)
  <2>1. CASE Registry!Active(t)
    <3>1. Registry!Release(t)
      BY <2>1 DEF ReleaseTurnLease
    <3>2. /\ Proved!IndInv' /\ sessionId' = sessionId /\ released' = [released EXCEPT ![t] = TRUE]
          /\ \A u \in Token : promise'[u] = promise[u] \/ (promise[u] = "waiting" /\ promise'[u] = "granted")
      BY <3>1, ReleaseDoes
    <3> QED
      BY <3>2, RegistryTypes DEF Given, Registry!Active
  <2>2. CASE ~Registry!Active(t)
    <3>1. UNCHANGED registry
      BY <2>2 DEF ReleaseTurnLease
    <3>2. Proved!IndInv'
      BY <3>1 DEF registry, Proved!IndInv, Proved!TypeOK, Proved!HolderIndexed,
         Proved!WaiterIndexed, Proved!WaiterUnique, Proved!TokenPlaced, Proved!Active
    <3> QED
      BY <3>1, <3>2 DEF registry, Given, Registry!Active
  <2> QED
    BY <2>1, <2>2
<1>2. lease' = [lease EXCEPT ![i] = IF c = t THEN None ELSE c]
  BY DEF ReleaseTurnLease
<1> QED
  BY <1>1, <1>2 DEF Shape

\* What is not touched of the registry is as it was.
LEMMA RegistryKept ==
    ASSUME Proved!IndInv, UNCHANGED registry
    PROVE  Proved!IndInv' /\ promise' = promise /\ released' = released /\ sessionId' = sessionId
BY DEF registry, Proved!IndInv, Proved!TypeOK, Proved!HolderIndexed, Proved!WaiterIndexed,
   Proved!WaiterUnique, Proved!TokenPlaced, Proved!Active

\* A step that leaves the registry alone releases no token.
LEMMA KeptIsGiven ==
    ASSUME Proved!IndInv, UNCHANGED registry
    PROVE  Given(None)
BY RegistryKept DEF Given, Registry!Active

\* queueSessionIdentitySync chains at most one sync, for the token of the
\* moment.
LEMMA QueueSyncDoes ==
    ASSUME Shape, NEW i \in Inst, NEW b \in BOOLEAN, QueueSync(i, b)
    PROVE  /\ syncs' \in [Inst -> Seq(Sync)]
           /\ \A j \in Inst \ {i} : syncs'[j] = syncs[j]
           /\ \A e \in Queued(syncs'[i]) :
                 e \in Queued(syncs[i]) \/ (lease[i] # None /\ e.token = lease[i] /\ e.release = b)
<1>1. CASE lease[i] = None
  BY <1>1 DEF QueueSync, Shape
<1>2. CASE lease[i] # None
  <2> DEFINE e == [token |-> lease[i], release |-> b]
  <2>1. e \in Sync /\ e.token = lease[i] /\ e.release = b
    BY <1>2 DEF Shape, Sync
  <2>2. syncs' = [syncs EXCEPT ![i] = Append(syncs[i], e)]
    BY <1>2 DEF QueueSync
  <2> HIDE DEF e
  <2>3. /\ Append(syncs[i], e) \in Seq(Sync)
        /\ Queued(Append(syncs[i], e)) \subseteq Queued(syncs[i]) \cup {e}
    BY <2>1, QueuedAppend DEF Shape
  <2> QED
    BY <1>2, <2>1, <2>2, <2>3 DEF Shape
<1> QED
  BY <1>1, <1>2

-----------------------------------------------------------------------------
(* One lemma for each action. *)

\* A prompt asks for the lease of the session known.
LEMMA PromptInd ==
    ASSUME TurnsInv, NEW i \in Inst, NEW t \in Token, Prompt(i, t)
    PROVE  TurnsInv'
<1>1. /\ Proved!IndInv /\ Shape /\ Staged /\ Referred /\ Chained /\ OneSending
      /\ RunsAlone /\ ReleasesOver /\ SendingHeld /\ RunningHeld /\ Unmoved
  BY DEF TurnsInv, Parts
<1>2. /\ Proved!IndInv' /\ promise[t] = "unused" /\ promise'[t] \in {"waiting", "granted"}
      /\ \A u \in Token \ {t} : promise'[u] = promise[u] /\ sessionId'[u] = sessionId[u]
      /\ sessionId'[t] = known[i] /\ released' = released
  BY <1>1, AcquireDoes DEF Prompt, Shape
<1>3. promise' \in [Token -> {"unused", "waiting", "granted", "rejected"}] /\ ~released[t]
  BY <1>1, <1>2, RegistryTypesNext, RegistryTypes DEF Proved!IndInv, Proved!TokenPlaced
<1>4. stage[t] = "none" /\ stage' = [stage EXCEPT ![t] = "acquiring"] /\ by' = [by EXCEPT ![t] = i]
  BY DEF Prompt
<1>5. early' \in Nat
  BY <1>1, MaestroTurnsAssumption DEF Prompt, SendTo, Shape
<1>6. /\ lease' = lease /\ known' = known /\ asking' = asking /\ shown' = shown /\ run' = run
      /\ syncs' = syncs /\ closing' = closing /\ up' = up /\ moves' = moves /\ timeouts' = timeouts
      /\ overtaken' = overtaken
      /\ own' = own /\ owns' = owns
  BY DEF Prompt, child
<1>7. Shape'
  BY <1>1, <1>4, <1>5, <1>6 DEF Shape, Stage
<1>8. Staged'
  BY <1>1, <1>2, <1>3, <1>4, <1>6, MaestroTurnsAssumption DEF Shape, Staged
<1>9. Referred'
  BY <1>1, <1>4, <1>6 DEF Referred
<1>10. Chained'
  BY <1>1, <1>4, <1>6 DEF Chained
<1>11. OneSending'
  BY <1>1, <1>4 DEF OneSending
<1>12. RunsAlone'
  BY <1>1, <1>4, <1>6 DEF Calm, RunsAlone, Running
<1>13. ReleasesOver'
  BY <1>1, <1>4, <1>6 DEF Calm, ReleasesOver
<1>14. SendingHeld'
  BY <1>1, <1>2, <1>4, <1>6 DEF Calm, SendingHeld, Registry!Active
<1>15. RunningHeld'
  <2>1. SUFFICES ASSUME Calm', NEW j \in Inst, run'[j] # None PROVE Registry!Active(run[j])'
    BY DEF RunningHeld
  <2>2. Calm /\ run'[j] = run[j] /\ run[j] # None
    BY <1>6, <2>1 DEF Calm
  <2>3. run[j] \in Token /\ run[j] # t /\ promise[run[j]] = "granted" /\ ~released[run[j]]
    <3>1. Registry!Active(run[j])
      BY <1>1, <2>2 DEF RunningHeld
    <3>2. run[j] # t
      BY <1>1, <1>4, <2>2 DEF Referred
    <3>3. run[j] \in Token
      BY <1>1, <2>2 DEF Shape
    <3> QED
      BY <3>1, <3>2, <3>3 DEF Registry!Active
  <2> QED
    BY <1>2, <1>6, <2>3 DEF Registry!Active
<1>16. Unmoved'
  BY <1>1, <1>2, <1>4, <1>6 DEF Shape, Unmoved
<1> QED
  BY <1>2, <1>7, <1>8, <1>9, <1>10, <1>11, <1>12, <1>13, <1>14, <1>15, <1>16 DEF TurnsInv,
     Parts

\* A prompt that gives up waiting.
LEMMA PromptTimesOutInd ==
    ASSUME TurnsInv, NEW t \in Token, PromptTimesOut(t)
    PROVE  TurnsInv'
<1>1. /\ Proved!IndInv /\ Shape /\ Staged /\ Referred /\ Chained /\ OneSending
      /\ RunsAlone /\ ReleasesOver /\ SendingHeld /\ RunningHeld /\ Unmoved
  BY DEF TurnsInv, Parts
<1>2. /\ Proved!IndInv' /\ promise[t] = "waiting" /\ promise'[t] = "rejected"
      /\ \A u \in Token \ {t} : promise'[u] = promise[u]
      /\ sessionId' = sessionId /\ released' = released
  BY <1>1, WaitTimeoutDoes DEF PromptTimesOut
<1>3. stage[t] = "acquiring" /\ by[t] \in Inst /\ stage' = [stage EXCEPT ![t] = "done"]
  BY <1>1 DEF PromptTimesOut, Shape, Staged
<1>4. /\ by' = by /\ lease' = lease /\ known' = known /\ asking' = asking /\ shown' = shown
      /\ run' = run /\ syncs' = syncs /\ closing' = closing /\ up' = up /\ moves' = moves
      /\ timeouts' = timeouts /\ early' = early /\ overtaken' = overtaken
      /\ own' = own /\ owns' = owns
  BY DEF PromptTimesOut, child
<1>5. Shape'
  BY <1>1, <1>3, <1>4 DEF Shape, Stage
<1>6. Staged'
  BY <1>1, <1>2, <1>3, <1>4 DEF Staged
<1>7. Referred'
  BY <1>1, <1>3, <1>4 DEF Referred
<1>8. Chained'
  BY <1>1, <1>3, <1>4 DEF Chained
<1>9. OneSending'
  BY <1>1, <1>3, <1>4 DEF OneSending
<1>10. RunsAlone'
  BY <1>1, <1>3, <1>4 DEF Calm, RunsAlone, Running
<1>11. ReleasesOver'
  BY <1>1, <1>3, <1>4 DEF Calm, ReleasesOver
<1>12. SendingHeld'
  BY <1>1, <1>2, <1>3, <1>4 DEF Calm, SendingHeld, Registry!Active
<1>13. RunningHeld'
  <2>1. SUFFICES ASSUME Calm', NEW j \in Inst, run'[j] # None PROVE Registry!Active(run[j])'
    BY DEF RunningHeld
  <2>2. Calm /\ run'[j] = run[j] /\ run[j] # None
    BY <1>4, <2>1 DEF Calm
  <2>3. run[j] \in Token /\ run[j] # t /\ promise[run[j]] = "granted" /\ ~released[run[j]]
    <3>1. Registry!Active(run[j])
      BY <1>1, <2>2 DEF RunningHeld
    <3>2. run[j] # t
      BY <1>1, <1>3, <2>2 DEF Referred
    <3>3. run[j] \in Token
      BY <1>1, <2>2 DEF Shape
    <3> QED
      BY <3>1, <3>2, <3>3 DEF Registry!Active
  <2> QED
    BY <1>2, <1>4, <2>3 DEF Registry!Active
<1>14. Unmoved'
  BY <1>1, <1>2, <1>4 DEF Unmoved
<1> QED
  BY <1>2, <1>5, <1>6, <1>7, <1>8, <1>9, <1>10, <1>11, <1>12, <1>13, <1>14 DEF TurnsInv,
     Parts

\* A prompt that send refuses gives its lease back.
LEMMA GrantedThrowsInd ==
    ASSUME TurnsInv, NEW t \in Token, Granted(t),
           ReleaseTurnLease(by[t], t, t), stage' = [stage EXCEPT ![t] = "done"]
    PROVE  TurnsInv'
<1>1. /\ Proved!IndInv /\ Shape /\ Staged /\ Referred /\ Chained /\ OneSending
      /\ RunsAlone /\ ReleasesOver /\ SendingHeld /\ RunningHeld /\ Unmoved
  BY DEF TurnsInv, Parts
<1>2. stage[t] = "acquiring" /\ by[t] \in Inst
  BY <1>1 DEF Granted, Shape, Staged
<1>3. /\ Given(t) /\ lease' \in [Inst -> Token \cup {None}]
      /\ lease'[by[t]] = None
      /\ \A j \in Inst \ {by[t]} : lease'[j] = lease[j]
  BY <1>1, <1>2, ReleaseTurnLeaseDoes
<1>4. /\ Proved!IndInv' /\ sessionId' = sessionId
      /\ \A u \in Token : promise'[u] = "unused" <=> promise[u] = "unused"
      /\ \A u \in Token \ {t} :
            released'[u] = released[u] /\ (promise[u] = "granted" /\ ~released[u] => promise'[u] = "granted")
  BY <1>3 DEF Given, Registry!Active
<1>5. overtaken' = (overtaken \/ Running(by[t]))
  BY DEF Granted
<1>6. /\ \A j \in Inst : run[j] # t
      /\ \A j \in Inst \ {by[t]} : lease[j] # t
  <2>1. t # None
    BY MaestroTurnsAssumption
  <2>2. \A j \in Inst : run[j] = t => stage[t] \in {"accepted", "done"}
    BY <1>1, <2>1 DEF Referred
  <2>3. \A j \in Inst : lease[j] = t => by[t] = j
    BY <1>1, <2>1 DEF Referred
  <2> QED
    BY <1>2, <2>2, <2>3
<1>7. /\ by' = by /\ known' = known /\ asking' = asking /\ shown' = shown /\ run' = run
      /\ syncs' = syncs /\ closing' = closing /\ up' = up /\ moves' = moves /\ timeouts' = timeouts
      /\ early' = early
      /\ own' = own /\ owns' = owns
  BY DEF Granted, child
<1>8. Shape'
  BY <1>1, <1>3, <1>5, <1>7 DEF Shape, Stage
<1>9. Staged'
  BY <1>1, <1>2, <1>4, <1>7 DEF Shape, Staged
<1>10. Referred'
  <2>1. \A j \in Inst : lease'[j] # None => lease'[j] = lease[j] /\ lease[j] # t
    BY <1>3, <1>6
  <2>2. \A j \in Inst : lease'[j] # None =>
          by[lease'[j]] = j /\ stage'[lease'[j]] \in {"sending", "accepted"}
    BY <1>1, <1>3 DEF Referred
  <2>3. \A j \in Inst : run[j] # None => by[run[j]] = j /\ stage'[run[j]] \in {"accepted", "done"}
    BY <1>1 DEF Referred
  <2> QED
    BY <1>1, <1>3, <1>7 DEF Referred
<1>11. Chained'
  BY <1>1, <1>7 DEF Chained
<1>12. OneSending'
  BY <1>1, <1>7 DEF OneSending
<1>13. RunsAlone'
  <2>1. Calm' => Calm /\ ~Running(by[t])
    BY <1>1, <1>5, <1>7 DEF Shape, Calm
  <2>2. \A j \in Inst : Running(j)' <=> Running(j)
    BY <1>7 DEF Running
  <2>3. \A u \in Token : stage'[u] = "sending" => u = t \/ stage[u] = "sending"
    BY <1>1 DEF Shape
  <2> QED
    BY <1>1, <1>7, <2>1, <2>2, <2>3 DEF RunsAlone
<1>14. ReleasesOver'
  BY <1>1, <1>5, <1>7 DEF Shape, Calm, ReleasesOver
<1>15. SendingHeld'
  BY <1>1, <1>4, <1>5, <1>7 DEF Shape, Calm, SendingHeld, Registry!Active
<1>16. RunningHeld'
  <2>1. SUFFICES ASSUME Calm', NEW j \in Inst, run'[j] # None PROVE Registry!Active(run[j])'
    BY DEF RunningHeld
  <2>2. Calm /\ run'[j] = run[j] /\ run[j] # None
    BY <1>5, <1>7, <2>1 DEF Calm
  <2>3. run[j] \in Token /\ run[j] # t /\ promise[run[j]] = "granted" /\ ~released[run[j]]
    <3>1. Registry!Active(run[j])
      BY <1>1, <2>2 DEF RunningHeld
    <3>2. run[j] # t
      BY <1>6
    <3>3. run[j] \in Token
      BY <1>1, <2>2 DEF Shape
    <3> QED
      BY <3>1, <3>2, <3>3 DEF Registry!Active
  <2> QED
    BY <1>4, <1>7, <2>3 DEF Registry!Active
<1>17. Unmoved'
  <2>1. SUFFICES ASSUME moves = 0, timeouts = 0, owns = 0 PROVE run[by[t]] = None
    BY <1>1, <1>4, <1>5, <1>7 DEF Unmoved, Shape, Running
  <2>2. SUFFICES ASSUME run[by[t]] # None PROVE FALSE
    OBVIOUS
  <2> DEFINE r == run[by[t]]
  <2>3. /\ r \in Token /\ by[r] = by[t] /\ stage[r] # "acquiring"
        /\ Registry!Active(r)
    <3>1. Calm
      BY <1>1, <2>1 DEF Calm, Unmoved
    <3>2. Registry!Active(r)
      BY <1>1, <1>2, <2>2, <3>1 DEF RunningHeld
    <3>3. by[r] = by[t] /\ stage[r] \in {"accepted", "done"}
      BY <1>1, <1>2, <2>2 DEF Referred
    <3>4. r \in Token
      BY <1>1, <1>2, <2>2 DEF Shape
    <3> QED
      BY <3>2, <3>3, <3>4
  <2>4. Registry!Active(t) /\ sessionId[t] = known[by[t]] /\ sessionId[r] = known[by[t]]
    BY <1>1, <2>1, <2>3 DEF Granted, Staged, Unmoved, Registry!Active
  <2> QED
    BY <1>1, <2>3, <2>4, <1>2, RegistryExcludes
<1> QED
  BY <1>4, <1>8, <1>9, <1>10, <1>11, <1>12, <1>13, <1>14, <1>15, <1>16, <1>17 DEF TurnsInv,
     Parts

\* A prompt is sent.
LEMMA GrantedSendsInd ==
    ASSUME TurnsInv, NEW t \in Token, Granted(t), ~SendThrows(t),
           lease' = [lease EXCEPT ![by[t]] = t], stage' = [stage EXCEPT ![t] = "sending"], UNCHANGED registry
    PROVE  TurnsInv'
<1>1. /\ Proved!IndInv /\ Shape /\ Staged /\ Referred /\ Chained /\ OneSending
      /\ RunsAlone /\ ReleasesOver /\ SendingHeld /\ RunningHeld /\ Unmoved
  BY DEF TurnsInv, Parts
<1>2. stage[t] = "acquiring" /\ by[t] \in Inst
  BY <1>1 DEF Granted, Shape, Staged
<1>3. /\ Proved!IndInv' /\ promise' = promise /\ released' = released /\ sessionId' = sessionId
  BY <1>1, RegistryKept DEF registry
<1>4. promise[t] = "granted" /\ ~released[t]
  BY <1>1, <1>2 DEF Granted, Staged
<1>5. \A u \in Token : by[u] = by[t] => stage[u] # "sending"
  BY DEF SendThrows
<1>6. overtaken' = (overtaken \/ Running(by[t]))
  BY DEF Granted
<1>7. /\ by' = by /\ known' = known /\ asking' = asking /\ shown' = shown /\ run' = run
      /\ syncs' = syncs /\ closing' = closing /\ up' = up /\ moves' = moves /\ timeouts' = timeouts
      /\ early' = early
      /\ own' = own /\ owns' = owns
  BY DEF Granted, child
<1>8. Shape'
  BY <1>1, <1>6, <1>7 DEF Shape, Stage
<1>9. Staged'
  BY <1>1, <1>2, <1>3, <1>7 DEF Staged
<1>10. Referred'
  BY <1>1, <1>2, <1>7 DEF Shape, Referred
<1>11. Chained'
  BY <1>1, <1>7 DEF Chained
<1>12. OneSending'
  BY <1>1, <1>5, <1>7 DEF OneSending
<1>13. RunsAlone'
  <2>1. Calm' => Calm /\ ~Running(by[t])
    BY <1>1, <1>6, <1>7 DEF Shape, Calm
  <2>2. \A j \in Inst : Running(j)' <=> Running(j)
    BY <1>7 DEF Running
  <2>3. \A u \in Token : stage'[u] = "sending" => u = t \/ stage[u] = "sending"
    BY <1>1 DEF Shape
  <2> QED
    BY <1>1, <1>7, <2>1, <2>2, <2>3 DEF RunsAlone
<1>14. ReleasesOver'
  BY <1>1, <1>2, <1>6, <1>7 DEF Shape, Chained, Calm, ReleasesOver
<1>15. SendingHeld'
  BY <1>1, <1>3, <1>4, <1>6, <1>7 DEF Shape, Calm, SendingHeld, Registry!Active
<1>16. RunningHeld'
  BY <1>1, <1>3, <1>6, <1>7 DEF Calm, RunningHeld, Registry!Active
<1>17. Unmoved'
  <2>1. SUFFICES ASSUME moves = 0, timeouts = 0, owns = 0 PROVE run[by[t]] = None
    BY <1>1, <1>3, <1>6, <1>7 DEF Unmoved, Shape, Running
  <2>2. SUFFICES ASSUME run[by[t]] # None PROVE FALSE
    OBVIOUS
  <2> DEFINE r == run[by[t]]
  <2>3. /\ r \in Token /\ by[r] = by[t] /\ stage[r] # "acquiring"
        /\ Registry!Active(r)
    <3>1. Calm
      BY <1>1, <2>1 DEF Calm, Unmoved
    <3>2. Registry!Active(r)
      BY <1>1, <1>2, <2>2, <3>1 DEF RunningHeld
    <3>3. by[r] = by[t] /\ stage[r] \in {"accepted", "done"}
      BY <1>1, <1>2, <2>2 DEF Referred
    <3>4. r \in Token
      BY <1>1, <1>2, <2>2 DEF Shape
    <3> QED
      BY <3>2, <3>3, <3>4
  <2>4. Registry!Active(t) /\ sessionId[t] = known[by[t]] /\ sessionId[r] = known[by[t]]
    BY <1>1, <2>1, <2>3 DEF Granted, Staged, Unmoved, Registry!Active
  <2> QED
    BY <1>1, <2>3, <2>4, <1>2, RegistryExcludes
<1> QED
  BY <1>3, <1>8, <1>9, <1>10, <1>11, <1>12, <1>13, <1>14, <1>15, <1>16, <1>17 DEF TurnsInv,
     Parts

\* The child starts a turn, or steers the one it runs.
LEMMA PromptAcceptedInd ==
    ASSUME TurnsInv, NEW t \in Token, PromptAccepted(t)
    PROVE  TurnsInv'
<1>1. /\ Proved!IndInv /\ Shape /\ Staged /\ Referred /\ Chained /\ OneSending
      /\ RunsAlone /\ ReleasesOver /\ SendingHeld /\ RunningHeld /\ Unmoved
  BY DEF TurnsInv, Parts
<1>2. /\ Proved!IndInv' /\ promise' = promise /\ released' = released /\ sessionId' = sessionId
  BY <1>1, RegistryKept DEF PromptAccepted, registry
<1>3. /\ stage[t] = "sending" /\ by[t] \in up /\ by[t] \in Inst
      /\ stage' = [stage EXCEPT ![t] = "accepted"]
  BY <1>1 DEF PromptAccepted, Shape
<1>4. run' = [run EXCEPT ![by[t]] = IF Running(by[t]) THEN run[by[t]] ELSE t]
  BY DEF PromptAccepted
<1>5. /\ by' = by /\ lease' = lease /\ known' = known /\ asking' = asking /\ shown' = shown
      /\ syncs' = syncs /\ closing' = closing /\ up' = up /\ moves' = moves /\ timeouts' = timeouts
      /\ early' = early /\ overtaken' = overtaken
      /\ own' = own /\ owns' = owns
  BY DEF PromptAccepted, child
<1>6. Shape'
  BY <1>1, <1>3, <1>4, <1>5 DEF Shape, Stage
<1>7. Staged'
  BY <1>1, <1>2, <1>3, <1>5 DEF Staged
<1>8. Referred'
  BY <1>1, <1>3, <1>4, <1>5 DEF Shape, Referred
<1>9. Chained'
  BY <1>1, <1>3, <1>5 DEF Chained
<1>10. OneSending'
  BY <1>1, <1>3, <1>5 DEF OneSending
<1>11. RunsAlone'
  BY <1>1, <1>3, <1>4, <1>5 DEF Shape, OneSending, Calm, RunsAlone, Running
<1>12. ReleasesOver'
  BY <1>1, <1>3, <1>4, <1>5 DEF Calm, ReleasesOver
<1>13. SendingHeld'
  BY <1>1, <1>2, <1>3, <1>5 DEF Calm, SendingHeld, Registry!Active
<1>14. RunningHeld'
  BY <1>1, <1>2, <1>3, <1>4, <1>5 DEF Calm, SendingHeld, RunningHeld, Registry!Active
<1>15. Unmoved'
  BY <1>1, <1>2, <1>5 DEF Unmoved
<1> QED
  BY <1>2, <1>6, <1>7, <1>8, <1>9, <1>10, <1>11, <1>12, <1>13, <1>14, <1>15 DEF TurnsInv,
     Parts

\* A prompt that starts no turn.
LEMMA PromptHandledInd ==
    ASSUME TurnsInv, NEW t \in Token, PromptHandled(t)
    PROVE  TurnsInv'
<1>1. /\ Proved!IndInv /\ Shape /\ Staged /\ Referred /\ Chained /\ OneSending
      /\ RunsAlone /\ ReleasesOver /\ SendingHeld /\ RunningHeld /\ Unmoved
  BY DEF TurnsInv, Parts
<1>2. /\ Proved!IndInv' /\ promise' = promise /\ released' = released /\ sessionId' = sessionId
  BY <1>1, RegistryKept DEF PromptHandled, registry
<1>3. /\ stage[t] = "sending" /\ by[t] \in up /\ by[t] \in Inst
      /\ stage' = [stage EXCEPT ![t] = "accepted"]
  BY <1>1 DEF PromptHandled, Shape
<1>4. /\ by' = by /\ lease' = lease /\ known' = known /\ asking' = asking /\ shown' = shown
      /\ run' = run /\ syncs' = syncs /\ closing' = closing /\ up' = up /\ moves' = moves
      /\ timeouts' = timeouts /\ early' = early /\ overtaken' = overtaken
      /\ own' = own /\ owns' = owns
  BY DEF PromptHandled, child
<1>5. Shape'
  BY <1>1, <1>3, <1>4 DEF Shape, Stage
<1>6. Staged'
  BY <1>1, <1>2, <1>3, <1>4 DEF Staged
<1>7. Referred'
  BY <1>1, <1>3, <1>4 DEF Referred
<1>8. Chained'
  BY <1>1, <1>3, <1>4 DEF Chained
<1>9. OneSending'
  BY <1>1, <1>3, <1>4 DEF OneSending
<1>10. RunsAlone'
  BY <1>1, <1>3, <1>4 DEF Calm, RunsAlone, Running
<1>11. ReleasesOver'
  BY <1>1, <1>3, <1>4 DEF Calm, ReleasesOver
<1>12. SendingHeld'
  BY <1>1, <1>2, <1>3, <1>4 DEF Calm, SendingHeld, Registry!Active
<1>13. RunningHeld'
  BY <1>1, <1>2, <1>4 DEF Calm, RunningHeld, Registry!Active
<1>14. Unmoved'
  BY <1>1, <1>2, <1>4 DEF Unmoved
<1> QED
  BY <1>2, <1>5, <1>6, <1>7, <1>8, <1>9, <1>10, <1>11, <1>12, <1>13, <1>14 DEF TurnsInv,
     Parts

\* A prompt that fails gives its lease back.
LEMMA PromptFailsInd ==
    ASSUME TurnsInv, NEW t \in Token, PromptFails(t)
    PROVE  TurnsInv'
<1>1. /\ Proved!IndInv /\ Shape /\ Staged /\ Referred /\ Chained /\ OneSending
      /\ RunsAlone /\ ReleasesOver /\ SendingHeld /\ RunningHeld /\ Unmoved
  BY DEF TurnsInv, Parts
<1>2. stage[t] = "sending" /\ by[t] \in Inst /\ stage' = [stage EXCEPT ![t] = "done"]
  BY <1>1, MaestroTurnsAssumption DEF PromptFails, Shape, Staged
<1>3. /\ Given(t) /\ lease' \in [Inst -> Token \cup {None}]
      /\ lease'[by[t]] = (IF lease[by[t]] = t THEN None ELSE lease[by[t]])
      /\ \A j \in Inst \ {by[t]} : lease'[j] = lease[j]
  BY <1>1, <1>2, ReleaseTurnLeaseDoes DEF PromptFails, Shape
<1>4. /\ Proved!IndInv' /\ sessionId' = sessionId
      /\ \A u \in Token : promise'[u] = "unused" <=> promise[u] = "unused"
      /\ \A u \in Token \ {t} :
            released'[u] = released[u] /\ (promise[u] = "granted" /\ ~released[u] => promise'[u] = "granted")
  BY <1>3 DEF Given, Registry!Active
<1>5. /\ \A j \in Inst : run[j] # t
      /\ \A j \in Inst \ {by[t]} : lease[j] # t
  <2>1. t # None
    BY MaestroTurnsAssumption
  <2>2. \A j \in Inst : run[j] = t => stage[t] \in {"accepted", "done"}
    BY <1>1, <2>1 DEF Referred
  <2>3. \A j \in Inst : lease[j] = t => by[t] = j
    BY <1>1, <2>1 DEF Referred
  <2> QED
    BY <1>2, <2>2, <2>3
<1>6. /\ by' = by /\ known' = known /\ asking' = asking /\ shown' = shown /\ run' = run
      /\ syncs' = syncs /\ closing' = closing /\ up' = up /\ moves' = moves /\ timeouts' = timeouts
      /\ early' = early /\ overtaken' = overtaken
      /\ own' = own /\ owns' = owns
  BY DEF PromptFails, child
<1>7. Shape'
  BY <1>1, <1>2, <1>3, <1>6 DEF Shape, Stage
<1>8. Staged'
  BY <1>1, <1>2, <1>4, <1>6 DEF Staged
<1>9. Referred'
  <2>1. \A j \in Inst : lease'[j] # None => lease'[j] = lease[j] /\ lease[j] # t
    BY <1>1, <1>2, <1>3, <1>4, <1>5, <1>6
  <2>2. \A j \in Inst : lease'[j] # None =>
          by[lease'[j]] = j /\ stage'[lease'[j]] \in {"sending", "accepted"}
    BY <1>1, <1>2, <1>3 DEF Referred
  <2>3. \A j \in Inst : run[j] # None => by[run[j]] = j /\ stage'[run[j]] \in {"accepted", "done"}
    BY <1>1, <1>2 DEF Referred
  <2> QED
    BY <1>1, <1>2, <1>3, <1>6 DEF Referred
<1>10. Chained'
  BY <1>1, <1>2, <1>6 DEF Chained
<1>11. OneSending'
  BY <1>1, <1>2, <1>6 DEF OneSending
<1>12. RunsAlone'
  BY <1>1, <1>2, <1>6 DEF Calm, RunsAlone, Running
<1>13. ReleasesOver'
  BY <1>1, <1>2, <1>6 DEF Calm, ReleasesOver
<1>14. SendingHeld'
  BY <1>1, <1>2, <1>4, <1>6 DEF Shape, Calm, SendingHeld, Registry!Active
<1>15. RunningHeld'
  <2>1. SUFFICES ASSUME Calm', NEW j \in Inst, run'[j] # None PROVE Registry!Active(run[j])'
    BY DEF RunningHeld
  <2>2. Calm /\ run'[j] = run[j] /\ run[j] # None
    BY <1>6, <2>1 DEF Calm
  <2>3. run[j] \in Token /\ run[j] # t /\ promise[run[j]] = "granted" /\ ~released[run[j]]
    <3>1. Registry!Active(run[j])
      BY <1>1, <2>2 DEF RunningHeld
    <3>2. run[j] # t
      BY <1>5
    <3>3. run[j] \in Token
      BY <1>1, <2>2 DEF Shape
    <3> QED
      BY <3>1, <3>2, <3>3 DEF Registry!Active
  <2> QED
    BY <1>4, <1>6, <2>3 DEF Registry!Active
<1>16. Unmoved'
  BY <1>1, <1>4, <1>6 DEF Unmoved
<1> QED
  BY <1>4, <1>7, <1>8, <1>9, <1>10, <1>11, <1>12, <1>13, <1>14, <1>15, <1>16 DEF TurnsInv,
     Parts

\* A prompt that times out gives its lease back, and may start late.
LEMMA SendTimesOutInd ==
    ASSUME TurnsInv, NEW t \in Token, SendTimesOut(t)
    PROVE  TurnsInv'
<1>1. /\ Proved!IndInv /\ Shape /\ Staged /\ Referred /\ Chained /\ OneSending
      /\ RunsAlone /\ ReleasesOver /\ SendingHeld /\ RunningHeld /\ Unmoved
  BY DEF TurnsInv, Parts
<1>2. stage[t] = "sending" /\ by[t] \in Inst /\ stage' = [stage EXCEPT ![t] = "late"]
  BY <1>1, MaestroTurnsAssumption DEF SendTimesOut, Shape, Staged
<1>3. /\ Given(t) /\ lease' \in [Inst -> Token \cup {None}]
      /\ lease'[by[t]] = (IF lease[by[t]] = t THEN None ELSE lease[by[t]])
      /\ \A j \in Inst \ {by[t]} : lease'[j] = lease[j]
  BY <1>1, <1>2, ReleaseTurnLeaseDoes DEF SendTimesOut, Shape
<1>4. /\ Proved!IndInv' /\ sessionId' = sessionId
      /\ \A u \in Token : promise'[u] = "unused" <=> promise[u] = "unused"
      /\ \A u \in Token \ {t} :
            released'[u] = released[u] /\ (promise[u] = "granted" /\ ~released[u] => promise'[u] = "granted")
  BY <1>3 DEF Given, Registry!Active
<1>5. /\ \A j \in Inst : run[j] # t
      /\ \A j \in Inst \ {by[t]} : lease[j] # t
  <2>1. t # None
    BY MaestroTurnsAssumption
  <2>2. \A j \in Inst : run[j] = t => stage[t] \in {"accepted", "done"}
    BY <1>1, <2>1 DEF Referred
  <2>3. \A j \in Inst : lease[j] = t => by[t] = j
    BY <1>1, <2>1 DEF Referred
  <2> QED
    BY <1>2, <2>2, <2>3
<1>6. timeouts' = timeouts + 1 /\ timeouts' \in Nat /\ timeouts' > 0
  BY <1>1, MaestroTurnsAssumption DEF SendTimesOut, Shape
<1>7. /\ by' = by /\ known' = known /\ asking' = asking /\ shown' = shown /\ run' = run
      /\ syncs' = syncs /\ closing' = closing /\ up' = up /\ moves' = moves /\ early' = early
      /\ overtaken' = overtaken
      /\ own' = own /\ owns' = owns
  BY DEF SendTimesOut, child
<1>8. Shape'
  BY <1>1, <1>2, <1>3, <1>6, <1>7 DEF Shape, Stage
<1>9. Staged'
  BY <1>1, <1>2, <1>4, <1>6, <1>7 DEF Staged
<1>10. Referred'
  <2>1. \A j \in Inst : lease'[j] # None => lease'[j] = lease[j] /\ lease[j] # t
    BY <1>3, <1>5
  <2>2. \A j \in Inst : lease'[j] # None =>
          by[lease'[j]] = j /\ stage'[lease'[j]] \in {"sending", "accepted"}
    BY <1>1, <1>2, <1>3 DEF Referred
  <2>3. \A j \in Inst : run[j] # None => by[run[j]] = j /\ stage'[run[j]] \in {"accepted", "done"}
    BY <1>1, <1>2 DEF Referred
  <2> QED
    BY <1>1, <1>2, <1>3, <1>7 DEF Referred
<1>11. Chained'
  BY <1>1, <1>2, <1>7 DEF Chained
<1>12. OneSending'
  BY <1>1, <1>2, <1>7 DEF OneSending
<1>13. RunsAlone'
  BY <1>6 DEF Calm, RunsAlone, Running
<1>14. ReleasesOver'
  BY <1>6 DEF Calm, ReleasesOver
<1>15. SendingHeld'
  BY <1>6 DEF Calm, SendingHeld
<1>16. RunningHeld'
  BY <1>6 DEF Calm, RunningHeld
<1>17. Unmoved'
  BY <1>6 DEF Unmoved
<1> QED
  BY <1>4, <1>8, <1>9, <1>10, <1>11, <1>12, <1>13, <1>14, <1>15, <1>16, <1>17 DEF TurnsInv,
     Parts

\* The child reads a prompt whose request timed out.
LEMMA LateStartInd ==
    ASSUME TurnsInv, NEW t \in Token, LateStart(t)
    PROVE  TurnsInv'
<1>1. /\ Proved!IndInv /\ Shape /\ Staged /\ Referred /\ Chained /\ OneSending
      /\ RunsAlone /\ ReleasesOver /\ SendingHeld /\ RunningHeld /\ Unmoved
  BY DEF TurnsInv, Parts
<1>2. /\ Proved!IndInv' /\ promise' = promise /\ released' = released /\ sessionId' = sessionId
  BY <1>1, RegistryKept DEF LateStart, registry
<1>3. stage[t] = "late" /\ by[t] \in Inst /\ timeouts > 0 /\ stage' = [stage EXCEPT ![t] = "done"]
  BY <1>1 DEF LateStart, Shape, Staged
<1>4. run' = [run EXCEPT ![by[t]] = t]
  BY DEF LateStart
<1>5. /\ by' = by /\ lease' = lease /\ known' = known /\ asking' = asking /\ shown' = shown
      /\ syncs' = syncs /\ closing' = closing /\ up' = up /\ moves' = moves /\ timeouts' = timeouts
      /\ early' = early /\ overtaken' = overtaken
      /\ own' = own /\ owns' = owns
  BY DEF LateStart, child
<1>6. Shape'
  BY <1>1, <1>3, <1>4, <1>5 DEF Shape, Stage
<1>7. Staged'
  BY <1>1, <1>2, <1>3, <1>5 DEF Staged
<1>8. Referred'
  BY <1>1, <1>3, <1>4, <1>5 DEF Shape, Referred
<1>9. Chained'
  BY <1>1, <1>3, <1>5 DEF Chained
<1>10. OneSending'
  BY <1>1, <1>3, <1>5 DEF OneSending
<1>11. RunsAlone'
  BY <1>3, <1>5 DEF Calm, RunsAlone, Running
<1>12. ReleasesOver'
  BY <1>3, <1>5 DEF Calm, ReleasesOver
<1>13. SendingHeld'
  BY <1>3, <1>5 DEF Calm, SendingHeld
<1>14. RunningHeld'
  BY <1>3, <1>5 DEF Calm, RunningHeld
<1>15. Unmoved'
  BY <1>1, <1>2, <1>5 DEF Unmoved
<1> QED
  BY <1>2, <1>6, <1>7, <1>8, <1>9, <1>10, <1>11, <1>12, <1>13, <1>14, <1>15 DEF TurnsInv,
     Parts

\* A turn ends, and its sync is chained.
LEMMA SettledInd ==
    ASSUME TurnsInv, NEW i \in Inst, Settled(i)
    PROVE  TurnsInv'
<1>1. /\ Proved!IndInv /\ Shape /\ Staged /\ Referred /\ Chained /\ OneSending
      /\ RunsAlone /\ ReleasesOver /\ SendingHeld /\ RunningHeld /\ Unmoved
  BY DEF TurnsInv, Parts
<1>2. /\ Proved!IndInv' /\ promise' = promise /\ released' = released /\ sessionId' = sessionId
  BY <1>1, RegistryKept DEF Settled, registry
<1>3. /\ syncs' \in [Inst -> Seq(Sync)]
      /\ \A j \in Inst \ {i} : syncs'[j] = syncs[j]
      /\ \A e \in Queued(syncs'[i]) :
            e \in Queued(syncs[i]) \/ (lease[i] # None /\ e.token = lease[i] /\ e.release = TRUE)
  BY <1>1, QueueSyncDoes DEF Settled
<1>4. closing = {} /\ i \in up /\ Running(i)
  BY DEF Settled, Quiet
<1>5. run' = [run EXCEPT ![i] = None] /\ own' = own \ {i}
  BY DEF Settled
<1>6. /\ by' = by /\ stage' = stage /\ lease' = lease /\ known' = known /\ asking' = asking
      /\ shown' = shown /\ closing' = closing /\ up' = up /\ moves' = moves /\ timeouts' = timeouts
      /\ early' = early /\ overtaken' = overtaken
      /\ owns' = owns
  BY DEF Settled, child
<1>7. Shape'
  BY <1>1, <1>3, <1>5, <1>6 DEF Shape
<1>8. Staged'
  BY <1>1, <1>2, <1>6 DEF Staged
<1>9. Referred'
  BY <1>1, <1>4, <1>5, <1>6 DEF Referred
<1>10. Chained'
  <2>1. SUFFICES ASSUME NEW j \in Inst, NEW e \in Queued(syncs'[j])
        PROVE  e \in Sync /\ by[e.token] = j /\ stage[e.token] \notin {"none", "acquiring"}
    BY <1>6 DEF Chained
  <2>2. CASE e \in Queued(syncs[j])
    BY <1>1, <2>2 DEF Chained
  <2>3. CASE e \notin Queued(syncs[j])
    <3>1. j = i /\ lease[i] # None /\ e.token = lease[i]
      BY <1>3, <2>1, <2>3
    <3>2. e \in Sync
      BY <1>3, <2>1, QueuedTyped
    <3> QED
      BY <1>1, <3>1, <3>2 DEF Referred
  <2> QED
    BY <2>2, <2>3
<1>11. OneSending'
  BY <1>1, <1>6 DEF OneSending
<1>12. RunsAlone'
  BY <1>1, <1>5, <1>6 DEF Calm, RunsAlone, Running
<1>13. ReleasesOver'
  <2>1. SUFFICES ASSUME Calm, NEW j \in Inst, NEW e \in Queued(syncs'[j]), e.release
        PROVE  stage[e.token] # "sending" /\ run'[j] # e.token
    BY <1>6 DEF Calm, ReleasesOver
  <2>2. e \in Sync /\ run'[j] \in {run[j], None}
    BY <1>1, <1>5, <1>3, <2>1, QueuedTyped DEF Shape
  <2>3. CASE e \in Queued(syncs[j])
    BY <1>1, <2>1, <2>2, <2>3, MaestroTurnsAssumption DEF ReleasesOver, Sync
  <2>4. CASE e \notin Queued(syncs[j])
    <3>1. j = i /\ lease[i] # None /\ e.token = lease[i]
      BY <1>3, <2>1, <2>4
    <3> QED
      BY <1>1, <1>4, <1>5, <2>1, <3>1 DEF RunsAlone, Referred, Shape
  <2> QED
    BY <2>3, <2>4
<1>14. SendingHeld'
  BY <1>1, <1>2, <1>6 DEF Calm, SendingHeld, Registry!Active
<1>15. RunningHeld'
  BY <1>1, <1>2, <1>5, <1>6 DEF Calm, RunningHeld, Registry!Active
<1>16. Unmoved'
  BY <1>1, <1>2, <1>6 DEF Unmoved
<1> QED
  BY <1>2, <1>7, <1>8, <1>9, <1>10, <1>11, <1>12, <1>13, <1>14, <1>15, <1>16 DEF TurnsInv,
     Parts

\* The child begins a turn of its own: a prompt on its way is overtaken.
LEMMA OwnTurnInd ==
    ASSUME TurnsInv, NEW i \in Inst, OwnTurn(i)
    PROVE  TurnsInv'
<1>1. /\ Proved!IndInv /\ Shape /\ Staged /\ Referred /\ Chained /\ OneSending
      /\ RunsAlone /\ ReleasesOver /\ SendingHeld /\ RunningHeld /\ Unmoved
  BY DEF TurnsInv, Parts
<1>2. /\ Proved!IndInv' /\ promise' = promise /\ released' = released /\ sessionId' = sessionId
  BY <1>1, RegistryKept DEF OwnTurn, registry
<1>3. /\ own' = own \cup {i} /\ owns' = owns + 1 /\ owns' \in Nat /\ owns' # 0
      /\ overtaken' = (overtaken \/ \E t \in Token : by[t] = i /\ stage[t] = "sending")
  BY <1>1 DEF OwnTurn, Shape
<1>4. /\ by' = by /\ stage' = stage /\ lease' = lease /\ known' = known /\ asking' = asking
      /\ shown' = shown /\ run' = run /\ syncs' = syncs /\ closing' = closing /\ up' = up
      /\ moves' = moves /\ timeouts' = timeouts /\ early' = early
  BY DEF OwnTurn, supervisor
<1>5. Shape'
  BY <1>1, <1>3, <1>4 DEF Shape
<1>6. Staged' /\ Referred' /\ Chained' /\ OneSending'
  BY <1>1, <1>2, <1>4 DEF Staged, Referred, Chained, OneSending
<1>7. Calm' => Calm /\ \A t \in Token : by[t] = i => stage[t] # "sending"
  BY <1>1, <1>3, <1>4 DEF Calm, Shape
<1>8. RunsAlone'
  BY <1>1, <1>3, <1>4, <1>7 DEF RunsAlone, Running
<1>9. ReleasesOver'
  BY <1>1, <1>4, <1>7 DEF ReleasesOver
<1>10. SendingHeld' /\ RunningHeld'
  BY <1>1, <1>2, <1>4, <1>7 DEF SendingHeld, RunningHeld, Registry!Active
<1>11. Unmoved'
  BY <1>1, <1>2, <1>3, <1>4 DEF Unmoved
<1> QED
  BY <1>2, <1>5, <1>6, <1>8, <1>9, <1>10, <1>11 DEF TurnsInv, Parts

\* A compaction moves the child to a new session.
LEMMA CompactedInd ==
    ASSUME TurnsInv, NEW i \in Inst, NEW s \in Session, Compacted(i, s)
    PROVE  TurnsInv'
<1>1. /\ Proved!IndInv /\ Shape /\ Staged /\ Referred /\ Chained /\ OneSending
      /\ RunsAlone /\ ReleasesOver /\ SendingHeld /\ RunningHeld /\ Unmoved
  BY DEF TurnsInv, Parts
<1>2. /\ Proved!IndInv' /\ promise' = promise /\ released' = released /\ sessionId' = sessionId
  BY <1>1, RegistryKept DEF Compacted, registry
<1>3. /\ syncs' \in [Inst -> Seq(Sync)]
      /\ \A j \in Inst \ {i} : syncs'[j] = syncs[j]
      /\ \A e \in Queued(syncs'[i]) :
            e \in Queued(syncs[i]) \/ (lease[i] # None /\ e.token = lease[i] /\ e.release = FALSE)
  BY <1>1, QueueSyncDoes DEF Compacted
<1>4. closing = {} /\ i \in up /\ Running(i)
  BY DEF Compacted, Quiet
<1>5. shown' = [shown EXCEPT ![i] = s] /\ moves' = moves + 1 /\ moves' \in Nat
  BY <1>1, MaestroTurnsAssumption DEF Compacted, Shape
<1>6. /\ by' = by /\ stage' = stage /\ lease' = lease /\ known' = known /\ asking' = asking
      /\ run' = run /\ closing' = closing /\ up' = up /\ timeouts' = timeouts /\ early' = early
      /\ overtaken' = overtaken
      /\ own' = own /\ owns' = owns
  BY DEF Compacted, child
<1>7. Shape'
  BY <1>1, <1>3, <1>5, <1>6 DEF Shape
<1>8. Staged'
  BY <1>1, <1>2, <1>6 DEF Staged
<1>9. Referred'
  BY <1>1, <1>4, <1>6 DEF Referred
<1>10. Chained'
  <2>1. SUFFICES ASSUME NEW j \in Inst, NEW e \in Queued(syncs'[j])
        PROVE  e \in Sync /\ by[e.token] = j /\ stage[e.token] \notin {"none", "acquiring"}
    BY <1>6 DEF Chained
  <2>2. CASE e \in Queued(syncs[j])
    BY <1>1, <2>2 DEF Chained
  <2>3. CASE e \notin Queued(syncs[j])
    <3>1. j = i /\ lease[i] # None /\ e.token = lease[i]
      BY <1>3, <2>1, <2>3
    <3>2. e \in Sync
      BY <1>3, <2>1, QueuedTyped
    <3> QED
      BY <1>1, <3>1, <3>2 DEF Referred
  <2> QED
    BY <2>2, <2>3
<1>11. OneSending'
  BY <1>1, <1>6 DEF OneSending
<1>12. RunsAlone'
  BY <1>1, <1>6 DEF Calm, RunsAlone, Running
<1>13. ReleasesOver'
  BY <1>1, <1>3, <1>6 DEF Calm, ReleasesOver
<1>14. SendingHeld'
  BY <1>1, <1>2, <1>6 DEF Calm, SendingHeld, Registry!Active
<1>15. RunningHeld'
  BY <1>1, <1>2, <1>6 DEF Calm, RunningHeld, Registry!Active
<1>16. Unmoved'
  BY <1>1, <1>5 DEF Shape, Unmoved
<1> QED
  BY <1>2, <1>7, <1>8, <1>9, <1>10, <1>11, <1>12, <1>13, <1>14, <1>15, <1>16 DEF TurnsInv,
     Parts

\* A session command moves the child.
LEMMA SwitchSessionInd ==
    ASSUME TurnsInv, NEW i \in Inst, NEW s \in Session, SwitchSession(i, s)
    PROVE  TurnsInv'
<1>1. /\ Proved!IndInv /\ Shape /\ Staged /\ Referred /\ Chained /\ OneSending
      /\ RunsAlone /\ ReleasesOver /\ SendingHeld /\ RunningHeld /\ Unmoved
  BY DEF TurnsInv, Parts
<1>2. /\ Proved!IndInv' /\ promise' = promise /\ released' = released /\ sessionId' = sessionId
  BY <1>1, RegistryKept DEF SwitchSession, registry
<1>3. /\ shown' = [shown EXCEPT ![i] = s] /\ asking' = asking \cup {i} /\ moves' = moves + 1
      /\ moves' \in Nat
  BY <1>1, MaestroTurnsAssumption DEF SwitchSession, Shape
<1>4. early' \in Nat
  BY <1>1, MaestroTurnsAssumption DEF SwitchSession, SendTo, Shape
<1>5. /\ by' = by /\ stage' = stage /\ lease' = lease /\ known' = known /\ run' = run
      /\ syncs' = syncs /\ closing' = closing /\ up' = up /\ timeouts' = timeouts
      /\ overtaken' = overtaken
      /\ own' = own /\ owns' = owns
  BY DEF SwitchSession, child
<1>6. Shape'
  BY <1>1, <1>3, <1>4, <1>5 DEF Shape
<1>7. Staged'
  BY <1>1, <1>2, <1>5 DEF Staged
<1>8. Referred'
  BY <1>1, <1>5 DEF Referred
<1>9. Chained'
  BY <1>1, <1>5 DEF Chained
<1>10. OneSending'
  BY <1>1, <1>5 DEF OneSending
<1>11. RunsAlone'
  BY <1>1, <1>5 DEF Calm, RunsAlone, Running
<1>12. ReleasesOver'
  BY <1>1, <1>5 DEF Calm, ReleasesOver
<1>13. SendingHeld'
  BY <1>1, <1>2, <1>5 DEF Calm, SendingHeld, Registry!Active
<1>14. RunningHeld'
  BY <1>1, <1>2, <1>5 DEF Calm, RunningHeld, Registry!Active
<1>15. Unmoved'
  BY <1>1, <1>3 DEF Shape, Unmoved
<1> QED
  BY <1>2, <1>6, <1>7, <1>8, <1>9, <1>10, <1>11, <1>12, <1>13, <1>14, <1>15 DEF TurnsInv,
     Parts

\* The supervisor learns the session a command led to.
LEMMA RefreshSessionInd ==
    ASSUME TurnsInv, NEW i \in Inst, RefreshSession(i)
    PROVE  TurnsInv'
<1>1. /\ Proved!IndInv /\ Shape /\ Staged /\ Referred /\ Chained /\ OneSending
      /\ RunsAlone /\ ReleasesOver /\ SendingHeld /\ RunningHeld /\ Unmoved
  BY DEF TurnsInv, Parts
<1>2. /\ Proved!IndInv' /\ promise' = promise /\ released' = released /\ sessionId' = sessionId
  BY <1>1, RegistryKept DEF RefreshSession, registry
<1>3. /\ i \in asking /\ asking' = asking \ {i}
      /\ known' = IF i \in up THEN [known EXCEPT ![i] = shown[i]] ELSE known
  BY DEF RefreshSession
<1>4. /\ by' = by /\ stage' = stage /\ lease' = lease /\ shown' = shown /\ run' = run
      /\ syncs' = syncs /\ closing' = closing /\ up' = up /\ moves' = moves /\ timeouts' = timeouts
      /\ early' = early /\ overtaken' = overtaken
      /\ own' = own /\ owns' = owns
  BY DEF RefreshSession, child
<1>5. Shape'
  BY <1>1, <1>3, <1>4 DEF Shape
<1>6. Staged'
  BY <1>1, <1>2, <1>4 DEF Staged
<1>7. Referred'
  BY <1>1, <1>4 DEF Referred
<1>8. Chained'
  BY <1>1, <1>4 DEF Chained
<1>9. OneSending'
  BY <1>1, <1>4 DEF OneSending
<1>10. RunsAlone'
  BY <1>1, <1>4 DEF Calm, RunsAlone, Running
<1>11. ReleasesOver'
  BY <1>1, <1>4 DEF Calm, ReleasesOver
<1>12. SendingHeld'
  BY <1>1, <1>2, <1>4 DEF Calm, SendingHeld, Registry!Active
<1>13. RunningHeld'
  BY <1>1, <1>2, <1>4 DEF Calm, RunningHeld, Registry!Active
<1>14. Unmoved'
  BY <1>1, <1>3, <1>4 DEF Unmoved
<1> QED
  BY <1>2, <1>5, <1>6, <1>7, <1>8, <1>9, <1>10, <1>11, <1>12, <1>13, <1>14 DEF TurnsInv,
     Parts

\* The answer of a sync.
LEMMA SyncAnswerInd ==
    ASSUME TurnsInv, NEW i \in Inst, SyncAnswer(i)
    PROVE  TurnsInv'
<1>1. /\ Proved!IndInv /\ Shape /\ Staged /\ Referred /\ Chained /\ OneSending
      /\ RunsAlone /\ ReleasesOver /\ SendingHeld /\ RunningHeld /\ Unmoved
  BY DEF TurnsInv, Parts
<1>2. syncs[i] # <<>> /\ closing' = {i}
  BY DEF SyncAnswer
<1>3. Head(syncs[i]) \in Sync /\ Head(syncs[i]) \in Queued(syncs[i])
  BY <1>1, <1>2, QueuedTail, QueuedTyped DEF Shape
<1>4. (timeouts' = timeouts \/ timeouts' = timeouts + 1)
      /\ (known' = known \/ known' = [known EXCEPT ![i] = shown[i]])
  BY DEF SyncAnswer
<1>5. known' \in [Inst -> Session] /\ (known = shown => known' = known)
  BY <1>1, <1>4 DEF Shape
<1>6. timeouts' \in Nat /\ (timeouts' = 0 => timeouts = 0)
  <2>1. timeouts \in Nat
    BY <1>1 DEF Shape
  <2> QED
    BY <1>4, <2>1, MaestroTurnsAssumption
<1>7. /\ Proved!IndInv' /\ promise' = promise /\ released' = released
      /\ sessionId' # sessionId => sessionId[Head(syncs[i]).token] # shown[i]
  <2> DEFINE u == Head(syncs[i]).token
  <2>1. u \in Token /\ shown[i] \in Session
    BY <1>1, <1>3 DEF Shape, Sync
  <2>2. Registry!Rebind(u, shown[i]) \/ UNCHANGED registry
    BY DEF SyncAnswer
  <2> HIDE DEF u
  <2>3. CASE Registry!Rebind(u, shown[i])
    BY <1>1, <2>1, <2>3, RebindDoes DEF u
  <2>4. CASE UNCHANGED registry
    BY <1>1, <2>4, RegistryKept DEF registry
  <2> QED
    BY <2>2, <2>3, <2>4
<1>8. /\ by' = by /\ stage' = stage /\ lease' = lease /\ asking' = asking /\ shown' = shown
      /\ run' = run /\ syncs' = syncs /\ up' = up /\ moves' = moves /\ early' = early
      /\ overtaken' = overtaken
      /\ own' = own /\ owns' = owns
  BY DEF SyncAnswer, child
<1>9. Shape'
  BY <1>1, <1>2, <1>4, <1>6, <1>8 DEF Shape
<1>10. Staged'
  BY <1>1, <1>6, <1>7, <1>8 DEF Staged
<1>11. Referred'
  BY <1>1, <1>2, <1>8 DEF Referred
<1>12. Chained'
  BY <1>1, <1>8 DEF Chained
<1>13. OneSending'
  BY <1>1, <1>8 DEF OneSending
<1>14. RunsAlone'
  BY <1>1, <1>6, <1>8 DEF Calm, RunsAlone, Running
<1>15. ReleasesOver'
  BY <1>1, <1>6, <1>8 DEF Calm, ReleasesOver
<1>16. SendingHeld'
  BY <1>1, <1>6, <1>7, <1>8 DEF Calm, SendingHeld, Registry!Active
<1>17. RunningHeld'
  BY <1>1, <1>6, <1>7, <1>8 DEF Calm, RunningHeld, Registry!Active
<1>18. Unmoved'
  <2>1. SUFFICES ASSUME moves = 0, timeouts = 0 PROVE Unmoved'
    BY <1>6, <1>8 DEF Unmoved
  <2>2. known = shown /\ known' = known
    BY <1>1, <1>5, <2>1 DEF Unmoved
  <2>3. by[Head(syncs[i]).token] = i /\ Head(syncs[i]).token \in Token
    BY <1>1, <1>3 DEF Chained, Sync
  <2>4. sessionId' = sessionId
    BY <1>1, <1>7, <2>1, <2>3, MaestroTurnsAssumption DEF Unmoved
  <2> QED
    BY <1>1, <1>5, <1>6, <1>8, <2>4 DEF Unmoved
<1> QED
  BY <1>7, <1>9, <1>10, <1>11, <1>12, <1>13, <1>14, <1>15, <1>16, <1>17, <1>18 DEF TurnsInv,
     Parts

\* The end of a sync.
LEMMA SyncFinallyInd ==
    ASSUME TurnsInv, NEW i \in Inst, SyncFinally(i)
    PROVE  TurnsInv'
<1>1. /\ Proved!IndInv /\ Shape /\ Staged /\ Referred /\ Chained /\ OneSending
      /\ RunsAlone /\ ReleasesOver /\ SendingHeld /\ RunningHeld /\ Unmoved
  BY DEF TurnsInv, Parts
<1>2. syncs[i] # <<>> /\ closing' = {} /\ syncs' = [syncs EXCEPT ![i] = Tail(syncs[i])]
  BY <1>1 DEF SyncFinally, Referred
<1>3. /\ Head(syncs[i]) \in Sync /\ Head(syncs[i]) \in Queued(syncs[i])
      /\ Tail(syncs[i]) \in Seq(Sync) /\ Queued(Tail(syncs[i])) \subseteq Queued(syncs[i])
  BY <1>1, <1>2, QueuedTail, QueuedTyped DEF Shape
<1>4. PICK u \in Token \cup {None} :
        /\ Given(u) /\ lease' \in [Inst -> Token \cup {None}]
        /\ u # None => \E e \in Queued(syncs[i]) : e.release /\ e.token = u
        /\ lease'[i] \in {lease[i], None} /\ \A j \in Inst \ {i} : lease'[j] = lease[j]
  <2> DEFINE e == Head(syncs[i])
  <2>1. e \in Queued(syncs[i]) /\ e.token \in Token /\ lease[i] \in Token \cup {None}
    BY <1>1, <1>3 DEF Shape, Sync
  <2>2. IF e.release THEN ReleaseTurnLease(i, e.token, lease[i]) ELSE UNCHANGED <<registry, lease>>
    BY DEF SyncFinally
  <2> HIDE DEF e
  <2>3. CASE e.release
    BY <1>1, <2>1, <2>2, <2>3, ReleaseTurnLeaseDoes
  <2>4. CASE ~e.release
    BY <1>1, <2>2, <2>4, KeptIsGiven DEF Shape
  <2> QED
    BY <2>3, <2>4
<1>5. /\ Proved!IndInv' /\ sessionId' = sessionId
      /\ \A v \in Token : promise'[v] = "unused" <=> promise[v] = "unused"
      /\ \A v \in Token \ {u} :
            released'[v] = released[v] /\ (promise[v] = "granted" /\ ~released[v] => promise'[v] = "granted")
  BY <1>4 DEF Given, Registry!Active
<1>6. u # None =>
        /\ by[u] = i /\ stage[u] \notin {"none", "acquiring"}
        /\ (Calm => stage[u] # "sending" /\ run[i] # u)
  BY <1>1, <1>4 DEF Chained, ReleasesOver
<1>7. /\ by' = by /\ stage' = stage /\ known' = known /\ asking' = asking /\ shown' = shown
      /\ run' = run /\ up' = up /\ moves' = moves /\ timeouts' = timeouts /\ early' = early
      /\ overtaken' = overtaken
      /\ own' = own /\ owns' = owns
  BY DEF SyncFinally, child
<1>8. Shape'
  BY <1>1, <1>2, <1>3, <1>4, <1>7 DEF Shape
<1>9. Staged'
  <2>1. \A v \in Token : stage[v] = "acquiring" => v # u /\ ~released[v]
    BY <1>1, <1>6, MaestroTurnsAssumption DEF Staged
  <2>2. \A v \in Token : stage[v] = "acquiring" => ~released'[v]
    BY <1>5, <2>1
  <2> QED
    BY <1>1, <1>5, <1>7, <2>2 DEF Staged
<1>10. Referred'
  <2>1. \A j \in Inst : lease'[j] # None => lease'[j] = lease[j]
    BY <1>4
  <2>2. \A j \in Inst : run'[j] # None => run'[j] = run[j]
    BY <1>7
  <2>3. \A j \in Inst : j \notin closing'
    BY <1>2
  <2> QED
    BY <1>1, <1>2, <1>4, <1>7 DEF Referred
<1>11. Chained'
  BY <1>1, <1>2, <1>3, <1>7 DEF Chained
<1>12. OneSending'
  BY <1>1, <1>7 DEF OneSending
<1>13. RunsAlone'
  BY <1>1, <1>7 DEF Calm, RunsAlone, Running
<1>14. ReleasesOver'
  BY <1>1, <1>2, <1>3, <1>7 DEF Calm, ReleasesOver
<1>15. SendingHeld'
  <2>1. SUFFICES ASSUME Calm', NEW v \in Token, stage'[v] = "sending", by'[v] \in up'
                 PROVE  Registry!Active(v)'
    BY DEF SendingHeld
  <2>2. Calm /\ stage[v] = "sending" /\ by[v] \in up
    BY <1>7, <2>1 DEF Calm
  <2>3. v # u
    BY <1>6, <2>2, MaestroTurnsAssumption
  <2>4. Registry!Active(v)
    BY <1>1, <2>2 DEF SendingHeld
  <2> QED
    BY <1>5, <2>3, <2>4 DEF Registry!Active
<1>16. RunningHeld'
  <2>1. SUFFICES ASSUME Calm', NEW j \in Inst, run'[j] # None PROVE Registry!Active(run[j])'
    BY DEF RunningHeld
  <2>2. Calm /\ run'[j] = run[j] /\ run[j] # None
    BY <1>7, <2>1 DEF Calm
  <2>3. run[j] \in Token /\ run[j] # u /\ promise[run[j]] = "granted" /\ ~released[run[j]]
    <3>1. Registry!Active(run[j])
      BY <1>1, <2>2 DEF RunningHeld
    <3>2. run[j] # u
      BY <1>1, <1>6, <2>2 DEF Referred
    <3>3. run[j] \in Token
      BY <1>1, <2>2 DEF Shape
    <3> QED
      BY <3>1, <3>2, <3>3 DEF Registry!Active
  <2> QED
    BY <1>5, <1>7, <2>3 DEF Registry!Active
<1>17. Unmoved'
  BY <1>1, <1>5, <1>7 DEF Unmoved
<1> QED
  BY <1>5, <1>8, <1>9, <1>10, <1>11, <1>12, <1>13, <1>14, <1>15, <1>16, <1>17 DEF TurnsInv,
     Parts

\* The child is gone.
LEMMA ExitInd ==
    ASSUME TurnsInv, NEW i \in Inst, Exit(i)
    PROVE  TurnsInv'
<1>1. /\ Proved!IndInv /\ Shape /\ Staged /\ Referred /\ Chained /\ OneSending
      /\ RunsAlone /\ ReleasesOver /\ SendingHeld /\ RunningHeld /\ Unmoved
  BY DEF TurnsInv, Parts
<1>2. closing = {} /\ i \in up /\ up' = up \ {i} /\ run' = [run EXCEPT ![i] = None] /\ own' = own \ {i}
  BY DEF Exit, Quiet
<1>3. PICK u \in Token \cup {None} :
        /\ Given(u) /\ lease' \in [Inst -> Token \cup {None}]
        /\ u \in {lease[i], None}
        /\ lease'[i] \in {lease[i], None} /\ \A j \in Inst \ {i} : lease'[j] = lease[j]
  <2>1. CASE lease[i] # None
    BY <1>1, <2>1, ReleaseTurnLeaseDoes DEF Exit, Shape
  <2>2. CASE lease[i] = None
    <3>1. UNCHANGED <<registry, lease>>
      BY <2>2 DEF Exit
    <3> QED
      BY <1>1, <3>1, KeptIsGiven DEF Shape
  <2> QED
    BY <2>1, <2>2
<1>4. /\ Proved!IndInv' /\ sessionId' = sessionId
      /\ \A v \in Token : promise'[v] = "unused" <=> promise[v] = "unused"
      /\ \A v \in Token \ {u} :
            released'[v] = released[v] /\ (promise[v] = "granted" /\ ~released[v] => promise'[v] = "granted")
  BY <1>3 DEF Given, Registry!Active
<1>5. u # None => by[u] = i /\ stage[u] \notin {"none", "acquiring"}
  BY <1>1, <1>3 DEF Referred
<1>6. /\ by' = by /\ stage' = stage /\ known' = known /\ asking' = asking /\ shown' = shown
      /\ syncs' = syncs /\ closing' = closing /\ moves' = moves /\ timeouts' = timeouts
      /\ early' = early /\ overtaken' = overtaken
      /\ owns' = owns
  BY DEF Exit, child
<1>7. Shape'
  BY <1>1, <1>2, <1>3, <1>6 DEF Shape
<1>8. Staged'
  <2>1. \A v \in Token : stage[v] = "acquiring" => v # u /\ ~released[v]
    BY <1>1, <1>5, MaestroTurnsAssumption DEF Staged
  <2>2. \A v \in Token : stage[v] = "acquiring" => ~released'[v]
    BY <1>4, <2>1
  <2> QED
    BY <1>1, <1>4, <1>6, <2>2 DEF Staged
<1>9. Referred'
  <2>1. \A j \in Inst : lease'[j] # None => lease'[j] = lease[j]
    BY <1>1, <1>2, <1>3, <1>4, <1>5, <1>6
  <2>2. \A j \in Inst : run'[j] # None => run'[j] = run[j]
    BY <1>2
  <2>3. \A j \in Inst : j \notin closing'
    BY <1>1, <1>2, <1>3, <1>4, <1>5, <1>6
  <2> QED
    BY <1>1, <1>2, <1>3, <1>6 DEF Referred
<1>10. Chained'
  BY <1>1, <1>6 DEF Chained
<1>11. OneSending'
  BY <1>1, <1>6 DEF OneSending
<1>12. RunsAlone'
  BY <1>1, <1>2, <1>6 DEF Calm, RunsAlone, Running
<1>13. ReleasesOver'
  BY <1>1, <1>2, <1>6, MaestroTurnsAssumption DEF Sync, Chained, Calm, ReleasesOver
<1>14. SendingHeld'
  <2>1. SUFFICES ASSUME Calm', NEW v \in Token, stage'[v] = "sending", by'[v] \in up'
                 PROVE  Registry!Active(v)'
    BY DEF SendingHeld
  <2>2. Calm /\ stage[v] = "sending" /\ by[v] \in up
    BY <1>2, <1>6, <2>1 DEF Calm
  <2>3. v # u
    BY <1>2, <1>5, <1>6, <2>1, MaestroTurnsAssumption
  <2>4. Registry!Active(v)
    BY <1>1, <2>2 DEF SendingHeld
  <2> QED
    BY <1>4, <2>3, <2>4 DEF Registry!Active
<1>15. RunningHeld'
  <2>1. SUFFICES ASSUME Calm', NEW j \in Inst, run'[j] # None PROVE Registry!Active(run[j])'
    BY DEF RunningHeld
  <2>2. Calm /\ run'[j] = run[j] /\ run[j] # None
    BY <1>2, <1>6, <2>1 DEF Calm
  <2>3. run[j] \in Token /\ run[j] # u /\ promise[run[j]] = "granted" /\ ~released[run[j]]
    <3>1. Registry!Active(run[j])
      BY <1>1, <2>2 DEF RunningHeld
    <3>2. run[j] # u
      BY <1>1, <1>2, <1>3, <2>2 DEF Shape, Referred
    <3>3. run[j] \in Token
      BY <1>1, <2>2 DEF Shape
    <3> QED
      BY <3>1, <3>2, <3>3 DEF Registry!Active
  <2> QED
    BY <1>4, <2>2, <2>3 DEF Registry!Active
<1>16. Unmoved'
  BY <1>1, <1>4, <1>6 DEF Unmoved
<1> QED
  BY <1>4, <1>7, <1>8, <1>9, <1>10, <1>11, <1>12, <1>13, <1>14, <1>15, <1>16 DEF TurnsInv,
     Parts
-----------------------------------------------------------------------------
(* The invariant of the composition, and the property.                      *)

\* A prompt whose lease was granted is refused by send, or sent.
LEMMA GrantedInd ==
    ASSUME TurnsInv, NEW t \in Token, Granted(t)
    PROVE  TurnsInv'
<1>1. CASE ReleaseTurnLease(by[t], t, t) /\ stage' = [stage EXCEPT ![t] = "done"]
  BY <1>1, GrantedThrowsInd
<1>2. CASE /\ ~SendThrows(t) /\ lease' = [lease EXCEPT ![by[t]] = t]
           /\ stage' = [stage EXCEPT ![t] = "sending"] /\ UNCHANGED registry
  BY <1>2, GrantedSendsInd
<1> QED
  BY <1>1, <1>2 DEF Granted

\* It holds at the start.
LEMMA InitTurnsInv == Init => TurnsInv
<1> SUFFICES ASSUME Init PROVE TurnsInv
  OBVIOUS
<1>1. Proved!IndInv /\ promise = [t \in Token |-> "unused"] /\ released = [t \in Token |-> FALSE]
  <2>1. Proved!Init
    BY DEF Init, Registry!Init, Proved!Init
  <2> QED
    BY <2>1, Proved!InitIndInv, MaestroTurnsAssumption DEF Proved!Init
<1>2. /\ by = [t \in Token |-> None] /\ stage = [t \in Token |-> "none"]
      /\ lease = [i \in Inst |-> None] /\ run = [i \in Inst |-> None] /\ syncs = [i \in Inst |-> <<>>]
      /\ known \in [Inst -> Session] /\ shown = known /\ asking = {} /\ closing = {} /\ up = Inst
      /\ own = {} /\ moves = 0 /\ timeouts = 0 /\ owns = 0 /\ early = 0 /\ overtaken = FALSE
  BY DEF Init
<1>3. \A i \in Inst : Queued(syncs[i]) = {}
  BY <1>2 DEF Queued
<1>4. Shape
  <2>1. syncs \in [Inst -> Seq(Sync)]
    BY <1>2
  <2>2. {moves, timeouts, owns, early} \subseteq Nat
    BY <1>2, MaestroTurnsAssumption
  <2> QED
    BY <1>2, <2>1, <2>2 DEF Shape, Stage
<1>5. Staged /\ Referred /\ Chained /\ OneSending
  BY <1>1, <1>2, <1>3 DEF Staged, Referred, Chained, OneSending
<1>6. RunsAlone /\ ReleasesOver /\ SendingHeld /\ RunningHeld /\ Unmoved
  BY <1>2, <1>3 DEF RunsAlone, Running, ReleasesOver, SendingHeld, RunningHeld, Unmoved
<1> QED
  BY <1>1, <1>4, <1>5, <1>6 DEF TurnsInv, Parts

\* The next token is a token.
LEMMA NextTokens == NextToken \subseteq Token
<1> DEFINE unused == {t \in Token : stage[t] = "none"}
<1>1. CASE unused = {}
  BY <1>1 DEF NextToken
<1>2. CASE unused # {}
  <2>1. (CHOOSE t \in unused : TRUE) \in unused
    BY <1>2
  <2> QED
    BY <1>2, <2>1 DEF NextToken
<1> QED
  BY <1>1, <1>2

\* Every step preserves it.
LEMMA NextTurnsInv == TurnsInv /\ [Next]_vars => TurnsInv'
<1> SUFFICES ASSUME TurnsInv, [Next]_vars PROVE TurnsInv'
  OBVIOUS
<1>1. ASSUME NEW i \in Inst, NEW t \in Token, Prompt(i, t) PROVE TurnsInv'
  BY <1>1, PromptInd
<1>2. ASSUME NEW t \in Token, PromptTimesOut(t) PROVE TurnsInv'
  BY <1>2, PromptTimesOutInd
<1>3. ASSUME NEW t \in Token, Granted(t) PROVE TurnsInv'
  BY <1>3, GrantedInd
<1>4. ASSUME NEW t \in Token, PromptAccepted(t) PROVE TurnsInv'
  BY <1>4, PromptAcceptedInd
<1>5. ASSUME NEW t \in Token, PromptHandled(t) PROVE TurnsInv'
  BY <1>5, PromptHandledInd
<1>6. ASSUME NEW t \in Token, PromptFails(t) PROVE TurnsInv'
  BY <1>6, PromptFailsInd
<1>7. ASSUME NEW t \in Token, SendTimesOut(t) PROVE TurnsInv'
  BY <1>7, SendTimesOutInd
<1>8. ASSUME NEW t \in Token, LateStart(t) PROVE TurnsInv'
  BY <1>8, LateStartInd
<1>9. ASSUME NEW i \in Inst, Settled(i) PROVE TurnsInv'
  BY <1>9, SettledInd
<1>10. ASSUME NEW i \in Inst, RefreshSession(i) PROVE TurnsInv'
  BY <1>10, RefreshSessionInd
<1>11. ASSUME NEW i \in Inst, SyncAnswer(i) PROVE TurnsInv'
  BY <1>11, SyncAnswerInd
<1>12. ASSUME NEW i \in Inst, SyncFinally(i) PROVE TurnsInv'
  BY <1>12, SyncFinallyInd
<1>13. ASSUME NEW i \in Inst, Exit(i) PROVE TurnsInv'
  BY <1>13, ExitInd
<1>14. ASSUME NEW i \in Inst, NEW s \in Session, Compacted(i, s) PROVE TurnsInv'
  BY <1>14, CompactedInd
<1>15. ASSUME NEW i \in Inst, NEW s \in Session, SwitchSession(i, s) PROVE TurnsInv'
  BY <1>15, SwitchSessionInd
<1>16. ASSUME NEW i \in Inst, OwnTurn(i) PROVE TurnsInv'
  BY <1>16, OwnTurnInd
<1>17. CASE UNCHANGED vars
  <2>1. /\ UNCHANGED registry
        /\ by' = by /\ stage' = stage /\ lease' = lease /\ known' = known /\ asking' = asking
        /\ shown' = shown /\ run' = run /\ syncs' = syncs /\ closing' = closing /\ up' = up
        /\ moves' = moves /\ timeouts' = timeouts /\ early' = early /\ overtaken' = overtaken
        /\ own' = own /\ owns' = owns
    BY <1>17 DEF vars, supervisor, child
  <2>2. Proved!IndInv' /\ promise' = promise /\ released' = released /\ sessionId' = sessionId
    BY <2>1, RegistryKept DEF TurnsInv
  <2>3. Shape' /\ Staged' /\ Referred' /\ Chained' /\ OneSending'
    BY <2>1, <2>2 DEF TurnsInv, Parts, Shape, Staged, Referred, Chained, OneSending
  <2>4. RunsAlone' /\ ReleasesOver' /\ SendingHeld' /\ RunningHeld' /\ Unmoved'
    BY <2>1, <2>2 DEF TurnsInv, Parts, RunsAlone, Running, ReleasesOver, SendingHeld, RunningHeld,
       Unmoved, Calm, Registry!Active
  <2> QED
    BY <2>2, <2>3, <2>4 DEF TurnsInv, Parts
<1> QED
  BY <1>1, <1>2, <1>3, <1>4, <1>5, <1>6, <1>7, <1>8, <1>9, <1>10, <1>11, <1>12, <1>13,
     <1>14, <1>15, <1>16, <1>17, NextTokens DEF Next

\* While nothing has moved, two instances that show one session do not both
\* run a turn: the tokens of both turns would be active and bound to it.
LEMMA TurnsInvOneTurn == TurnsInv => OneTurnPerShownSession
<1> SUFFICES ASSUME TurnsInv, moves = 0, timeouts = 0, ~overtaken, NEW i \in Inst, NEW j \in Inst,
                    run[i] # None, run[j] # None, shown[i] = shown[j]
             PROVE  i = j
  BY DEF OneTurnPerShownSession
<1>1. Proved!IndInv /\ Shape /\ Referred /\ RunningHeld /\ Unmoved
  BY DEF TurnsInv, Parts
<1>2. Calm
  BY DEF Calm
<1>3. /\ run[i] \in Token /\ Registry!Active(run[i]) /\ by[run[i]] = i
      /\ run[j] \in Token /\ Registry!Active(run[j]) /\ by[run[j]] = j
  BY <1>1, <1>2 DEF Shape, Referred, RunningHeld
<1>4. sessionId[run[i]] = shown[i] /\ sessionId[run[j]] = shown[j]
  BY <1>1, <1>3, MaestroTurnsAssumption DEF Unmoved
<1>5. run[i] = run[j]
  BY <1>1, <1>3, <1>4, RegistryExcludes
<1> QED
  BY <1>3, <1>5

\* The invariant gives the property.
LEMMA TurnsInvGives == TurnsInv => TurnsKeepLeases
<1> SUFFICES ASSUME TurnsInv PROVE TurnsKeepLeases
  OBVIOUS
<1>1. Proved!IndInv /\ Shape /\ RunningHeld /\ Unmoved
  BY DEF TurnsInv, Parts
<1>2. TypeOK
  BY <1>1, RegistryTypes DEF Shape, Sync, TypeOK
<1>3. TurnKeepsLease /\ NoneOvertaken
  BY <1>1 DEF TurnKeepsLease, NoneOvertaken, RunningHeld, Unmoved, Calm
<1> QED
  BY <1>2, <1>3, TurnsInvOneTurn DEF TurnsKeepLeases

\* The turn of a prompt keeps its lease while nothing overtakes it; nothing
\* overtakes it unless a session was changed, a request timed out or the child
\* began a turn of its own; and until then no two instances run prompts' turns
\* on one session: for any numbers of instances, sessions, prompts, pipelined
\* commands, moves, timeouts and turns of the children's own.
THEOREM TurnsKeepLeasesHolds == Spec => []TurnsKeepLeases
<1>1. Init => TurnsInv
  BY InitTurnsInv
<1>2. TurnsInv /\ [Next]_vars => TurnsInv'
  BY NextTurnsInv
<1>3. TurnsInv => TurnsKeepLeases
  BY TurnsInvGives
<1> QED
  BY <1>1, <1>2, <1>3, PTL DEF Spec
=============================================================================
