------------------------------ MODULE TurnLease ------------------------------
(***************************************************************************)
(* SessionTurnLeaseRegistry (packages/orchestrator/src/turn-lease.ts): the *)
(* in-memory registry by which Maestro serialises transcript mutation.  A  *)
(* prompt acquires a token on a durable session id; one token holds the    *)
(* lease, the others wait in arrival order until they are granted or time  *)
(* out; a holder whose child moved to another session (compaction, fork)   *)
(* rebinds its token to the new id.                                        *)
(*                                                                         *)
(* The Map of the code is `leases`; a lease is an object with identity, so *)
(* that two keys may name the same object after a rebind.  Every method is *)
(* synchronous up to its return or first suspension, hence one action.     *)
(* The clock only orders idle entries for eviction: EvictIdle lets any     *)
(* idle entries go, which covers every clock.                              *)
(***************************************************************************)
EXTENDS Integers, Sequences, FiniteSets

CONSTANTS
    Session,      \* durable session ids
    Token,        \* one per call of acquire
    Lease,        \* SessionLease objects
    MaxEntries,   \* options.maxEntries
    None          \* undefined

ASSUME TurnLeaseAssumption ==
    /\ None \notin Session \cup Token \cup Lease
    /\ MaxEntries \in Nat \ {0}

VARIABLES
    leases,       \* Map<sessionId, SessionLease>
    holder,       \* lease.holder
    waiters,      \* lease.waiters, as their tokens
    sessionId,    \* token.sessionId
    promise,      \* the promise acquire returned for the token
    released      \* token.released

vars == <<leases, holder, waiters, sessionId, promise, released>>

PromiseState == {"unused", "waiting", "granted", "rejected"}

-----------------------------------------------------------------------------
(* State functions of the code. *)

\* waiter.settled: its promise was resolved or rejected.
Settled(t) == promise[t] # "waiting"

HasUnsettledWaiter(l) == \E i \in 1..Len(waiters[l]) : ~Settled(waiters[l][i])

Idle(l) == holder[l] = None /\ ~HasUnsettledWaiter(l)

Entries == {s \in Session : leases[s] # None}

IdleEntries == {s \in Entries : Idle(leases[s])}

\* evictIdle deletes as many idle entries as the map exceeds its limit by,
\* counting the entry about to be added; entries in use are never deleted.
EvictIdle ==
    LET overflow == Cardinality(Entries) - MaxEntries + 1
    IN  {E \in SUBSET IdleEntries :
            IF overflow <= 0
            THEN E = {}
            ELSE \/ Cardinality(E) = overflow
                 \/ Cardinality(E) < overflow /\ E = IdleEntries}

\* An object no key and no caller refers to: what `new` may return.
Fresh(l) ==
    /\ \A s \in Session : leases[s] # l
    /\ holder[l] = None
    /\ waiters[l] = <<>>

\* A token whose acquire returned and that its caller has not released.
Active(t) == promise[t] = "granted" /\ ~released[t]

Init ==
    /\ leases = [s \in Session |-> None]
    /\ holder = [l \in Lease |-> None]
    /\ waiters = [l \in Lease |-> <<>>]
    /\ sessionId = [t \in Token |-> None]
    /\ promise = [t \in Token |-> "unused"]
    /\ released = [t \in Token |-> FALSE]

-----------------------------------------------------------------------------
(* Operations. *)

\* getOrCreate(s) returns l.
GetOrCreate(s, l) ==
    \/ /\ leases[s] = l
       /\ UNCHANGED leases
    \/ /\ leases[s] = None
       /\ Fresh(l)
       /\ \E E \in EvictIdle :
            leases' = [k \in Session |-> IF k = s THEN l
                                         ELSE IF k \in E THEN None
                                         ELSE leases[k]]

\* acquire: hold a free lease at once, wait behind its holder otherwise.
Acquire(t, s) ==
    /\ promise[t] = "unused"
    /\ sessionId' = [sessionId EXCEPT ![t] = s]
    /\ \E l \in Lease :
        /\ GetOrCreate(s, l)
        /\ \/ /\ holder[l] = None
              /\ holder' = [holder EXCEPT ![l] = t]
              /\ promise' = [promise EXCEPT ![t] = "granted"]
              /\ UNCHANGED waiters
           \/ /\ holder[l] # None
              /\ waiters' = [waiters EXCEPT ![l] = Append(@, t)]
              /\ promise' = [promise EXCEPT ![t] = "waiting"]
              /\ UNCHANGED holder
    /\ UNCHANGED released

\* The waiter's timer: the splice takes it out of the queue of its lease.
WaitTimeout(t) ==
    /\ promise[t] = "waiting"
    /\ \E l \in Lease : \E i \in 1..Len(waiters[l]) :
        /\ waiters[l][i] = t
        /\ waiters' = [waiters EXCEPT ![l] =
                          SubSeq(@, 1, i - 1) \o SubSeq(@, i + 1, Len(@))]
    /\ promise' = [promise EXCEPT ![t] = "rejected"]
    /\ UNCHANGED <<leases, holder, sessionId, released>>

\* Mutant: the holder is cleared and nobody is granted.
GrantNobody(l) ==
    /\ holder' = [holder EXCEPT ![l] = None]
    /\ UNCHANGED <<waiters, promise>>

\* Mutant: pop() for shift(), the newest waiter is served first.
GrantNewest(l) ==
    \/ /\ waiters[l] = <<>>
       /\ holder' = [holder EXCEPT ![l] = None]
       /\ UNCHANGED <<waiters, promise>>
    \/ /\ waiters[l] # <<>>
       /\ LET n == Len(waiters[l])
          IN  /\ holder' = [holder EXCEPT ![l] = waiters[l][n]]
              /\ waiters' = [waiters EXCEPT ![l] = SubSeq(@, 1, n - 1)]
              /\ promise' = [promise EXCEPT ![waiters[l][n]] = "granted"]

\* grantNext(l): drop settled waiters from the front, grant the first other.
GrantNext(l) ==
    \/ /\ ~HasUnsettledWaiter(l)
       /\ holder' = [holder EXCEPT ![l] = None]
       /\ waiters' = [waiters EXCEPT ![l] = <<>>]
       /\ UNCHANGED promise
    \/ \E i \in 1..Len(waiters[l]) :
       /\ ~Settled(waiters[l][i])
       /\ \A j \in 1..(i - 1) : Settled(waiters[l][j])
       /\ holder' = [holder EXCEPT ![l] = waiters[l][i]]
       /\ waiters' = [waiters EXCEPT ![l] = SubSeq(@, i + 1, Len(@))]
       /\ promise' = [promise EXCEPT ![waiters[l][i]] = "granted"]

\* release: only the caller that acquire answered has the token.
Release(t) ==
    /\ Active(t)
    /\ released' = [released EXCEPT ![t] = TRUE]
    /\ LET l == leases[sessionId[t]]
       IN  \/ /\ l # None /\ holder[l] = t
              /\ GrantNext(l)
           \/ /\ ~(l # None /\ holder[l] = t)
              /\ UNCHANGED <<holder, waiters, promise>>
    /\ UNCHANGED <<leases, sessionId>>

\* Mutant: a rebind that does not look at the target.
MayRebindToBusy(t, n) ==
    /\ Active(t)
    /\ n # sessionId[t]
    /\ LET l == leases[sessionId[t]] IN l # None /\ holder[l] = t

\* The condition under which rebind moves t to n; otherwise it returns false.
MayRebind(t, n) ==
    /\ Active(t)
    /\ n # sessionId[t]
    /\ LET l == leases[sessionId[t]]
       IN  /\ l # None /\ holder[l] = t
           /\ leases[n] # None /\ leases[n] # l => Idle(leases[n])

\* Mutant: the token moves and the map does not.
RebindTokenOnly(t, n) ==
    /\ MayRebind(t, n)
    /\ sessionId' = [sessionId EXCEPT ![t] = n]
    /\ UNCHANGED <<leases, holder, waiters, promise, released>>

\* rebind: the new key names the same lease; the old key is not removed.
Rebind(t, n) ==
    /\ MayRebind(t, n)
    /\ leases' = [leases EXCEPT ![n] = leases[sessionId[t]]]
    /\ sessionId' = [sessionId EXCEPT ![t] = n]
    /\ UNCHANGED <<holder, waiters, promise, released>>

Next ==
    \/ \E t \in Token, s \in Session : Acquire(t, s)
    \/ \E t \in Token, s \in Session : Rebind(t, s)
    \/ \E t \in Token : WaitTimeout(t)
    \/ \E t \in Token : Release(t)

Spec == Init /\ [][Next]_vars

\* An assumption on the registry's callers: who was granted the turn releases
\* it (agent_settled, a failed prompt, an exit and a cleanup all call
\* releaseTurnLease; MaestroTurns shows the one path that does not, a prompt
\* an extension handles).  No fairness on the timers: a waiter's grant does
\* not depend on its own timeout.
FairSpec == Spec /\ \A t \in Token : WF_vars(Release(t))

-----------------------------------------------------------------------------
(* Properties. *)

\* Every entry, holder and waiter of SessionTurnLeaseRegistry is of its kind.
TypeOK ==
    /\ leases \in [Session -> Lease \cup {None}]
    /\ holder \in [Lease -> Token \cup {None}]
    /\ waiters \in [Lease -> Seq(Token)]
    /\ sessionId \in [Token -> Session \cup {None}]
    /\ promise \in [Token -> PromiseState]
    /\ released \in [Token -> BOOLEAN]

(* The parts of the inductive invariant. *)

\* What a lease's holder is, and that the map finds the lease by its id.
HolderIndexed ==
    \A l \in Lease : holder[l] # None =>
        /\ Active(holder[l])
        /\ sessionId[holder[l]] \in Session
        /\ leases[sessionId[holder[l]]] = l

\* The same of every waiter, and that a lease with a waiter has a holder.
WaiterIndexed ==
    \A l \in Lease : \A i \in 1..Len(waiters[l]) :
        /\ promise[waiters[l][i]] = "waiting"
        /\ sessionId[waiters[l][i]] \in Session
        /\ leases[sessionId[waiters[l][i]]] = l
        /\ holder[l] # None

\* A waiter is in one queue once.
WaiterUnique ==
    \A l \in Lease : \A i, j \in 1..Len(waiters[l]) :
        waiters[l][i] = waiters[l][j] => i = j

\* Every live token is where its promise says.
TokenPlaced ==
    \A t \in Token :
        /\ Active(t) => \E l \in Lease : holder[l] = t
        /\ promise[t] = "waiting" =>
              \E l \in Lease : \E i \in 1..Len(waiters[l]) : waiters[l][i] = t
        /\ released[t] => promise[t] = "granted"

\* The registry's inductive invariant.
IndInv ==
    /\ TypeOK
    /\ HolderIndexed
    /\ WaiterIndexed
    /\ WaiterUnique
    /\ TokenPlaced

\* The registry's promise, "Serializes transcript mutation by resolved durable
\* session ID": two callers never hold the turn of one session at once, through
\* any sequence of rebinds, aliases, timeouts and evictions.
OneTurnPerSession ==
    \A t, u \in Token :
        Active(t) /\ Active(u) /\ sessionId[t] = sessionId[u] => t = u

\* A caller's release always finds the lease it holds under its current session
\* id (release never takes its silent `return false` path for a live token), so
\* a turn that ends wakes its waiters.
ReleaseFindsLease ==
    \A t \in Token : Active(t) =>
        LET l == leases[sessionId[t]] IN l # None /\ holder[l] = t

\* Nobody waits on a turn that nobody holds: neither eviction nor a rebind
\* that re-points the key detaches a queue of unsettled waiters.
NoStrandedWaiter ==
    \A t \in Token : promise[t] = "waiting" =>
        LET l == leases[sessionId[t]]
        IN  /\ l # None
            /\ holder[l] # None
            /\ \E i \in 1..Len(waiters[l]) : waiters[l][i] = t

\* grantNext serves waiters in arrival order: a waiter behind another on the
\* same lease is not granted while the one ahead still waits.
NoOvertaking ==
    [][\A l \in Lease : \A i, j \in 1..Len(waiters[l]) :
          i < j /\ promise'[waiters[l][j]] = "granted"
            => promise'[waiters[l][i]] # "waiting"]_vars

\* The refinement mapping: a token is authoritative where it is bound while
\* its caller holds it.
Authority == INSTANCE TurnAuthority
    WITH turn <- [t \in Token |-> IF Active(t) THEN sessionId[t] ELSE None]

\* The registry implements the contract of TurnAuthority: authority over a
\* session starts only when it is free, and passes on only when it is released.
ImplementsAuthority == Authority!Spec

\* Every call of acquire that had to wait is answered once holders release.
EveryWaiterAnswered ==
    \A t \in Token : promise[t] = "waiting" ~> promise[t] \in {"granted", "rejected"}
=============================================================================
