--------------------------- MODULE TurnLeaseProofs ---------------------------
(* The registry keeps one turn per session, for any number of sessions,     *)
(* tokens, lease objects and any limit of the map.                          *)
EXTENDS TurnLease, SequenceTheorems, TLAPS

\* splice(i, 1) on a queue: its length and where its elements come from.
LEMMA SpliceElements ==
    ASSUME NEW S, NEW q \in Seq(S), NEW i \in 1..Len(q)
    PROVE  LET r == SubSeq(q, 1, i - 1) \o SubSeq(q, i + 1, Len(q))
           IN  /\ r \in Seq(S)
               /\ Len(r) = Len(q) - 1
               /\ \A j \in 1..Len(r) : r[j] = IF j < i THEN q[j] ELSE q[j + 1]
<1> DEFINE a == SubSeq(q, 1, i - 1)
           b == SubSeq(q, i + 1, Len(q))
           r == a \o b
<1>0. Len(q) \in Nat /\ i \in Nat /\ i >= 1 /\ i <= Len(q)
  OBVIOUS
<1>1. a \in Seq(S) /\ Len(a) = i - 1 /\ \A j \in 1..(i - 1) : a[j] = q[j]
  BY <1>0, SubSeqProperties
<1>2. /\ b \in Seq(S) /\ Len(b) = Len(q) - i
      /\ \A j \in 1..(Len(q) - i) : b[j] = q[i + j]
  BY <1>0, SubSeqProperties
<1> HIDE DEF a, b
<1>3. /\ r \in Seq(S) /\ Len(r) = Len(a) + Len(b)
      /\ \A j \in 1..(Len(a) + Len(b)) :
            r[j] = IF j <= Len(a) THEN a[j] ELSE b[j - Len(a)]
  BY <1>1, <1>2, ConcatProperties
<1> HIDE DEF r
<1>4. Len(r) = Len(q) - 1
  BY <1>0, <1>1, <1>2, <1>3
<1>5. \A j \in 1..Len(r) : r[j] = IF j < i THEN q[j] ELSE q[j + 1]
  <2> SUFFICES ASSUME NEW j \in 1..Len(r)
               PROVE  r[j] = IF j < i THEN q[j] ELSE q[j + 1]
    OBVIOUS
  <2>1. CASE j < i
    BY <2>1, <1>0, <1>1, <1>2, <1>3
  <2>2. CASE ~(j < i)
    <3>1. j - (i - 1) \in 1..(Len(q) - i) /\ i + (j - (i - 1)) = j + 1
      BY <2>2, <1>0, <1>4
    <3>2. r[j] = b[j - (i - 1)]
      BY <2>2, <1>0, <1>1, <1>2, <1>3
    <3> QED
      BY <2>2, <3>1, <3>2, <1>2
  <2> QED
    BY <2>1, <2>2
<1> QED
  BY <1>3, <1>4, <1>5 DEF r, a, b

\* What grantNext leaves of a queue whose element i it serves.
LEMMA SuffixElements ==
    ASSUME NEW S, NEW q \in Seq(S), NEW i \in 1..Len(q)
    PROVE  LET r == SubSeq(q, i + 1, Len(q))
           IN  /\ r \in Seq(S)
               /\ Len(r) = Len(q) - i
               /\ \A j \in 1..Len(r) : r[j] = q[i + j]
  BY SubSeqProperties

-----------------------------------------------------------------------------

\* The empty registry satisfies the inductive invariant.
LEMMA InitIndInv == Init => IndInv
<1> SUFFICES ASSUME Init PROVE IndInv
  OBVIOUS
<1>1. TypeOK
  BY DEF Init, TypeOK, PromiseState
<1>2. HolderIndexed /\ WaiterIndexed /\ WaiterUnique
  BY DEF Init, HolderIndexed, WaiterIndexed, WaiterUnique
<1>3. TokenPlaced
  BY DEF Init, TokenPlaced, Active
<1> QED
  BY <1>1, <1>2, <1>3 DEF IndInv

\* getOrCreate returns the lease the key then names; the entries it evicts
\* are of leases that nobody holds and on which nobody waits.
LEMMA GetOrCreateKeeps ==
    ASSUME IndInv, NEW s \in Session, NEW l \in Lease, GetOrCreate(s, l)
    PROVE  /\ leases' \in [Session -> Lease \cup {None}]
           /\ leases'[s] = l
           /\ \A k \in Session, m \in Lease :
                 leases[k] = m /\ (holder[m] # None \/ waiters[m] # <<>>)
                   => leases'[k] = m
<1> USE DEF IndInv
<1>1. CASE leases[s] = l /\ UNCHANGED leases
  BY <1>1 DEF TypeOK
<1>2. ASSUME leases[s] = None, Fresh(l), NEW E \in EvictIdle,
             leases' = [k \in Session |-> IF k = s THEN l
                                          ELSE IF k \in E THEN None
                                          ELSE leases[k]]
      PROVE  /\ leases' \in [Session -> Lease \cup {None}]
             /\ leases'[s] = l
             /\ \A k \in Session, m \in Lease :
                   leases[k] = m /\ (holder[m] # None \/ waiters[m] # <<>>)
                     => leases'[k] = m
  <2>1. leases' \in [Session -> Lease \cup {None}] /\ leases'[s] = l
    BY <1>2 DEF TypeOK
  <2>2. ASSUME NEW k \in Session, NEW m \in Lease, leases[k] = m,
               holder[m] # None \/ waiters[m] # <<>>
        PROVE  leases'[k] = m
    <3>1. k # s
      BY <1>2, <2>2, TurnLeaseAssumption
    <3>2. ~Idle(m)
      <4>1. CASE holder[m] # None
        BY <4>1 DEF Idle
      <4>2. CASE waiters[m] # <<>>
        <5>1. waiters[m] \in Seq(Token) /\ 1 \in 1..Len(waiters[m])
          BY <4>2, EmptySeq DEF TypeOK
        <5> QED
          BY <5>1 DEF WaiterIndexed, Idle, HasUnsettledWaiter, Settled
      <4> QED
        BY <2>2, <4>1, <4>2
    <3>3. k \notin E
      BY <2>2, <3>2, <1>2 DEF EvictIdle, IdleEntries
    <3> QED
      BY <1>2, <2>2, <3>1, <3>3
  <2> QED
    BY <2>1, <2>2
<1> QED
  BY <1>1, <1>2 DEF GetOrCreate

\* acquire keeps the inductive invariant.
LEMMA AcquireInd ==
    ASSUME IndInv, NEW t \in Token, NEW s \in Session, Acquire(t, s)
    PROVE  IndInv'
<1> USE TurnLeaseAssumption DEF IndInv
<1> PICK l \in Lease :
        /\ GetOrCreate(s, l)
        /\ \/ /\ holder[l] = None
              /\ holder' = [holder EXCEPT ![l] = t]
              /\ promise' = [promise EXCEPT ![t] = "granted"]
              /\ UNCHANGED waiters
           \/ /\ holder[l] # None
              /\ waiters' = [waiters EXCEPT ![l] = Append(@, t)]
              /\ promise' = [promise EXCEPT ![t] = "waiting"]
              /\ UNCHANGED holder
  BY DEF Acquire
<1>a. /\ promise[t] = "unused" /\ released' = released
      /\ sessionId' = [sessionId EXCEPT ![t] = s]
  BY DEF Acquire
<1>b. /\ leases' \in [Session -> Lease \cup {None}]
      /\ leases'[s] = l
      /\ \A k \in Session, m \in Lease :
            leases[k] = m /\ (holder[m] # None \/ waiters[m] # <<>>)
              => leases'[k] = m
  BY GetOrCreateKeeps
<1>c. /\ \A m \in Lease : holder[m] # t
      /\ \A m \in Lease : \A i \in 1..Len(waiters[m]) : waiters[m][i] # t
  BY <1>a DEF HolderIndexed, WaiterIndexed, Active
<1>d. ~released[t]
  BY <1>a DEF TokenPlaced
<1>e. \A m \in Lease : \A i \in 1..Len(waiters[m]) : waiters[m] # <<>> /\ waiters[m][i] \in Token
  BY DEF TypeOK
<1>1. CASE /\ holder[l] = None
           /\ holder' = [holder EXCEPT ![l] = t]
           /\ promise' = [promise EXCEPT ![t] = "granted"]
           /\ UNCHANGED waiters
  <2>0. waiters[l] = <<>>
    <3>1. waiters[l] \in Seq(Token) /\ Len(waiters[l]) \in Nat
      BY DEF TypeOK
    <3>2. ~(1 \in 1..Len(waiters[l]))
      BY <1>1 DEF WaiterIndexed
    <3> QED
      BY <3>1, <3>2, EmptySeq
  <2>1. TypeOK'
    BY <1>1, <1>a, <1>b DEF TypeOK, PromiseState
  <2>2. HolderIndexed'
    BY <1>1, <1>a, <1>b, <1>c, <1>d DEF TypeOK, HolderIndexed, Active
  <2>3. WaiterIndexed'
    BY <1>1, <1>a, <1>b, <1>c, <1>e, <2>0 DEF TypeOK, WaiterIndexed
  <2>4. WaiterUnique'
    BY <1>1 DEF WaiterUnique
  <2>5. TokenPlaced'
    BY <1>1, <1>a, <1>c, <1>d DEF TypeOK, TokenPlaced, Active
  <2> QED
    BY <2>1, <2>2, <2>3, <2>4, <2>5
<1>2. CASE /\ holder[l] # None
           /\ waiters' = [waiters EXCEPT ![l] = Append(@, t)]
           /\ promise' = [promise EXCEPT ![t] = "waiting"]
           /\ UNCHANGED holder
  <2>0. /\ waiters[l] \in Seq(Token)
        /\ waiters'[l] \in Seq(Token)
        /\ Len(waiters'[l]) = Len(waiters[l]) + 1
        /\ \A i \in 1..Len(waiters[l]) : waiters'[l][i] = waiters[l][i]
        /\ waiters'[l][Len(waiters[l]) + 1] = t
        /\ \A m \in Lease : m # l => waiters'[m] = waiters[m]
    BY <1>2, AppendProperties DEF TypeOK
  <2>1. TypeOK'
    BY <1>2, <1>a, <1>b, <2>0 DEF TypeOK, PromiseState
  <2>2. HolderIndexed'
    BY <1>2, <1>a, <1>b, <1>c DEF TypeOK, HolderIndexed, Active
  <2>3. WaiterIndexed'
    <3> SUFFICES ASSUME NEW m \in Lease, NEW i \in 1..Len(waiters'[m])
                 PROVE  /\ promise'[waiters'[m][i]] = "waiting"
                        /\ sessionId'[waiters'[m][i]] \in Session
                        /\ leases'[sessionId'[waiters'[m][i]]] = m
                        /\ holder'[m] # None
      BY DEF WaiterIndexed
    <3>1. CASE m = l /\ i = Len(waiters[l]) + 1
      BY <3>1, <1>2, <1>a, <1>b, <2>0 DEF TypeOK
    <3>2. CASE ~(m = l /\ i = Len(waiters[l]) + 1)
      <4>1. i \in 1..Len(waiters[m]) /\ waiters'[m][i] = waiters[m][i]
        BY <3>2, <2>0
      <4> QED
        BY <4>1, <1>2, <1>a, <1>b, <1>c, <1>e DEF TypeOK, WaiterIndexed
    <3> QED
      BY <3>1, <3>2
  <2>4. WaiterUnique'
    BY <1>c, <2>0 DEF WaiterUnique
  <2>5. TokenPlaced'
    <3> SUFFICES ASSUME NEW u \in Token
                 PROVE  /\ Active(u)' => \E m \in Lease : holder'[m] = u
                        /\ promise'[u] = "waiting" =>
                              \E m \in Lease : \E i \in 1..Len(waiters'[m]) :
                                  waiters'[m][i] = u
                        /\ released'[u] => promise'[u] = "granted"
      BY DEF TokenPlaced
    <3>1. CASE u = t
      BY <3>1, <1>2, <1>a, <1>d, <2>0 DEF TypeOK, Active
    <3>2. CASE u # t
      BY <3>2, <1>2, <1>a, <2>0 DEF TypeOK, TokenPlaced, Active
    <3> QED
      BY <3>1, <3>2
  <2> QED
    BY <2>1, <2>2, <2>3, <2>4, <2>5
<1> QED
  BY <1>1, <1>2

\* A waiter's timer keeps it.
LEMMA WaitTimeoutInd ==
    ASSUME IndInv, NEW t \in Token, WaitTimeout(t)
    PROVE  IndInv'
<1> USE TurnLeaseAssumption DEF IndInv
<1>0. PICK l \in Lease : \E i \in 1..Len(waiters[l]) :
        /\ waiters[l][i] = t
        /\ waiters' = [waiters EXCEPT ![l] =
                          SubSeq(@, 1, i - 1) \o SubSeq(@, i + 1, Len(@))]
  BY DEF WaitTimeout
<1>p. PICK i \in 1..Len(waiters[l]) :
        /\ waiters[l][i] = t
        /\ waiters' = [waiters EXCEPT ![l] =
                          SubSeq(@, 1, i - 1) \o SubSeq(@, i + 1, Len(@))]
  BY <1>0
<1>a. /\ promise[t] = "waiting"
      /\ promise' = [promise EXCEPT ![t] = "rejected"]
      /\ UNCHANGED <<leases, holder, sessionId, released>>
  BY DEF WaitTimeout
<1>b. waiters[l] \in Seq(Token) /\ Len(waiters[l]) \in Nat
  BY DEF TypeOK
<1>c. /\ waiters' \in [Lease -> Seq(Token)]
      /\ Len(waiters'[l]) = Len(waiters[l]) - 1
      /\ \A j \in 1..Len(waiters'[l]) :
            waiters'[l][j] = IF j < i THEN waiters[l][j] ELSE waiters[l][j + 1]
      /\ \A m \in Lease : m # l => waiters'[m] = waiters[m]
  <2> DEFINE r == SubSeq(waiters[l], 1, i - 1) \o SubSeq(waiters[l], i + 1, Len(waiters[l]))
  <2>1. /\ r \in Seq(Token)
        /\ Len(r) = Len(waiters[l]) - 1
        /\ \A j \in 1..Len(r) :
              r[j] = IF j < i THEN waiters[l][j] ELSE waiters[l][j + 1]
    BY <1>b, SpliceElements
  <2>2. waiters' = [waiters EXCEPT ![l] = r]
    BY <1>p
  <2> HIDE DEF r
  <2>3. waiters' \in [Lease -> Seq(Token)]
    BY <2>1, <2>2 DEF TypeOK
  <2> QED
    BY <2>1, <2>2, <2>3 DEF TypeOK
<1>d. \A m \in Lease : \A j \in 1..Len(waiters'[m]) :
         \E k \in 1..Len(waiters[m]) :
            waiters'[m][j] = waiters[m][k] /\ waiters[m][k] # t
  <2> TAKE m \in Lease
  <2> TAKE j \in 1..Len(waiters'[m])
  <2>1. CASE m # l
    <3>1. j \in 1..Len(waiters[m]) /\ waiters'[m][j] = waiters[m][j]
      BY <2>1, <1>c
    <3>2. waiters[m][j] # t
      BY <2>1, <3>1, <1>p DEF WaiterIndexed
    <3> QED
      BY <3>1, <3>2
  <2>2. CASE m = l /\ j < i
    <3>1. /\ j \in 1..Len(waiters[l]) /\ j # i
          /\ waiters'[l][j] = waiters[l][j]
      BY <2>2, <1>b, <1>c
    <3> QED
      BY <2>2, <3>1, <1>p DEF WaiterUnique
  <2>3. CASE m = l /\ ~(j < i)
    <3>1. /\ j + 1 \in 1..Len(waiters[l]) /\ j + 1 # i
          /\ waiters'[l][j] = waiters[l][j + 1]
      BY <2>3, <1>b, <1>c
    <3> QED
      BY <2>3, <3>1, <1>p DEF WaiterUnique
  <2> QED
    BY <2>1, <2>2, <2>3
<1>1. TypeOK'
  BY <1>a, <1>c DEF TypeOK, PromiseState
<1>2. HolderIndexed'
  BY <1>a DEF TypeOK, HolderIndexed, Active
<1>3. WaiterIndexed'
  BY <1>a, <1>d DEF TypeOK, WaiterIndexed
<1>4. WaiterUnique'
  <2> SUFFICES ASSUME NEW m \in Lease, NEW j \in 1..Len(waiters'[m]),
                      NEW k \in 1..Len(waiters'[m]),
                      waiters'[m][j] = waiters'[m][k]
               PROVE  j = k
    BY DEF WaiterUnique
  <2>1. CASE m # l
    BY <2>1, <1>c DEF WaiterUnique
  <2>2. CASE m = l
    <3> DEFINE at(n) == IF n < i THEN n ELSE n + 1
    <3>1. /\ at(j) \in 1..Len(waiters[l]) /\ at(k) \in 1..Len(waiters[l])
          /\ waiters'[l][j] = waiters[l][at(j)] /\ waiters'[l][k] = waiters[l][at(k)]
      BY <2>2, <1>b, <1>c
    <3>2. at(j) = at(k)
      BY <2>2, <3>1 DEF WaiterUnique
    <3> QED
      BY <3>2
  <2> QED
    BY <2>1, <2>2
<1>5. TokenPlaced'
  <2> SUFFICES ASSUME NEW u \in Token
               PROVE  /\ Active(u)' => \E m \in Lease : holder'[m] = u
                      /\ promise'[u] = "waiting" =>
                            \E m \in Lease : \E j \in 1..Len(waiters'[m]) :
                                waiters'[m][j] = u
                      /\ released'[u] => promise'[u] = "granted"
    BY DEF TokenPlaced
  <2>1. CASE u = t
    BY <2>1, <1>a DEF TypeOK, TokenPlaced, Active
  <2>2. ASSUME u # t, promise[u] = "waiting"
        PROVE  \E m \in Lease : \E j \in 1..Len(waiters'[m]) : waiters'[m][j] = u
    <3>p. PICK m \in Lease : \E k \in 1..Len(waiters[m]) : waiters[m][k] = u
      BY <2>2 DEF TokenPlaced
    <3>q. PICK k \in 1..Len(waiters[m]) : waiters[m][k] = u
      BY <3>p
    <3>1. CASE m # l
      BY <3>1, <3>q, <1>c
    <3>2. CASE m = l /\ k < i
      <4>1. k \in 1..Len(waiters'[l]) /\ waiters'[l][k] = waiters[l][k]
        BY <3>2, <1>b, <1>c
      <4> QED
        BY <3>2, <3>q, <4>1
    <3>3. CASE m = l /\ k > i
      <4>1. /\ k - 1 \in 1..Len(waiters'[l]) /\ ~(k - 1 < i)
            /\ (k - 1) + 1 = k
        BY <3>3, <1>b, <1>c
      <4> QED
        BY <3>3, <3>q, <4>1, <1>c
    <3> QED
      <4>1. m = l => k # i
        BY <2>2, <3>q, <1>p
      <4> QED
        BY <3>1, <3>2, <3>3, <4>1
  <2> QED
    BY <2>1, <2>2, <1>a DEF TypeOK, TokenPlaced, Active
<1> QED
  BY <1>1, <1>2, <1>3, <1>4, <1>5

\* release, with the grant to the next waiter, keeps it.
LEMMA ReleaseInd ==
    ASSUME IndInv, NEW t \in Token, Release(t)
    PROVE  IndInv'
<1> USE TurnLeaseAssumption DEF IndInv
<1> DEFINE l == leases[sessionId[t]]
<1>a. /\ l \in Lease /\ holder[l] = t
      /\ promise[t] = "granted" /\ ~released[t]
      /\ released' = [released EXCEPT ![t] = TRUE]
      /\ UNCHANGED <<leases, sessionId>>
  BY DEF Release, Active, TokenPlaced, HolderIndexed
<1>b. GrantNext(l)
  BY <1>a DEF Release
<1>c. \A m \in Lease : m # l => holder[m] # t
  BY <1>a DEF HolderIndexed
<1>d. \A m \in Lease : \A j \in 1..Len(waiters[m]) : waiters[m][j] # t
  BY <1>a DEF WaiterIndexed
<1>f. waiters[l] \in Seq(Token) /\ Len(waiters[l]) \in Nat
  BY <1>a DEF TypeOK
<1> HIDE DEF l
<1>1. CASE /\ ~HasUnsettledWaiter(l)
           /\ holder' = [holder EXCEPT ![l] = None]
           /\ waiters' = [waiters EXCEPT ![l] = <<>>]
           /\ UNCHANGED promise
  <2>0. waiters' = waiters /\ Len(waiters[l]) = 0
    <3>1. ~(1 \in 1..Len(waiters[l]))
      BY <1>1, <1>a, <1>f DEF WaiterIndexed, HasUnsettledWaiter, Settled
    <3>2. waiters[l] = <<>>
      BY <3>1, <1>f, EmptySeq
    <3> QED
      BY <3>2, <1>1, EmptySeq DEF TypeOK
  <2>1. TypeOK'
    BY <1>1, <1>a, <2>0 DEF TypeOK
  <2>2. HolderIndexed'
    BY <1>1, <1>a, <1>c DEF TypeOK, HolderIndexed, Active
  <2>3. WaiterIndexed'
    BY <1>1, <1>a, <1>f, <2>0 DEF TypeOK, WaiterIndexed
  <2>4. WaiterUnique'
    BY <2>0 DEF WaiterUnique
  <2>5. TokenPlaced'
    BY <1>1, <1>a, <2>0 DEF TypeOK, TokenPlaced, Active
  <2> QED
    BY <2>1, <2>2, <2>3, <2>4, <2>5
<1>2. ASSUME NEW i \in 1..Len(waiters[l]),
             ~Settled(waiters[l][i]),
             \A j \in 1..(i - 1) : Settled(waiters[l][j]),
             holder' = [holder EXCEPT ![l] = waiters[l][i]],
             waiters' = [waiters EXCEPT ![l] = SubSeq(@, i + 1, Len(@))],
             promise' = [promise EXCEPT ![waiters[l][i]] = "granted"]
      PROVE  IndInv'
  <2> DEFINE u == waiters[l][i]
  <2>0. i = 1
    <3>1. CASE i # 1
      <4>1. 1 \in 1..(i - 1) /\ 1 \in 1..Len(waiters[l])
        BY <3>1, <1>f
      <4> QED
        BY <4>1, <1>2, <1>a DEF Settled, WaiterIndexed
    <3> QED
      BY <3>1
  <2>a. /\ u \in Token /\ u # t /\ promise[u] = "waiting" /\ ~released[u]
        /\ sessionId[u] \in Session /\ leases[sessionId[u]] = l
    BY <1>a, <1>d, <1>f DEF WaiterIndexed, TokenPlaced
  <2>b. /\ waiters'[l] \in Seq(Token)
        /\ Len(waiters'[l]) = Len(waiters[l]) - 1
        /\ \A j \in 1..Len(waiters'[l]) : waiters'[l][j] = waiters[l][j + 1]
        /\ \A m \in Lease : m # l => waiters'[m] = waiters[m]
    <3>1. /\ waiters'[l] = SubSeq(waiters[l], i + 1, Len(waiters[l]))
          /\ \A m \in Lease : m # l => waiters'[m] = waiters[m]
      BY <1>2, <1>a DEF TypeOK
    <3>2. /\ SubSeq(waiters[l], i + 1, Len(waiters[l])) \in Seq(Token)
          /\ Len(SubSeq(waiters[l], i + 1, Len(waiters[l]))) = Len(waiters[l]) - i
          /\ \A j \in 1..Len(SubSeq(waiters[l], i + 1, Len(waiters[l]))) :
                SubSeq(waiters[l], i + 1, Len(waiters[l]))[j] = waiters[l][i + j]
      BY <1>f, SuffixElements
    <3> QED
      BY <3>1, <3>2, <2>0, <1>f
  <2>c. \A m \in Lease : \A j \in 1..Len(waiters'[m]) :
           \E k \in 1..Len(waiters[m]) :
              waiters'[m][j] = waiters[m][k] /\ waiters[m][k] # u
    <3> TAKE m \in Lease
    <3> TAKE j \in 1..Len(waiters'[m])
    <3>1. CASE m # l
      <4>1. j \in 1..Len(waiters[m]) /\ waiters'[m][j] = waiters[m][j]
        BY <3>1, <2>b
      <4>2. waiters[m][j] # u
        BY <3>1, <4>1, <2>a DEF WaiterIndexed
      <4> QED
        BY <4>1, <4>2
    <3>2. CASE m = l
      <4>1. /\ j + 1 \in 1..Len(waiters[l]) /\ j + 1 # i
            /\ waiters'[l][j] = waiters[l][j + 1]
        BY <3>2, <2>0, <2>b, <1>f
      <4> QED
        BY <3>2, <4>1, <1>a DEF WaiterUnique
    <3> QED
      BY <3>1, <3>2
  <2> HIDE DEF u
  <2>d. /\ holder' = [holder EXCEPT ![l] = u]
        /\ promise' = [promise EXCEPT ![u] = "granted"]
    BY <1>2 DEF u
  <2>1. TypeOK'
    BY <1>2, <1>a, <2>a, <2>b, <2>d DEF TypeOK, PromiseState
  <2>2. HolderIndexed'
    BY <1>a, <1>c, <2>a, <2>d DEF TypeOK, HolderIndexed, Active
  <2>3. WaiterIndexed'
    <3>1. \A m \in Lease : holder[m] # None => holder'[m] # None
      BY <1>a, <2>a, <2>d DEF TypeOK
    <3> SUFFICES ASSUME NEW m \in Lease, NEW j \in 1..Len(waiters'[m])
                 PROVE  /\ promise'[waiters'[m][j]] = "waiting"
                        /\ sessionId'[waiters'[m][j]] \in Session
                        /\ leases'[sessionId'[waiters'[m][j]]] = m
                        /\ holder'[m] # None
      BY DEF WaiterIndexed
    <3> PICK k \in 1..Len(waiters[m]) :
            waiters'[m][j] = waiters[m][k] /\ waiters[m][k] # u
      BY <2>c
    <3>2. /\ waiters[m][k] \in Token
          /\ promise[waiters[m][k]] = "waiting"
          /\ sessionId[waiters[m][k]] \in Session
          /\ leases[sessionId[waiters[m][k]]] = m
          /\ holder[m] # None
      BY DEF TypeOK, WaiterIndexed
    <3> QED
      BY <1>a, <2>a, <2>d, <3>1, <3>2 DEF TypeOK
  <2>4. WaiterUnique'
    <3> SUFFICES ASSUME NEW m \in Lease, NEW j \in 1..Len(waiters'[m]),
                        NEW k \in 1..Len(waiters'[m]),
                        waiters'[m][j] = waiters'[m][k]
                 PROVE  j = k
      BY DEF WaiterUnique
    <3>1. CASE m # l
      BY <3>1, <2>b DEF WaiterUnique
    <3>2. CASE m = l
      <4>1. /\ j + 1 \in 1..Len(waiters[l]) /\ k + 1 \in 1..Len(waiters[l])
            /\ waiters[l][j + 1] = waiters[l][k + 1]
        BY <3>2, <2>b, <1>f
      <4>2. j + 1 = k + 1
        BY <4>1, <1>a DEF WaiterUnique
      <4> QED
        BY <4>2
    <3> QED
      BY <3>1, <3>2
  <2>5. TokenPlaced'
    <3> SUFFICES ASSUME NEW v \in Token
                 PROVE  /\ Active(v)' => \E m \in Lease : holder'[m] = v
                        /\ promise'[v] = "waiting" =>
                              \E m \in Lease : \E j \in 1..Len(waiters'[m]) :
                                  waiters'[m][j] = v
                        /\ released'[v] => promise'[v] = "granted"
      BY DEF TokenPlaced
    <3>1. CASE v = u
      BY <3>1, <1>a, <2>a, <2>d DEF TypeOK, Active
    <3>2. CASE v = t
      BY <3>2, <1>a, <2>a, <2>d DEF TypeOK, Active
    <3>3. CASE v # u /\ v # t
      <4>1. promise'[v] = promise[v] /\ released'[v] = released[v]
        BY <3>3, <1>a, <2>d DEF TypeOK
      <4>2. Active(v)' => \E m \in Lease : holder'[m] = v
        BY <3>3, <4>1, <1>a, <2>d DEF TypeOK, TokenPlaced, Active
      <4>3. ASSUME promise[v] = "waiting"
            PROVE  \E m \in Lease : \E j \in 1..Len(waiters'[m]) : waiters'[m][j] = v
        <5> PICK m \in Lease : \E k \in 1..Len(waiters[m]) : waiters[m][k] = v
          BY <4>3 DEF TokenPlaced
        <5> PICK k \in 1..Len(waiters[m]) : waiters[m][k] = v
          OBVIOUS
        <5>1. CASE m # l
          BY <5>1, <2>b
        <5>2. CASE m = l
          <6>1. k # 1
            BY <5>2, <3>3, <2>0 DEF u
          <6>2. k - 1 \in 1..Len(waiters'[l]) /\ (k - 1) + 1 = k
            BY <5>2, <6>1, <2>b, <1>f
          <6> QED
            BY <5>2, <6>2, <2>b, <1>a
        <5> QED
          BY <5>1, <5>2
      <4> QED
        BY <4>1, <4>2, <4>3 DEF TokenPlaced
    <3> QED
      BY <3>1, <3>2, <3>3
  <2> QED
    BY <2>1, <2>2, <2>3, <2>4, <2>5
<1> QED
  BY <1>b, <1>1, <1>2 DEF GrantNext

\* rebind keeps it.
LEMMA RebindInd ==
    ASSUME IndInv, NEW t \in Token, NEW n \in Session, Rebind(t, n)
    PROVE  IndInv'
<1> USE TurnLeaseAssumption DEF IndInv
<1> DEFINE l == leases[sessionId[t]]
<1>a. /\ l \in Lease /\ holder[l] = t /\ Active(t)
      /\ leases' = [leases EXCEPT ![n] = l]
      /\ sessionId' = [sessionId EXCEPT ![t] = n]
      /\ UNCHANGED <<holder, waiters, promise, released>>
  BY DEF Rebind, MayRebind, Active, TokenPlaced, HolderIndexed
<1>b. leases[n] # None /\ leases[n] # l => Idle(leases[n])
  BY DEF Rebind, MayRebind
<1> HIDE DEF l
<1>c. \A m \in Lease : \A k \in Session :
         leases[k] = m /\ (holder[m] # None \/ HasUnsettledWaiter(m)) => leases'[k] = m
  BY <1>a, <1>b DEF TypeOK, Idle
<1>1. TypeOK'
  BY <1>a DEF TypeOK
<1>2. HolderIndexed'
  BY <1>a, <1>c DEF TypeOK, HolderIndexed, Active
<1>3. WaiterIndexed'
  BY <1>a, <1>c DEF TypeOK, WaiterIndexed, Active
<1>4. WaiterUnique'
  BY <1>a DEF WaiterUnique
<1>5. TokenPlaced'
  BY <1>a DEF TokenPlaced, Active
<1> QED
  BY <1>1, <1>2, <1>3, <1>4, <1>5

-----------------------------------------------------------------------------

\* Every step of the registry keeps the inductive invariant.
LEMMA NextIndInv == IndInv /\ [Next]_vars => IndInv'
<1> SUFFICES ASSUME IndInv, [Next]_vars PROVE IndInv'
  OBVIOUS
<1>1. ASSUME NEW t \in Token, NEW s \in Session, Acquire(t, s) PROVE IndInv'
  BY <1>1, AcquireInd
<1>2. ASSUME NEW t \in Token, NEW s \in Session, Rebind(t, s) PROVE IndInv'
  BY <1>2, RebindInd
<1>3. ASSUME NEW t \in Token, WaitTimeout(t) PROVE IndInv'
  BY <1>3, WaitTimeoutInd
<1>4. ASSUME NEW t \in Token, Release(t) PROVE IndInv'
  BY <1>4, ReleaseInd
<1>5. CASE UNCHANGED vars
  BY <1>5 DEF vars, IndInv, TypeOK, HolderIndexed, WaiterIndexed, WaiterUnique,
              TokenPlaced, Active
<1> QED
  BY <1>1, <1>2, <1>3, <1>4, <1>5 DEF Next

\* The type invariant and the indexing of leases by their tokens' ids hold in
\* every state the registry's methods can reach.
THEOREM IndInvAlways == Spec => []IndInv
  BY InitIndInv, NextIndInv, PTL DEF Spec

\* Every variable of the registry keeps its type.
THEOREM TypeOKAlways == Spec => []TypeOK
<1>1. IndInv => TypeOK
  BY DEF IndInv
<1> QED
  BY <1>1, IndInvAlways, PTL

\* The invariant leads a release to the lease its token holds.
LEMMA IndInvRelease == IndInv => ReleaseFindsLease
  BY TurnLeaseAssumption
     DEF IndInv, ReleaseFindsLease, TokenPlaced, HolderIndexed, TypeOK

\* A live token is always found under its session id when it is released.
THEOREM ReleaseAlwaysFindsLease == Spec => []ReleaseFindsLease
  BY IndInvAlways, IndInvRelease, PTL

\* Tokens that find one lease under one id are the same token.
LEMMA IndInvOneTurn == IndInv => OneTurnPerSession
  BY IndInvRelease DEF ReleaseFindsLease, OneTurnPerSession

\* At most one caller holds the turn of a session.
THEOREM OneTurnPerSessionAlways == Spec => []OneTurnPerSession
  BY IndInvOneTurn, IndInvAlways, PTL

\* A waiter is in the queue its session id names, behind a holder.
THEOREM NoStrandedWaiterAlways == Spec => []NoStrandedWaiter
<1>1. IndInv => NoStrandedWaiter
  <2> SUFFICES ASSUME IndInv, NEW t \in Token, promise[t] = "waiting"
               PROVE  LET l == leases[sessionId[t]]
                      IN  /\ l # None
                          /\ holder[l] # None
                          /\ \E i \in 1..Len(waiters[l]) : waiters[l][i] = t
    BY DEF NoStrandedWaiter
  <2> PICK l \in Lease : \E i \in 1..Len(waiters[l]) : waiters[l][i] = t
    BY DEF IndInv, TokenPlaced
  <2> PICK i \in 1..Len(waiters[l]) : waiters[l][i] = t
    OBVIOUS
  <2>1. leases[sessionId[t]] = l /\ holder[l] # None
    BY DEF IndInv, WaiterIndexed
  <2> QED
    BY <2>1, TurnLeaseAssumption
<1> QED
  BY <1>1, IndInvAlways, PTL

\* Who is granted was the first in its queue: nobody on the lease is ahead of
\* a waiter that grantNext serves.
LEMMA GrantedIsFirst ==
    ASSUME IndInv, Next, NEW l \in Lease, NEW i \in 1..Len(waiters[l]), NEW j \in 1..Len(waiters[l]),
           i < j, promise'[waiters[l][j]] = "granted"
    PROVE  FALSE
<1> DEFINE w == waiters[l][j]
<1> DEFINE v == waiters[l][i]
<1>1. /\ w \in Token /\ promise[w] = "waiting" /\ leases[sessionId[w]] = l
      /\ v \in Token /\ promise[v] = "waiting"
  BY DEF IndInv, TypeOK, WaiterIndexed
<1>2. CASE \E t \in Token, s \in Session : Acquire(t, s)
  BY <1>1, <1>2 DEF Acquire, IndInv, TypeOK
<1>3. CASE \E t \in Token, s \in Session : Rebind(t, s)
  BY <1>1, <1>3 DEF Rebind
<1>4. CASE \E t \in Token : WaitTimeout(t)
  BY <1>1, <1>4 DEF WaitTimeout, IndInv, TypeOK
<1>5. ASSUME NEW t \in Token, Release(t)
      PROVE  FALSE
  <2> DEFINE m == leases[sessionId[t]]
  <2>1. m \in Lease /\ GrantNext(m) /\ promise' # promise
    <3>1. sessionId[t] \in Session
      BY <1>5, TurnLeaseAssumption DEF Release, IndInv, TokenPlaced, HolderIndexed
    <3>2. m # None /\ holder[m] = t
      BY <1>5, IndInvRelease DEF Release, ReleaseFindsLease
    <3>3. m \in Lease
      BY <3>1, <3>2 DEF IndInv, TypeOK
    <3>4. promise' # promise
      BY <1>1
    <3> QED
      BY <1>5, <3>2, <3>3, <3>4 DEF Release
  <2>2. PICK k \in 1..Len(waiters[m]) :
            /\ \A h \in 1..(k - 1) : Settled(waiters[m][h])
            /\ promise' = [promise EXCEPT ![waiters[m][k]] = "granted"]
    BY <2>1 DEF GrantNext
  <2>3. w = waiters[m][k]
    BY <1>1, <2>2 DEF IndInv, TypeOK
  <2>4. m = l
    BY <1>1, <2>1, <2>2, <2>3 DEF IndInv, WaiterIndexed
  <2>5. j = k
    BY <2>2, <2>3, <2>4 DEF IndInv, WaiterUnique
  <2>6. i \in 1..(k - 1) /\ ~Settled(waiters[m][i])
    BY <1>1, <2>4, <2>5 DEF Settled
  <2> QED
    BY <2>2, <2>6
<1> QED
  BY <1>2, <1>3, <1>4, <1>5 DEF Next

\* Waiters of a lease are served in the order in which they came (grantNext).
THEOREM NoOvertakingAlways == Spec => NoOvertaking
<1> DEFINE Ordered == \A l \in Lease : \A i, j \in 1..Len(waiters[l]) :
                          i < j /\ promise'[waiters[l][j]] = "granted"
                            => promise'[waiters[l][i]] # "waiting"
<1>1. IndInv /\ [Next]_vars => [Ordered]_vars
  BY GrantedIsFirst
<1>2. [][Ordered]_vars => NoOvertaking
  BY DEF NoOvertaking
<1> QED
  BY <1>1, <1>2, IndInvAlways, PTL DEF Spec

-----------------------------------------------------------------------------
(* Refinement. *)

\* The registry implements the contract: every step begins, ends, hands over
\* or moves one authority, or is invisible.
THEOREM RegistryImplementsAuthority == Spec => ImplementsAuthority
<1> DEFINE turn == [t \in Token |-> IF Active(t) THEN sessionId[t] ELSE None]
<1>1. Init => Authority!Init
  BY DEF Init, Authority!Init, Active
<1>a. IndInv' => OneTurnPerSession'
  BY IndInvOneTurn, PTL
<1>2. ASSUME IndInv, IndInv', [Next]_vars
      PROVE  [Authority!Next]_turn
  <2> USE TurnLeaseAssumption DEF IndInv
  <2>a. \A t \in Token : Active(t) => sessionId[t] \in Session
    BY <1>2 DEF TokenPlaced, HolderIndexed
  <2>b. ReleaseFindsLease
    BY <1>2, IndInvRelease
  <2>c. OneTurnPerSession'
    BY <1>2, <1>a
  <2>1. ASSUME NEW t \in Token, NEW s \in Session, Acquire(t, s)
        PROVE  [Authority!Next]_turn
    <3>1. /\ ~Active(t)
          /\ \A u \in Token \ {t} : /\ Active(u)' <=> Active(u)
                                    /\ sessionId'[u] = sessionId[u]
          /\ sessionId'[t] = s
      BY <2>1, <1>2 DEF Acquire, Active, TypeOK
    <3>2. CASE Active(t)'
      <4>1. turn' = [turn EXCEPT ![t] = s]
        BY <3>1, <3>2
      <4>2. \A u \in Token : turn[u] # s
        BY <3>1, <3>2, <2>c DEF OneTurnPerSession
      <4> QED
        BY <3>1, <4>1, <4>2 DEF Authority!Next, Authority!Begin, Authority!Free
    <3>3. CASE ~Active(t)'
      BY <3>1, <3>3
    <3> QED
      BY <3>2, <3>3
  <2>2. ASSUME NEW t \in Token, NEW s \in Session, Rebind(t, s)
        PROVE  [Authority!Next]_turn
    <3>1. /\ Active(t) /\ Active(t)'
          /\ \A u \in Token : Active(u)' <=> Active(u)
          /\ sessionId' = [sessionId EXCEPT ![t] = s]
          /\ s # sessionId[t]
      BY <2>2 DEF Rebind, MayRebind, Active
    <3>2. turn' = [turn EXCEPT ![t] = s]
      BY <3>1, <1>2 DEF TypeOK
    <3>3. \A u \in Token : turn[u] # s
      BY <3>1, <2>c, <1>2 DEF OneTurnPerSession, TypeOK
    <3>4. turn[t] # None
      BY <3>1, <2>a
    <3> QED
      BY <3>2, <3>3, <3>4 DEF Authority!Next, Authority!Move, Authority!Free
  <2>3. ASSUME NEW t \in Token, WaitTimeout(t)
        PROVE  [Authority!Next]_turn
    <3>1. sessionId' = sessionId /\ \A u \in Token : Active(u)' <=> Active(u)
      BY <2>3, <1>2 DEF WaitTimeout, Active, TypeOK
    <3> QED
      BY <3>1
  <2>4. ASSUME NEW t \in Token, Release(t)
        PROVE  [Authority!Next]_turn
    <3> DEFINE l == leases[sessionId[t]]
    <3>1. /\ Active(t) /\ turn[t] # None
          /\ released' = [released EXCEPT ![t] = TRUE]
          /\ sessionId' = sessionId
          /\ l \in Lease /\ GrantNext(l)
      BY <2>4, <2>a, <2>b, <1>2 DEF Release, ReleaseFindsLease, TypeOK
    <3>2. ~Active(t)'
      BY <3>1, <1>2 DEF Active, TypeOK
    <3> HIDE DEF l
    <3>3. CASE UNCHANGED promise
      <4>1. turn' = [turn EXCEPT ![t] = None]
        BY <3>1, <3>2, <3>3, <1>2 DEF Active, TypeOK
      <4> QED
        BY <3>1, <4>1 DEF Authority!Next, Authority!End
    <3>4. ASSUME NEW i \in 1..Len(waiters[l]), ~Settled(waiters[l][i]),
                 promise' = [promise EXCEPT ![waiters[l][i]] = "granted"]
          PROVE  [Authority!Next]_turn
      <4>0. PICK u \in Token : u = waiters[l][i]
        BY <3>1, <1>2 DEF TypeOK
      <4>s. PICK s \in Session : s = sessionId[u]
        BY <3>1, <4>0, <1>2 DEF WaiterIndexed
      <4>1. promise[u] = "waiting" /\ ~released[u] /\ u # t
        BY <3>1, <4>0, <1>2 DEF WaiterIndexed, TokenPlaced, Active
      <4>2. promise' = [promise EXCEPT ![u] = "granted"]
        BY <3>4, <4>0
      <4>3. /\ Active(u)' /\ ~Active(u)
            /\ \A v \in Token : v # u /\ v # t => (Active(v)' <=> Active(v))
        BY <3>1, <4>1, <4>2, <1>2 DEF Active, TypeOK
      <4>4. turn' = [turn EXCEPT ![t] = None, ![u] = s]
        BY <3>1, <3>2, <4>s, <4>1, <4>3
      <4>5. \A v \in Token : turn[v] = s => v = t
        BY <3>1, <4>s, <4>1, <4>3, <2>c DEF OneTurnPerSession
      <4>6. Authority!HandOver(t, u, s)
        BY <3>1, <4>1, <4>3, <4>4, <4>5 DEF Authority!HandOver
      <4> QED
        BY <4>1, <4>6 DEF Authority!Next
    <3> QED
      BY <3>1, <3>3, <3>4 DEF GrantNext
  <2>5. CASE UNCHANGED vars
    BY <2>5 DEF vars, Active
  <2> QED
    BY <1>2, <2>1, <2>2, <2>3, <2>4, <2>5 DEF Next
<1> QED
  BY <1>1, <1>2, IndInvAlways, PTL DEF Spec, ImplementsAuthority, Authority!Spec
=============================================================================
