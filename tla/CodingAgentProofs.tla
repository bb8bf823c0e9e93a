--------------------------- MODULE CodingAgentProofs ---------------------------
(***************************************************************************)
(* What is proved of three components of packages/coding-agent: the file   *)
(* mutation queue, delegation to workers and the run loop of a session.    *)
(* The queue's map is exact and the mutations of one file are atomic and   *)
(* in call order; no interleaving of tools, chats and timers exceeds the   *)
(* limits of delegation or leaves a turn nobody can stop; whatever is      *)
(* typed, queued, aborted or retried while a run is under way, the         *)
(* transcript stays one a provider accepts, no message is lost or sent     *)
(* twice, and a session that says it is idle is.  All for any number of    *)
(* calls, files, workers, conversations and messages.                      *)
(***************************************************************************)
EXTENDS FileMutationQueue, WorkerDirectory, AgentLoop, FiniteSetTheorems, SequenceTheorems, TLAPS

-----------------------------------------------------------------------------
(* THE FILE MUTATION QUEUE *)

LiveStage == {"waiting", "holding", "ready", "writing", "written"}

\* The call has passed registration on its key.
Registered(o) == key[o] # None /\ stage[o] # "resolved"

\* The registration queue: the calls that have begun to register and not
\* ended, in call order, the first of them possibly with its key resolved.
RegistrationFifo ==
    /\ \A i, j \in 1..Len(registration) : i < j => registration[i] < registration[j]
    /\ \A o \in Op : stage[o] \in {"registering", "resolved"} <=>
                        \E i \in 1..Len(registration) : registration[i] = o
    /\ \A o \in Op : stage[o] = "resolved" => registration[1] = o
    /\ \A o, p \in Op : stage[o] # "idle" /\ stage[p] = "idle" => o < p

\* A call has its key from the moment it is resolved, and calls register in
\* call order.
KeyedInOrder ==
    /\ \A o \in Op : stage[o] \in {"idle", "registering"} => key[o] = None
    /\ \A o \in Op : stage[o] \in LiveStage \cup {"resolved"} => key[o] \in Path
    /\ \A o, p \in Op : Registered(o) /\ stage[p] \in {"idle", "registering", "resolved"} => o < p

\* The map names the last registered call of a key as long as any is live.
LastChained ==
    /\ \A k \in Path : queues[k] # None => stage[queues[k]] \in LiveStage /\ key[queues[k]] = k
    /\ \A o \in Op : stage[o] \in LiveStage => queues[key[o]] # None /\ o <= queues[key[o]]

\* Behind a live call every later one of its key waits, for a call that is
\* not earlier than it.
Chained ==
    \A o, p \in Op :
        (stage[o] \in LiveStage /\ Registered(p) /\ key[p] = key[o] /\ o < p) =>
            /\ stage[p] = "waiting"
            /\ pred[p] \in Op /\ o <= pred[p]
            /\ Registered(pred[p]) /\ key[pred[p]] = key[p]

IndInv == TypeOK /\ RegistrationFifo /\ KeyedInOrder /\ LastChained /\ Chained

\* The calls that work on their file.
Working == {"holding", "ready", "writing", "written"}

\* Once linked files exist the key is the file.  What an edit has read is
\* what its file holds until it opens it, and what stood there before after.
FileState ==
    /\ exists[Linked]
    /\ \A o \in Op : key[o] # None => key[o] = FileOf(path[o])
    /\ \A o \in Op : stage[o] \in {"ready", "writing"} /\ kind[o] = "write" => seen[o] = {}
    /\ \A o \in Op : stage[o] = "ready" /\ kind[o] = "edit" => seen[o] = content[FileOf(path[o])]
    /\ \A o \in Op : stage[o] = "writing" =>
                        /\ content[FileOf(path[o])] = {}
                        /\ kind[o] = "edit" => seen[o] = before[FileOf(path[o])]

-----------------------------------------------------------------------------
(* The inductive invariant. *)

\* Nothing live is chained before o on its key.
Free(o) == \A p \in Op : stage[p] \in LiveStage /\ key[p] = key[o] => o <= p

\* A call that may begin, or is at work, is the first live one of its key.
LEMMA FirstIsFree ==
    ASSUME IndInv, NEW o \in Op, MayBegin(o) \/ stage[o] \in Working
    PROVE  Free(o) /\ stage[o] \in LiveStage /\ key[o] \in Path
<1> USE FileMutationAssumption DEF IndInv, Op
<1>1. stage[o] \in LiveStage /\ key[o] \in Path
  BY DEF MayBegin, Working, LiveStage, KeyedInOrder
<1>2. Registered(o)
  BY <1>1 DEF Registered, LiveStage, Path
<1>3. SUFFICES ASSUME NEW p \in Op, stage[p] \in LiveStage, key[p] = key[o], p < o
               PROVE  FALSE
  BY <1>1 DEF Free
<1>4. /\ stage[o] = "waiting"
      /\ pred[o] \in Op /\ p <= pred[o]
      /\ Registered(pred[o]) /\ key[pred[o]] = key[o]
  BY <1>2, <1>3 DEF Chained
<1>5. pred[o] # None /\ stage[pred[o]] \in Settled
  BY <1>4 DEF MayBegin, Working
<1>6. p # pred[o]
  BY <1>3, <1>5 DEF LiveStage, Settled
<1>7. stage[pred[o]] = "waiting"
  BY <1>3, <1>4, <1>6 DEF Chained
<1> QED
  BY <1>5, <1>7 DEF Settled

\* A step of the tool's function keeps the queue's part of the invariant.
LEMMA AdvanceKeeps ==
    ASSUME IndInv, NEW o \in Op, stage[o] \in LiveStage, Free(o),
           NEW s \in Working, stage' = [stage EXCEPT ![o] = s],
           UNCHANGED <<registration, key, queues, pred>>
    PROVE  RegistrationFifo' /\ KeyedInOrder' /\ LastChained' /\ Chained'
<1> USE FileMutationAssumption DEF IndInv, Op
<1>0. stage'[o] = s /\ \A p \in Op \ {o} : stage'[p] = stage[p]
  BY DEF TypeOK, Settled
<1>1. /\ s \notin {"idle", "registering", "resolved", "waiting"} /\ s \in LiveStage
      /\ stage[o] \notin {"idle", "registering", "resolved"}
  BY DEF Working, LiveStage
<1>2. \A p \in Op : /\ Registered(p)' <=> Registered(p)
                    /\ stage'[p] \in LiveStage <=> stage[p] \in LiveStage
                    /\ stage'[p] \in {"idle", "registering", "resolved"}
                         <=> stage[p] \in {"idle", "registering", "resolved"}
  BY <1>0, <1>1 DEF Registered
<1>3. RegistrationFifo'
  BY <1>0, <1>1 DEF RegistrationFifo
<1>4. KeyedInOrder'
  BY <1>0, <1>1, <1>2 DEF KeyedInOrder
<1>5. LastChained'
  BY <1>2 DEF LastChained, TypeOK
<1>6. Chained'
  <2> SUFFICES ASSUME NEW q \in Op, NEW p \in Op,
                      stage'[q] \in LiveStage, Registered(p)', key'[p] = key'[q], q < p
               PROVE  /\ stage'[p] = "waiting"
                      /\ pred'[p] \in Op /\ q <= pred'[p]
                      /\ Registered(pred[p])' /\ key'[pred'[p]] = key'[p]
    BY DEF Chained
  <2>1. p # o
    BY <1>2 DEF Free
  <2> QED
    BY <2>1, <1>0, <1>2 DEF Chained
<1> QED
  BY <1>3, <1>4, <1>5, <1>6

\* The finally block keeps it: if the entry is dropped no live call is left,
\* because the call is both the first and the last of its key.
LEMMA FinallyKeeps ==
    ASSUME IndInv, NEW o \in Op, stage[o] \in LiveStage, Free(o), key[o] \in Path,
           NEW s \in Settled, Finally(o, s),
           UNCHANGED <<registration, key, pred>>
    PROVE  RegistrationFifo' /\ KeyedInOrder' /\ LastChained' /\ Chained'
<1> USE FileMutationAssumption DEF IndInv, Op
<1>0. /\ stage'[o] = s /\ \A p \in Op \ {o} : stage'[p] = stage[p]
      /\ queues' = [queues EXCEPT ![key[o]] = IF queues[key[o]] = o THEN None ELSE queues[key[o]]]
  BY DEF TypeOK, Finally
<1>1. /\ s \notin {"idle", "registering", "resolved", "waiting"} /\ s \notin LiveStage
      /\ stage[o] \notin {"idle", "registering", "resolved"}
  BY DEF Settled, LiveStage
<1>2. \A p \in Op : /\ Registered(p)' <=> Registered(p)
                    /\ stage'[p] \in LiveStage <=> stage[p] \in LiveStage /\ p # o
                    /\ stage'[p] \in {"idle", "registering", "resolved"}
                         <=> stage[p] \in {"idle", "registering", "resolved"}
  BY <1>0, <1>1 DEF Registered
<1>3. RegistrationFifo'
  BY <1>0, <1>1 DEF RegistrationFifo
<1>4. KeyedInOrder'
  BY <1>0, <1>1, <1>2 DEF KeyedInOrder
<1>5. LastChained'
  <2>1. ASSUME NEW k \in Path, queues'[k] # None
        PROVE  stage'[queues'[k]] \in LiveStage /\ key'[queues'[k]] = k
    <3>1. queues'[k] = queues[k] /\ queues[k] \in Op /\ queues[k] # o
      BY <2>1, <1>0 DEF TypeOK, LastChained
    <3> QED
      BY <3>1, <2>1, <1>2 DEF LastChained
  <2>2. ASSUME NEW p \in Op, stage'[p] \in LiveStage
        PROVE  queues'[key'[p]] # None /\ p <= queues'[key'[p]]
    <3>1. p # o /\ stage[p] \in LiveStage /\ key[p] \in Path
      BY <2>2, <1>2 DEF KeyedInOrder
    <3>2. queues[key[p]] # None /\ p <= queues[key[p]] /\ queues[key[p]] \in Op
      BY <3>1 DEF LastChained, TypeOK
    <3>3. CASE key[p] = key[o] /\ queues[key[o]] = o
      BY <3>1, <3>2, <3>3 DEF Free
    <3>4. CASE ~(key[p] = key[o] /\ queues[key[o]] = o)
      BY <3>1, <3>2, <3>4, <1>0 DEF TypeOK
    <3> QED
      BY <3>3, <3>4
  <2> QED
    BY <2>1, <2>2 DEF LastChained
<1>6. Chained'
  <2> SUFFICES ASSUME NEW q \in Op, NEW p \in Op,
                      stage'[q] \in LiveStage, Registered(p)', key'[p] = key'[q], q < p
               PROVE  /\ stage'[p] = "waiting"
                      /\ pred'[p] \in Op /\ q <= pred'[p]
                      /\ Registered(pred[p])' /\ key'[pred'[p]] = key'[p]
    BY DEF Chained
  <2>1. p # o
    BY <1>2 DEF Free
  <2> QED
    BY <2>1, <1>0, <1>2 DEF Chained
<1> QED
  BY <1>3, <1>4, <1>5, <1>6

\* The head of the registration queue leaves it.
LEMMA PopKeepsFifo ==
    ASSUME IndInv, NEW o \in Op, stage[o] \in {"registering", "resolved"},
           Head(registration) = o,
           NEW s, s \notin {"idle", "registering", "resolved"},
           stage' = [stage EXCEPT ![o] = s], registration' = Tail(registration)
    PROVE  RegistrationFifo' /\ registration' \in Seq(Op)
<1> USE FileMutationAssumption DEF IndInv, Op
<1> DEFINE q == registration
<1>0. /\ q \in Seq(Op) /\ \E i \in 1..Len(q) : q[i] = o
      /\ stage'[o] = s /\ \A p \in Op \ {o} : stage'[p] = stage[p]
  BY DEF TypeOK, RegistrationFifo
<1>1. q # <<>> /\ Len(q) \in Nat \ {0}
  BY <1>0
<1>2. /\ registration' \in Seq(Op) /\ q[1] = o
      /\ Len(registration') = Len(q) - 1
      /\ \A i \in 1..(Len(q) - 1) : registration'[i] = q[i + 1]
  BY <1>0, <1>1
<1>3. \A i \in 1..Len(q) : q[i] \in Op /\ (i # 1 => q[i] # o)
  <2> SUFFICES ASSUME NEW i \in 1..Len(q) PROVE q[i] \in Op /\ (i # 1 => q[i] # o)
    OBVIOUS
  <2>1. q[i] \in Op
    BY <1>0
  <2>2. CASE i # 1
    <3>1. 1 \in 1..Len(q) /\ 1 < i
      BY <1>1, <2>2
    <3>2. q[1] < q[i]
      BY <3>1 DEF RegistrationFifo
    <3> QED
      BY <3>2, <2>1, <1>2
  <2> QED
    BY <2>1, <2>2
<1>4. \A i, j \in 1..Len(registration') : i < j => registration'[i] < registration'[j]
  BY <1>1, <1>2 DEF RegistrationFifo
<1>5. ASSUME NEW p \in Op, stage'[p] \in {"registering", "resolved"}
      PROVE  \E i \in 1..Len(registration') : registration'[i] = p
  <2>1. p # o /\ stage[p] \in {"registering", "resolved"}
    BY <1>5, <1>0
  <2>2. PICK i \in 1..Len(q) : q[i] = p
    BY <2>1 DEF RegistrationFifo
  <2>3. i - 1 \in 1..Len(registration') /\ registration'[i - 1] = p
    BY <2>1, <2>2, <1>1, <1>2
  <2> QED
    BY <2>3
<1>6. ASSUME NEW p \in Op, NEW i \in 1..Len(registration'), registration'[i] = p
      PROVE  stage'[p] \in {"registering", "resolved"}
  <2>1. i + 1 \in 1..Len(q) /\ q[i + 1] = p /\ p # o
    BY <1>6, <1>1, <1>2, <1>3
  <2>2. stage[p] \in {"registering", "resolved"}
    BY <2>1 DEF RegistrationFifo
  <2> QED
    BY <2>1, <2>2, <1>0
<1>7. \A p \in Op : stage'[p] # "resolved"
  BY <1>0, <1>2 DEF RegistrationFifo
<1>8. \A p, r \in Op : stage'[p] # "idle" /\ stage'[r] = "idle" => p < r
  BY <1>0 DEF RegistrationFifo
<1> QED
  BY <1>2, <1>4, <1>5, <1>6, <1>7, <1>8 DEF RegistrationFifo

\* Of the calls that are not registered, the head of the queue is the first.
LEMMA HeadIsFirst ==
    ASSUME IndInv, NEW o \in Op, stage[o] \in {"registering", "resolved"},
           Head(registration) = o,
           NEW p \in Op, stage[p] \in {"idle", "registering", "resolved"}
    PROVE  o <= p
<1> USE FileMutationAssumption DEF IndInv, Op
<1>0. registration \in Seq(Op) /\ \E i \in 1..Len(registration) : registration[i] = o
  BY DEF TypeOK, RegistrationFifo
<1>1. registration[1] = o /\ Len(registration) \in Nat \ {0}
  BY <1>0
<1>2. CASE stage[p] = "idle"
  BY <1>2 DEF RegistrationFifo
<1>3. CASE stage[p] # "idle"
  <2>1. PICK i \in 1..Len(registration) : registration[i] = p
    BY <1>3 DEF RegistrationFifo
  <2> QED
    BY <2>1, <1>1 DEF RegistrationFifo
<1> QED
  BY <1>2, <1>3

\* A resolved call is the head of the registration queue.
LEMMA ResolvedIsHead ==
    ASSUME IndInv, NEW o \in Op, stage[o] = "resolved"
    PROVE  Head(registration) = o
<1>1. registration \in Seq(Op) /\ \E i \in 1..Len(registration) : registration[i] = o
  BY DEF IndInv, TypeOK, RegistrationFifo
<1>2. registration[1] = o
  BY DEF IndInv, RegistrationFifo
<1> QED
  BY <1>1, <1>2

\* A call enters the registration queue.
LEMMA ExecuteKeeps ==
    ASSUME IndInv, NEW o \in Op, Execute(o)
    PROVE  /\ registration' \in Seq(Op)
           /\ RegistrationFifo' /\ KeyedInOrder' /\ LastChained' /\ Chained'
<1> USE FileMutationAssumption DEF IndInv, Op
<1> DEFINE q == registration
<1>0. /\ stage[o] = "idle" /\ key' = key /\ queues' = queues /\ pred' = pred
      /\ stage'[o] = "registering" /\ \A p \in Op \ {o} : stage'[p] = stage[p]
      /\ \A p \in Op : p < o => stage[p] # "idle"
  BY DEF Execute, TypeOK
<1>1. /\ q \in Seq(Op) /\ Len(q) \in Nat
      /\ registration' \in Seq(Op) /\ Len(registration') = Len(q) + 1
      /\ \A i \in 1..Len(q) : registration'[i] = q[i]
      /\ registration'[Len(q) + 1] = o
  BY DEF Execute, TypeOK
<1>2. \A i \in 1..Len(q) : q[i] \in Op /\ q[i] < o
  <2> SUFFICES ASSUME NEW i \in 1..Len(q) PROVE q[i] \in Op /\ q[i] < o
    OBVIOUS
  <2>1. q[i] \in Op
    BY <1>1
  <2>2. stage[q[i]] \in {"registering", "resolved"}
    BY <2>1 DEF RegistrationFifo
  <2> QED
    BY <2>1, <2>2, <1>0 DEF RegistrationFifo
<1>3. ASSUME NEW i \in 1..Len(registration'), NEW j \in 1..Len(registration'), i < j
      PROVE  registration'[i] < registration'[j]
  <2>1. i \in 1..Len(q) /\ registration'[i] = q[i] /\ j \in 1 .. Len(q) + 1
    BY <1>1, <1>3
  <2>2. CASE j = Len(q) + 1
    BY <2>1, <2>2, <1>1, <1>2
  <2>3. CASE j # Len(q) + 1
    <3>0. Len(q) \in Nat /\ j \in 1 .. Len(q) + 1
      BY <2>1, <1>1
    <3>1. j \in 1..Len(q)
      BY <3>0, <2>3
    <3>2. registration'[j] = q[j]
      BY <3>1, <1>1
    <3> QED
      BY <3>1, <3>2, <2>1, <1>3 DEF RegistrationFifo
  <2> QED
    BY <2>2, <2>3
<1>4. ASSUME NEW p \in Op, stage'[p] \in {"registering", "resolved"}
      PROVE  \E i \in 1..Len(registration') : registration'[i] = p
  <2>1. CASE p = o
    <3>1. Len(q) + 1 \in 1..Len(registration')
      BY <1>1
    <3> QED
      BY <3>1, <2>1, <1>1
  <2>2. CASE p # o
    <3>1. PICK i \in 1..Len(q) : q[i] = p
      BY <2>2, <1>0, <1>4 DEF RegistrationFifo
    <3> QED
      BY <3>1, <1>1
  <2> QED
    BY <2>1, <2>2
<1>5. ASSUME NEW p \in Op, NEW i \in 1..Len(registration'), registration'[i] = p
      PROVE  stage'[p] \in {"registering", "resolved"}
  <2>1. CASE i = Len(q) + 1
    BY <2>1, <1>5, <1>0, <1>1
  <2>2. CASE i # Len(q) + 1
    <3>1. i \in 1..Len(q) /\ q[i] = p /\ p # o
      BY <2>2, <1>5, <1>1, <1>2
    <3>2. stage[p] \in {"registering", "resolved"}
      BY <3>1 DEF RegistrationFifo
    <3> QED
      BY <3>1, <3>2, <1>0
  <2> QED
    BY <2>1, <2>2
<1>6. ASSUME NEW p \in Op, stage'[p] = "resolved"
      PROVE  registration'[1] = p
  <2>1. stage[p] = "resolved" /\ \E i \in 1..Len(q) : q[i] = p
    BY <1>6, <1>0 DEF RegistrationFifo
  <2>2. 1 \in 1..Len(q) /\ q[1] = p
    BY <2>1, <1>1 DEF RegistrationFifo
  <2> QED
    BY <2>2, <1>1
<1>7. \A p, r \in Op : stage'[p] # "idle" /\ stage'[r] = "idle" => p < r
  BY <1>0 DEF RegistrationFifo
<1>8. RegistrationFifo'
  BY <1>3, <1>4, <1>5, <1>6, <1>7 DEF RegistrationFifo
<1>9. \A p \in Op : /\ Registered(p)' <=> Registered(p)
                    /\ stage'[p] \in LiveStage <=> stage[p] \in LiveStage
                    /\ stage[p] = "waiting" <=> stage'[p] = "waiting"
  BY <1>0 DEF Registered, LiveStage, KeyedInOrder
<1>10. KeyedInOrder'
  BY <1>0, <1>9 DEF KeyedInOrder, LiveStage
<1>11. LastChained'
  BY <1>0, <1>9 DEF LastChained, TypeOK
<1>12. Chained'
  BY <1>0, <1>9 DEF Chained
<1> QED
  BY <1>1, <1>8, <1>10, <1>11, <1>12

\* Its key is resolved, or realpath fails and it leaves the queue.
LEMMA ResolveKeyKeeps ==
    ASSUME IndInv, NEW o \in Op, ResolveKey(o),
           MutationQueueKey(o) \in Path
    PROVE  /\ registration' \in Seq(Op)
           /\ RegistrationFifo' /\ KeyedInOrder' /\ LastChained' /\ Chained'
<1> USE FileMutationAssumption DEF IndInv, Op
<1>0. /\ stage[o] = "registering" /\ Head(registration) = o /\ key[o] = None
      /\ queues' = queues /\ pred' = pred
  BY DEF ResolveKey, CanRegister, KeyedInOrder
<1>1. /\ \A p \in Op \ {o} : stage'[p] = stage[p] /\ key'[p] = key[p]
      /\ \/ stage'[o] = "resolved" /\ key'[o] \in Path
         \/ stage'[o] = "failed" /\ key'[o] = None
  BY <1>0 DEF ResolveKey, TypeOK
<1>2. registration' \in Seq(Op) /\ RegistrationFifo'
  <2>1. CASE stage' = [stage EXCEPT ![o] = "failed"] /\ registration' = Tail(registration)
    BY <2>1, <1>0, PopKeepsFifo
  <2>2. CASE stage' = [stage EXCEPT ![o] = "resolved"] /\ registration' = registration
    <3>1. registration \in Seq(Op) /\ \E i \in 1..Len(registration) : registration[i] = o
      BY <1>0 DEF TypeOK, RegistrationFifo
    <3>2. registration[1] = o
      BY <3>1, <1>0
    <3>3. stage'[o] = "resolved" /\ \A p \in Op \ {o} : stage'[p] = stage[p]
      BY <2>2, <1>1 DEF TypeOK
    <3>4. \A p \in Op : /\ stage'[p] \in {"registering", "resolved"}
                             <=> stage[p] \in {"registering", "resolved"}
                        /\ stage'[p] = "idle" <=> stage[p] = "idle"
                        /\ stage'[p] = "resolved" => stage[p] = "resolved" \/ p = o
      BY <3>3, <1>0
    <3> QED
      BY <3>1, <3>2, <3>4, <2>2 DEF RegistrationFifo
  <2> QED
    BY <2>1, <2>2 DEF ResolveKey
<1>3. \A p \in Op : /\ Registered(p)' <=> Registered(p)
                    /\ stage'[p] \in LiveStage <=> stage[p] \in LiveStage
                    /\ stage[p] = "waiting" <=> stage'[p] = "waiting"
                    /\ Registered(p) \/ stage[p] \in LiveStage => p # o
  BY <1>0, <1>1 DEF Registered, LiveStage, Path
<1>4. KeyedInOrder'
  BY <1>0, <1>1, <1>3 DEF KeyedInOrder, LiveStage, Path
<1>5. LastChained'
  BY <1>0, <1>1, <1>3 DEF LastChained, TypeOK
<1>6. Chained'
  BY <1>0, <1>1, <1>3 DEF Chained
<1> QED
  BY <1>2, <1>4, <1>5, <1>6

\* The call chains itself: it is later than every registered one.
LEMMA RegisterKeeps ==
    ASSUME IndInv, NEW o \in Op, Register(o)
    PROVE  /\ registration' \in Seq(Op) /\ key[o] \in Path
           /\ RegistrationFifo' /\ KeyedInOrder' /\ LastChained' /\ Chained'
<1> USE FileMutationAssumption DEF IndInv, Op
<1> DEFINE k == key[o]
<1>0. /\ stage[o] = "resolved" /\ k \in Path /\ key' = key
      /\ stage'[o] = "waiting" /\ \A p \in Op \ {o} : stage'[p] = stage[p]
      /\ pred'[o] = queues[k] /\ \A p \in Op \ {o} : pred'[p] = pred[p]
      /\ queues'[k] = o /\ \A j \in Path \ {k} : queues'[j] = queues[j]
  BY DEF Register, TypeOK, KeyedInOrder
<1>1. Head(registration) = o
  BY <1>0, ResolvedIsHead
<1>2. registration' \in Seq(Op) /\ RegistrationFifo'
  BY <1>0, <1>1, PopKeepsFifo DEF Register
<1>3. \A p \in Op : /\ Registered(p)' <=> Registered(p) \/ p = o
                    /\ stage'[p] \in LiveStage <=> stage[p] \in LiveStage \/ p = o
                    /\ Registered(p) => p < o
                    /\ stage[p] \in LiveStage => p < o
  <2>1. k # None
    BY <1>0 DEF Path
  <2>2. \A p \in Op : stage[p] \in LiveStage => Registered(p)
    BY DEF KeyedInOrder, LiveStage, Registered, Path
  <2>3. \A p \in Op : Registered(p) => p < o
    BY <1>0 DEF KeyedInOrder
  <2> QED
    BY <1>0, <2>1, <2>2, <2>3 DEF Registered, LiveStage
<1>4. KeyedInOrder'
  <2>1. ASSUME NEW p \in Op, Registered(p)',
               NEW r \in Op, stage'[r] \in {"idle", "registering", "resolved"}
        PROVE  p < r
    <3>1. r # o /\ stage[r] \in {"idle", "registering", "resolved"}
      BY <2>1, <1>0
    <3>2. o <= r
      BY <3>1, <1>0, <1>1, HeadIsFirst
    <3> QED
      BY <2>1, <3>1, <3>2, <1>3
  <2>2. \A p \in Op : /\ stage'[p] \in {"idle", "registering"} => key'[p] = None
                      /\ stage'[p] \in LiveStage \cup {"resolved"} => key'[p] \in Path
    BY <1>0 DEF KeyedInOrder, LiveStage
  <2> QED
    BY <2>1, <2>2 DEF KeyedInOrder
<1>5. LastChained'
  <2>1. ASSUME NEW j \in Path, queues'[j] # None
        PROVE  stage'[queues'[j]] \in LiveStage /\ key'[queues'[j]] = j
    <3>1. CASE j = k
      BY <3>1, <1>0 DEF LiveStage
    <3>2. CASE j # k
      <4>1. queues'[j] = queues[j] /\ queues[j] \in Op
        BY <3>2, <2>1, <1>0 DEF TypeOK
      <4> QED
        BY <4>1, <2>1, <1>0, <1>3 DEF LastChained
    <3> QED
      BY <3>1, <3>2
  <2>2. ASSUME NEW p \in Op, stage'[p] \in LiveStage
        PROVE  queues'[key'[p]] # None /\ p <= queues'[key'[p]]
    <3>1. CASE key[p] = k
      BY <3>1, <2>2, <1>0, <1>3
    <3>2. CASE key[p] # k
      <4>1. p # o /\ stage[p] \in LiveStage /\ key[p] \in Path
        BY <3>2, <2>2, <1>3 DEF KeyedInOrder
      <4> QED
        BY <4>1, <3>2, <1>0 DEF LastChained
    <3> QED
      BY <3>1, <3>2
  <2> QED
    BY <2>1, <2>2 DEF LastChained
<1>6. Chained'
  <2> SUFFICES ASSUME NEW q \in Op, NEW p \in Op,
                      stage'[q] \in LiveStage, Registered(p)', key'[p] = key'[q], q < p
               PROVE  /\ stage'[p] = "waiting"
                      /\ pred'[p] \in Op /\ q <= pred'[p]
                      /\ Registered(pred[p])' /\ key'[pred'[p]] = key'[p]
    BY DEF Chained
  <2>1. stage[q] \in LiveStage /\ q # o
    BY <1>3
  <2>2. CASE p = o
    <3>1. queues[k] # None /\ q <= queues[k] /\ queues[k] \in Op
      BY <2>1, <2>2, <1>0 DEF LastChained, TypeOK
    <3>2. stage[queues[k]] \in LiveStage /\ key[queues[k]] = k
      BY <3>1, <1>0 DEF LastChained
    <3>3. key'[queues[k]] # None /\ stage'[queues[k]] # "resolved"
      BY <3>1, <3>2, <1>0 DEF LiveStage, Path
    <3> QED
      BY <2>2, <3>1, <3>2, <3>3, <1>0 DEF Registered
  <2>3. CASE p # o
    <3>1. Registered(p)
      BY <2>3, <1>3
    <3>2. /\ stage[p] = "waiting" /\ pred[p] \in Op /\ q <= pred[p]
          /\ Registered(pred[p]) /\ key[pred[p]] = key[p]
      BY <2>1, <3>1, <1>0 DEF Chained
    <3>3. pred'[p] = pred[p] /\ pred[p] # o /\ stage'[p] = "waiting"
      BY <2>3, <3>2, <1>0 DEF Registered
    <3> QED
      BY <3>2, <3>3, <1>0 DEF Registered
  <2> QED
    BY <2>2, <2>3
<1> QED
  BY <1>0, <1>2, <1>4, <1>5, <1>6

\* The two ways in which a step of the tool's function changes the queue.
LEMMA StepTypes ==
    ASSUME TypeOK, NEW o \in Op,
           \/ (\E s \in Stage : stage' = [stage EXCEPT ![o] = s]) /\ queues' = queues
           \/ \E s \in Settled : Finally(o, s)
    PROVE  stage' \in [Op -> Stage] /\ queues' \in [Path -> Op \cup {None}]
<1>1. CASE (\E s \in Stage : stage' = [stage EXCEPT ![o] = s]) /\ queues' = queues
  BY <1>1 DEF TypeOK
<1>2. ASSUME NEW s \in Settled, Finally(o, s)
      PROVE  stage' \in [Op -> Stage] /\ queues' \in [Path -> Op \cup {None}]
  <2>1. stage' \in [Op -> Stage]
    BY <1>2 DEF TypeOK, Finally, Stage
  <2>2. queues' \in [Path -> Op \cup {None}]
    BY <1>2 DEF TypeOK, Finally
  <2> QED
    BY <2>1, <2>2
<1> QED
  BY <1>1, <1>2

\* The invariant is inductive.
LEMMA IndInvStep == ASSUME IndInv, [Next]_vars PROVE IndInv'
<1> USE FileMutationAssumption
<1>0. TypeOK
  BY DEF IndInv
<1> DEFINE Queues == RegistrationFifo' /\ KeyedInOrder' /\ LastChained' /\ Chained'
<1>a. /\ {"holding", "ready", "writing", "written"} \subseteq Stage
      /\ "failed" \in Settled /\ "ok" \in Settled
      /\ {"holding", "ready", "writing", "written"} \subseteq Working
  BY DEF Working, Settled, Stage
<1>f. \A o \in Op : FileOf(path[o]) \in File
  BY DEF FileOf, IndInv, TypeOK, Path
<1>t. ASSUME NEW o \in Op, stage[o] \in Working \/ MayBegin(o)
      PROVE  key[o] \in Path /\ Free(o) /\ stage[o] \in LiveStage
  BY <1>t, FirstIsFree
<1>1. ASSUME NEW o \in Op, Execute(o)
      PROVE  IndInv'
  <2>1. registration' \in Seq(Op) /\ Queues
    BY <1>1, ExecuteKeeps
  <2>2. TypeOK'
    BY <1>0, <1>1, <2>1 DEF Execute, TypeOK, inputs, Stage
  <2> QED
    BY <2>1, <2>2 DEF IndInv
<1>2. ASSUME NEW o \in Op, ResolveKey(o)
      PROVE  IndInv'
  <2>1. MutationQueueKey(o) \in Path
    BY <1>f DEF MutationQueueKey, Path, IndInv, TypeOK
  <2>2. registration' \in Seq(Op) /\ Queues
    BY <1>2, <2>1, ResolveKeyKeeps
  <2>a. stage' \in [Op -> Stage] /\ key' \in [Op -> Path \cup {None}]
    BY <1>0, <1>2, <2>1 DEF ResolveKey, TypeOK, Stage, Settled
  <2>3. TypeOK'
    BY <1>0, <1>2, <2>a, <2>2 DEF ResolveKey, TypeOK, inputs
  <2> QED
    BY <2>2, <2>3 DEF IndInv
<1>3. ASSUME NEW o \in Op, Register(o)
      PROVE  IndInv'
  <2>1. registration' \in Seq(Op) /\ key[o] \in Path /\ Queues
    BY <1>3, RegisterKeeps
  <2>2. TypeOK'
    BY <1>0, <1>3, <2>1 DEF Register, TypeOK, inputs, Stage
  <2> QED
    BY <2>1, <2>2 DEF IndInv
<1>4. ASSUME NEW o \in Op, Begin(o)
      PROVE  IndInv'
  <2>1. MayBegin(o)
    BY <1>4 DEF Begin
  <2>2. Queues
    BY <2>1, <1>t, <1>a, <1>4, AdvanceKeeps, FinallyKeeps DEF Begin
  <2>a. stage' \in [Op -> Stage] /\ queues' \in [Path -> Op \cup {None}]
    BY <1>0, <1>a, <1>4, StepTypes DEF Begin
  <2>3. TypeOK'
    BY <1>0, <1>4, <2>a DEF Begin, TypeOK, inputs
  <2> QED
    BY <2>2, <2>3 DEF IndInv
<1>5. ASSUME NEW o \in Op, Prepared(o)
      PROVE  IndInv'
  <2>1. stage[o] \in Working
    BY <1>5 DEF Prepared, Working
  <2>2. Queues
    BY <2>1, <1>t, <1>a, <1>5, AdvanceKeeps, FinallyKeeps DEF Prepared
  <2>3. stage' \in [Op -> Stage] /\ queues' \in [Path -> Op \cup {None}]
    BY <1>0, <1>a, <1>5, StepTypes DEF Prepared
  <2>4. /\ exists' \in [File -> BOOLEAN] /\ content' \in [File -> SUBSET Op]
        /\ before' \in [File -> SUBSET Op] /\ seen' \in [Op -> SUBSET Op]
    BY <1>0, <1>f, <1>5 DEF Prepared, TypeOK
  <2>5. TypeOK'
    BY <1>0, <1>5, <2>3, <2>4 DEF Prepared, TypeOK, inputs
  <2> QED
    BY <2>2, <2>5 DEF IndInv
<1>6. ASSUME NEW o \in Op, OpenForWrite(o)
      PROVE  IndInv'
  <2>1. stage[o] \in Working
    BY <1>6 DEF OpenForWrite, Working
  <2>2. Queues
    BY <2>1, <1>t, <1>a, <1>6, AdvanceKeeps, FinallyKeeps DEF OpenForWrite
  <2>3. stage' \in [Op -> Stage] /\ queues' \in [Path -> Op \cup {None}]
    BY <1>0, <1>a, <1>6, StepTypes DEF OpenForWrite
  <2>4. /\ exists' \in [File -> BOOLEAN] /\ content' \in [File -> SUBSET Op]
        /\ before' \in [File -> SUBSET Op] /\ seen' \in [Op -> SUBSET Op]
    <3> DEFINE f == FileOf(path[o])
    <3>1. f \in File /\ content[f] \in SUBSET Op
      BY <1>0, <1>f DEF TypeOK
    <3>2. \/ /\ exists' = [exists EXCEPT ![f] = TRUE]
             /\ before' = [before EXCEPT ![f] = content[f]]
             /\ content' = [content EXCEPT ![f] = {}]
             /\ seen' = seen
          \/ seen' = [seen EXCEPT ![o] = {}] /\ UNCHANGED <<exists, before, content>>
      BY <1>6 DEF OpenForWrite
    <3> HIDE DEF f
    <3> QED
      BY <1>0, <3>1, <3>2 DEF TypeOK
  <2>5. TypeOK'
    BY <1>0, <1>6, <2>3, <2>4 DEF OpenForWrite, TypeOK, inputs
  <2> QED
    BY <2>2, <2>5 DEF IndInv
<1>7. ASSUME NEW o \in Op, WriteFile(o)
      PROVE  IndInv'
  <2>1. stage[o] \in Working
    BY <1>7 DEF WriteFile, Working
  <2>2. Queues
    BY <2>1, <1>t, <1>a, <1>7, AdvanceKeeps, FinallyKeeps DEF WriteFile
  <2>3. stage' \in [Op -> Stage] /\ queues' \in [Path -> Op \cup {None}]
    BY <1>0, <1>a, <1>7, StepTypes DEF WriteFile
  <2>4. /\ exists' \in [File -> BOOLEAN] /\ content' \in [File -> SUBSET Op]
        /\ before' \in [File -> SUBSET Op] /\ seen' \in [Op -> SUBSET Op]
    <3> DEFINE f == FileOf(path[o])
    <3>1. f \in File /\ seen[o] \cup {o} \in SUBSET Op
      BY <1>0, <1>f DEF TypeOK
    <3>2. /\ before' = [before EXCEPT ![f] = {}]
          /\ seen' = [seen EXCEPT ![o] = {}]
          /\ content' = [content EXCEPT ![f] = seen[o] \cup {o}] \/ content' = content
          /\ exists' = exists
      BY <1>7 DEF WriteFile
    <3> HIDE DEF f
    <3> QED
      BY <1>0, <3>1, <3>2 DEF TypeOK
  <2>5. TypeOK'
    BY <1>0, <1>7, <2>3, <2>4 DEF WriteFile, TypeOK, inputs
  <2> QED
    BY <2>2, <2>5 DEF IndInv
<1>8. ASSUME NEW o \in Op, Diagnosed(o)
      PROVE  IndInv'
  <2>1. stage[o] \in Working
    BY <1>8 DEF Diagnosed, Working
  <2>2. Queues
    BY <2>1, <1>t, <1>a, <1>8, FinallyKeeps DEF Diagnosed
  <2>a. stage' \in [Op -> Stage] /\ queues' \in [Path -> Op \cup {None}]
    BY <1>0, <1>a, <1>8, StepTypes DEF Diagnosed
  <2>3. TypeOK'
    BY <1>0, <1>8, <2>a DEF Diagnosed, TypeOK, inputs
  <2> QED
    BY <2>2, <2>3 DEF IndInv
<1>9. CASE Abort \/ UNCHANGED vars
  <2>1. /\ UNCHANGED <<kind, path, stage, registration, key, queues, pred, exists, content,
                      before, seen>>
        /\ aborted' \in BOOLEAN
    BY <1>9 DEF Abort, vars, inputs, IndInv, TypeOK
  <2>2. TypeOK'
    BY <2>1 DEF IndInv, TypeOK
  <2>3. Queues
    BY <2>1 DEF IndInv, RegistrationFifo, KeyedInOrder, LastChained, Chained, Registered
  <2> QED
    BY <2>2, <2>3 DEF IndInv
<1> QED
  BY <1>1, <1>2, <1>3, <1>4, <1>5, <1>6, <1>7, <1>8, <1>9 DEF Next, Step

\* The empty queue satisfies the invariant.
LEMMA IndInvInit == Init => IndInv
<1> SUFFICES ASSUME Init PROVE IndInv
  OBVIOUS
<1> USE FileMutationAssumption DEF Init
<1>1. TypeOK
  <2>1. /\ kind \in [Op -> {"edit", "write"}] /\ path \in [Op -> Path]
        /\ stage \in [Op -> Stage] /\ registration \in Seq(Op)
        /\ key \in [Op -> Path \cup {None}] /\ queues \in [Path -> Op \cup {None}]
        /\ pred \in [Op -> Op \cup {None}]
    BY DEF Stage
  <2>2. exists \in [File -> BOOLEAN] /\ aborted \in BOOLEAN
    BY Zenon
  <2>3. /\ content \in [File -> SUBSET Op] /\ before \in [File -> SUBSET Op]
        /\ seen \in [Op -> SUBSET Op]
    OBVIOUS
  <2> QED
    BY <2>1, <2>2, <2>3 DEF TypeOK
<1>2. RegistrationFifo
  BY DEF RegistrationFifo
<1>3. KeyedInOrder
  BY DEF KeyedInOrder, Registered, LiveStage
<1>4. LastChained
  BY DEF LastChained, LiveStage
<1>5. Chained
  BY DEF Chained, LiveStage
<1> QED
  BY <1>1, <1>2, <1>3, <1>4, <1>5 DEF IndInv

\* The inductive invariant holds always.
LEMMA IndInvAlways == Spec => []IndInv
<1>1. Init => IndInv
  BY IndInvInit
<1>2. IndInv /\ [Next]_vars => IndInv'
  BY IndInvStep
<1> QED
  BY <1>1, <1>2, PTL DEF Spec

\* fileMutationQueues names the last call of a key exactly as long as one is
\* under way, for any calls, files and links (withFileMutationQueue).
THEOREM QueueMapExactAlways == Spec => []QueueMapExact
<1>1. IndInv => QueueMapExact
  <2> SUFFICES ASSUME IndInv PROVE QueueMapExact
    OBVIOUS
  <2>1. \A k \in Path : queues[k] # None => stage[queues[k]] \notin Settled
    BY DEF IndInv, LastChained, LiveStage, Settled
  <2>2. \A o \in Op : stage[o] \in {"waiting", "holding", "ready", "writing", "written"}
                         => queues[key[o]] # None
    BY DEF IndInv, LastChained, LiveStage
  <2> QED
    BY <2>1, <2>2 DEF QueueMapExact, IndInv
<1> QED
  BY <1>1, IndInvAlways, PTL

-----------------------------------------------------------------------------
(* Atomicity.  Files that links lead to exist: without that the code keys   *)
(* one missing file under two paths, and two calls may work on it at once.  *)

\* A path leads to a file.
LEMMA PathsLead ==
    ASSUME TypeOK, NEW o \in Op
    PROVE  FileOf(path[o]) \in File
  BY FileMutationAssumption DEF TypeOK, FileOf, Path

\* Of the calls for one file only one is at work.
LEMMA OneAtWork ==
    ASSUME IndInv, FileState, NEW o \in Op, NEW p \in Op,
           stage[o] \in Working, stage[p] \in Working, FileOf(path[o]) = FileOf(path[p])
    PROVE  o = p
<1>1. /\ Free(o) /\ stage[o] \in LiveStage /\ key[o] \in Path
      /\ Free(p) /\ stage[p] \in LiveStage /\ key[p] \in Path
  BY FirstIsFree
<1>2. key[o] = key[p]
  BY <1>1, FileMutationAssumption DEF FileState, Path
<1>3. o <= p /\ p <= o
  BY <1>1, <1>2 DEF Free
<1> QED
  BY <1>3, FileMutationAssumption DEF Op

\* When a call is at work, the earlier ones for its file are over.
LEMMA NobodyAhead ==
    ASSUME IndInv, FileState, NEW o \in Op, NEW p \in Op,
           stage[o] \in Working, p < o, FileOf(path[o]) = FileOf(path[p])
    PROVE  stage[p] \in Settled
<1> USE FileMutationAssumption DEF Op
<1>1. Free(o) /\ stage[o] \in LiveStage /\ key[o] \in Path
  BY FirstIsFree
<1>2. Registered(o) /\ stage[o] # "idle"
  BY <1>1 DEF Registered, LiveStage, Path
<1>3. stage[p] # "idle"
  BY <1>2 DEF IndInv, RegistrationFifo
<1>4. stage[p] \notin {"registering", "resolved"}
  BY <1>2 DEF IndInv, KeyedInOrder
<1>5. stage[p] \notin LiveStage
  <2> SUFFICES ASSUME stage[p] \in LiveStage PROVE FALSE
    OBVIOUS
  <2>1. key[p] \in Path
    BY DEF IndInv, KeyedInOrder
  <2>2. key[p] = key[o]
    BY <1>1, <2>1 DEF FileState, Path
  <2> QED
    BY <1>1, <2>2 DEF Free
<1>6. stage[p] \in Stage
  BY DEF IndInv, TypeOK
<1> QED
  BY <1>3, <1>4, <1>5, <1>6 DEF Stage, LiveStage, Settled

\* The invariant about the files is kept by every step.
LEMMA FileStateStep ==
    ASSUME IndInv, FileState, [Next]_vars
    PROVE  FileState'
<1> USE FileMutationAssumption DEF inputs
<1>0. TypeOK /\ \A o \in Op : FileOf(path[o]) \in File
  BY PathsLead DEF IndInv
\* Steps that leave the files alone.
<1>a. ASSUME NEW o \in Op, NEW s \in Stage \ {"ready", "writing"},
             stage' = [stage EXCEPT ![o] = s],
             UNCHANGED <<kind, path, key, exists, content, before, seen>>
      PROVE  FileState'
  <2>1. \A p \in Op : stage'[p] \in {"ready", "writing"} => stage'[p] = stage[p]
    BY <1>0, <1>a DEF TypeOK
  <2> QED
    BY <1>a, <2>1 DEF FileState, FileOf
<1>1. ASSUME NEW o \in Op, Execute(o)
      PROVE  FileState'
  BY <1>1, <1>a DEF Execute, Stage
<1>2. ASSUME NEW o \in Op, ResolveKey(o)
      PROVE  FileState'
  <2>1. CASE key' = key
    BY <2>1, <1>2, <1>a DEF ResolveKey, Stage, Settled
  <2>2. CASE /\ stage' = [stage EXCEPT ![o] = "resolved"]
             /\ key' = [key EXCEPT ![o] = MutationQueueKey(o)]
    <3>1. MutationQueueKey(o) = FileOf(path[o])
      BY <1>0 DEF MutationQueueKey, FileOf, FileState, TypeOK, Path
    <3>2. \A p \in Op : key'[p] # None => key'[p] = FileOf(path[p])
      BY <2>2, <3>1, <1>0 DEF FileState, TypeOK
    <3>3. \A p \in Op : stage'[p] \in {"ready", "writing"} => stage'[p] = stage[p]
      BY <1>0, <2>2 DEF TypeOK
    <3>4. UNCHANGED <<kind, path, exists, content, before, seen>>
      BY <1>2 DEF ResolveKey
    <3> QED
      BY <3>2, <3>3, <3>4 DEF FileState, FileOf
  <2> QED
    BY <1>2, <2>1, <2>2 DEF ResolveKey
<1>3. ASSUME NEW o \in Op, Register(o)
      PROVE  FileState'
  BY <1>3, <1>a DEF Register, Stage
<1>4. ASSUME NEW o \in Op, Begin(o)
      PROVE  FileState'
  BY <1>4, <1>a DEF Begin, Finally, Stage, Settled
<1>5. ASSUME NEW o \in Op, Prepared(o)
      PROVE  FileState'
  <2>1. CASE stage' = [stage EXCEPT ![o] = "failed"] /\ seen' = seen
    BY <2>1, <1>5, <1>a DEF Prepared, Stage, Settled
  <2>2. CASE /\ stage' = [stage EXCEPT ![o] = "ready"]
             /\ seen' = [seen EXCEPT ![o] = IF kind[o] = "edit" THEN content[FileOf(path[o])]
                                                                ELSE {}]
    BY <2>2, <1>5, <1>0 DEF Prepared, FileState, TypeOK, FileOf
  <2> QED
    BY <1>5, <2>1, <2>2 DEF Prepared, Finally
<1>6. ASSUME NEW o \in Op, OpenForWrite(o)
      PROVE  FileState'
  <2> DEFINE f == FileOf(path[o])
  <2>0. /\ stage[o] = "ready" /\ stage[o] \in Working /\ f \in File
        /\ UNCHANGED <<kind, path, key>>
    BY <1>6, <1>0 DEF OpenForWrite, Working
  <2>1. CASE /\ stage' = [stage EXCEPT ![o] = "writing"]
             /\ exists' = [exists EXCEPT ![f] = TRUE]
             /\ before' = [before EXCEPT ![f] = content[f]]
             /\ content' = [content EXCEPT ![f] = {}]
             /\ seen' = seen
    <3>1. \A p \in Op \ {o} : stage[p] \in {"ready", "writing"} => FileOf(path[p]) # f
      BY <2>0, OneAtWork DEF Working
    <3>2. /\ stage'[o] = "writing" /\ content'[f] = {} /\ before'[f] = content[f]
          /\ \A p \in Op \ {o} : stage'[p] = stage[p]
          /\ \A g \in File \ {f} : content'[g] = content[g] /\ before'[g] = before[g]
      BY <2>0, <2>1, <1>0 DEF TypeOK
    <3>3. exists'[Linked]
      BY <2>1, <1>0 DEF FileState, TypeOK
    <3>4. \A p \in Op : key'[p] # None => key'[p] = FileOf(path'[p])
      BY <2>0 DEF FileState
    <3>5. \A p \in Op : stage'[p] \in {"ready", "writing"} /\ kind'[p] = "write" => seen'[p] = {}
      BY <2>0, <2>1, <3>2 DEF FileState
    <3>6. \A p \in Op : stage'[p] = "ready" /\ kind'[p] = "edit"
                           => seen'[p] = content'[FileOf(path'[p])]
      BY <2>0, <2>1, <3>1, <3>2, <1>0 DEF FileState
    <3>7. \A p \in Op : stage'[p] = "writing" =>
                          /\ content'[FileOf(path'[p])] = {}
                          /\ kind'[p] = "edit" => seen'[p] = before'[FileOf(path'[p])]
      BY <2>0, <2>1, <3>1, <3>2, <1>0 DEF FileState
    <3> QED
      BY <3>3, <3>4, <3>5, <3>6, <3>7 DEF FileState, FileOf
  <2>2. CASE /\ stage' = [stage EXCEPT ![o] = "failed"]
             /\ seen' = [seen EXCEPT ![o] = {}]
             /\ UNCHANGED <<exists, before, content>>
    BY <2>0, <2>2, <1>0 DEF FileState, TypeOK, FileOf
  <2> QED
    BY <1>6, <2>1, <2>2 DEF OpenForWrite, Finally
<1>7. ASSUME NEW o \in Op, WriteFile(o)
      PROVE  FileState'
  <2> DEFINE f == FileOf(path[o])
  <2>0. /\ stage[o] = "writing" /\ stage[o] \in Working /\ f \in File
        /\ UNCHANGED <<kind, path, key, exists>>
    BY <1>7, <1>0 DEF WriteFile, Working
  <2>1. \A p \in Op \ {o} : stage[p] \in {"ready", "writing"} => FileOf(path[p]) # f
    BY <2>0, OneAtWork DEF Working
  <2>2. /\ stage'[o] \notin {"ready", "writing"}
        /\ \A p \in Op \ {o} : stage'[p] = stage[p] /\ seen'[p] = seen[p]
        /\ \A g \in File \ {f} : content'[g] = content[g] /\ before'[g] = before[g]
    BY <2>0, <1>7, <1>0 DEF WriteFile, Finally, TypeOK
  <2> QED
    BY <2>0, <2>1, <2>2, <1>0 DEF FileState, FileOf
<1>8. ASSUME NEW o \in Op, Diagnosed(o)
      PROVE  FileState'
  BY <1>8, <1>a DEF Diagnosed, Finally, Stage, Settled
<1>9. CASE Abort \/ UNCHANGED vars
  BY <1>9 DEF Abort, vars, FileState, FileOf
<1> QED
  BY <1>1, <1>2, <1>3, <1>4, <1>5, <1>6, <1>7, <1>8, <1>9 DEF Next, Step

\* Every step is a step of AtomicFiles or invisible to it.
LEMMA StepRefines ==
    ASSUME IndInv, FileState, [Next]_vars
    PROVE  [Files!Next]_(Files!avars)
<1> USE FileMutationAssumption DEF inputs
<1> DEFINE ph == [o \in Op |-> Phase(o)]
           sh == [f \in File |-> Shown(f)]
           of == [o \in Op |-> FileOf(path[o])]
           Invisible == ph' = ph /\ sh' = sh /\ kind' = kind /\ of' = of
           Answered(o) == /\ ph' = [ph EXCEPT ![o] = IF ph[o] = "applied" THEN "ok" ELSE "failed"]
                          /\ ph[o] \in {"pending", "applied"}
                          /\ sh' = sh /\ kind' = kind /\ of' = of
<1>0. TypeOK /\ \A o \in Op : FileOf(path[o]) \in File
  BY PathsLead DEF IndInv
<1>i. ASSUME Invisible PROVE [Files!Next]_(Files!avars)
  BY <1>i DEF Files!avars
<1>r. ASSUME NEW o \in Op, Answered(o) PROVE [Files!Next]_(Files!avars)
  BY <1>r DEF Files!Next, Files!Answer
\* A step that neither begins nor ends a write, and moves o alone.
<1>s. ASSUME NEW o \in Op, NEW s \in Stage, stage' = [stage EXCEPT ![o] = s],
             stage[o] # "writing", s # "writing",
             UNCHANGED <<kind, path, content, before>>
      PROVE  /\ sh' = sh /\ kind' = kind /\ of' = of
             /\ \A p \in Op \ {o} : ph'[p] = ph[p]
             /\ stage'[o] = s
  <2>1. stage'[o] = s /\ \A p \in Op \ {o} : stage'[p] = stage[p]
    BY <1>s, <1>0 DEF TypeOK
  <2>2. \A p \in Op : stage'[p] = "writing" <=> stage[p] = "writing"
    BY <2>1, <1>s
  <2>3. \A p \in Op \ {o} : ph'[p] = ph[p]
    BY <2>1 DEF Phase
  <2>4. ASSUME NEW f \in File PROVE Shown(f)' = Shown(f)
    BY <2>2, <1>s DEF Shown, FileOf
  <2>5. of' = of
    BY <1>s DEF FileOf
  <2> QED
    BY <1>s, <2>1, <2>3, <2>4, <2>5
<1>p. \A o \in Op : ph[o] = Phase(o) /\ ph'[o] = Phase(o)'
  OBVIOUS
<1>1. ASSUME NEW o \in Op, Execute(o)
      PROVE  [Files!Next]_(Files!avars)
  <2>1. /\ sh' = sh /\ kind' = kind /\ of' = of
        /\ \A p \in Op \ {o} : ph'[p] = ph[p]
        /\ stage'[o] = "registering"
    BY <1>1, <1>s DEF Execute, Stage
  <2>2. ph[o] = "idle" /\ ph'[o] = "pending"
    BY <1>1, <2>1 DEF Execute, Phase, Settled
  <2>3. ph' = [ph EXCEPT ![o] = "pending"]
    BY <2>1, <2>2
  <2>4. \A p \in Op : p < o => ph[p] # "idle"
    BY <1>1, <1>0 DEF Execute, Phase, TypeOK, Stage, Settled
  <2> QED
    BY <2>1, <2>2, <2>3, <2>4 DEF Files!Next, Files!Start
\* A step of a pending call that stays pending, or fails.
<1>q. ASSUME NEW o \in Op, stage[o] \in Stage \ ({"idle", "written", "writing"} \cup Settled),
             UNCHANGED <<kind, path, content, before>>,
             NEW s \in Stage \ {"idle", "written", "writing", "ok"},
             stage' = [stage EXCEPT ![o] = s]
      PROVE  [Files!Next]_(Files!avars)
  <2>1. /\ sh' = sh /\ kind' = kind /\ of' = of
        /\ \A p \in Op \ {o} : ph'[p] = ph[p]
        /\ stage'[o] = s
    BY <1>q, <1>s
  <2>2. ph[o] = "pending"
    BY <1>q DEF Phase, Settled
  <2>3. CASE s = "failed"
    <3>1. ph'[o] = "failed"
      BY <2>1, <2>3 DEF Phase, Settled
    <3>2. Answered(o)
      BY <2>1, <2>2, <3>1
    <3> QED
      BY <3>2, <1>r
  <2>4. CASE s # "failed"
    <3>1. ph'[o] = "pending"
      BY <2>1, <2>4, <1>q DEF Phase, Settled
    <3>2. Invisible
      BY <2>1, <2>2, <3>1
    <3> QED
      BY <3>2, <1>i
  <2> QED
    BY <2>3, <2>4
<1>2. ASSUME NEW o \in Op, ResolveKey(o)
      PROVE  [Files!Next]_(Files!avars)
  BY <1>2, <1>q DEF ResolveKey, CanRegister, Stage, Settled
<1>3. ASSUME NEW o \in Op, Register(o)
      PROVE  [Files!Next]_(Files!avars)
  BY <1>3, <1>q DEF Register, Stage, Settled
<1>4. ASSUME NEW o \in Op, Begin(o)
      PROVE  [Files!Next]_(Files!avars)
  BY <1>4, <1>q DEF Begin, MayBegin, Finally, Stage, Settled
<1>5. ASSUME NEW o \in Op, Prepared(o)
      PROVE  [Files!Next]_(Files!avars)
  BY <1>5, <1>q DEF Prepared, Finally, Stage, Settled
<1>6. ASSUME NEW o \in Op, OpenForWrite(o)
      PROVE  [Files!Next]_(Files!avars)
  <2> DEFINE f == FileOf(path[o])
  <2>0. stage[o] = "ready" /\ stage[o] \in Working /\ f \in File /\ UNCHANGED <<kind, path>>
    BY <1>6, <1>0 DEF OpenForWrite, Working
  <2>1. CASE /\ stage' = [stage EXCEPT ![o] = "writing"]
             /\ before' = [before EXCEPT ![f] = content[f]]
             /\ content' = [content EXCEPT ![f] = {}]
    <3>1. /\ stage'[o] = "writing" /\ \A p \in Op \ {o} : stage'[p] = stage[p]
          /\ before'[f] = content[f]
          /\ \A g \in File \ {f} : content'[g] = content[g] /\ before'[g] = before[g]
      BY <2>0, <2>1, <1>0 DEF TypeOK
    <3>2. \A p \in Op \ {o} : stage[p] = "writing" => FileOf(path[p]) # f
      BY <2>0, OneAtWork DEF Working
    <3>3. ph' = ph
      BY <2>0, <3>1 DEF Phase, Settled
    <3>4. ASSUME NEW g \in File PROVE Shown(g)' = Shown(g)
      <4>1. CASE g = f
        <5>1. Shown(g) = content[f]
          BY <4>1, <3>2, <2>0 DEF Shown
        <5>2. Shown(g)' = before'[f]
          BY <4>1, <3>1, <2>0 DEF Shown, FileOf
        <5> QED
          BY <5>1, <5>2, <3>1
      <4>2. CASE g # f
        <5>1. (\E p \in Op : stage[p] = "writing" /\ FileOf(path[p]) = g)
               <=> (\E p \in Op : stage'[p] = "writing" /\ FileOf(path'[p]) = g)
          BY <4>2, <3>1, <2>0
        <5> QED
          BY <5>1, <4>2, <3>1 DEF Shown, FileOf
      <4> QED
        BY <4>1, <4>2
    <3>5. Invisible
      BY <2>0, <3>3, <3>4 DEF FileOf
    <3> QED
      BY <3>5, <1>i
  <2>2. CASE stage' = [stage EXCEPT ![o] = "failed"] /\ UNCHANGED <<before, content>>
    BY <2>0, <2>2, <1>q DEF Stage, Settled
  <2> QED
    BY <1>6, <2>1, <2>2 DEF OpenForWrite, Finally
<1>7. ASSUME NEW o \in Op, WriteFile(o)
      PROVE  [Files!Next]_(Files!avars)
  <2> DEFINE f == FileOf(path[o])
  <2>0. stage[o] = "writing" /\ stage[o] \in Working /\ f \in File /\ UNCHANGED <<kind, path>>
    BY <1>7, <1>0 DEF WriteFile, Working
  <2>1. /\ \A p \in Op \ {o} : stage'[p] = stage[p]
        /\ \A g \in File \ {f} : content'[g] = content[g] /\ before'[g] = before[g]
        /\ \/ content'[f] = seen[o] \cup {o} /\ stage'[o] \in {"written", "failed"}
           \/ content'[f] = content[f] /\ stage'[o] = "failed"
    BY <2>0, <1>7, <1>0 DEF WriteFile, Finally, TypeOK
  <2>2. \A p \in Op \ {o} : stage[p] = "writing" => FileOf(path[p]) # f
    BY <2>0, OneAtWork DEF Working
  <2>3. /\ content[f] = {} /\ kind[o] \in {"edit", "write"}
        /\ kind[o] = "edit" => seen[o] = before[f]
        /\ kind[o] = "write" => seen[o] = {}
    BY <2>0, <1>0 DEF FileState, TypeOK
  <2>4. Shown(f) = before[f]
    BY <2>0 DEF Shown
  <2>5. Shown(f)' = content'[f]
    BY <2>0, <2>1, <2>2 DEF Shown, FileOf
  <2>6. ASSUME NEW g \in File, g # f PROVE Shown(g)' = Shown(g)
    <3>1. (\E p \in Op : stage[p] = "writing" /\ FileOf(path[p]) = g)
           <=> (\E p \in Op : stage'[p] = "writing" /\ FileOf(path'[p]) = g)
      BY <2>6, <2>1, <2>0
    <3> QED
      BY <3>1, <2>6, <2>1 DEF Shown, FileOf
  <2>7. /\ ph[o] = "pending" /\ kind' = kind /\ of' = of /\ of[o] = f
        /\ \A p \in Op \ {o} : ph'[p] = ph[p]
    BY <2>0, <2>1 DEF Phase, Settled, FileOf
  <2>8. ~\E p \in Op : Files!Ahead(p, o)
    <3> SUFFICES ASSUME NEW p \in Op, Files!Ahead(p, o) PROVE FALSE
      OBVIOUS
    <3>1. p < o /\ FileOf(path[p]) = f /\ Phase(p) = "pending"
      BY DEF Files!Ahead
    <3>2. stage[p] \in Settled
      BY <2>0, <3>1, NobodyAhead
    <3> QED
      BY <3>1, <3>2 DEF Phase, Settled
  <2>9. CASE content'[f] = seen[o] \cup {o} /\ stage'[o] \in {"written", "failed"}
    <3>1. ph'[o] \in {"applied", "failed"}
      BY <2>9 DEF Phase, Settled
    <3>2. ph' = [ph EXCEPT ![o] = ph'[o]]
      BY <2>7
    <3>3. sh' = [sh EXCEPT ![of[o]] = IF kind[o] = "edit" THEN sh[f] \cup {o} ELSE {o}]
      BY <2>3, <2>4, <2>5, <2>6, <2>7, <2>9, <2>0
    <3> QED
      BY <2>0, <2>7, <2>8, <3>1, <3>2, <3>3 DEF Files!Next, Files!Apply
  <2>10. CASE content'[f] = content[f] /\ stage'[o] = "failed"
    <3>1. ph'[o] = "failed"
      BY <2>10 DEF Phase, Settled
    <3>2. ph' = [ph EXCEPT ![o] = "failed"]
      BY <2>7, <3>1
    <3>3. sh' = [sh EXCEPT ![of[o]] = {}]
      BY <2>3, <2>4, <2>5, <2>6, <2>7, <2>10, <2>0
    <3> QED
      BY <2>7, <2>8, <3>2, <3>3 DEF Files!Next, Files!Apply
  <2> QED
    BY <2>1, <2>9, <2>10
<1>8. ASSUME NEW o \in Op, Diagnosed(o)
      PROVE  [Files!Next]_(Files!avars)
  <2>1. /\ sh' = sh /\ kind' = kind /\ of' = of
        /\ \A p \in Op \ {o} : ph'[p] = ph[p]
        /\ stage'[o] = "ok"
    BY <1>8, <1>s DEF Diagnosed, Finally, Stage, Settled
  <2>2. ph[o] = "applied" /\ ph'[o] = "ok"
    BY <2>1, <1>8 DEF Diagnosed, Phase, Settled
  <2>3. Answered(o)
    BY <2>1, <2>2
  <2> QED
    BY <2>3, <1>r
<1>9. CASE Abort \/ UNCHANGED vars
  <2>1. Invisible
    BY <1>9 DEF Abort, vars, Phase, Shown, FileOf
  <2> QED
    BY <2>1, <1>i
<1> QED
  BY <1>1, <1>2, <1>3, <1>4, <1>5, <1>6, <1>7, <1>8, <1>9 DEF Next, Step

\* Where the links lead to existing files, parallel edits and writes of one
\* file behave as if each happened at one instant, in call order (the comment
\* in edit.ts on keeping the queue locked until the operation has settled).
THEOREM QueueImplementsAtomicFiles ==
    ASSUME Linked \notin Missing
    PROVE  Spec => ImplementsAtomicFiles
<1>1. Init => Files!Init
  <2> SUFFICES ASSUME Init PROVE Files!Init
    OBVIOUS
  <2>1. TypeOK /\ \A o \in Op : FileOf(path[o]) \in File
    BY IndInvInit, PathsLead DEF IndInv
  <2>2. \A o \in Op : Phase(o) = "idle"
    BY DEF Init, Phase
  <2>3. \A f \in File : Shown(f) = {}
    BY DEF Init, Shown
  <2>4. kind \in [Op -> {"edit", "write"}]
    BY <2>1 DEF TypeOK
  <2> QED
    BY <2>1, <2>2, <2>3, <2>4 DEF Files!Init
<1>2. Init => FileState
  BY FileMutationAssumption DEF Init, FileState
<1>3. IndInv /\ FileState /\ [Next]_vars => FileState'
  BY FileStateStep
<1>4. IndInv /\ FileState /\ [Next]_vars => [Files!Next]_(Files!avars)
  BY StepRefines
<1> QED
  BY <1>1, <1>2, <1>3, <1>4, IndInvAlways, PTL DEF Spec, ImplementsAtomicFiles, Files!Spec

-----------------------------------------------------------------------------
(* DELEGATION TO WORKERS *)

\* A turn that is not over is the one its conversation, while the directory
\* holds it, says it runs; when the directory no longer does, the worker has
\* been told to stop.
TurnOwned ==
    \A r \in DOMAIN run :
      run[r].conv # 0 =>
        /\ run[r].worker = record[run[r].conv].worker
        /\ run[r].stage # "done" /\ run[r].conv \in stored =>
             record[run[r].conv].status = "running" /\ record[run[r].conv].controller = r
        /\ run[r].stage = "running" /\ run[r].conv \notin stored => run[r].aborted

OneShotRuns == {r \in DOMAIN run : run[r].conv = 0 /\ run[r].stage = "running"}

OneShotRunsOf(w) == {r \in OneShotRuns : run[r].worker = w}

\* The counters count the one-shot runs under way, and what is counted is
\* within the limits.
Counted ==
    /\ \A w \in Worker : Cardinality(OneShotRunsOf(w)) = oneShots[w]
    /\ Cardinality(OneShotRuns) = ActiveOneShots
    /\ Cardinality(stored) <= MaxConversations
    /\ Cardinality(Running) + ActiveOneShots <= MaxActive
    /\ \A w \in Worker : Cardinality(RunningOf(w)) + oneShots[w] <= MaxActivePerWorker

DirectoryInv == DirectoryTypeOK /\ TurnOwned /\ Counted

-----------------------------------------------------------------------------
(* The sequences of records, runs and sends. *)

\* t is s followed by the n elements of f.
Extension(t, s, f, n, S) ==
    /\ t \in Seq(S)
    /\ Len(t) = Len(s) + n
    /\ DOMAIN t = 1..(Len(s) + n)
    /\ \A i \in 1..Len(s) : t[i] = s[i]
    /\ \A i \in 1..n : t[Len(s) + i] = f[i]
    /\ \A k \in 1..(Len(s) + n) : k \in 1..Len(s) \/ \E i \in 1..n : k = Len(s) + i

\* Appending the elements of a function on 1..n to a sequence.
LEMMA SeqExtended ==
    ASSUME NEW S, NEW s \in Seq(S), NEW n \in Nat, NEW f \in [1..n -> S]
    PROVE  Extension(s \o f, s, f, n, S)
  <1>1. f \in Seq(S) /\ Len(f) = n
    BY SeqDef
  <1>2. s \o f \in Seq(S) /\ Len(s \o f) = Len(s) + n
    BY <1>1, ConcatProperties
  <1>3. \A i \in 1..Len(s) : (s \o f)[i] = s[i]
    BY <1>1, ConcatProperties, LenProperties
  <1>4. \A i \in 1..n : (s \o f)[Len(s) + i] = f[i]
    BY <1>1, ConcatProperties, LenProperties
  <1>5. \A k \in 1..(Len(s) + n) : k \in 1..Len(s) \/ \E i \in 1..n : k = Len(s) + i
    <2> SUFFICES ASSUME NEW k \in 1..(Len(s) + n), k \notin 1..Len(s)
                 PROVE  k - Len(s) \in 1..n /\ k = Len(s) + (k - Len(s))
      OBVIOUS
    <2> QED
      BY LenProperties
  <1> QED
    BY <1>2, <1>3, <1>4, <1>5, LenProperties DEF Extension

\* What the type says of runs, records and sends, element by element.
LEMMA Elements ==
    ASSUME DirectoryTypeOK
    PROVE  /\ DOMAIN run = 1..Len(run) /\ Len(run) \in Nat
           /\ DOMAIN record = 1..Len(record) /\ Len(record) \in Nat
           /\ DOMAIN send = 1..Len(send) /\ Len(send) \in Nat
           /\ \A r \in DOMAIN run : run[r] \in WorkerRun
           /\ \A c \in DOMAIN record : record[c] \in ConversationRecord
           /\ \A s \in DOMAIN send : send[s] \in ChatSendCall
  BY LenProperties, ElementOfSeq DEF DirectoryTypeOK

\* requestAbort changes nothing but the signals of the runs it reaches.
LEMMA AbortedRuns ==
    ASSUME DirectoryTypeOK, NEW rs, run' = Aborted(rs)
    PROVE  /\ run' \in Seq(WorkerRun)
           /\ Len(run') = Len(run)
           /\ DOMAIN run' = DOMAIN run
           /\ \A r \in DOMAIN run :
                /\ run'[r].worker = run[r].worker
                /\ run'[r].conv = run[r].conv
                /\ run'[r].stage = run[r].stage
                /\ run[r].aborted => run'[r].aborted
                /\ r \in rs /\ run[r].stage = "running" => run'[r].aborted
  <1>1. run \in Seq(WorkerRun)
    BY DEF DirectoryTypeOK
  <1>2. \A r \in DOMAIN run : run[r] \in WorkerRun
    BY Elements
  <1>3. DOMAIN run' = DOMAIN run
    BY DEF Aborted
  <1>4. \A r \in DOMAIN run :
          run'[r] = IF r \in rs /\ run[r].stage = "running"
                    THEN [run[r] EXCEPT !.aborted = TRUE] ELSE run[r]
    BY DEF Aborted
  <1>5. \A r \in DOMAIN run : run'[r] \in WorkerRun
    BY <1>2, <1>4 DEF WorkerRun
  <1>6. run' \in Seq(WorkerRun) /\ Len(run') = Len(run)
    <2>1. run' \in [1..Len(run) -> WorkerRun]
      BY <1>3, <1>5, Elements DEF Aborted
    <2> QED
      BY <2>1, Elements, SeqDef
  <1>7. ASSUME NEW r \in DOMAIN run
        PROVE  /\ run'[r].worker = run[r].worker
               /\ run'[r].conv = run[r].conv
               /\ run'[r].stage = run[r].stage
               /\ run[r].aborted => run'[r].aborted
               /\ r \in rs /\ run[r].stage = "running" => run'[r].aborted
    <2>1. CASE r \in rs /\ run[r].stage = "running"
      <3>1. run'[r] = [run[r] EXCEPT !.aborted = TRUE]
        BY <1>4, <2>1
      <3> QED
        BY <3>1, <1>2 DEF WorkerRun
    <2>2. CASE ~(r \in rs /\ run[r].stage = "running")
      BY <1>4, <2>2
    <2> QED
      BY <2>1, <2>2
  <1> QED
    BY <1>3, <1>6, <1>7

\* A run added to the others.
LEMMA RunAdded ==
    ASSUME DirectoryTypeOK, NEW n \in WorkerRun, run' = Append(run, n)
    PROVE  /\ run' \in Seq(WorkerRun)
           /\ Len(run') = Len(run) + 1
           /\ DOMAIN run' = 1..(Len(run) + 1)
           /\ \A r \in DOMAIN run : run'[r] = run[r]
           /\ run'[Len(run) + 1] = n
  <1>1. run \in Seq(WorkerRun)
    BY DEF DirectoryTypeOK
  <1> QED
    BY <1>1, AppendProperties, LenProperties

\* startConversations adds a record and a run for each of the workers.
LEMMA StartEffect ==
    ASSUME DirectoryTypeOK, NEW ws \in Seq(Worker), NEW a \in BOOLEAN, Start(ws, a)
    PROVE  /\ record' \in Seq(ConversationRecord) /\ run' \in Seq(WorkerRun)
           /\ Len(record') = Len(record) + Len(ws) /\ Len(run') = Len(run) + Len(ws)
           /\ DOMAIN record' = 1..(Len(record) + Len(ws)) /\ DOMAIN run' = 1..(Len(run) + Len(ws))
           /\ \A c \in DOMAIN record : record'[c] = record[c]
           /\ \A r \in DOMAIN run : run'[r] = run[r]
           /\ \A i \in 1..Len(ws) :
                /\ record'[Len(record) + i].worker = ws[i]
                /\ record'[Len(record) + i].status = "running"
                /\ record'[Len(record) + i].controller = Len(run) + i
                /\ record'[Len(record) + i].updated = clock + 1
                /\ run'[Len(run) + i].worker = ws[i]
                /\ run'[Len(run) + i].conv = Len(record) + i
                /\ run'[Len(run) + i].stage = "running"
                /\ run'[Len(run) + i].aborted = a
           /\ \A c \in DOMAIN record' : c \in DOMAIN record \/ \E i \in 1..Len(ws) : c = Len(record) + i
           /\ \A r \in DOMAIN run' : r \in DOMAIN run \/ \E i \in 1..Len(ws) : r = Len(run) + i
  <1> DEFINE recs == [i \in 1..Len(ws) |-> [worker |-> ws[i], status |-> "running",
                                            controller |-> Len(run) + i, updated |-> clock + 1]]
             runs == [i \in 1..Len(ws) |-> [worker |-> ws[i], conv |-> Len(record) + i,
                                            stage |-> "running", aborted |-> a]]
  <1>1. DOMAIN ws = 1..Len(ws) /\ Len(ws) \in Nat /\ \A i \in 1..Len(ws) : ws[i] \in Worker
    BY LenProperties, ElementOfSeq
  <1>2. record \in Seq(ConversationRecord) /\ run \in Seq(WorkerRun) /\ clock \in Nat
    BY DEF DirectoryTypeOK
  <1>3. Len(record) \in Nat /\ Len(run) \in Nat
    BY Elements
  <1>11. record \in Seq(ConversationRecord)
    BY <1>2
  <1>12. run \in Seq(WorkerRun)
    BY <1>2
  <1>13. Len(ws) \in Nat
    BY <1>1
  <1>4. recs \in [1..Len(ws) -> ConversationRecord]
    BY <1>1, <1>2, <1>3 DEF ConversationRecord
  <1>5. runs \in [1..Len(ws) -> WorkerRun]
    BY <1>1, <1>2, <1>3 DEF WorkerRun
  <1>6. record' = record \o recs
    BY <1>1 DEF Start
  <1>7. run' = run \o runs
    <2>1. \A i \in 1..Len(ws) : Signalled(NewRun(ws[i], Len(record) + i), a) = runs[i]
      BY DEF Signalled, NewRun
    <2>2. [i \in 1..Len(ws) |-> Signalled(NewRun(ws[i], Len(record) + i), a)] = runs
      BY <2>1
    <2> QED
      BY <2>2, <1>1 DEF Start
  <1>8. \A i \in 1..Len(ws) :
          /\ recs[i].worker = ws[i] /\ recs[i].status = "running"
          /\ recs[i].controller = Len(run) + i /\ recs[i].updated = clock + 1
          /\ runs[i].worker = ws[i] /\ runs[i].conv = Len(record) + i
          /\ runs[i].stage = "running" /\ runs[i].aborted = a
    OBVIOUS
  <1> HIDE DEF recs, runs
  <1>9. Extension(record', record, recs, Len(ws), ConversationRecord)
    BY SeqExtended, <1>6, <1>11, <1>13, <1>4
  <1>10. Extension(run', run, runs, Len(ws), WorkerRun)
    BY SeqExtended, <1>7, <1>12, <1>13, <1>5
  <1>14. \A i \in 1..Len(ws) : record'[Len(record) + i] = recs[i] /\ run'[Len(run) + i] = runs[i]
    BY <1>9, <1>10 DEF Extension
  <1>15. \A i \in 1..Len(ws) :
           /\ record'[Len(record) + i].worker = ws[i]
           /\ record'[Len(record) + i].status = "running"
           /\ record'[Len(record) + i].controller = Len(run) + i
           /\ record'[Len(record) + i].updated = clock + 1
           /\ run'[Len(run) + i].worker = ws[i]
           /\ run'[Len(run) + i].conv = Len(record) + i
           /\ run'[Len(run) + i].stage = "running"
           /\ run'[Len(run) + i].aborted = a
    BY <1>8, <1>14
  <1> QED
    BY <1>9, <1>10, <1>15, Elements DEF Extension


-----------------------------------------------------------------------------
(* Types, and who owns a turn. *)

\* The part of the type invariant about conversations and runs.
CoreTypeOK ==
    /\ record \in Seq(ConversationRecord)
    /\ run \in Seq(WorkerRun)
    /\ \A c \in DOMAIN record : record[c].controller \in 0..Len(run) /\ record[c].updated <= clock
    /\ \A r \in DOMAIN run : run[r].conv \in 0..Len(record)
    /\ stored \subseteq DOMAIN record
    /\ clock \in Nat

\* The same with what a step does to it; no run or record is taken away.
CoreStep ==
    /\ CoreTypeOK'
    /\ TurnOwned'
    /\ Len(record) <= Len(record') /\ Len(run) <= Len(run')

\* The conversations kept are among those there were, with all that run.
LEMMA KeptSome ==
    ASSUME NEW s, NEW rec, NEW room
    PROVE  /\ Kept(s, rec, room) \subseteq s
           /\ \A c \in s : rec[c].status = "running" => c \in Kept(s, rec, room)
  BY DEF Kept

\* New conversations own their turns; the evicted ones have none.
LEMMA StartCore ==
    ASSUME DirectoryTypeOK, TurnOwned, NEW ws \in Seq(Worker), NEW a \in BOOLEAN, Start(ws, a)
    PROVE  CoreStep
  <1> DEFINE kept == Kept(stored, record, MaxConversations - Len(ws))
  <1>1. /\ record' \in Seq(ConversationRecord) /\ run' \in Seq(WorkerRun)
        /\ Len(record') = Len(record) + Len(ws) /\ Len(run') = Len(run) + Len(ws)
        /\ DOMAIN record' = 1..(Len(record) + Len(ws)) /\ DOMAIN run' = 1..(Len(run) + Len(ws))
    BY StartEffect
  <1>2. /\ \A c \in DOMAIN record : record'[c] = record[c]
        /\ \A r \in DOMAIN run : run'[r] = run[r]
    BY StartEffect
  <1>3. \A i \in 1..Len(ws) :
          /\ record'[Len(record) + i].worker = ws[i]
          /\ record'[Len(record) + i].status = "running"
          /\ record'[Len(record) + i].controller = Len(run) + i
          /\ record'[Len(record) + i].updated = clock + 1
          /\ run'[Len(run) + i].worker = ws[i]
          /\ run'[Len(run) + i].conv = Len(record) + i
          /\ run'[Len(run) + i].stage = "running"
          /\ run'[Len(run) + i].aborted = a
    BY StartEffect
  <1>4. \A c \in DOMAIN record' : c \in DOMAIN record \/ \E i \in 1..Len(ws) : c = Len(record) + i
    BY StartEffect
  <1>5. \A r \in DOMAIN run' : r \in DOMAIN run \/ \E i \in 1..Len(ws) : r = Len(run) + i
    BY StartEffect
  <1>6. Len(ws) \in Nat /\ DOMAIN ws = 1..Len(ws)
    BY LenProperties
  <1>7. stored' = kept \cup {Len(record) + i : i \in 1..Len(ws)} /\ clock' = clock + 1
    BY <1>6 DEF Start, Tick
  <1>8. kept \subseteq stored /\ \A c \in stored : record[c].status = "running" => c \in kept
    BY KeptSome
  <1>9. stored \subseteq 1..Len(record) /\ clock \in Nat
    BY Elements DEF DirectoryTypeOK
  <1>10. /\ DOMAIN run = 1..Len(run) /\ Len(run) \in Nat
         /\ DOMAIN record = 1..Len(record) /\ Len(record) \in Nat
    BY Elements
  <1> HIDE DEF kept
  <1>11. CoreTypeOK'
    <2>1. ASSUME NEW c \in DOMAIN record'
          PROVE  record'[c].controller \in 0..Len(run') /\ record'[c].updated <= clock'
      <3>1. CASE c \in DOMAIN record
        <4>1. record[c].controller \in 0..Len(run) /\ record[c].updated <= clock
          BY <3>1 DEF DirectoryTypeOK
        <4>2. record[c].updated \in Nat
          BY <3>1, Elements DEF ConversationRecord
        <4> QED
          BY <3>1, <4>1, <4>2, <1>1, <1>2, <1>6, <1>7, <1>9, <1>10
      <3>2. ASSUME NEW i \in 1..Len(ws), c = Len(record) + i
            PROVE  record'[c].controller \in 0..Len(run') /\ record'[c].updated <= clock'
        <4>1. record'[c].controller = Len(run) + i /\ record'[c].updated = clock + 1
          BY <3>2, <1>3
        <4> QED
          BY <4>1, <1>1, <1>6, <1>7, <1>9, <1>10
      <3> QED
        BY <3>1, <3>2, <1>4
    <2>2. ASSUME NEW r \in DOMAIN run'
          PROVE  run'[r].conv \in 0..Len(record')
      <3>1. CASE r \in DOMAIN run
        <4>1. run[r].conv \in 0..Len(record)
          BY <3>1 DEF DirectoryTypeOK
        <4> QED
          BY <3>1, <4>1, <1>1, <1>2, <1>6, <1>10
      <3>2. ASSUME NEW i \in 1..Len(ws), r = Len(run) + i
            PROVE  run'[r].conv \in 0..Len(record')
        <4>1. run'[r].conv = Len(record) + i
          BY <3>2, <1>3
        <4> QED
          BY <4>1, <1>1, <1>6, <1>10
      <3> QED
        BY <3>1, <3>2, <1>5
    <2>3. stored' \subseteq DOMAIN record'
      <3> HIDE DEF kept
      <3>1. \A i \in 1..Len(ws) : Len(record) + i \in 1..(Len(record) + Len(ws))
        BY <1>6, <1>10
      <3>2. 1..Len(record) \subseteq 1..(Len(record) + Len(ws))
        BY <1>6, <1>10
      <3>3. kept \subseteq DOMAIN record'
        BY <3>2, <1>1, <1>8, <1>9
      <3> QED
        BY <3>1, <3>3, <1>1, <1>7
    <2> QED
      BY <2>1, <2>2, <2>3, <1>1, <1>7, <1>9 DEF CoreTypeOK
  <1>12. TurnOwned'
    <2> SUFFICES ASSUME NEW r \in DOMAIN run', run'[r].conv # 0
                 PROVE  /\ run'[r].worker = record'[run'[r].conv].worker
                        /\ run'[r].stage # "done" /\ run'[r].conv \in stored' =>
                             /\ record'[run'[r].conv].status = "running"
                             /\ record'[run'[r].conv].controller = r
                        /\ run'[r].stage = "running" /\ run'[r].conv \notin stored' => run'[r].aborted
      BY DEF TurnOwned
    <2>1. CASE r \in DOMAIN run
      <3>1. run'[r] = run[r]
        BY <2>1, <1>2
      <3>2. run[r].conv \in DOMAIN record
        BY <2>1, <3>1, <1>10 DEF DirectoryTypeOK
      <3>3. record'[run[r].conv] = record[run[r].conv]
        BY <3>2, <1>2
      <3>4. run[r].conv \in stored' <=> run[r].conv \in kept
        BY <3>2, <1>7, <1>6, <1>10
      <3>5. /\ run[r].worker = record[run[r].conv].worker
            /\ run[r].stage # "done" /\ run[r].conv \in stored =>
                 record[run[r].conv].status = "running" /\ record[run[r].conv].controller = r
            /\ run[r].stage = "running" /\ run[r].conv \notin stored => run[r].aborted
        BY <2>1, <3>1 DEF TurnOwned
      <3> QED
        BY <3>1, <3>3, <3>4, <3>5, <1>8
    <2>2. ASSUME NEW i \in 1..Len(ws), r = Len(run) + i
          PROVE  /\ run'[r].worker = record'[run'[r].conv].worker
                 /\ record'[run'[r].conv].status = "running"
                 /\ record'[run'[r].conv].controller = r
                 /\ run'[r].conv \in stored'
      <3>1. run'[r].worker = ws[i] /\ run'[r].conv = Len(record) + i
        BY <2>2, <1>3
      <3>2. /\ record'[Len(record) + i].worker = ws[i]
            /\ record'[Len(record) + i].status = "running"
            /\ record'[Len(record) + i].controller = Len(run) + i
        BY <1>3
      <3>3. Len(record) + i \in stored'
        BY <1>7
      <3> QED
        BY <2>2, <3>1, <3>2, <3>3
    <2> QED
      BY <2>1, <2>2, <1>5
  <1> QED
    BY <1>1, <1>6, <1>10, <1>11, <1>12 DEF CoreStep

\* A new turn of an idle conversation: the conversation had no other.
LEMMA MessageCore ==
    ASSUME DirectoryTypeOK, TurnOwned, NEW c, NEW a \in BOOLEAN, Message(c, a)
    PROVE  /\ CoreStep
           /\ Len(record') = Len(record) /\ Len(run') = Len(run) + 1
           /\ run'[Len(run) + 1] = [worker |-> record[c].worker, conv |-> c, stage |-> "running",
                                     aborted |-> a]
           /\ \A r \in DOMAIN run : run'[r] = run[r]
           /\ \A d \in DOMAIN record : record'[d].worker = record[d].worker
           /\ record'[c].status = "running"
           /\ \A d \in DOMAIN record \ {c} : record'[d] = record[d]
           /\ c \in stored /\ c \in DOMAIN record /\ stored' = stored
  <1> DEFINE new == [worker |-> record[c].worker, conv |-> c, stage |-> "running", aborted |-> a]
             own == [record[c] EXCEPT !.status = "running", !.controller = Len(run) + 1,
                                      !.updated = clock + 1]
  <1>1. /\ DOMAIN run = 1..Len(run) /\ Len(run) \in Nat
        /\ DOMAIN record = 1..Len(record) /\ Len(record) \in Nat
    BY Elements
  <1>2. c \in stored /\ stored' = stored /\ record[c].status # "running" /\ clock' = clock + 1
    BY DEF Message, Tick
  <1>3. c \in DOMAIN record /\ record[c] \in ConversationRecord /\ clock \in Nat
    BY <1>2, Elements DEF DirectoryTypeOK
  <1>4. /\ own \in ConversationRecord
        /\ own.worker = record[c].worker
        /\ own.status = "running" /\ own.controller = Len(run) + 1 /\ own.updated = clock + 1
    <2>1. Len(run) + 1 \in Nat /\ clock + 1 \in Nat
      BY <1>1, <1>3
    <2> QED
      BY <2>1, <1>3 DEF ConversationRecord
  <1>5. new \in WorkerRun
    BY <1>1, <1>3 DEF WorkerRun, ConversationRecord
  <1>6. record' = [record EXCEPT ![c] = own]
    BY DEF Message
  <1>7. Signalled(NewRun(record[c].worker, c), a) = new
    BY DEF Signalled, NewRun
  <1>8. run' = Append(run, new)
    BY <1>7 DEF Message
  <1>9. new.worker = record[c].worker /\ new.conv = c /\ new.stage = "running"
    OBVIOUS
  <1> HIDE DEF new, own
  <1>10. /\ run' \in Seq(WorkerRun) /\ Len(run') = Len(run) + 1 /\ DOMAIN run' = 1..(Len(run) + 1)
         /\ \A r \in DOMAIN run : run'[r] = run[r]
         /\ run'[Len(run) + 1] = new
    BY RunAdded, <1>5, <1>8
  <1>11. record \in Seq(ConversationRecord)
    BY DEF DirectoryTypeOK
  <1>12. /\ record' \in Seq(ConversationRecord) /\ Len(record') = Len(record)
         /\ DOMAIN record' = DOMAIN record
         /\ record'[c] = own
         /\ \A d \in DOMAIN record \ {c} : record'[d] = record[d]
    BY <1>3, <1>4, <1>6, <1>11, ExceptSeq, LenProperties
  <1>13. CoreTypeOK'
    <2>1. ASSUME NEW d \in DOMAIN record'
          PROVE  record'[d].controller \in 0..Len(run') /\ record'[d].updated <= clock'
      <3>1. d \in DOMAIN record /\ record[d].updated \in Nat
        BY <1>12, Elements DEF ConversationRecord
      <3>2. record[d].controller \in 0..Len(run) /\ record[d].updated <= clock
        BY <3>1 DEF DirectoryTypeOK
      <3> QED
        BY <3>1, <3>2, <1>1, <1>2, <1>3, <1>4, <1>10, <1>12
    <2>2. ASSUME NEW r \in DOMAIN run'
          PROVE  run'[r].conv \in 0..Len(record')
      <3>1. r \in DOMAIN run \/ r = Len(run) + 1
        BY <1>1, <1>10
      <3>2. r \in DOMAIN run => run[r].conv \in 0..Len(record)
        BY DEF DirectoryTypeOK
      <3> QED
        BY <3>1, <3>2, <1>1, <1>3, <1>9, <1>10, <1>12
    <2>3. stored' \subseteq DOMAIN record'
      BY <1>2, <1>12 DEF DirectoryTypeOK
    <2> QED
      BY <2>1, <2>2, <2>3, <1>2, <1>3, <1>10, <1>12 DEF CoreTypeOK
  <1>14. TurnOwned'
    <2> SUFFICES ASSUME NEW r \in DOMAIN run', run'[r].conv # 0
                 PROVE  /\ run'[r].worker = record'[run'[r].conv].worker
                        /\ run'[r].stage # "done" /\ run'[r].conv \in stored' =>
                             /\ record'[run'[r].conv].status = "running"
                             /\ record'[run'[r].conv].controller = r
                        /\ run'[r].stage = "running" /\ run'[r].conv \notin stored' => run'[r].aborted
      BY DEF TurnOwned
    <2>1. CASE r \in DOMAIN run
      <3>1. run'[r] = run[r]
        BY <2>1, <1>10
      <3>2. run[r].conv \in DOMAIN record
        BY <2>1, <3>1, <1>1 DEF DirectoryTypeOK
      <3>3. /\ run[r].worker = record[run[r].conv].worker
            /\ run[r].stage # "done" /\ run[r].conv \in stored =>
                 record[run[r].conv].status = "running" /\ record[run[r].conv].controller = r
            /\ run[r].stage = "running" /\ run[r].conv \notin stored => run[r].aborted
        BY <2>1, <3>1 DEF TurnOwned
      <3>4. CASE run[r].conv = c
        BY <3>1, <3>3, <3>4, <1>2, <1>4, <1>12
      <3>5. CASE run[r].conv # c
        <4>1. record'[run[r].conv] = record[run[r].conv]
          BY <3>2, <3>5, <1>12
        <4> QED
          BY <4>1, <3>1, <3>3, <1>2
      <3> QED
        BY <3>4, <3>5
    <2>2. CASE r = Len(run) + 1
      BY <2>2, <1>2, <1>4, <1>9, <1>10, <1>12
    <2> QED
      BY <2>1, <2>2, <1>1, <1>10
  <1>15. \A d \in DOMAIN record : record'[d].worker = record[d].worker
    BY <1>4, <1>12
  <1> QED
    BY <1>1, <1>2, <1>3, <1>4, <1>10, <1>12, <1>13, <1>14, <1>15 DEF CoreStep, new

\* Signals reach runs; whose the turns are does not change.
LEMMA AbortCore ==
    ASSUME DirectoryTypeOK, TurnOwned, NEW rs, run' = Aborted(rs), UNCHANGED <<record, stored, clock>>
    PROVE  CoreStep /\ Len(record') = Len(record) /\ Len(run') = Len(run)
  <1>1. /\ run' \in Seq(WorkerRun) /\ Len(run') = Len(run) /\ DOMAIN run' = DOMAIN run
        /\ \A r \in DOMAIN run :
             /\ run'[r].worker = run[r].worker
             /\ run'[r].conv = run[r].conv
             /\ run'[r].stage = run[r].stage
             /\ run[r].aborted => run'[r].aborted
    BY AbortedRuns
  <1>2. CoreTypeOK'
    BY <1>1 DEF CoreTypeOK, DirectoryTypeOK
  <1>3. TurnOwned'
    BY <1>1 DEF TurnOwned
  <1> QED
    BY <1>1, <1>2, <1>3, Elements DEF CoreStep

\* Closing a conversation tells its run to stop before it is forgotten.
LEMMA CloseCore ==
    ASSUME DirectoryTypeOK, TurnOwned, NEW c, NEW rs, Close(c), run' = Aborted(rs),
           ControlledBy({c}) \subseteq rs
    PROVE  CoreStep /\ Len(record') = Len(record) /\ Len(run') = Len(run)
  <1>1. /\ run' \in Seq(WorkerRun) /\ Len(run') = Len(run) /\ DOMAIN run' = DOMAIN run
        /\ \A r \in DOMAIN run :
             /\ run'[r].worker = run[r].worker
             /\ run'[r].conv = run[r].conv
             /\ run'[r].stage = run[r].stage
             /\ run[r].aborted => run'[r].aborted
             /\ r \in rs /\ run[r].stage = "running" => run'[r].aborted
    BY AbortedRuns
  <1>2. /\ DOMAIN run = 1..Len(run) /\ Len(run) \in Nat
        /\ DOMAIN record = 1..Len(record) /\ Len(record) \in Nat
    BY Elements
  <1>3. c \in stored /\ stored' = stored \ {c} /\ clock' = clock
    BY DEF Close
  <1>4. c \in DOMAIN record /\ record[c] \in ConversationRecord /\ record \in Seq(ConversationRecord)
    BY <1>3, Elements DEF DirectoryTypeOK
  <1> DEFINE closed == [record[c] EXCEPT !.status = "closed"]
  <1>5. /\ closed \in ConversationRecord
        /\ closed.worker = record[c].worker /\ closed.controller = record[c].controller
        /\ closed.updated = record[c].updated
    BY <1>4 DEF ConversationRecord
  <1>6. record' = [record EXCEPT ![c] = closed]
    BY DEF Close
  <1> HIDE DEF closed
  <1>7. /\ record' \in Seq(ConversationRecord) /\ Len(record') = Len(record)
        /\ DOMAIN record' = DOMAIN record
        /\ record'[c] = closed
        /\ \A d \in DOMAIN record \ {c} : record'[d] = record[d]
    BY <1>2, <1>4, <1>5, <1>6, ExceptSeq, LenProperties
  <1>8. CoreTypeOK'
    BY <1>1, <1>3, <1>5, <1>7 DEF CoreTypeOK, DirectoryTypeOK
  <1>9. TurnOwned'
    <2> SUFFICES ASSUME NEW r \in DOMAIN run, run[r].conv # 0
                 PROVE  /\ run'[r].worker = record'[run'[r].conv].worker
                        /\ run'[r].stage # "done" /\ run'[r].conv \in stored' =>
                             /\ record'[run'[r].conv].status = "running"
                             /\ record'[run'[r].conv].controller = r
                        /\ run'[r].stage = "running" /\ run'[r].conv \notin stored' => run'[r].aborted
      BY <1>1 DEF TurnOwned
    <2>1. /\ run'[r].worker = run[r].worker
          /\ run'[r].conv = run[r].conv
          /\ run'[r].stage = run[r].stage
          /\ run[r].aborted => run'[r].aborted
          /\ r \in rs /\ run[r].stage = "running" => run'[r].aborted
      BY <1>1
    <2>2. run[r].conv \in DOMAIN record
      BY <1>2 DEF DirectoryTypeOK
    <2>3. /\ run[r].worker = record[run[r].conv].worker
          /\ run[r].stage # "done" /\ run[r].conv \in stored =>
               record[run[r].conv].status = "running" /\ record[run[r].conv].controller = r
          /\ run[r].stage = "running" /\ run[r].conv \notin stored => run[r].aborted
      BY DEF TurnOwned
    <2>4. CASE run[r].conv = c
      <3>1. run[r].stage = "running" => r \in rs
        <4> SUFFICES ASSUME run[r].stage = "running"
                     PROVE  r \in rs
          OBVIOUS
        <4>1. record[c].controller = r
          BY <2>3, <2>4, <1>3
        <4>2. r # 0
          BY <1>2
        <4> QED
          BY <4>1, <4>2 DEF ControlledBy
      <3>2. record'[c].worker = record[c].worker
        BY <1>5, <1>7
      <3> QED
        BY <2>1, <2>3, <2>4, <3>1, <3>2, <1>3
    <2>5. CASE run[r].conv # c
      <3>1. record'[run[r].conv] = record[run[r].conv]
        BY <2>2, <2>5, <1>7
      <3> QED
        BY <2>1, <2>3, <2>5, <3>1, <1>3
    <2> QED
      BY <2>4, <2>5
  <1> QED
    BY <1>1, <1>2, <1>7, <1>8, <1>9 DEF CoreStep

\* A run that is over, or has its result still to be transformed, is the turn
\* of the same conversation.
LEMMA RunEndsCore ==
    ASSUME DirectoryTypeOK, TurnOwned, NEW r \in DOMAIN run, RunEnds(r)
    PROVE  /\ CoreStep /\ Len(record') = Len(record) /\ Len(run') = Len(run)
           /\ DOMAIN run' = DOMAIN run
           /\ \A q \in DOMAIN run : run'[q].worker = run[q].worker /\ run'[q].conv = run[q].conv
           /\ \A q \in DOMAIN run \ {r} : run'[q] = run[q]
           /\ run'[r].stage = IF run[r].conv = 0 THEN "done" ELSE "transform"
  <1>1. run \in Seq(WorkerRun) /\ run[r] \in WorkerRun /\ DOMAIN run = 1..Len(run)
    BY Elements DEF DirectoryTypeOK
  <1> DEFINE ended == [run[r] EXCEPT !.stage = IF run[r].conv = 0 THEN "done" ELSE "transform",
                                     !.aborted = FALSE]
  <1>2. /\ ended \in WorkerRun
        /\ ended.worker = run[r].worker /\ ended.conv = run[r].conv
        /\ ended.stage = IF run[r].conv = 0 THEN "done" ELSE "transform"
    BY <1>1 DEF WorkerRun
  <1>3. run' = [run EXCEPT ![r] = ended] /\ UNCHANGED <<record, stored, clock>> /\ run[r].stage = "running"
    BY DEF RunEnds
  <1> HIDE DEF ended
  <1>4. /\ run' \in Seq(WorkerRun) /\ Len(run') = Len(run) /\ DOMAIN run' = DOMAIN run
        /\ run'[r] = ended
        /\ \A q \in DOMAIN run \ {r} : run'[q] = run[q]
    BY <1>1, <1>2, <1>3, ExceptSeq, LenProperties
  <1>5. \A q \in DOMAIN run : run'[q].worker = run[q].worker /\ run'[q].conv = run[q].conv
    BY <1>2, <1>4
  <1>6. CoreTypeOK'
    BY <1>3, <1>4, <1>5 DEF CoreTypeOK, DirectoryTypeOK
  <1>7. TurnOwned'
    BY <1>2, <1>3, <1>4, <1>5 DEF TurnOwned
  <1> QED
    BY <1>2, <1>3, <1>4, <1>5, <1>6, <1>7, Elements DEF CoreStep

\* A result is recorded by the turn the conversation runs, or in a record
\* that no longer matters.
LEMMA TurnEndsCore ==
    ASSUME DirectoryTypeOK, TurnOwned, NEW r \in DOMAIN run, TurnEnds(r)
    PROVE  /\ CoreStep /\ Len(record') = Len(record) /\ Len(run') = Len(run)
           /\ DOMAIN run' = DOMAIN run
           /\ \A q \in DOMAIN run : run'[q].worker = run[q].worker /\ run'[q].conv = run[q].conv
           /\ \A q \in DOMAIN run \ {r} : run'[q] = run[q]
           /\ run'[r].stage = "done" /\ run[r].stage = "transform"
           /\ stored' = stored /\ oneShots' = oneShots
           /\ \A d \in DOMAIN record : /\ record'[d].worker = record[d].worker
                                       /\ record'[d].status = "running" => record[d].status = "running"
  <1>1. /\ run \in Seq(WorkerRun) /\ run[r] \in WorkerRun /\ DOMAIN run = 1..Len(run)
        /\ Len(run) \in Nat
    BY Elements DEF DirectoryTypeOK
  <1>2. /\ record \in Seq(ConversationRecord) /\ DOMAIN record = 1..Len(record)
        /\ \A c \in DOMAIN record : record[c] \in ConversationRecord
        /\ clock \in Nat /\ Len(record) \in Nat
    BY Elements DEF DirectoryTypeOK
  <1> DEFINE c == run[r].conv
             over == [run[r] EXCEPT !.stage = "done"]
             ended == [record[c] EXCEPT !.status = "ended", !.controller = 0, !.updated = clock + 1]
  <1>3. /\ over \in WorkerRun
        /\ over.worker = run[r].worker /\ over.conv = run[r].conv /\ over.stage = "done"
    BY <1>1 DEF WorkerRun
  <1>4. /\ run' = [run EXCEPT ![r] = over] /\ UNCHANGED <<stored, oneShots>>
        /\ run[r].stage = "transform" /\ clock' = clock + 1
    BY DEF TurnEnds, Tick
  <1>5. record' = [record EXCEPT ![c] = ended]
    BY DEF TurnEnds, RecordResult
  <1>6. c \in DOMAIN record =>
          /\ ended \in ConversationRecord
          /\ ended.worker = record[c].worker /\ ended.status = "ended"
          /\ ended.controller = 0 /\ ended.updated = clock + 1
    <2>1. clock + 1 \in Nat
      BY <1>2
    <2> QED
      BY <2>1, <1>2 DEF ConversationRecord
  <1>7. c \in 0..Len(record)
    BY DEF DirectoryTypeOK
  <1> HIDE DEF over, ended, c
  <1>8. /\ run' \in Seq(WorkerRun) /\ Len(run') = Len(run) /\ DOMAIN run' = DOMAIN run
        /\ run'[r] = over
        /\ \A q \in DOMAIN run \ {r} : run'[q] = run[q]
    BY <1>1, <1>3, <1>4, ExceptSeq, LenProperties
  <1>9. \A q \in DOMAIN run : run'[q].worker = run[q].worker /\ run'[q].conv = run[q].conv
    BY <1>3, <1>8
  <1>10. /\ record' \in Seq(ConversationRecord) /\ Len(record') = Len(record)
         /\ DOMAIN record' = DOMAIN record
         /\ c \in DOMAIN record => record'[c] = ended
         /\ \A d \in DOMAIN record \ {c} : record'[d] = record[d]
    <2>1. CASE c \in DOMAIN record
      BY <2>1, <1>2, <1>5, <1>6, ExceptSeq, LenProperties
    <2>2. CASE c \notin DOMAIN record
      <3>1. record' = record
        BY <2>2, <1>2, <1>5, LenProperties
      <3> QED
        BY <3>1, <2>2, <1>2
    <2> QED
      BY <2>1, <2>2
  <1>11. \A d \in DOMAIN record :
           /\ record'[d].worker = record[d].worker
           /\ record'[d].status = "running" => record[d].status = "running"
           /\ record'[d].controller \in 0..Len(run) /\ record'[d].updated <= clock + 1
    <2> SUFFICES ASSUME NEW d \in DOMAIN record
                 PROVE  /\ record'[d].worker = record[d].worker
                        /\ record'[d].status = "running" => record[d].status = "running"
                        /\ record'[d].controller \in 0..Len(run) /\ record'[d].updated <= clock + 1
      OBVIOUS
    <2>1. record[d].controller \in 0..Len(run) /\ record[d].updated <= clock /\ record[d].updated \in Nat
      BY <1>2 DEF DirectoryTypeOK, ConversationRecord
    <2>2. CASE d = c
      BY <2>1, <2>2, <1>1, <1>2, <1>6, <1>10
    <2>3. CASE d # c
      BY <2>1, <2>3, <1>2, <1>10
    <2> QED
      BY <2>2, <2>3
  <1>12. CoreTypeOK'
    <2>1. clock' \in Nat
      BY <1>2, <1>4
    <2> QED
      BY <2>1, <1>4, <1>8, <1>9, <1>10, <1>11 DEF CoreTypeOK, DirectoryTypeOK
  <1>13. TurnOwned'
    <2> SUFFICES ASSUME NEW q \in DOMAIN run, run[q].conv # 0
                 PROVE  /\ run'[q].worker = record'[run'[q].conv].worker
                        /\ run'[q].stage # "done" /\ run'[q].conv \in stored' =>
                             /\ record'[run'[q].conv].status = "running"
                             /\ record'[run'[q].conv].controller = q
                        /\ run'[q].stage = "running" /\ run'[q].conv \notin stored' => run'[q].aborted
      BY <1>8, <1>9 DEF TurnOwned
    <2>1. run[q].conv \in DOMAIN record
      BY <1>2 DEF DirectoryTypeOK
    <2>2. run'[q].worker = record'[run'[q].conv].worker
      BY <2>1, <1>9, <1>11 DEF TurnOwned
    <2>3. CASE q = r
      BY <2>2, <2>3, <1>3, <1>8
    <2>4. CASE q # r
      <3>1. run'[q] = run[q]
        BY <2>4, <1>8
      <3>2. /\ run[q].stage # "done" /\ run[q].conv \in stored =>
                 record[run[q].conv].status = "running" /\ record[run[q].conv].controller = q
            /\ run[q].stage = "running" /\ run[q].conv \notin stored => run[q].aborted
        BY DEF TurnOwned
      <3>3. run[q].stage # "done" /\ run[q].conv \in stored => run[q].conv # c
        <4> SUFFICES ASSUME run[q].stage # "done", run[q].conv \in stored, run[q].conv = c
                     PROVE  FALSE
          OBVIOUS
        <4>1. record[c].controller = q
          BY <3>2
        <4>2. record[c].controller = r
          BY <1>4 DEF TurnOwned, c
        <4> QED
          BY <4>1, <4>2, <2>4
      <3>4. run[q].stage # "done" /\ run[q].conv \in stored => record'[run[q].conv] = record[run[q].conv]
        BY <3>3, <2>1, <1>10
      <3> QED
        BY <2>2, <3>1, <3>2, <3>4, <1>4
    <2> QED
      BY <2>3, <2>4
  <1> QED
    BY <1>1, <1>2, <1>3, <1>4, <1>8, <1>9, <1>10, <1>11, <1>12, <1>13 DEF CoreStep

\* A one-shot run belongs to no conversation.
LEMMA OneShotCore ==
    ASSUME DirectoryTypeOK, TurnOwned, NEW w \in Worker, RunOneShot(w)
    PROVE  /\ CoreStep /\ Len(record') = Len(record) /\ Len(run') = Len(run) + 1
           /\ DOMAIN run' = 1..(Len(run) + 1)
           /\ \A r \in DOMAIN run : run'[r] = run[r]
           /\ run'[Len(run) + 1].worker = w /\ run'[Len(run) + 1].conv = 0
           /\ run'[Len(run) + 1].stage = "running"
  <1>1. NewRun(w, 0) \in WorkerRun
    BY DEF NewRun, WorkerRun
  <1>2. /\ NewRun(w, 0).worker = w /\ NewRun(w, 0).conv = 0 /\ NewRun(w, 0).stage = "running"
    BY DEF NewRun
  <1>3. run' = Append(run, NewRun(w, 0)) /\ UNCHANGED <<record, stored, clock>>
    BY DEF RunOneShot
  <1>4. /\ run' \in Seq(WorkerRun)
        /\ Len(run') = Len(run) + 1
        /\ DOMAIN run' = 1..(Len(run) + 1)
        /\ \A r \in DOMAIN run : run'[r] = run[r]
        /\ run'[Len(run) + 1] = NewRun(w, 0)
    BY RunAdded, <1>1, <1>3
  <1>5. /\ DOMAIN run = 1..Len(run) /\ Len(run) \in Nat
        /\ DOMAIN record = 1..Len(record) /\ Len(record) \in Nat
    BY Elements
  <1>6. \A r \in DOMAIN run' : r \in DOMAIN run \/ r = Len(run) + 1
    BY <1>4, <1>5
  <1>7. CoreTypeOK'
    <2>1. \A c \in DOMAIN record' : record'[c].controller \in 0..Len(run') /\ record'[c].updated <= clock'
      BY <1>3, <1>4, <1>5 DEF DirectoryTypeOK
    <2>2. \A r \in DOMAIN run' : run'[r].conv \in 0..Len(record')
      BY <1>2, <1>3, <1>4, <1>5, <1>6 DEF DirectoryTypeOK
    <2> QED
      BY <2>1, <2>2, <1>3, <1>4 DEF CoreTypeOK, DirectoryTypeOK
  <1>8. TurnOwned'
    BY <1>2, <1>3, <1>4, <1>6 DEF TurnOwned
  <1> QED
    BY <1>2, <1>3, <1>4, <1>5, <1>7, <1>8 DEF CoreStep

\* A restored conversation has no turn, nor has one that is pruned for it.
LEMMA RestoreCore ==
    ASSUME DirectoryTypeOK, TurnOwned, NEW w \in Worker, RestoreConversationTurn(w)
    PROVE  /\ CoreStep /\ Len(record') = Len(record) + 1 /\ Len(run') = Len(run)
           /\ run' = run
           /\ \A c \in DOMAIN record : record'[c] = record[c]
           /\ record'[Len(record) + 1].status = "ended"
           /\ stored' = Kept(stored \cup {Len(record) + 1}, record', MaxConversations - 1)
           /\ stored' \subseteq stored \cup {Len(record) + 1}
           /\ \A c \in stored : record[c].status = "running" => c \in stored'
           /\ chat' \in [Worker -> 0..Len(record')]
  <1>1. /\ DOMAIN run = 1..Len(run) /\ Len(run) \in Nat
        /\ DOMAIN record = 1..Len(record) /\ Len(record) \in Nat
        /\ record \in Seq(ConversationRecord) /\ clock \in Nat
    BY Elements DEF DirectoryTypeOK
  <1>2. PICK updated \in 0..clock :
          /\ record' = Append(record, [worker |-> w, status |-> "ended", controller |-> 0,
                                       updated |-> updated])
          /\ stored' = Kept(stored \cup {Len(record) + 1}, record', MaxConversations - 1)
          /\ chat' = IF Cardinality(stored') < MaxConversations /\ Len(record) + 1 \in stored'
                     THEN [chat EXCEPT ![w] = Len(record) + 1] ELSE chat
    BY DEF RestoreConversationTurn
  <1>3. UNCHANGED <<clock, run>>
    BY DEF RestoreConversationTurn
  <1> DEFINE c == Len(record) + 1
             new == [worker |-> w, status |-> "ended", controller |-> 0, updated |-> updated]
  <1>4. /\ new \in ConversationRecord /\ new.status = "ended" /\ new.controller = 0
        /\ new.updated = updated
    BY <1>1 DEF ConversationRecord
  <1>5. record' = Append(record, new)
    BY <1>2
  <1> HIDE DEF new
  <1>6. /\ record' \in Seq(ConversationRecord)
        /\ Len(record') = Len(record) + 1 /\ DOMAIN record' = 1..(Len(record) + 1)
        /\ \A d \in DOMAIN record : record'[d] = record[d]
        /\ record'[c] = new
    BY <1>1, <1>4, <1>5, AppendProperties, LenProperties
  <1>7. /\ stored' \subseteq stored \cup {c}
        /\ \A d \in stored \cup {c} : record'[d].status = "running" => d \in stored'
    BY <1>2 DEF Kept
  <1>8. stored \subseteq DOMAIN record
    BY DEF DirectoryTypeOK
  <1>9. \A d \in stored : record[d].status = "running" => d \in stored'
    BY <1>6, <1>7, <1>8
  <1>10. CoreTypeOK'
    <2>1. \A d \in DOMAIN record' : d \in DOMAIN record \/ d = c
      BY <1>1, <1>6
    <2>2. \A d \in DOMAIN record' :
            record'[d].controller \in 0..Len(run') /\ record'[d].updated <= clock'
      <3> SUFFICES ASSUME NEW d \in DOMAIN record'
                   PROVE  record'[d].controller \in 0..Len(run) /\ record'[d].updated <= clock
        BY <1>3
      <3>1. CASE d \in DOMAIN record
        BY <3>1, <1>6 DEF DirectoryTypeOK
      <3>2. CASE d = c
        BY <3>2, <1>1, <1>4, <1>6
      <3> QED
        BY <3>1, <3>2, <2>1
    <2>3. \A r \in DOMAIN run' : run'[r].conv \in 0..Len(record')
      BY <1>1, <1>3, <1>6 DEF DirectoryTypeOK
    <2>4. stored' \subseteq DOMAIN record'
      BY <1>1, <1>6, <1>7, <1>8
    <2> QED
      BY <2>2, <2>3, <2>4, <1>1, <1>3, <1>6 DEF CoreTypeOK, DirectoryTypeOK
  <1>11. TurnOwned'
    <2> SUFFICES ASSUME NEW r \in DOMAIN run, run[r].conv # 0
                 PROVE  /\ run[r].worker = record'[run[r].conv].worker
                        /\ run[r].stage # "done" /\ run[r].conv \in stored' =>
                             /\ record'[run[r].conv].status = "running"
                             /\ record'[run[r].conv].controller = r
                        /\ run[r].stage = "running" /\ run[r].conv \notin stored' => run[r].aborted
      BY <1>3 DEF TurnOwned
    <2>1. run[r].conv \in DOMAIN record /\ run[r].conv # c
      BY <1>1 DEF DirectoryTypeOK
    <2>2. record'[run[r].conv] = record[run[r].conv]
      BY <2>1, <1>6
    <2>3. /\ run[r].worker = record[run[r].conv].worker
          /\ run[r].stage # "done" /\ run[r].conv \in stored =>
               record[run[r].conv].status = "running" /\ record[run[r].conv].controller = r
          /\ run[r].stage = "running" /\ run[r].conv \notin stored => run[r].aborted
      BY DEF TurnOwned
    <2>4. run[r].conv \in stored' => run[r].conv \in stored
      BY <2>1, <1>7
    <2> QED
      BY <2>2, <2>3, <2>4, <1>9
  <1>12. chat' \in [Worker -> 0..Len(record')]
    <2>1. chat \in [Worker -> 0..Len(record)]
      BY DEF DirectoryTypeOK
    <2>2. chat \in [Worker -> 0..Len(record')] /\ c \in 0..Len(record')
      BY <2>1, <1>1, <1>6
    <2> QED
      BY <2>2, <1>2
  <1>13. CoreStep
    BY <1>1, <1>3, <1>6, <1>10, <1>11 DEF CoreStep
  <1>14. record'[c].status = "ended"
    BY <1>4, <1>6
  <1> QED
    BY <1>2, <1>3, <1>6, <1>7, <1>9, <1>12, <1>13, <1>14

\* Teardown tells every run to stop and forgets every conversation.
LEMMA CloseAllCore ==
    ASSUME DirectoryTypeOK, TurnOwned, CloseAll
    PROVE  CoreStep /\ Len(record') = Len(record) /\ Len(run') = Len(run)
  <1>1. /\ DOMAIN run = 1..Len(run) /\ Len(run) \in Nat
        /\ DOMAIN record = 1..Len(record) /\ Len(record) \in Nat
        /\ \A c \in DOMAIN record : record[c] \in ConversationRecord
    BY Elements
  <1>2. PICK rs : run' = Aborted(rs) /\ ControlledBy(stored) \subseteq rs
    BY DEF CloseAll
  <1>3. /\ run' \in Seq(WorkerRun) /\ Len(run') = Len(run) /\ DOMAIN run' = DOMAIN run
        /\ \A r \in DOMAIN run :
             /\ run'[r].worker = run[r].worker
             /\ run'[r].conv = run[r].conv
             /\ run'[r].stage = run[r].stage
             /\ run[r].aborted => run'[r].aborted
             /\ r \in rs /\ run[r].stage = "running" => run'[r].aborted
    BY AbortedRuns, <1>2
  <1>4. stored' = {} /\ clock' = clock
    BY DEF CloseAll
  <1> DEFINE gone == {chat[w] : w \in Worker} \cap stored
             rec(c) == IF c \in gone THEN [record[c] EXCEPT !.status = "closed"] ELSE record[c]
  <1>5. \A c \in DOMAIN record : /\ rec(c) \in ConversationRecord
                                 /\ rec(c).worker = record[c].worker
                                 /\ rec(c).controller = record[c].controller
                                 /\ rec(c).updated = record[c].updated
    BY <1>1 DEF ConversationRecord
  <1>6. record' = [c \in DOMAIN record |-> rec(c)]
    BY DEF CloseAll
  <1> HIDE DEF rec
  <1>7. record' \in [1..Len(record) -> ConversationRecord]
    BY <1>1, <1>5, <1>6
  <1>8. record' \in Seq(ConversationRecord) /\ Len(record') = Len(record) /\ DOMAIN record' = DOMAIN record
    BY <1>1, <1>7, SeqDef
  <1>9. \A c \in DOMAIN record : /\ record'[c].worker = record[c].worker
                                 /\ record'[c].controller = record[c].controller
                                 /\ record'[c].updated = record[c].updated
    BY <1>5, <1>6
  <1>10. CoreTypeOK'
    BY <1>3, <1>4, <1>8, <1>9 DEF CoreTypeOK, DirectoryTypeOK
  <1>11. TurnOwned'
    <2> SUFFICES ASSUME NEW r \in DOMAIN run, run[r].conv # 0
                 PROVE  /\ run'[r].worker = record'[run'[r].conv].worker
                        /\ run'[r].stage = "running" => run'[r].aborted
      BY <1>3, <1>4 DEF TurnOwned
    <2>1. run[r].conv \in DOMAIN record
      BY <1>1 DEF DirectoryTypeOK
    <2>2. run'[r].worker = record'[run'[r].conv].worker
      BY <2>1, <1>3, <1>9 DEF TurnOwned
    <2>3. ASSUME run[r].stage = "running"
          PROVE  run'[r].aborted
      <3>1. CASE run[r].conv \notin stored
        BY <2>3, <3>1, <1>3 DEF TurnOwned
      <3>2. CASE run[r].conv \in stored
        <4>1. record[run[r].conv].controller = r
          BY <2>3, <3>2 DEF TurnOwned
        <4>2. r \in ControlledBy(stored)
          BY <4>1, <3>2, <1>1 DEF ControlledBy
        <4> QED
          BY <4>2, <2>3, <1>2, <1>3
      <3> QED
        BY <3>1, <3>2
    <2> QED
      BY <2>2, <2>3, <1>3
  <1> QED
    BY <1>1, <1>3, <1>8, <1>10, <1>11 DEF CoreStep

\* Steps of the chats that leave the directory alone.
LEMMA QuietCore ==
    ASSUME DirectoryTypeOK, TurnOwned, UNCHANGED <<record, stored, clock, run>>
    PROVE  CoreStep /\ Len(record') = Len(record) /\ Len(run') = Len(run)
  BY Elements DEF CoreStep, CoreTypeOK, DirectoryTypeOK, TurnOwned

\* Every step keeps what is known of conversations and their turns.
LEMMA CoreNext ==
    ASSUME DirectoryTypeOK, TurnOwned, DirectoryNext
    PROVE  CoreStep
  <1>1. ASSUME NEW w \in Worker, RunOneShot(w)
        PROVE  CoreStep
    BY <1>1, OneShotCore
  <1>2. ASSUME NEW w \in Worker, RestoreConversationTurn(w)
        PROVE  CoreStep
    BY <1>2, RestoreCore
  <1>3. ASSUME NEW w \in Worker, ChatSend(w)
        PROVE  CoreStep
    BY <1>3, QuietCore DEF ChatSend
  <1>4. ASSUME NEW w \in Worker, ChatCancel(w)
        PROVE  CoreStep
    <2>1. UNCHANGED <<record, stored, clock>> /\ \E rs : run' = Aborted(rs)
      BY <1>4 DEF ChatCancel
    <2> QED
      BY <2>1, AbortCore
  <1>5. ASSUME NEW w \in Worker, ChatClose(w)
        PROVE  CoreStep
    <2>1. CASE chat[w] \in stored
      <3>1. Close(chat[w]) /\ \E rs : run' = Aborted(rs) /\ ControlledBy({chat[w]}) \subseteq rs
        BY <1>5, <2>1 DEF ChatClose, AbortRuns
      <3> QED
        BY <3>1, CloseCore
    <2>2. CASE chat[w] \notin stored
      <3>1. UNCHANGED <<record, stored, clock>> /\ \E rs : run' = Aborted(rs)
        BY <1>5, <2>2 DEF ChatClose
      <3> QED
        BY <3>1, AbortCore
    <2> QED
      BY <2>1, <2>2
  <1>6. ASSUME NEW n \in 1..2, NEW ws \in [1..n -> Worker], StartConversations(ws)
        PROVE  CoreStep
    <2>1. ws \in Seq(Worker)
      BY SeqDef
    <2> QED
      BY <1>6, <2>1, StartCore DEF StartConversations
  <1>7. ASSUME NEW c \in DOMAIN record, MessageConversation(c)
        PROVE  CoreStep
    BY <1>7, MessageCore DEF MessageConversation
  <1>8. ASSUME NEW c \in DOMAIN record, CancelConversation(c)
        PROVE  CoreStep
    <2>1. UNCHANGED <<record, stored, clock>> /\ run' = Aborted(ControlledBy({c}))
      BY <1>8 DEF CancelConversation
    <2> QED
      BY <2>1, AbortCore
  <1>9. ASSUME NEW c \in DOMAIN record, CloseConversation(c)
        PROVE  CoreStep
    <2>1. Close(c) /\ run' = Aborted(ControlledBy({c}) \cup {})
      BY <1>9 DEF CloseConversation, AbortRuns
    <2> QED
      BY <2>1, CloseCore
  <1>10. ASSUME NEW r \in DOMAIN run, Timeout(r)
         PROVE  CoreStep
    <2>1. UNCHANGED <<record, stored, clock>> /\ run' = Aborted({r})
      BY <1>10 DEF Timeout
    <2> QED
      BY <2>1, AbortCore
  <1>11. ASSUME NEW r \in DOMAIN run, RunEnds(r)
         PROVE  CoreStep
    BY <1>11, RunEndsCore
  <1>12. ASSUME NEW r \in DOMAIN run, TurnEnds(r)
         PROVE  CoreStep
    BY <1>12, TurnEndsCore
  <1>13. ASSUME NEW s \in DOMAIN send, ChatTurn(s)
         PROVE  CoreStep
    <2>1. send[s].worker \in Worker /\ send[s].aborted \in BOOLEAN
      BY Elements DEF ChatSendCall
    <2>2. <<send[s].worker>> \in Seq(Worker)
      BY <2>1
    <2>3. CASE Start(<<send[s].worker>>, send[s].aborted)
      BY <2>1, <2>2, <2>3, StartCore
    <2>4. CASE Message(send[s].conv, send[s].aborted)
      BY <2>1, <2>4, MessageCore
    <2>5. CASE UNCHANGED <<record, stored, clock, run>>
      BY <2>5, QuietCore
    <2> QED
      BY <1>13, <2>3, <2>4, <2>5 DEF ChatTurn
  <1>14. ASSUME NEW s \in DOMAIN send, ChatSendEnds(s)
         PROVE  CoreStep
    BY <1>14, QuietCore DEF ChatSendEnds
  <1>15. CASE CloseAll
    BY <1>15, CloseAllCore
  <1> QED
    BY <1>1, <1>2, <1>3, <1>4, <1>5, <1>6, <1>7, <1>8, <1>9, <1>10, <1>11, <1>12, <1>13, <1>14, <1>15
       DEF DirectoryNext

\* The part of the type invariant about the chats.
ChatTypeOK ==
    /\ send \in Seq(ChatSendCall)
    /\ \A s \in DOMAIN send : /\ send[s].conv \in 0..Len(record)
                              /\ send[s].run \in 0..Len(run)
                              /\ send[s].stage = "turn" => send[s].run # 0
    /\ chat \in [Worker -> 0..Len(record)]
    /\ chatActive \in [Worker -> 0..Len(send)]

\* One send is changed.
LEMMA SendChanged ==
    ASSUME DirectoryTypeOK, CoreStep, NEW s \in DOMAIN send,
           NEW e \in ChatSendCall, send' = [send EXCEPT ![s] = e],
           e.conv \in 0..Len(record'), e.run \in 0..Len(run'), e.stage = "turn" => e.run # 0,
           chat' \in [Worker -> 0..Len(record')], chatActive' \in [Worker -> 0..Len(send)]
    PROVE  ChatTypeOK'
  <1>1. send \in Seq(ChatSendCall) /\ s \in 1..Len(send)
    BY Elements DEF DirectoryTypeOK
  <1>2. /\ send' \in Seq(ChatSendCall) /\ Len(send') = Len(send)
        /\ send'[s] = e /\ \A q \in 1..Len(send) \ {s} : send'[q] = send[q]
    BY <1>1, ExceptSeq
  <1>3. DOMAIN send' = 1..Len(send) /\ DOMAIN send = 1..Len(send)
    BY <1>1, <1>2, LenProperties
  <1>4. ASSUME NEW q \in DOMAIN send'
        PROVE  /\ send'[q].conv \in 0..Len(record')
               /\ send'[q].run \in 0..Len(run')
               /\ send'[q].stage = "turn" => send'[q].run # 0
    <2>1. CASE q = s
      BY <2>1, <1>2
    <2>2. CASE q # s
      <3>1. send'[q] = send[q] /\ q \in DOMAIN send
        BY <2>2, <1>2, <1>3
      <3>2. /\ send[q].conv \in 0..Len(record)
            /\ send[q].run \in 0..Len(run)
            /\ send[q].stage = "turn" => send[q].run # 0
        BY <3>1 DEF DirectoryTypeOK
      <3>3. Len(record') \in Nat /\ Len(run') \in Nat
        BY LenProperties DEF CoreStep, CoreTypeOK
      <3> QED
        BY <3>1, <3>2, <3>3, Elements DEF CoreStep
    <2> QED
      BY <2>1, <2>2
  <1> QED
    BY <1>2, <1>3, <1>4 DEF ChatTypeOK

\* No send is changed but for its signal.
LEMMA SendsSignalled ==
    ASSUME DirectoryTypeOK, CoreStep, DOMAIN send' = DOMAIN send,
           \A s \in DOMAIN send :
             send'[s] = send[s] \/ send'[s] = [send[s] EXCEPT !.aborted = TRUE],
           send' = [s \in DOMAIN send |-> send'[s]],
           chat' \in [Worker -> 0..Len(record')], chatActive' \in [Worker -> 0..Len(send)]
    PROVE  ChatTypeOK'
  <1>1. /\ DOMAIN send = 1..Len(send) /\ Len(send) \in Nat
        /\ \A s \in DOMAIN send : send[s] \in ChatSendCall
    BY Elements
  <1>2. \A s \in DOMAIN send : /\ send'[s] \in ChatSendCall
                               /\ send'[s].conv = send[s].conv /\ send'[s].run = send[s].run
                               /\ send'[s].stage = send[s].stage
    <2> TAKE s \in DOMAIN send
    <2>1. send[s] \in ChatSendCall
      BY <1>1
    <2>2. CASE send'[s] = send[s]
      BY <2>1, <2>2
    <2>3. CASE send'[s] = [send[s] EXCEPT !.aborted = TRUE]
      BY <2>1, <2>3 DEF ChatSendCall
    <2> QED
      BY <2>2, <2>3
  <1>3. send' \in [1..Len(send) -> ChatSendCall]
    BY <1>1, <1>2
  <1>4. send' \in Seq(ChatSendCall) /\ Len(send') = Len(send)
    BY <1>1, <1>3, SeqDef
  <1>5. /\ Len(record') \in Nat /\ Len(run') \in Nat
        /\ Len(record) <= Len(record') /\ Len(run) <= Len(run')
    BY LenProperties DEF CoreStep, CoreTypeOK
  <1>6. ASSUME NEW s \in DOMAIN send'
        PROVE  /\ send'[s].conv \in 0..Len(record')
               /\ send'[s].run \in 0..Len(run')
               /\ send'[s].stage = "turn" => send'[s].run # 0
    <2>1. /\ send[s].conv \in 0..Len(record)
          /\ send[s].run \in 0..Len(run)
          /\ send[s].stage = "turn" => send[s].run # 0
      BY DEF DirectoryTypeOK
    <2> QED
      BY <2>1, <1>2, <1>5, Elements
  <1> QED
    BY <1>4, <1>6 DEF ChatTypeOK

\* Every step keeps what is known of the chats.
LEMMA ChatNext ==
    ASSUME DirectoryTypeOK, TurnOwned, DirectoryNext, CoreStep
    PROVE  ChatTypeOK'
  <1>1. /\ DOMAIN send = 1..Len(send) /\ Len(send) \in Nat
        /\ \A s \in DOMAIN send : send[s] \in ChatSendCall
        /\ Len(record) \in Nat /\ Len(run) \in Nat
    BY Elements
  <1>2. /\ Len(record') \in Nat /\ Len(run') \in Nat
        /\ Len(record) <= Len(record') /\ Len(run) <= Len(run')
    BY LenProperties DEF CoreStep, CoreTypeOK
  <1>3. /\ send \in Seq(ChatSendCall)
        /\ chat \in [Worker -> 0..Len(record)] /\ chatActive \in [Worker -> 0..Len(send)]
    BY DEF DirectoryTypeOK
  <1>4. chat \in [Worker -> 0..Len(record')] /\ 0..Len(record) \subseteq 0..Len(record')
    BY <1>1, <1>2, <1>3
  <1>5. CASE UNCHANGED <<send, chatActive>> /\ chat' \in [Worker -> 0..Len(record')]
    <2>1. ASSUME NEW s \in DOMAIN send
          PROVE  /\ send[s].conv \in 0..Len(record')
                 /\ send[s].run \in 0..Len(run')
                 /\ send[s].stage = "turn" => send[s].run # 0
      BY <1>1, <1>2 DEF DirectoryTypeOK
    <2> QED
      BY <2>1, <1>3, <1>5 DEF ChatTypeOK
  <1>6. ASSUME NEW w \in Worker, ChatSend(w)
        PROVE  ChatTypeOK'
    <2> DEFINE new == [worker |-> w, stage |-> "context", conv |-> chat[w], run |-> 0, aborted |-> FALSE]
    <2>1. chat[w] \in Nat /\ chat[w] \in 0..Len(record)
      BY <1>1, <1>3
    <2>2. new \in ChatSendCall /\ new.conv = chat[w] /\ new.run = 0 /\ new.stage = "context"
      BY <2>1 DEF ChatSendCall
    <2>3. send' = Append(send, new) /\ chat' = chat
      BY <1>6 DEF ChatSend
    <2>4. chatActive' = [chatActive EXCEPT ![w] = Len(send) + 1]
      BY <1>6 DEF ChatSend
    <2> HIDE DEF new
    <2>5. /\ send' \in Seq(ChatSendCall) /\ Len(send') = Len(send) + 1
          /\ DOMAIN send' = 1..(Len(send) + 1)
          /\ \A s \in DOMAIN send : send'[s] = send[s]
          /\ send'[Len(send) + 1] = new
      BY <1>1, <1>3, <2>2, <2>3, AppendProperties, LenProperties
    <2>6. chatActive' \in [Worker -> 0..Len(send')]
      <3>1. chatActive \in [Worker -> 0..Len(send')] /\ Len(send) + 1 \in 0..Len(send')
        BY <1>1, <1>3, <2>5
      <3> QED
        BY <3>1, <2>4
    <2>7. ASSUME NEW s \in DOMAIN send'
          PROVE  /\ send'[s].conv \in 0..Len(record')
                 /\ send'[s].run \in 0..Len(run')
                 /\ send'[s].stage = "turn" => send'[s].run # 0
      <3>1. CASE s \in DOMAIN send
        <4>1. /\ send[s].conv \in 0..Len(record)
              /\ send[s].run \in 0..Len(run)
              /\ send[s].stage = "turn" => send[s].run # 0
          BY <3>1 DEF DirectoryTypeOK
        <4> QED
          BY <3>1, <4>1, <2>5, <1>1, <1>2
      <3>2. CASE s = Len(send) + 1
        BY <3>2, <2>1, <2>2, <2>5, <1>1, <1>2
      <3> QED
        BY <3>1, <3>2, <2>5, <1>1
    <2> QED
      BY <2>3, <2>5, <2>6, <2>7, <1>4 DEF ChatTypeOK
  <1>7. ASSUME NEW ss, SignalSends(ss), UNCHANGED chatActive, chat' \in [Worker -> 0..Len(record')]
        PROVE  ChatTypeOK'
    <2>1. /\ DOMAIN send' = DOMAIN send
          /\ send' = [s \in DOMAIN send |-> send'[s]]
          /\ \A s \in DOMAIN send :
               send'[s] = send[s] \/ send'[s] = [send[s] EXCEPT !.aborted = TRUE]
      BY <1>7 DEF SignalSends
    <2> QED
      BY <2>1, <1>3, <1>7, SendsSignalled
  <1>8. ASSUME NEW w \in Worker, ChatCancel(w)
        PROVE  ChatTypeOK'
    BY <1>4, <1>7, <1>8 DEF ChatCancel
  <1>9. ASSUME NEW w \in Worker, ChatClose(w)
        PROVE  ChatTypeOK'
    <2>1. chat' \in [Worker -> 0..Len(record')]
      <3>1. chat' = chat \/ chat' = [chat EXCEPT ![w] = 0]
        BY <1>9 DEF ChatClose
      <3>2. 0 \in 0..Len(record')
        BY <1>2
      <3> QED
        BY <3>1, <3>2, <1>4
    <2>2. (\E ss : SignalSends(ss)) /\ UNCHANGED chatActive
      BY <1>9 DEF ChatClose
    <2> QED
      BY <2>1, <2>2, <1>7
  <1>10. CASE CloseAll
    <2>1. chat' \in [Worker -> 0..Len(record')] /\ chatActive' \in [Worker -> 0..Len(send)]
      BY <1>1, <1>2, <1>10 DEF CloseAll
    <2>2. PICK ss : SignalSends(ss)
      BY <1>10 DEF CloseAll
    <2>3. /\ DOMAIN send' = DOMAIN send
          /\ send' = [s \in DOMAIN send |-> send'[s]]
          /\ \A s \in DOMAIN send :
               send'[s] = send[s] \/ send'[s] = [send[s] EXCEPT !.aborted = TRUE]
      BY <2>2 DEF SignalSends
    <2> QED
      BY <2>1, <2>3, SendsSignalled
  <1>11. ASSUME NEW s \in DOMAIN send
         PROVE  ClearActive(s) \in [Worker -> 0..Len(send)]
    <2>1. send[s].worker \in Worker /\ 0 \in 0..Len(send)
      BY <1>1 DEF ChatSendCall
    <2> QED
      BY <2>1, <1>3 DEF ClearActive
  <1>12. ASSUME NEW s \in DOMAIN send, ChatTurn(s)
         PROVE  ChatTypeOK'
    <2>1. /\ send[s] \in ChatSendCall /\ send[s].conv \in 0..Len(record) /\ send[s].run \in 0..Len(run)
      BY <1>1 DEF DirectoryTypeOK
    <2>2. chat' = chat
      BY <1>12 DEF ChatTurn
    <2>3. CASE /\ Start(<<send[s].worker>>, send[s].aborted) \/ Message(send[s].conv, send[s].aborted)
               /\ send' = [send EXCEPT ![s].stage = "turn", ![s].run = Len(run) + 1]
               /\ UNCHANGED chatActive
      <3> DEFINE e == [send[s] EXCEPT !.stage = "turn", !.run = Len(run) + 1]
      <3>1. /\ e \in ChatSendCall /\ e.conv = send[s].conv /\ e.run = Len(run) + 1
        <4>1. Len(run) + 1 \in Nat
          BY <1>1
        <4> QED
          BY <4>1, <2>1 DEF ChatSendCall
      <3>2. send' = [send EXCEPT ![s] = e]
        BY <2>3
      <3> HIDE DEF e
      <3>3. Len(run') = Len(run) + 1
        <4>1. CASE Start(<<send[s].worker>>, send[s].aborted)
          <5>1. <<send[s].worker>> \in Seq(Worker) /\ Len(<<send[s].worker>>) = 1
            BY <2>1 DEF ChatSendCall
          <5>2. send[s].aborted \in BOOLEAN
            BY <2>1 DEF ChatSendCall
          <5> QED
            BY <4>1, <5>1, <5>2, StartEffect
        <4>2. CASE Message(send[s].conv, send[s].aborted)
          <5>1. send[s].aborted \in BOOLEAN
            BY <2>1 DEF ChatSendCall
          <5> QED
            BY <4>2, <5>1, MessageCore
        <4> QED
          BY <2>3, <4>1, <4>2
      <3>4. e.conv \in 0..Len(record') /\ e.run \in 0..Len(run') /\ e.run # 0
        BY <3>1, <3>3, <2>1, <1>1, <1>2
      <3> QED
        BY <3>1, <3>2, <3>4, <2>2, <2>3, <1>3, <1>4, SendChanged
    <2>4. CASE /\ send' = [send EXCEPT ![s].stage = "done", ![s].aborted = FALSE]
               /\ chatActive' = ClearActive(s)
      <3> DEFINE e == [send[s] EXCEPT !.stage = "done", !.aborted = FALSE]
      <3>1. /\ e \in ChatSendCall /\ e.conv = send[s].conv /\ e.run = send[s].run /\ e.stage = "done"
        BY <2>1 DEF ChatSendCall
      <3>2. send' = [send EXCEPT ![s] = e]
        BY <2>4
      <3> HIDE DEF e
      <3>3. e.conv \in 0..Len(record') /\ e.run \in 0..Len(run') /\ e.stage # "turn"
        BY <3>1, <2>1, <1>1, <1>2
      <3> QED
        BY <3>1, <3>2, <3>3, <2>2, <2>4, <1>4, <1>11, SendChanged
    <2> QED
      BY <1>12, <2>3, <2>4 DEF ChatTurn
  <1>13. ASSUME NEW s \in DOMAIN send, ChatSendEnds(s)
         PROVE  ChatTypeOK'
    <2>1. /\ send[s] \in ChatSendCall /\ send[s].conv \in 0..Len(record)
          /\ send[s].run \in DOMAIN run
      BY <1>1, <1>13, Elements DEF DirectoryTypeOK, ChatSendEnds
    <2> DEFINE e == [send[s] EXCEPT !.stage = "done", !.run = 0, !.aborted = FALSE]
    <2>2. /\ e \in ChatSendCall /\ e.conv = send[s].conv /\ e.run = 0 /\ e.stage = "done"
      BY <2>1 DEF ChatSendCall
    <2>3. /\ send' = [send EXCEPT ![s] = e] /\ chatActive' = ClearActive(s)
          /\ chat' = [chat EXCEPT ![send[s].worker] = run[send[s].run].conv]
      BY <1>13 DEF ChatSendEnds
    <2> HIDE DEF e
    <2>4. chat' \in [Worker -> 0..Len(record')]
      <3>1. run[send[s].run].conv \in 0..Len(record')
        BY <2>1, <1>1, <1>2 DEF DirectoryTypeOK
      <3> QED
        BY <3>1, <2>3, <1>4
    <2>5. e.conv \in 0..Len(record') /\ e.run \in 0..Len(run') /\ e.stage # "turn"
      BY <2>1, <2>2, <1>1, <1>2
    <2> QED
      BY <2>2, <2>3, <2>4, <2>5, <1>11, SendChanged
  <1>14. ASSUME NEW w \in Worker, RestoreConversationTurn(w)
         PROVE  ChatTypeOK'
    BY <1>5, <1>14, RestoreCore DEF RestoreConversationTurn
  <1>15. CASE UNCHANGED <<send, chatActive, chat>>
    BY <1>4, <1>5, <1>15
  <1> QED
    BY <1>6, <1>8, <1>9, <1>10, <1>12, <1>13, <1>14, <1>15
       DEF DirectoryNext, chatVars, RunOneShot, StartConversations, MessageConversation,
           CancelConversation, CloseConversation, Timeout, RunEnds, TurnEnds

-----------------------------------------------------------------------------
(* Counting slots, runs and conversations. *)

\* A slot for each one-shot run the counters f say is under way.
Slots(f) == UNION {{w} \X (1..f[w]) : w \in Worker}

\* A slot is one of a worker's places.
LEMMA SlotIn ==
    ASSUME NEW f \in [Worker -> Nat], NEW x
    PROVE  x \in Slots(f) <=> \E w \in Worker : \E n \in 1..f[w] : x = <<w, n>>
  BY DEF Slots

\* There are finitely many slots.
LEMMA SlotsFinite ==
    ASSUME NEW f \in [Worker -> Nat]
    PROVE  IsFiniteSet(Slots(f)) /\ Cardinality(Slots(f)) \in Nat
  <1> DEFINE T == {{w} \X (1..f[w]) : w \in Worker}
             g == [w \in Worker |-> {w} \X (1..f[w])]
  <1>1. g \in Surjection(Worker, T)
    BY DEF Surjection
  <1>2. IsFiniteSet(T)
    BY <1>1, FS_Surjection, WorkerAssumption
  <1>3. ASSUME NEW t \in T
        PROVE  IsFiniteSet(t)
    <2>1. PICK w \in Worker : t = {w} \X (1..f[w])
      OBVIOUS
    <2>2. f[w] \in Nat
      OBVIOUS
    <2>3. IsFiniteSet({w}) /\ IsFiniteSet(1..f[w])
      <3>1. IsFiniteSet({w})
        BY FS_Singleton
      <3>2. 1 \in Int /\ f[w] \in Int
        BY <2>2
      <3> QED
        BY <3>1, <3>2, FS_Interval
    <2> QED
      BY <2>1, <2>3, FS_Product
  <1> HIDE DEF T
  <1>4. IsFiniteSet(UNION T)
    BY <1>2, <1>3, FS_UNION
  <1>5. IsFiniteSet(Slots(f))
    BY <1>4 DEF Slots, T
  <1> QED
    BY <1>5, FS_CardinalityType

\* Counting one more run of a worker takes one more slot.
LEMMA SlotTaken ==
    ASSUME NEW f \in [Worker -> Nat], NEW w \in Worker
    PROVE  /\ [f EXCEPT ![w] = @ + 1] \in [Worker -> Nat]
           /\ Cardinality(Slots([f EXCEPT ![w] = @ + 1])) = Cardinality(Slots(f)) + 1
  <1> DEFINE g == [f EXCEPT ![w] = @ + 1]
             new == <<w, f[w] + 1>>
  <1>1. g \in [Worker -> Nat] /\ g[w] = f[w] + 1 /\ \A v \in Worker \ {w} : g[v] = f[v]
    OBVIOUS
  <1>2. f[w] \in Nat
    OBVIOUS
  <1> HIDE DEF g
  <1>3. new \notin Slots(f)
    <2> SUFFICES ASSUME NEW v \in Worker, NEW n \in 1..f[v], new = <<v, n>>
                 PROVE  FALSE
      BY SlotIn
    <2>1. v = w /\ n = f[w] + 1
      OBVIOUS
    <2> QED
      BY <2>1, <1>2
  <1>4. Slots(g) = Slots(f) \cup {new}
    <2>1. ASSUME NEW x \in Slots(g)
          PROVE  x \in Slots(f) \cup {new}
      <3>1. \E v \in Worker : \E n \in 1..g[v] : x = <<v, n>>
        BY <1>1, SlotIn
      <3> PICK v \in Worker : \E n \in 1..g[v] : x = <<v, n>>
        BY <3>1
      <3> PICK n \in 1..g[v] : x = <<v, n>>
        OBVIOUS
      <3>2. CASE v = w
        <4>1. n \in 1..f[w] \/ n = f[w] + 1
          BY <3>2, <1>1, <1>2
        <4> QED
          BY <3>2, <4>1, SlotIn
      <3>3. CASE v # w
        BY <3>3, <1>1, SlotIn
      <3> QED
        BY <3>2, <3>3
    <2>2. ASSUME NEW x \in Slots(f)
          PROVE  x \in Slots(g)
      <3>1. \E v \in Worker : \E n \in 1..f[v] : x = <<v, n>>
        BY SlotIn
      <3> PICK v \in Worker : \E n \in 1..f[v] : x = <<v, n>>
        BY <3>1
      <3> PICK n \in 1..f[v] : x = <<v, n>>
        OBVIOUS
      <3>2. n \in 1..g[v]
        BY <1>1, <1>2
      <3> QED
        BY <3>2, <1>1, SlotIn
    <2>3. new \in Slots(g)
      <3>1. f[w] + 1 \in 1..g[w]
        BY <1>1, <1>2
      <3> QED
        BY <3>1, <1>1, SlotIn
    <2> QED
      BY <2>1, <2>2, <2>3
  <1>5. Cardinality(Slots(g)) = Cardinality(Slots(f)) + 1
    BY <1>3, <1>4, SlotsFinite, FS_AddElement
  <1> QED
    BY <1>1, <1>5 DEF g

\* Counting one run less gives a slot back.
LEMMA SlotFreed ==
    ASSUME NEW f \in [Worker -> Nat], NEW w \in Worker, f[w] # 0
    PROVE  /\ [f EXCEPT ![w] = @ - 1] \in [Worker -> Nat]
           /\ Cardinality(Slots(f)) = Cardinality(Slots([f EXCEPT ![w] = @ - 1])) + 1
  <1> DEFINE g == [f EXCEPT ![w] = @ - 1]
  <1>1. g \in [Worker -> Nat] /\ g[w] = f[w] - 1 /\ \A v \in Worker \ {w} : g[v] = f[v]
    <2>1. f[w] - 1 \in Nat
      OBVIOUS
    <2> QED
      BY <2>1
  <1>2. f = [g EXCEPT ![w] = @ + 1]
    <2>1. g[w] + 1 = f[w]
      BY <1>1
    <2>2. [g EXCEPT ![w] = @ + 1] = [g EXCEPT ![w] = f[w]]
      BY <2>1
    <2> HIDE DEF g
    <2>3. f = [g EXCEPT ![w] = f[w]]
      BY <1>1
    <2> QED
      BY <2>2, <2>3
  <1> HIDE DEF g
  <1>3. Cardinality(Slots(f)) = Cardinality(Slots(g)) + 1
    BY <1>1, <1>2, SlotTaken
  <1> QED
    BY <1>1, <1>3 DEF g

\* The runs and conversations of a state are finitely many.
LEMMA CountsFinite ==
    ASSUME DirectoryTypeOK
    PROVE  /\ IsFiniteSet(OneShotRuns) /\ Cardinality(OneShotRuns) \in Nat
           /\ \A w : IsFiniteSet(OneShotRunsOf(w)) /\ Cardinality(OneShotRunsOf(w)) \in Nat
           /\ IsFiniteSet(stored) /\ Cardinality(stored) \in Nat
           /\ IsFiniteSet(Running) /\ Cardinality(Running) \in Nat
           /\ \A w : IsFiniteSet(RunningOf(w)) /\ Cardinality(RunningOf(w)) \in Nat
           /\ Cardinality(Running) <= Cardinality(stored)
  <1>1. IsFiniteSet(1..Len(run)) /\ IsFiniteSet(1..Len(record))
    BY Elements, FS_Interval
  <1>2. OneShotRuns \subseteq 1..Len(run) /\ \A w : OneShotRunsOf(w) \subseteq 1..Len(run)
    BY Elements DEF OneShotRuns, OneShotRunsOf
  <1>3. stored \subseteq 1..Len(record) /\ Running \subseteq stored /\ \A w : RunningOf(w) \subseteq stored
    BY Elements DEF DirectoryTypeOK, Running, RunningOf
  <1>4. IsFiniteSet(OneShotRuns) /\ \A w : IsFiniteSet(OneShotRunsOf(w))
    BY <1>1, <1>2, FS_Subset
  <1>5. IsFiniteSet(stored)
    BY <1>1, <1>3, FS_Subset
  <1>6. /\ IsFiniteSet(Running) /\ Cardinality(Running) <= Cardinality(stored)
        /\ \A w : IsFiniteSet(RunningOf(w))
    BY <1>3, <1>5, FS_Subset
  <1> QED
    BY <1>4, <1>5, <1>6, FS_CardinalityType

\* Numbers moved by n are no more than they were.
LEMMA Shifted ==
    ASSUME NEW I, IsFiniteSet(I), NEW n
    PROVE  /\ IsFiniteSet({n + i : i \in I})
           /\ Cardinality({n + i : i \in I}) <= Cardinality(I)
  <1>1. [i \in I |-> n + i] \in Surjection(I, {n + i : i \in I})
    BY DEF Surjection
  <1> QED
    BY <1>1, FS_Surjection

\* A union is at most as large as its parts together.
LEMMA UnionBound ==
    ASSUME NEW S, NEW T, IsFiniteSet(S), IsFiniteSet(T), NEW U, U \subseteq S \cup T
    PROVE  /\ IsFiniteSet(U)
           /\ Cardinality(U) \in Nat /\ Cardinality(S) \in Nat /\ Cardinality(T) \in Nat
           /\ Cardinality(U) <= Cardinality(S) + Cardinality(T)
  <1>1. /\ IsFiniteSet(S \cup T)
        /\ Cardinality(S \cup T) = Cardinality(S) + Cardinality(T) - Cardinality(S \cap T)
    BY FS_Union
  <1>2. IsFiniteSet(S \cap T)
    BY FS_Intersection
  <1>3. IsFiniteSet(U) /\ Cardinality(U) <= Cardinality(S \cup T)
    BY <1>1, FS_Subset
  <1>4. /\ Cardinality(S) \in Nat /\ Cardinality(T) \in Nat /\ Cardinality(S \cap T) \in Nat
        /\ Cardinality(U) \in Nat /\ Cardinality(S \cup T) \in Nat
    BY <1>1, <1>2, <1>3, FS_CardinalityType
  <1> QED
    BY <1>1, <1>3, <1>4

\* The order of two conversations with these times of their last update.
BeforeIn(a, c, b, d) == a < b \/ (a = b /\ c < d)

\* It is a strict order.
LEMMA BeforeTransitive ==
    ASSUME NEW a \in Nat, NEW b \in Nat, NEW e \in Nat, NEW c \in Nat, NEW d \in Nat, NEW f \in Nat
    PROVE  /\ BeforeIn(a, c, b, d) /\ BeforeIn(b, d, e, f) => BeforeIn(a, c, e, f)
           /\ ~BeforeIn(a, c, a, c)
  BY DEF BeforeIn

\* Eviction makes room, or leaves none but those that run.
LEMMA KeptSize ==
    ASSUME NEW s, s \subseteq Nat, IsFiniteSet(s), NEW rec, NEW room \in Nat,
           \A c \in s : rec[c].updated \in Nat
    PROVE  \/ Cardinality(Kept(s, rec, room)) <= room
           \/ Kept(s, rec, room) = {c \in s : rec[c].status = "running"}
  <1> DEFINE K == Kept(s, rec, room)
             idle == {c \in K : rec[c].status # "running"}
             fits(c) == {d \in s : rec[d].status = "running" \/ ~Before(rec, d, c)}
             older(c) == {d \in s : Before(rec, d, c)}
  <1>1. SUFFICES ASSUME idle # {}
                 PROVE  Cardinality(K) <= room
    BY DEF Kept
  <1> DEFINE F == {older(c) : c \in idle}
  <1>2. K \subseteq s /\ idle \subseteq s
    BY DEF Kept
  <1>3. F \subseteq FiniteSubsetsOf(s) /\ F # {}
    <2>1. ASSUME NEW c
          PROVE  older(c) \in FiniteSubsetsOf(s)
      <3>1. older(c) \subseteq s
        OBVIOUS
      <3>2. IsFiniteSet(older(c))
        BY <3>1, FS_Subset
      <3> QED
        BY <3>1, <3>2 DEF FiniteSubsetsOf
    <2> QED
      BY <1>1, <2>1
  <1>4. IsWellFoundedOn(StrictSubsetOrdering(s), FiniteSubsetsOf(s))
    BY FS_StrictSubsetOrderingWellFounded
  <1>5. \E x \in F : \A y \in F : ~ (<<y, x>> \in StrictSubsetOrdering(s))
    <2> HIDE DEF F
    <2> QED
      BY <1>3, <1>4, WFMin
  <1>6. PICK c \in idle : \A d \in idle : ~ (<<older(d), older(c)>> \in StrictSubsetOrdering(s))
    BY <1>5
  <1>7. \A d \in s : rec[d].updated \in Nat /\ d \in Nat
    OBVIOUS
  <1>8. ASSUME NEW d \in idle, Before(rec, d, c)
        PROVE  FALSE
    <2>1. older(d) \subseteq older(c)
      <3> SUFFICES ASSUME NEW e \in s, Before(rec, e, d)
                   PROVE  Before(rec, e, c)
        OBVIOUS
      <3>1. BeforeIn(rec[e].updated, e, rec[d].updated, d) /\ BeforeIn(rec[d].updated, d, rec[c].updated, c)
        BY <1>8 DEF Before, BeforeIn
      <3>2. /\ rec[e].updated \in Nat /\ rec[d].updated \in Nat /\ rec[c].updated \in Nat
            /\ e \in Nat /\ d \in Nat /\ c \in Nat
        BY <1>2, <1>7
      <3>3. BeforeIn(rec[e].updated, e, rec[c].updated, c)
        <4>1. \A x, y, z \in Nat : BeforeIn(x, e, y, d) /\ BeforeIn(y, d, z, c) => BeforeIn(x, e, z, c)
          BY <3>2, BeforeTransitive
        <4> QED
          BY <3>1, <3>2, <4>1, Zenon
      <3> QED
        BY <3>3 DEF Before, BeforeIn
    <2>2. d \in older(c) /\ d \notin older(d)
      <3>1. d \in s /\ rec[d].updated \in Nat /\ d \in Nat
        BY <1>2, <1>7
      <3>2. ~BeforeIn(rec[d].updated, d, rec[d].updated, d)
        BY <3>1, BeforeTransitive
      <3> QED
        BY <3>1, <3>2, <1>8 DEF Before, BeforeIn
    <2>3. <<older(d), older(c)>> \in (SUBSET s) \X (SUBSET s)
      OBVIOUS
    <2> QED
      BY <1>6, <2>1, <2>2, <2>3 DEF StrictSubsetOrdering
  <1>9. K \subseteq fits(c)
    BY <1>2, <1>8
  <1>10. Cardinality(fits(c)) <= room
    BY DEF Kept
  <1>11. IsFiniteSet(fits(c)) /\ Cardinality(fits(c)) \in Nat /\ Cardinality(K) \in Nat
         /\ Cardinality(K) <= Cardinality(fits(c))
    <2>1. fits(c) \subseteq s
      OBVIOUS
    <2>2. IsFiniteSet(fits(c))
      BY <2>1, FS_Subset
    <2> HIDE DEF fits, K
    <2>3. IsFiniteSet(K) /\ Cardinality(K) <= Cardinality(fits(c))
      BY <1>9, <2>2, FS_Subset
    <2> QED
      BY <2>2, <2>3, FS_CardinalityType
  <1> QED
    BY <1>10, <1>11

-----------------------------------------------------------------------------
(* The counters and the limits. *)

\* The step leaves the one-shot runs and their counters alone.
OneShotsSame ==
    /\ oneShots' = oneShots
    /\ OneShotRuns' = OneShotRuns
    /\ \A w : OneShotRunsOf(w)' = OneShotRunsOf(w)

\* Runs that keep their conversation, worker and stage are counted as before.
LEMMA SameRunsSame ==
    ASSUME oneShots' = oneShots, DOMAIN run' = DOMAIN run,
           \A r \in DOMAIN run : /\ run'[r].worker = run[r].worker
                                 /\ run'[r].conv = run[r].conv
                                 /\ run'[r].stage = run[r].stage
    PROVE  OneShotsSame
  BY DEF OneShotsSame, OneShotRuns, OneShotRunsOf

\* An abort ends no run.
LEMMA AbortSame ==
    ASSUME DirectoryTypeOK, NEW rs, run' = Aborted(rs), oneShots' = oneShots
    PROVE  OneShotsSame
  BY AbortedRuns, SameRunsSame

\* The limits when the conversations that run are among the sets R and, of
\* each worker, Rw, which fit.
LEMMA LimitsKept ==
    ASSUME DirectoryTypeOK, Counted, OneShotsSame,
           Cardinality(stored') <= MaxConversations,
           Cardinality(Running') + ActiveOneShots <= MaxActive,
           \A w \in Worker : Cardinality(RunningOf(w)') + oneShots[w] <= MaxActivePerWorker
    PROVE  Counted'
  BY DEF Counted, OneShotsSame, ActiveOneShots

\* A step that adds no conversation and starts no turn keeps the limits.
LEMMA FewerCounted ==
    ASSUME DirectoryTypeOK, Counted, OneShotsSame, stored' \subseteq stored,
           \A c \in stored' : /\ record'[c].worker = record[c].worker
                              /\ record'[c].status = "running" => record[c].status = "running"
    PROVE  Counted'
  <1>1. Running' \subseteq Running /\ \A w : RunningOf(w)' \subseteq RunningOf(w)
    BY DEF Running, RunningOf
  <1>2. /\ Cardinality(stored') <= Cardinality(stored)
        /\ Cardinality(Running') <= Cardinality(Running)
        /\ \A w : Cardinality(RunningOf(w)') <= Cardinality(RunningOf(w))
    BY <1>1, CountsFinite, FS_Subset
  <1>3. /\ Cardinality(stored') \in Nat
        /\ Cardinality(Running') \in Nat
        /\ \A w : Cardinality(RunningOf(w)') \in Nat
    BY <1>1, CountsFinite, FS_Subset, FS_CardinalityType
  <1>4. /\ Cardinality(stored) \in Nat /\ Cardinality(Running) \in Nat
        /\ \A w : Cardinality(RunningOf(w)) \in Nat
        /\ ActiveOneShots \in Nat /\ oneShots \in [Worker -> Nat]
    <2>1. ActiveOneShots \in Nat
      BY CountsFinite DEF Counted
    <2> QED
      BY <2>1, CountsFinite DEF DirectoryTypeOK
  <1>5. MaxConversations \in Nat /\ MaxActive \in Nat /\ MaxActivePerWorker \in Nat
    BY WorkerAssumption
  <1>6. Cardinality(stored') <= MaxConversations
    BY <1>2, <1>3, <1>4, <1>5 DEF Counted
  <1>7. Cardinality(Running') + ActiveOneShots <= MaxActive
    <2>1. Cardinality(Running) + ActiveOneShots <= MaxActive
      BY DEF Counted
    <2> QED
      BY <2>1, <1>2, <1>3, <1>4, <1>5
  <1>8. ASSUME NEW w \in Worker
        PROVE  Cardinality(RunningOf(w)') + oneShots[w] <= MaxActivePerWorker
    <2>1. /\ Cardinality(RunningOf(w)) + oneShots[w] <= MaxActivePerWorker
          /\ oneShots[w] \in Nat
      BY <1>4 DEF Counted
    <2>2. /\ Cardinality(RunningOf(w)') <= Cardinality(RunningOf(w))
          /\ Cardinality(RunningOf(w)') \in Nat /\ Cardinality(RunningOf(w)) \in Nat
      BY <1>2, <1>3, <1>4
    <2> QED
      BY <2>1, <2>2, <1>5
  <1> QED
    BY <1>6, <1>7, <1>8, LimitsKept

\* A batch fits as a whole.
LEMMA StartCounted ==
    ASSUME DirectoryTypeOK, Counted, NEW ws \in Seq(Worker), NEW a \in BOOLEAN, Start(ws, a),
           oneShots' = oneShots
    PROVE  Counted'
  <1> DEFINE kept == Kept(stored, record, MaxConversations - Len(ws))
             new == {Len(record) + i : i \in 1..Len(ws)}
             places(w) == {i \in 1..Len(ws) : ws[i] = w}
             newOf(w) == {Len(record) + i : i \in places(w)}
  <1>1. /\ DOMAIN record' = 1..(Len(record) + Len(ws)) /\ DOMAIN run' = 1..(Len(run) + Len(ws))
        /\ \A c \in DOMAIN record : record'[c] = record[c]
        /\ \A r \in DOMAIN run : run'[r] = run[r]
    BY StartEffect
  <1>2. \A i \in 1..Len(ws) :
          /\ record'[Len(record) + i].worker = ws[i]
          /\ run'[Len(run) + i].conv = Len(record) + i
    BY StartEffect
  <1>3. \A r \in DOMAIN run' : r \in DOMAIN run \/ \E i \in 1..Len(ws) : r = Len(run) + i
    BY StartEffect
  <1>4. /\ Len(ws) \in Nat /\ DOMAIN ws = 1..Len(ws) /\ Len(record) \in Nat /\ Len(run) \in Nat
        /\ DOMAIN record = 1..Len(record) /\ DOMAIN run = 1..Len(run)
    BY Elements, LenProperties
  <1>5. OneShotsSame
    <2>1. ASSUME NEW i \in 1..Len(ws)
          PROVE  run'[Len(run) + i].conv # 0
      <3>1. Len(record) \in Nat /\ Len(ws) \in Nat
        BY <1>4
      <3>2. Len(record) + i # 0
        BY <3>1
      <3> QED
        BY <1>2, <3>2
    <2>2. DOMAIN run \subseteq DOMAIN run'
      BY <1>1, <1>4
    <2>3. OneShotRuns' = OneShotRuns
      BY <1>1, <1>3, <2>1, <2>2 DEF OneShotRuns
    <2>4. \A w : OneShotRunsOf(w)' = OneShotRunsOf(w)
      BY <2>3, <1>1 DEF OneShotRunsOf, OneShotRuns
    <2> QED
      BY <2>3, <2>4 DEF OneShotsSame
  <1>6. stored' = kept \cup new /\ kept \subseteq stored /\ stored \subseteq DOMAIN record
    BY <1>4, KeptSome DEF Start, DirectoryTypeOK
  <1>7. Running' \subseteq Running \cup new
    BY <1>1, <1>6 DEF Running
  <1>8. ASSUME NEW w
        PROVE  RunningOf(w)' \subseteq RunningOf(w) \cup newOf(w)
    <2> SUFFICES ASSUME NEW c \in RunningOf(w)', c \notin RunningOf(w)
                 PROVE  c \in newOf(w)
      OBVIOUS
    <2>1. c \in Running' /\ record'[c].worker = w
      BY DEF RunningOf
    <2>2. c \notin Running
      BY <2>1, <1>1, <1>6 DEF RunningOf, Running
    <2>3. PICK i \in 1..Len(ws) : c = Len(record) + i
      BY <2>1, <2>2, <1>7
    <2> QED
      BY <2>1, <2>3, <1>2
  <1>9. /\ IsFiniteSet(1..Len(ws)) /\ Cardinality(1..Len(ws)) = Len(ws)
        /\ \A w : IsFiniteSet(places(w))
    <2>1. IsFiniteSet(1..Len(ws)) /\ Cardinality(1..Len(ws)) = Len(ws)
      <3>1. /\ IsFiniteSet(1..Len(ws))
            /\ Cardinality(1..Len(ws)) = IF 1 > Len(ws) THEN 0 ELSE Len(ws) - 1 + 1
        <4>1. 1 \in Int /\ Len(ws) \in Int
          BY <1>4
        <4> QED
          BY <4>1, FS_Interval
      <3> QED
        BY <3>1, <1>4
    <2>2. \A w : places(w) \subseteq 1..Len(ws)
      OBVIOUS
    <2> HIDE DEF places
    <2> QED
      BY <2>1, <2>2, FS_Subset
  <1>10. IsFiniteSet(new) /\ Cardinality(new) <= Len(ws) /\ Cardinality(new) \in Nat
    <2>1. IsFiniteSet(new) /\ Cardinality(new) <= Cardinality(1..Len(ws))
      BY <1>9, Shifted
    <2> HIDE DEF new
    <2> QED
      BY <2>1, <1>9, FS_CardinalityType
  <1>11. \A w : IsFiniteSet(newOf(w)) /\ Cardinality(newOf(w)) <= Cardinality(places(w))
                /\ Cardinality(newOf(w)) \in Nat /\ Cardinality(places(w)) \in Nat
    <2> SUFFICES ASSUME NEW w
                 PROVE  /\ IsFiniteSet(newOf(w)) /\ Cardinality(newOf(w)) <= Cardinality(places(w))
                        /\ Cardinality(newOf(w)) \in Nat /\ Cardinality(places(w)) \in Nat
      OBVIOUS
    <2>1. IsFiniteSet(places(w))
      BY <1>9
    <2> HIDE DEF places
    <2>2. IsFiniteSet(newOf(w)) /\ Cardinality(newOf(w)) <= Cardinality(places(w))
      BY <2>1, Shifted
    <2> HIDE DEF newOf
    <2> QED
      BY <2>1, <2>2, FS_CardinalityType
  <1>12. /\ MaxConversations \in Nat /\ MaxActive \in Nat /\ MaxActivePerWorker \in Nat
         /\ ActiveOneShots \in Nat /\ oneShots \in [Worker -> Nat]
    BY WorkerAssumption, CountsFinite DEF Counted, DirectoryTypeOK
  <1> HIDE DEF new, newOf
  <1>13. Cardinality(stored') <= MaxConversations
    <2>1. Cardinality(kept) + Len(ws) <= MaxConversations
      BY DEF Start, HasSlots
    <2>2. IsFiniteSet(kept)
      BY <1>6, CountsFinite, FS_Subset
    <2> HIDE DEF kept
    <2>3. /\ Cardinality(stored') <= Cardinality(kept) + Cardinality(new)
          /\ Cardinality(stored') \in Nat /\ Cardinality(kept) \in Nat
      BY <1>6, <1>10, <2>2, UnionBound
    <2> QED
      BY <2>1, <2>3, <1>10, <1>12, <1>4
  <1>14. Cardinality(Running') + ActiveOneShots <= MaxActive
    <2>1. Cardinality(Running) + ActiveOneShots + Len(ws) <= MaxActive
      BY DEF Start, CanStart
    <2>2. /\ Cardinality(Running') <= Cardinality(Running) + Cardinality(new)
          /\ Cardinality(Running') \in Nat /\ Cardinality(Running) \in Nat
      BY <1>7, <1>10, CountsFinite, UnionBound
    <2> QED
      BY <2>1, <2>2, <1>10, <1>12, <1>4
  <1>15. ASSUME NEW w \in Worker
         PROVE  Cardinality(RunningOf(w)') + oneShots[w] <= MaxActivePerWorker
    <2>1. /\ Cardinality(RunningOf(w)') <= Cardinality(RunningOf(w)) + Cardinality(newOf(w))
          /\ Cardinality(RunningOf(w)') \in Nat /\ Cardinality(RunningOf(w)) \in Nat
      BY <1>8, <1>11, CountsFinite, UnionBound
    <2>2. oneShots[w] \in Nat
      BY <1>12
    <2>3. /\ Cardinality(newOf(w)) <= Cardinality(places(w))
          /\ Cardinality(newOf(w)) \in Nat /\ Cardinality(places(w)) \in Nat
      BY <1>11
    <2>4. CASE w \in ToSet(ws)
      <3>1. Cardinality(RunningOf(w)) + oneShots[w] + Requested(ws, w) <= MaxActivePerWorker
        BY <2>4 DEF Start, CanStart
      <3>2. Requested(ws, w) = Cardinality(places(w))
        BY <1>4 DEF Requested
      <3> HIDE DEF places
      <3> QED
        BY <3>1, <3>2, <2>1, <2>2, <2>3, <1>12
    <2>5. CASE w \notin ToSet(ws)
      <3>1. places(w) = {}
        BY <2>5, <1>4 DEF ToSet
      <3>2. Cardinality(places(w)) = 0
        BY <3>1, FS_EmptySet
      <3>3. Cardinality(RunningOf(w)) + oneShots[w] <= MaxActivePerWorker
        BY DEF Counted
      <3> HIDE DEF places
      <3> QED
        BY <3>2, <3>3, <2>1, <2>2, <2>3, <1>12
    <2> QED
      BY <2>4, <2>5
  <1> QED
    BY <1>5, <1>13, <1>14, <1>15, LimitsKept

\* A call for one worker asks for one place.
LEMMA OneRequested ==
    ASSUME NEW w \in Worker
    PROVE  Len(<<w>>) = 1 /\ w \in ToSet(<<w>>) /\ Requested(<<w>>, w) = 1
  <1>1. {i \in DOMAIN <<w>> : <<w>>[i] = w} = {1}
    OBVIOUS
  <1>2. Cardinality({1}) = 1
    BY FS_Singleton
  <1>3. w \in ToSet(<<w>>)
    BY DEF ToSet
  <1> QED
    BY <1>1, <1>2, <1>3 DEF Requested

\* A conversation that is given another turn becomes one of those that run.
LEMMA MessageCounted ==
    ASSUME DirectoryTypeOK, Counted, NEW c, NEW a \in BOOLEAN, Message(c, a), oneShots' = oneShots
    PROVE  Counted'
  <1> DEFINE n == Signalled(NewRun(record[c].worker, c), a)
  <1>1. c \in stored /\ c \in 1..Len(record) /\ c # 0 /\ stored' = stored /\ stored \subseteq DOMAIN record
    BY Elements DEF Message, DirectoryTypeOK
  <1>2. record[c].worker \in Worker /\ record[c] \in ConversationRecord
    BY <1>1, Elements DEF ConversationRecord
  <1>3. n \in WorkerRun /\ n.conv = c
    BY <1>1, <1>2, Elements DEF Signalled, NewRun, WorkerRun
  <1>4. run' = Append(run, n)
    BY DEF Message
  <1> HIDE DEF n
  <1>5. /\ DOMAIN run' = 1..(Len(run) + 1)
        /\ \A r \in DOMAIN run : run'[r] = run[r]
        /\ run'[Len(run) + 1] = n
    BY <1>3, <1>4, RunAdded
  <1>6. OneShotsSame
    <2>1. run'[Len(run) + 1].conv # 0
      BY <1>1, <1>3, <1>5
    <2>2. DOMAIN run \subseteq DOMAIN run' /\ \A r \in DOMAIN run' : r \in DOMAIN run \/ r = Len(run) + 1
      BY <1>5, Elements
    <2>3. OneShotRuns' = OneShotRuns
      BY <1>5, <2>1, <2>2 DEF OneShotRuns
    <2>4. \A w : OneShotRunsOf(w)' = OneShotRunsOf(w)
      BY <2>3, <1>5 DEF OneShotRunsOf, OneShotRuns
    <2> QED
      BY <2>3, <2>4 DEF OneShotsSame
  <1>7. /\ \A d \in DOMAIN record \ {c} : record'[d] = record[d]
        /\ record'[c].worker = record[c].worker
    <2>1. record' = [record EXCEPT ![c] = [@ EXCEPT !.status = "running", !.controller = Len(run) + 1,
                                                !.updated = clock + 1]]
      BY DEF Message
    <2>2. \A d \in DOMAIN record \ {c} : record'[d] = record[d]
      BY <2>1
    <2>3. record'[c] = [record[c] EXCEPT !.status = "running", !.controller = Len(run) + 1,
                                         !.updated = clock + 1]
      BY <2>1, <1>1, Elements
    <2> QED
      BY <2>2, <2>3, <1>2 DEF ConversationRecord
  <1>8. Running' \subseteq Running \cup {c}
    BY <1>1, <1>7 DEF Running
  <1>9. \A w : /\ w = record[c].worker => RunningOf(w)' \subseteq RunningOf(w) \cup {c}
               /\ w # record[c].worker => RunningOf(w)' \subseteq RunningOf(w)
    <2>1. ASSUME NEW w, NEW d \in RunningOf(w)'
          PROVE  d \in RunningOf(w) \/ (d = c /\ w = record[c].worker)
      <3>1. d \in Running' /\ record'[d].worker = w /\ d \in DOMAIN record
        BY <1>1 DEF RunningOf, Running
      <3>2. CASE d = c
        BY <3>1, <3>2, <1>7
      <3>3. CASE d # c
        <4>1. record'[d] = record[d] /\ d \in Running
          BY <3>1, <3>3, <1>7, <1>8
        <4> QED
          BY <3>1, <4>1 DEF RunningOf
      <3> QED
        BY <3>2, <3>3
    <2> QED
      BY <2>1
  <1>10. IsFiniteSet({c}) /\ Cardinality({c}) = 1
    BY FS_Singleton
  <1>11. /\ MaxConversations \in Nat /\ MaxActive \in Nat /\ MaxActivePerWorker \in Nat
         /\ ActiveOneShots \in Nat /\ oneShots \in [Worker -> Nat]
    BY WorkerAssumption, CountsFinite DEF Counted, DirectoryTypeOK
  <1>12. Cardinality(stored') <= MaxConversations
    BY <1>1 DEF Counted
  <1>13. Cardinality(Running') + ActiveOneShots <= MaxActive
    <2>1. Cardinality(Running) + ActiveOneShots + 1 <= MaxActive
      BY <1>2, OneRequested DEF Message, CanStart
    <2>2. /\ Cardinality(Running') <= Cardinality(Running) + 1
          /\ Cardinality(Running') \in Nat /\ Cardinality(Running) \in Nat
      BY <1>8, <1>10, CountsFinite, UnionBound
    <2> QED
      BY <2>1, <2>2, <1>11
  <1>14. ASSUME NEW w \in Worker
         PROVE  Cardinality(RunningOf(w)') + oneShots[w] <= MaxActivePerWorker
    <2>1. oneShots[w] \in Nat
      BY <1>11
    <2>2. CASE w = record[c].worker
      <3>1. Cardinality(RunningOf(w)) + oneShots[w] + 1 <= MaxActivePerWorker
        BY <1>2, <2>2, OneRequested DEF Message, CanStart
      <3>2. RunningOf(w)' \subseteq RunningOf(w) \cup {c}
        BY <1>9, <2>2
      <3>3. /\ Cardinality(RunningOf(w)') <= Cardinality(RunningOf(w)) + 1
            /\ Cardinality(RunningOf(w)') \in Nat /\ Cardinality(RunningOf(w)) \in Nat
        BY <3>2, <1>10, CountsFinite, UnionBound
      <3> QED
        BY <3>1, <3>3, <2>1, <1>11
    <2>3. CASE w # record[c].worker
      <3>1. Cardinality(RunningOf(w)) + oneShots[w] <= MaxActivePerWorker
        BY DEF Counted
      <3>2. RunningOf(w)' \subseteq RunningOf(w)
        BY <1>9, <2>3
      <3>3. IsFiniteSet(RunningOf(w)') /\ Cardinality(RunningOf(w)') <= Cardinality(RunningOf(w))
        BY <3>2, CountsFinite, FS_Subset
      <3>4. Cardinality(RunningOf(w)') \in Nat /\ Cardinality(RunningOf(w)) \in Nat
        BY <3>3, CountsFinite, FS_CardinalityType
      <3> QED
        BY <3>1, <3>3, <3>4, <2>1, <1>11
    <2> QED
      BY <2>2, <2>3
  <1> QED
    BY <1>6, <1>12, <1>13, <1>14, LimitsKept

\* A one-shot takes a slot of its worker.
LEMMA OneShotCounted ==
    ASSUME DirectoryTypeOK, Counted, NEW w \in Worker, RunOneShot(w)
    PROVE  Counted' /\ oneShots' \in [Worker -> Nat]
  <1> DEFINE r == Len(run) + 1
  <1>1. NewRun(w, 0) \in WorkerRun /\ run' = Append(run, NewRun(w, 0))
    BY DEF NewRun, WorkerRun, RunOneShot
  <1>2. /\ DOMAIN run' = 1..(Len(run) + 1)
        /\ \A q \in DOMAIN run : run'[q] = run[q]
        /\ run'[r] = NewRun(w, 0)
    BY <1>1, RunAdded
  <1>3. /\ DOMAIN run \subseteq DOMAIN run' /\ r \in DOMAIN run' /\ r \notin DOMAIN run
        /\ \A q \in DOMAIN run' : q \in DOMAIN run \/ q = r
    BY <1>2, Elements
  <1> HIDE DEF r
  <1>4. OneShotRuns' = OneShotRuns \cup {r} /\ r \notin OneShotRuns
    BY <1>2, <1>3 DEF OneShotRuns, NewRun
  <1>5. /\ OneShotRunsOf(w)' = OneShotRunsOf(w) \cup {r} /\ r \notin OneShotRunsOf(w)
        /\ \A v : v # w => OneShotRunsOf(v)' = OneShotRunsOf(v)
    <2>1. \A q \in OneShotRuns : run'[q].worker = run[q].worker
      BY <1>2 DEF OneShotRuns
    <2>2. run'[r].worker = w
      BY <1>2 DEF NewRun
    <2>3. \A v : OneShotRunsOf(v)' = {q \in OneShotRuns' : run'[q].worker = v}
      BY DEF OneShotRunsOf
    <2>4. r \notin OneShotRunsOf(w)
      BY <1>4 DEF OneShotRunsOf
    <2>5. OneShotRunsOf(w)' = OneShotRunsOf(w) \cup {r}
      BY <2>1, <2>2, <2>3, <1>4 DEF OneShotRunsOf
    <2>6. \A v : v # w => OneShotRunsOf(v)' = OneShotRunsOf(v)
      BY <2>1, <2>2, <2>3, <1>4 DEF OneShotRunsOf
    <2> QED
      BY <2>4, <2>5, <2>6
  <1>6. /\ Cardinality(OneShotRuns') = Cardinality(OneShotRuns) + 1
        /\ Cardinality(OneShotRunsOf(w)') = Cardinality(OneShotRunsOf(w)) + 1
    BY <1>4, <1>5, CountsFinite, FS_AddElement
  <1>7. oneShots \in [Worker -> Nat] /\ oneShots' = [oneShots EXCEPT ![w] = @ + 1]
    BY DEF DirectoryTypeOK, RunOneShot
  <1>8. /\ oneShots' \in [Worker -> Nat]
        /\ Cardinality(Slots(oneShots')) = Cardinality(Slots(oneShots)) + 1
    BY <1>7, SlotTaken
  <1>9. ActiveOneShots' = ActiveOneShots + 1 /\ ActiveOneShots \in Nat
    BY <1>7, <1>8, SlotsFinite DEF ActiveOneShots, Slots
  <1>10. oneShots'[w] = oneShots[w] + 1 /\ \A v \in Worker : v # w => oneShots'[v] = oneShots[v]
    BY <1>7
  <1>11. Running' = Running /\ stored' = stored /\ \A v : RunningOf(v)' = RunningOf(v)
    BY DEF RunOneShot, Running, RunningOf
  <1>12. CanStart(<<w>>)
    BY DEF RunOneShot
  <1>13. \A v \in Worker : Cardinality(OneShotRunsOf(v)') = oneShots'[v]
    BY <1>5, <1>6, <1>10 DEF Counted
  <1>14. Cardinality(OneShotRuns') = ActiveOneShots'
    BY <1>6, <1>9 DEF Counted
  <1>15. Cardinality(stored') <= MaxConversations
    BY <1>11 DEF Counted
  <1>16. Cardinality(Running') + ActiveOneShots' <= MaxActive
    <2>1. Cardinality(Running) + ActiveOneShots + 1 <= MaxActive
      BY <1>12, OneRequested DEF CanStart
    <2>2. Cardinality(Running) \in Nat /\ MaxActive \in Nat
      BY CountsFinite, WorkerAssumption
    <2> QED
      BY <2>1, <2>2, <1>9, <1>11
  <1>17. ASSUME NEW v \in Worker
         PROVE  Cardinality(RunningOf(v)') + oneShots'[v] <= MaxActivePerWorker
    <2>1. CASE v = w
      <3>1. Cardinality(RunningOf(w)) + oneShots[w] + 1 <= MaxActivePerWorker
        BY <1>12, OneRequested DEF CanStart
      <3>2. Cardinality(RunningOf(w)) \in Nat /\ oneShots[w] \in Nat
        BY <1>7, CountsFinite
      <3>3. Cardinality(RunningOf(w)) + oneShots'[w] <= MaxActivePerWorker
        BY <3>1, <3>2, <1>10, WorkerAssumption
      <3> QED
        BY <2>1, <3>3, <1>11
    <2>2. CASE v # w
      BY <2>2, <1>10, <1>11 DEF Counted
    <2> QED
      BY <2>1, <2>2
  <1> QED
    BY <1>8, <1>13, <1>14, <1>15, <1>16, <1>17 DEF Counted

\* A one-shot that is over gives its slot back.
LEMMA RunEndsCounted ==
    ASSUME DirectoryTypeOK, Counted, NEW r \in DOMAIN run, RunEnds(r)
    PROVE  Counted' /\ oneShots' \in [Worker -> Nat]
  <1>1. /\ r \in DOMAIN run /\ run[r] \in WorkerRun /\ run[r].stage = "running"
        /\ run[r].worker \in Worker /\ DOMAIN run' = DOMAIN run
    BY Elements DEF RunEnds, WorkerRun
  <1>2. \A q \in DOMAIN run : q # r => run'[q] = run[q]
    BY DEF RunEnds
  <1>3. /\ run'[r].worker = run[r].worker /\ run'[r].conv = run[r].conv
        /\ run'[r].stage # "running"
    <2>1. run'[r] = [[run[r] EXCEPT !.stage = IF run[r].conv = 0 THEN "done" ELSE "transform"]
                       EXCEPT !.aborted = FALSE]
      BY DEF RunEnds
    <2> QED
      BY <2>1, <1>1 DEF WorkerRun
  <1>4. oneShots \in [Worker -> Nat]
    BY DEF DirectoryTypeOK
  <1>5. Running' = Running /\ stored' = stored /\ \A v : RunningOf(v)' = RunningOf(v)
    BY DEF RunEnds, Running, RunningOf
  <1>6. CASE run[r].conv # 0
    <2>1. oneShots' = oneShots
      BY <1>6 DEF RunEnds
    <2>2. OneShotRuns' = OneShotRuns
      BY <1>1, <1>2, <1>3, <1>6 DEF OneShotRuns
    <2>3. \A v : OneShotRunsOf(v)' = OneShotRunsOf(v)
      BY <2>2, <1>1, <1>2, <1>3 DEF OneShotRunsOf, OneShotRuns
    <2>4. OneShotsSame
      BY <2>1, <2>2, <2>3 DEF OneShotsSame
    <2>5. /\ Cardinality(stored') <= MaxConversations
          /\ Cardinality(Running') + ActiveOneShots <= MaxActive
          /\ \A w \in Worker : Cardinality(RunningOf(w)') + oneShots[w] <= MaxActivePerWorker
      BY <1>5 DEF Counted
    <2> QED
      BY <2>1, <2>4, <2>5, <1>4, LimitsKept
  <1>7. CASE run[r].conv = 0
    <2> DEFINE w == run[r].worker
               f == oneShots
               g == [f EXCEPT ![w] = @ - 1]
    <2>1. oneShots' = g
      BY <1>7 DEF RunEnds
    <2>2. w \in Worker
      BY <1>1
    <2>3. \E u : u = w
      OBVIOUS
    <2> PICK u : u = w
      BY <2>3
    <2>4. u \in Worker /\ g = [f EXCEPT ![u] = @ - 1]
      BY <2>2
    <2>5. r \in OneShotRuns /\ r \in OneShotRunsOf(u)
      BY <1>1, <1>7 DEF OneShotRuns, OneShotRunsOf
    <2>6. OneShotRuns' = OneShotRuns \ {r}
      BY <1>1, <1>2, <1>3 DEF OneShotRuns
    <2>7. /\ OneShotRunsOf(u)' = OneShotRunsOf(u) \ {r}
          /\ \A v : v # u => OneShotRunsOf(v)' = OneShotRunsOf(v)
      <3>1. \A q \in OneShotRuns : run'[q].worker = run[q].worker
        BY <1>2, <1>3 DEF OneShotRuns
      <3>2. \A v : OneShotRunsOf(v)' = {q \in OneShotRuns' : run'[q].worker = v}
        BY DEF OneShotRunsOf
      <3>3. OneShotRunsOf(u)' = OneShotRunsOf(u) \ {r}
        BY <3>1, <3>2, <2>6 DEF OneShotRunsOf
      <3>4. \A v : v # u => OneShotRunsOf(v)' = OneShotRunsOf(v)
        BY <3>1, <3>2, <2>6 DEF OneShotRunsOf
      <3> QED
        BY <3>3, <3>4
    <2>8. /\ Cardinality(OneShotRuns') = Cardinality(OneShotRuns) - 1
          /\ Cardinality(OneShotRunsOf(u)') = Cardinality(OneShotRunsOf(u)) - 1
      BY <2>5, <2>6, <2>7, CountsFinite, FS_RemoveElement
    <2>9. f[u] # 0 /\ f[u] \in Nat /\ Cardinality(OneShotRunsOf(u)) = f[u]
      <3>1. Cardinality(OneShotRunsOf(u)) = f[u]
        BY <2>4 DEF Counted
      <3>2. Cardinality(OneShotRunsOf(u)) # 0
        BY <2>5, CountsFinite, FS_EmptySet
      <3> QED
        BY <3>1, <3>2, <2>4, <1>4
    <2>10. /\ g \in [Worker -> Nat]
           /\ Cardinality(Slots(f)) = Cardinality(Slots(g)) + 1
      BY <2>4, <2>9, <1>4, SlotFreed
    <2>11. /\ ActiveOneShots = ActiveOneShots' + 1
           /\ ActiveOneShots' \in Nat
      <3>1. ActiveOneShots = Cardinality(Slots(f)) /\ ActiveOneShots' = Cardinality(Slots(g))
        BY <2>1 DEF ActiveOneShots, Slots
      <3> HIDE DEF g
      <3>2. Cardinality(Slots(g)) \in Nat
        BY <2>10, SlotsFinite
      <3> QED
        BY <3>1, <3>2, <2>10
    <2>12. g[u] = f[u] - 1 /\ \A v \in Worker : v # u => g[v] = f[v]
      BY <2>4, <1>4
    <2> HIDE DEF g
    <2>13. \A v \in Worker : Cardinality(OneShotRunsOf(v)') = oneShots'[v]
      BY <2>1, <2>7, <2>8, <2>9, <2>12 DEF Counted
    <2>14. Cardinality(OneShotRuns') = ActiveOneShots'
      <3>1. Cardinality(OneShotRuns) = ActiveOneShots
        BY DEF Counted
      <3>2. PICK n \in Nat : n = ActiveOneShots'
        BY <2>11
      <3>3. PICK m : m = Cardinality(OneShotRuns)
        OBVIOUS
      <3>4. m = n + 1
        BY <3>1, <3>2, <3>3, <2>11
      <3>5. Cardinality(OneShotRuns') = m - 1
        BY <3>3, <2>8
      <3>6. m - 1 = n
        BY <3>4
      <3> QED
        BY <3>2, <3>5, <3>6
    <2>15. Cardinality(stored') <= MaxConversations
      BY <1>5 DEF Counted
    <2>16. Cardinality(Running') + ActiveOneShots' <= MaxActive
      <3>1. Cardinality(Running) + ActiveOneShots <= MaxActive
        BY DEF Counted
      <3>2. Cardinality(Running) \in Nat /\ MaxActive \in Nat
        BY CountsFinite, WorkerAssumption
      <3> QED
        BY <3>1, <3>2, <2>11, <1>5
    <2>17. ASSUME NEW v \in Worker
           PROVE  Cardinality(RunningOf(v)') + oneShots'[v] <= MaxActivePerWorker
      <3>1. CASE v = u
        <4>1. Cardinality(RunningOf(u)) + f[u] <= MaxActivePerWorker
          BY <2>4 DEF Counted
        <4>2. Cardinality(RunningOf(u)) \in Nat /\ MaxActivePerWorker \in Nat
          BY CountsFinite, WorkerAssumption
        <4>3. Cardinality(RunningOf(u)) + g[u] <= MaxActivePerWorker
          BY <4>1, <4>2, <2>9, <2>12
        <4> QED
          BY <3>1, <4>3, <2>1, <1>5
      <3>2. CASE v # u
        BY <3>2, <2>1, <2>12, <1>5 DEF Counted
      <3> QED
        BY <3>1, <3>2
    <2> QED
      BY <2>1, <2>10, <2>13, <2>14, <2>15, <2>16, <2>17 DEF Counted
  <1> QED
    BY <1>6, <1>7

\* A restored conversation finds room, or the directory drops an idle one.
LEMMA RestoreCounted ==
    ASSUME DirectoryTypeOK, Counted, NEW w \in Worker, RestoreConversationTurn(w)
    PROVE  Counted'
  <1> DEFINE c == Len(record) + 1
  <1>1. PICK n \in 0..clock :
          /\ record' = Append(record, [worker |-> w, status |-> "ended", controller |-> 0, updated |-> n])
          /\ stored' = Kept(stored \cup {c}, record', MaxConversations - 1)
    BY DEF RestoreConversationTurn
  <1>2. /\ record \in Seq(ConversationRecord) /\ DOMAIN record = 1..Len(record) /\ Len(record) \in Nat
        /\ stored \subseteq DOMAIN record /\ clock \in Nat
    BY Elements DEF DirectoryTypeOK
  <1> DEFINE e == [worker |-> w, status |-> "ended", controller |-> 0, updated |-> n]
  <1>3. e \in ConversationRecord /\ e.status = "ended" /\ e.updated = n /\ record' = Append(record, e)
    BY <1>1, <1>2 DEF ConversationRecord
  <1> HIDE DEF e
  <1>4. /\ \A d \in DOMAIN record : record'[d] = record[d]
        /\ record'[c] = e
    BY <1>2, <1>3, AppendProperties
  <1>5. c \in Nat /\ c \notin stored
    BY <1>2
  <1> HIDE DEF c
  <1>6. stored' \subseteq stored \cup {c}
    BY <1>1, KeptSome
  <1>7. Running' \subseteq Running /\ \A v : RunningOf(v)' \subseteq RunningOf(v)
    <2>1. ASSUME NEW d \in Running'
          PROVE  d \in Running /\ record'[d] = record[d]
      <3>1. d # c
        BY <1>3, <1>4 DEF Running
      <3>2. d \in stored /\ record'[d] = record[d]
        BY <3>1, <1>6, <1>4, <1>2 DEF Running
      <3> QED
        BY <3>2 DEF Running
    <2> QED
      BY <2>1 DEF RunningOf
  <1>8. OneShotsSame
    BY DEF RestoreConversationTurn, OneShotsSame, OneShotRuns, OneShotRunsOf
  <1>9. MaxConversations \in Nat /\ MaxConversations - 1 \in Nat
        /\ MaxActive \in Nat /\ MaxActivePerWorker \in Nat
    BY WorkerAssumption
  <1>10. Cardinality(stored') <= MaxConversations
    <2> DEFINE s == stored \cup {c}
               rec == record'
               room == MaxConversations - 1
    <2>1. s \subseteq Nat /\ IsFiniteSet(s)
      <3>1. IsFiniteSet(stored) /\ IsFiniteSet({c})
        BY CountsFinite, FS_Singleton
      <3>2. IsFiniteSet(stored \cup {c})
        BY <3>1, FS_Union
      <3> QED
        BY <3>2, <1>2, <1>5
    <2>2. \A d \in s : rec[d].updated \in Nat
      <3>1. \A d \in stored : rec[d] = record[d] /\ record[d] \in ConversationRecord
        BY <1>2, <1>4, Elements
      <3>2. rec[c].updated \in Nat
        BY <1>3, <1>4, <1>2
      <3> QED
        BY <3>1, <3>2 DEF ConversationRecord
    <2>3. room \in Nat /\ stored' = Kept(s, rec, room)
      BY <1>9, <1>1
    <2>4. \/ Cardinality(stored') <= room
          \/ stored' = {d \in s : rec[d].status = "running"}
      <3> HIDE DEF s, rec, room
      <3> QED
        BY <2>1, <2>2, <2>3, KeptSize
    <2>5. CASE Cardinality(stored') <= room
      <3>1. IsFiniteSet(stored')
        BY <1>6, <2>1, FS_Subset
      <3>2. Cardinality(stored') \in Nat
        BY <3>1, FS_CardinalityType
      <3> QED
        BY <2>5, <3>2, <1>9
    <2>6. CASE stored' = {d \in s : rec[d].status = "running"}
      <3>1. stored' \subseteq stored
        BY <2>6, <1>3, <1>4
      <3>2. IsFiniteSet(stored') /\ Cardinality(stored') <= Cardinality(stored)
        BY <3>1, CountsFinite, FS_Subset
      <3>3. Cardinality(stored') \in Nat /\ Cardinality(stored) \in Nat
        BY <3>2, CountsFinite, FS_CardinalityType
      <3> QED
        BY <3>2, <3>3, <1>9 DEF Counted
    <2> QED
      BY <2>4, <2>5, <2>6
  <1>11. ASSUME NEW S, NEW T, IsFiniteSet(T), S \subseteq T
         PROVE  Cardinality(S) \in Nat /\ Cardinality(T) \in Nat /\ Cardinality(S) <= Cardinality(T)
    BY <1>11, FS_Subset, FS_CardinalityType
  <1>12. ActiveOneShots \in Nat /\ oneShots \in [Worker -> Nat]
    BY CountsFinite DEF Counted, DirectoryTypeOK
  <1>13. Cardinality(Running') + ActiveOneShots <= MaxActive
    <2>1. Cardinality(Running) + ActiveOneShots <= MaxActive
      BY DEF Counted
    <2>2. Cardinality(Running') \in Nat /\ Cardinality(Running) \in Nat
          /\ Cardinality(Running') <= Cardinality(Running)
      BY <1>7, <1>11, CountsFinite
    <2> QED
      BY <2>1, <2>2, <1>9, <1>12
  <1>14. ASSUME NEW v \in Worker
         PROVE  Cardinality(RunningOf(v)') + oneShots[v] <= MaxActivePerWorker
    <2>1. Cardinality(RunningOf(v)) + oneShots[v] <= MaxActivePerWorker /\ oneShots[v] \in Nat
      BY <1>12 DEF Counted
    <2>2. Cardinality(RunningOf(v)') \in Nat /\ Cardinality(RunningOf(v)) \in Nat
          /\ Cardinality(RunningOf(v)') <= Cardinality(RunningOf(v))
      BY <1>7, <1>11, CountsFinite
    <2> QED
      BY <2>1, <2>2, <1>9
  <1> QED
    BY <1>8, <1>10, <1>13, <1>14, LimitsKept

\* Closing some of the conversations keeps their workers and starts no turn.
LEMMA CloseCounted ==
    ASSUME DirectoryTypeOK, Counted, NEW c, Close(c), NEW rs, run' = Aborted(rs), oneShots' = oneShots
    PROVE  Counted'
  <1>1. c \in DOMAIN record /\ record[c] \in ConversationRecord
    BY Elements DEF Close, DirectoryTypeOK
  <1>2. /\ record'[c] = [record[c] EXCEPT !.status = "closed"]
        /\ \A d \in DOMAIN record : d # c => record'[d] = record[d]
    BY <1>1 DEF Close
  <1>3. stored' \subseteq stored /\ stored \subseteq DOMAIN record /\ c \notin stored'
    BY DEF Close, DirectoryTypeOK
  <1>4. \A d \in stored' : record'[d] = record[d]
    BY <1>2, <1>3
  <1> QED
    BY <1>3, <1>4, AbortSame, FewerCounted

\* The result of a turn leaves its conversation idle.
LEMMA TurnEndsCounted ==
    ASSUME DirectoryTypeOK, Counted, NEW r \in DOMAIN run, TurnEnds(r)
    PROVE  Counted'
  <1> DEFINE c == run[r].conv
  <1>1. \A d \in DOMAIN record : /\ record'[d].worker = record[d].worker
                                 /\ record'[d].status = "running" => record[d].status = "running"
    <2>1. record' = [record EXCEPT ![c] = [@ EXCEPT !.status = "ended", !.controller = 0,
                                                    !.updated = clock + 1]]
      BY DEF TurnEnds, RecordResult
    <2>2. ASSUME NEW d \in DOMAIN record
          PROVE  /\ record'[d].worker = record[d].worker
                 /\ record'[d].status = "running" => record[d].status = "running"
      <3>1. record[d] \in ConversationRecord
        BY Elements
      <3>2. CASE d = c
        <4>1. record'[d] = [record[d] EXCEPT !.status = "ended", !.controller = 0, !.updated = clock + 1]
          BY <2>1, <3>2
        <4> QED
          BY <3>1, <4>1 DEF ConversationRecord
      <3>3. CASE d # c
        BY <2>1, <3>3
      <3> QED
        BY <3>2, <3>3
    <2> QED
      BY <2>2
  <1>2. OneShotsSame
    <2>1. run' = [run EXCEPT ![r].stage = "done"] /\ run[r].stage = "transform" /\ oneShots' = oneShots
      BY DEF TurnEnds
    <2>2. run[r] \in WorkerRun
      BY Elements
    <2>3. /\ DOMAIN run' = DOMAIN run
          /\ \A q \in DOMAIN run : q # r => run'[q] = run[q]
          /\ run'[r].stage # "running" /\ run[r].stage # "running"
      BY <2>1, <2>2 DEF WorkerRun
    <2>4. OneShotRuns' = OneShotRuns
      BY <2>3 DEF OneShotRuns
    <2>5. \A w : OneShotRunsOf(w)' = OneShotRunsOf(w)
      BY <2>3, <2>4 DEF OneShotRunsOf, OneShotRuns
    <2> QED
      BY <2>1, <2>4, <2>5 DEF OneShotsSame
  <1>3. stored' = stored /\ stored \subseteq DOMAIN record
    BY DEF TurnEnds, DirectoryTypeOK
  <1> QED
    BY <1>1, <1>2, <1>3, FewerCounted

\* Tearing down empties the directory; the runs go on until they end.
LEMMA CloseAllCounted ==
    ASSUME DirectoryTypeOK, Counted, CloseAll
    PROVE  Counted'
  <1>1. stored' = {} /\ oneShots' = oneShots /\ \E rs : run' = Aborted(rs)
    BY DEF CloseAll
  <1>2. PICK rs : run' = Aborted(rs)
    BY <1>1
  <1>3. OneShotsSame
    BY <1>1, <1>2, AbortSame
  <1> QED
    BY <1>1, <1>3, FewerCounted

\* Every step keeps the counters true and the limits.
LEMMA CountedNext ==
    ASSUME DirectoryTypeOK, Counted, DirectoryNext
    PROVE  Counted' /\ oneShots' \in [Worker -> Nat]
  <1>0. oneShots \in [Worker -> Nat]
    BY DEF DirectoryTypeOK
  <1> DEFINE Done == Counted' /\ oneShots' = oneShots
  <1>1. ASSUME NEW w \in Worker, RunOneShot(w)
        PROVE  Counted' /\ oneShots' \in [Worker -> Nat]
    BY <1>1, OneShotCounted
  <1>2. ASSUME NEW w \in Worker, RestoreConversationTurn(w)
        PROVE  Done
    BY <1>2, RestoreCounted DEF RestoreConversationTurn
  <1>3. ASSUME UNCHANGED <<record, stored, run, oneShots>>
        PROVE  Done
    BY <1>3, FewerCounted DEF OneShotsSame, OneShotRuns, OneShotRunsOf
  <1>4. ASSUME UNCHANGED <<record, stored, oneShots>>, NEW rs, run' = Aborted(rs)
        PROVE  Done
    BY <1>4, AbortSame, FewerCounted
  <1>5. ASSUME NEW w \in Worker, ChatSend(w)
        PROVE  Done
    BY <1>5, <1>3 DEF ChatSend
  <1>6. ASSUME NEW w \in Worker, ChatCancel(w)
        PROVE  Done
    BY <1>6, <1>4 DEF ChatCancel
  <1>7. ASSUME NEW w \in Worker, ChatClose(w)
        PROVE  Done
    <2>1. CASE chat[w] \in stored
      BY <1>7, <2>1, CloseCounted DEF ChatClose, AbortRuns
    <2>2. CASE chat[w] \notin stored
      BY <1>7, <2>2, <1>4 DEF ChatClose
    <2> QED
      BY <2>1, <2>2
  <1>8. ASSUME NEW n \in 1..2, NEW ws \in [1..n -> Worker], StartConversations(ws)
        PROVE  Done
    <2>1. ws \in Seq(Worker)
      BY SeqDef
    <2> QED
      BY <1>8, <2>1, StartCounted DEF StartConversations
  <1>9. ASSUME NEW c \in DOMAIN record, MessageConversation(c)
        PROVE  Done
    BY <1>9, MessageCounted DEF MessageConversation
  <1>10. ASSUME NEW c \in DOMAIN record, CancelConversation(c)
         PROVE  Done
    BY <1>10, <1>4 DEF CancelConversation
  <1>11. ASSUME NEW c \in DOMAIN record, CloseConversation(c)
         PROVE  Done
    BY <1>11, CloseCounted DEF CloseConversation, AbortRuns
  <1>12. ASSUME NEW r \in DOMAIN run, Timeout(r)
         PROVE  Done
    BY <1>12, <1>4 DEF Timeout
  <1>13. ASSUME NEW r \in DOMAIN run, RunEnds(r)
         PROVE  Counted' /\ oneShots' \in [Worker -> Nat]
    BY <1>13, RunEndsCounted
  <1>14. ASSUME NEW r \in DOMAIN run, TurnEnds(r)
         PROVE  Done
    BY <1>14, TurnEndsCounted DEF TurnEnds
  <1>15. ASSUME NEW s \in DOMAIN send, ChatTurn(s)
         PROVE  Done
    <2>1. send[s].worker \in Worker /\ send[s].aborted \in BOOLEAN
      BY Elements DEF ChatSendCall
    <2>2. <<send[s].worker>> \in Seq(Worker)
      BY <2>1
    <2>3. CASE Start(<<send[s].worker>>, send[s].aborted) /\ oneShots' = oneShots
      BY <2>1, <2>2, <2>3, StartCounted
    <2>4. CASE Message(send[s].conv, send[s].aborted) /\ oneShots' = oneShots
      BY <2>1, <2>4, MessageCounted
    <2>5. CASE UNCHANGED <<record, stored, run, oneShots>>
      BY <2>5, <1>3
    <2> QED
      BY <1>15, <2>3, <2>4, <2>5 DEF ChatTurn
  <1>16. ASSUME NEW s \in DOMAIN send, ChatSendEnds(s)
         PROVE  Done
    BY <1>16, <1>3 DEF ChatSendEnds
  <1>17. ASSUME CloseAll
         PROVE  Done
    BY <1>17, CloseAllCounted DEF CloseAll
  <1>18. Done => Counted' /\ oneShots' \in [Worker -> Nat]
    BY <1>0
  <1> HIDE DEF Done
  <1> QED
    BY <1>1, <1>2, <1>5, <1>6, <1>7, <1>8, <1>9, <1>10, <1>11, <1>12, <1>13, <1>14, <1>15, <1>16, <1>17,
       <1>18 DEF DirectoryNext

\* The calls are counted, and a session is torn down once.
LEMMA CallsNext ==
    ASSUME DirectoryTypeOK, DirectoryNext
    PROVE  open' \in BOOLEAN /\ requests' \in 0..MaxRequests
  <1>1. requests \in 0..MaxRequests /\ open \in BOOLEAN /\ MaxRequests \in Nat
    BY WorkerAssumption DEF DirectoryTypeOK
  <1>2. MayCall /\ Called => requests' \in 0..MaxRequests
    BY <1>1 DEF MayCall, Called
  <1>3. \/ MayCall /\ Called /\ open' = open
        \/ requests' = requests /\ open' \in BOOLEAN
    BY <1>1 DEF DirectoryNext, RunOneShot, RestoreConversationTurn, ChatSend, ChatCancel, ChatClose,
       StartConversations, MessageConversation, CancelConversation, CloseConversation,
       Timeout, RunEnds, TurnEnds, ChatTurn, ChatSendEnds, CloseAll
  <1> QED
    BY <1>1, <1>2, <1>3

-----------------------------------------------------------------------------
(* The invariant, and the properties it gives. *)

\* The invariant holds of an empty directory.
LEMMA DirectoryInitInv == DirectoryInit => DirectoryInv
  <1> SUFFICES ASSUME DirectoryInit
               PROVE  DirectoryInv
    OBVIOUS
  <1>1. DirectoryTypeOK
    <2>1. /\ record = <<>> /\ run = <<>> /\ send = <<>> /\ stored = {}
          /\ DOMAIN record = {} /\ DOMAIN run = {} /\ DOMAIN send = {}
          /\ Len(record) = 0 /\ Len(run) = 0 /\ Len(send) = 0
      BY DEF DirectoryInit
    <2>2. record \in Seq(ConversationRecord) /\ run \in Seq(WorkerRun) /\ send \in Seq(ChatSendCall)
      BY <2>1
    <2>3. /\ oneShots \in [Worker -> Nat] /\ chat \in [Worker -> 0..Len(record)]
          /\ chatActive \in [Worker -> 0..Len(send)]
      BY <2>1 DEF DirectoryInit
    <2>4. clock \in Nat /\ open \in BOOLEAN /\ requests \in 0..MaxRequests
      BY WorkerAssumption DEF DirectoryInit
    <2> QED
      BY <2>1, <2>2, <2>3, <2>4 DEF DirectoryTypeOK
  <1>2. DOMAIN run = {} /\ stored = {}
    BY DEF DirectoryInit
  <1>3. TurnOwned
    BY <1>2 DEF TurnOwned
  <1>4. /\ OneShotRuns = {} /\ Running = {} /\ \A w : OneShotRunsOf(w) = {} /\ RunningOf(w) = {}
    BY <1>2 DEF OneShotRuns, OneShotRunsOf, Running, RunningOf
  <1>5. ActiveOneShots = 0
    <2>1. \A w \in Worker : oneShots[w] = 0
      BY DEF DirectoryInit
    <2>2. \A w \in Worker : 1..oneShots[w] = {}
      BY <2>1
    <2>3. UNION {{w} \X (1..oneShots[w]) : w \in Worker} = {}
      BY <2>2
    <2> QED
      BY <2>3, FS_EmptySet DEF ActiveOneShots
  <1>6. Counted
    <2>1. \A w \in Worker : oneShots[w] = 0
      BY DEF DirectoryInit
    <2>2. Cardinality({}) = 0
      BY FS_EmptySet
    <2>3. MaxConversations \in Nat /\ MaxActive \in Nat /\ MaxActivePerWorker \in Nat
      BY WorkerAssumption
    <2>4. Cardinality(stored) <= MaxConversations /\ Cardinality(Running) + ActiveOneShots <= MaxActive
      BY <2>2, <2>3, <1>2, <1>4, <1>5
    <2>5. ASSUME NEW w \in Worker
          PROVE  /\ Cardinality(OneShotRunsOf(w)) = oneShots[w]
                 /\ Cardinality(RunningOf(w)) + oneShots[w] <= MaxActivePerWorker
      <3>1. Cardinality(OneShotRunsOf(w)) = 0 /\ Cardinality(RunningOf(w)) = 0 /\ oneShots[w] = 0
        BY <2>1, <2>2, <1>4
      <3> QED
        BY <3>1, <2>3
    <2> QED
      BY <2>2, <2>4, <2>5, <1>4, <1>5 DEF Counted
  <1> QED
    BY <1>1, <1>3, <1>6 DEF DirectoryInv

\* Every step keeps the invariant.
LEMMA DirectoryStep == DirectoryInv /\ [DirectoryNext]_directoryVars => DirectoryInv'
  <1> SUFFICES ASSUME DirectoryInv, [DirectoryNext]_directoryVars
               PROVE  DirectoryInv'
    OBVIOUS
  <1>1. DirectoryTypeOK /\ TurnOwned /\ Counted
    BY DEF DirectoryInv
  <1>2. CASE DirectoryNext
    <2>1. CoreStep
      BY <1>1, <1>2, CoreNext
    <2>2. ChatTypeOK'
      BY <1>1, <1>2, <2>1, ChatNext
    <2>3. Counted' /\ oneShots' \in [Worker -> Nat]
      BY <1>1, <1>2, CountedNext
    <2>4. open' \in BOOLEAN /\ requests' \in 0..MaxRequests
      BY <1>1, <1>2, CallsNext
    <2>5. DirectoryTypeOK'
      BY <2>1, <2>2, <2>3, <2>4 DEF CoreStep, CoreTypeOK, ChatTypeOK, DirectoryTypeOK
    <2> QED
      BY <2>1, <2>3, <2>5 DEF CoreStep, DirectoryInv
  <1>3. CASE UNCHANGED directoryVars
    <2>1. UNCHANGED <<record, stored, clock, run, oneShots, chat, chatActive, send, open, requests>>
      BY <1>3 DEF directoryVars
    <2>2. DirectoryTypeOK' /\ TurnOwned'
      BY <1>1, <2>1 DEF DirectoryTypeOK, TurnOwned
    <2>3. Counted'
      BY <1>1, <2>1 DEF Counted, OneShotRuns, OneShotRunsOf, ActiveOneShots, Running, RunningOf
    <2> QED
      BY <2>2, <2>3 DEF DirectoryInv
  <1> QED
    BY <1>2, <1>3

\* The counters count the one-shot runs under way; the turns that are not
\* over are owned by the conversations the directory holds.
THEOREM DirectoryInvariant == DirectorySpec => []DirectoryInv
  <1>1. DirectoryInit => DirectoryInv
    BY DirectoryInitInv
  <1>2. DirectoryInv /\ [DirectoryNext]_directoryVars => DirectoryInv'
    BY DirectoryStep
  <1> QED
    BY <1>1, <1>2, PTL DEF DirectorySpec

\* A turn that was not told to stop is the one its conversation runs.
LEMMA OwnedReached == DirectoryInv => CancelReachesRun
  <1> SUFFICES ASSUME DirectoryInv, NEW r \in DOMAIN run,
                      run[r].stage = "running", ~run[r].aborted, run[r].conv # 0
               PROVE  run[r].conv \in Running /\ record[run[r].conv].controller = r
    BY DEF CancelReachesRun
  <1> QED
    BY DEF DirectoryInv, TurnOwned, Running

\* A turn can be stopped through its conversation, whatever cancels, closes,
\* evictions, restores and teardown came before (cancelConversation,
\* worker-directory.ts).
THEOREM CancelReachesRunHolds == DirectorySpec => []CancelReachesRun
  BY DirectoryInvariant, OwnedReached, PTL

\* The runs nobody told to stop are one-shots, or turns of conversations that
\* run, each of which has one controller.
LEMMA UnabortedBound ==
    ASSUME DirectoryInv, NEW C, C \subseteq Running, NEW O, O \subseteq OneShotRuns,
           NEW U, \A r \in U : /\ r \in DOMAIN run /\ run[r].stage = "running" /\ ~run[r].aborted
                               /\ r \in O \/ run[r].conv \in C
    PROVE  /\ IsFiniteSet(C) /\ IsFiniteSet(O)
           /\ Cardinality(U) \in Nat /\ Cardinality(C) \in Nat /\ Cardinality(O) \in Nat
           /\ Cardinality(U) <= Cardinality(C) + Cardinality(O)
  <1> DEFINE T == {record[c].controller : c \in C}
             g == [c \in C |-> record[c].controller]
  <1>1. IsFiniteSet(C) /\ IsFiniteSet(O)
    BY CountsFinite, FS_Subset DEF DirectoryInv
  <1>2. IsFiniteSet(T) /\ Cardinality(T) <= Cardinality(C)
    <2>1. g \in Surjection(C, T)
      BY DEF Surjection
    <2> HIDE DEF T, g
    <2> QED
      BY <2>1, <1>1, FS_Surjection
  <1>3. U \subseteq T \cup O
    <2> SUFFICES ASSUME NEW r \in U, r \notin O
                 PROVE  r \in T
      OBVIOUS
    <2>1. run[r].conv \in C /\ r \in DOMAIN run /\ run[r].stage = "running" /\ ~run[r].aborted
      OBVIOUS
    <2>2. run[r].conv # 0
      BY <2>1, Elements DEF DirectoryInv, DirectoryTypeOK, Running
    <2>3. record[run[r].conv].controller = r
      BY <2>1, <2>2, OwnedReached DEF CancelReachesRun
    <2> QED
      BY <2>1, <2>3
  <1> HIDE DEF T, g
  <1>4. /\ Cardinality(U) <= Cardinality(T) + Cardinality(O)
        /\ Cardinality(U) \in Nat /\ Cardinality(T) \in Nat /\ Cardinality(O) \in Nat
    BY <1>1, <1>2, <1>3, UnionBound
  <1>5. Cardinality(C) \in Nat
    BY <1>1, FS_CardinalityType
  <1> QED
    BY <1>1, <1>2, <1>4, <1>5

\* What is counted is what runs, so that the counted limits are real ones.
LEMMA CountedLimits == DirectoryInv => WorkerLimits
  <1> SUFFICES ASSUME DirectoryInv
               PROVE  WorkerLimits
    OBVIOUS
  <1>1. DirectoryTypeOK /\ Counted /\ CancelReachesRun
    BY OwnedReached DEF DirectoryInv
  <1>2. MaxActive \in Nat /\ MaxActivePerWorker \in Nat
    BY WorkerAssumption
  <1>3. Cardinality(Unaborted({r \in DOMAIN run : run[r].stage = "running"})) <= MaxActive
    <2> DEFINE U == Unaborted({r \in DOMAIN run : run[r].stage = "running"})
    <2>1. \A r \in U : /\ r \in DOMAIN run /\ run[r].stage = "running" /\ ~run[r].aborted
                       /\ r \in OneShotRuns \/ run[r].conv \in Running
      BY <1>1 DEF Unaborted, OneShotRuns, CancelReachesRun
    <2> HIDE DEF U
    <2>2. /\ Cardinality(U) <= Cardinality(Running) + Cardinality(OneShotRuns)
          /\ Cardinality(U) \in Nat /\ Cardinality(Running) \in Nat /\ Cardinality(OneShotRuns) \in Nat
      BY <2>1, UnabortedBound
    <2>3. Cardinality(Running) + Cardinality(OneShotRuns) <= MaxActive
      BY <1>1 DEF Counted
    <2>4. Cardinality(U) <= MaxActive
      BY <2>2, <2>3, <1>2
    <2> QED
      BY <2>4 DEF U
  <1>4. ASSUME NEW w \in Worker
        PROVE  Cardinality(Unaborted({r \in DOMAIN run : run[r].stage = "running" /\ run[r].worker = w}))
                 <= MaxActivePerWorker
    <2> DEFINE U == Unaborted({r \in DOMAIN run : run[r].stage = "running" /\ run[r].worker = w})
    <2>1. \A r \in U : /\ r \in DOMAIN run /\ run[r].stage = "running" /\ ~run[r].aborted
                       /\ r \in OneShotRunsOf(w) \/ run[r].conv \in RunningOf(w)
      <3> SUFFICES ASSUME NEW r \in U
                   PROVE  /\ r \in DOMAIN run /\ run[r].stage = "running" /\ ~run[r].aborted
                          /\ r \in OneShotRunsOf(w) \/ run[r].conv \in RunningOf(w)
        OBVIOUS
      <3>1. r \in DOMAIN run /\ run[r].stage = "running" /\ ~run[r].aborted /\ run[r].worker = w
        BY DEF Unaborted
      <3>2. CASE run[r].conv = 0
        BY <3>1, <3>2 DEF OneShotRunsOf, OneShotRuns
      <3>3. CASE run[r].conv # 0
        <4>1. run[r].conv \in Running
          BY <3>1, <3>3, <1>1 DEF CancelReachesRun
        <4>2. record[run[r].conv].worker = w
          BY <3>1, <3>3 DEF DirectoryInv, TurnOwned
        <4> QED
          BY <3>1, <4>1, <4>2 DEF RunningOf
      <3> QED
        BY <3>2, <3>3
    <2> HIDE DEF U
    <2>2. RunningOf(w) \subseteq Running /\ OneShotRunsOf(w) \subseteq OneShotRuns
      BY DEF RunningOf, OneShotRunsOf
    <2>3. /\ Cardinality(U) <= Cardinality(RunningOf(w)) + Cardinality(OneShotRunsOf(w))
          /\ Cardinality(U) \in Nat /\ Cardinality(RunningOf(w)) \in Nat
          /\ Cardinality(OneShotRunsOf(w)) \in Nat
      BY <2>1, <2>2, UnabortedBound
    <2>4. Cardinality(RunningOf(w)) + Cardinality(OneShotRunsOf(w)) <= MaxActivePerWorker
      BY <1>1 DEF Counted
    <2>5. Cardinality(U) <= MaxActivePerWorker
      BY <2>3, <2>4, <1>2
    <2> QED
      BY <2>5 DEF U
  <1>5. Cardinality(stored) <= MaxConversations
    BY <1>1 DEF Counted
  <1> QED
    BY <1>1, <1>3, <1>4, <1>5 DEF WorkerLimits

\* However batches, one-shots, chats and restores come together, the caps on
\* stored conversations and on active workers hold (assertCanStartWorkerIds
\* and ensureConversationSlots, worker-directory.ts).
THEOREM WorkerLimitsHolds == DirectorySpec => []WorkerLimits
  BY DirectoryInvariant, CountedLimits, PTL

-----------------------------------------------------------------------------
(* THE RUN LOOP *)

\* The run loop holds prompts or injected messages exactly when it is about
\* to emit them, and at is where the batch under way stands.
RunShape ==
    /\ pc \in {"prompts", "inject"} <=> pending # <<>>
    /\ pc \in {"prepare", "execute"} => out < at
    /\ pc = "execute" /\ batchMode # "sequential" /\ ~signalled => at = Len(batch)
    /\ signalled => aborts > 0

\* What the loop's own copy of the transcript lacks: prompts it already
\* holds, or the results of the batch under way.
CopyTrails ==
    /\ pc = "prompts" => context = messages \o Users(pending)
    /\ pc \in {"poll", "inject", "request", "stream", "turnEnd", "follow"} => context = messages
    /\ pc \in {"prepare", "execute"} =>
          /\ messages = context \o Results(SubSeq(batch, 1, out))
          /\ context # <<>>
          /\ context[Len(context)] = Assistant(batch)

\* All results of the i-th entry's calls are in the transcript.
Complete(i) ==
    /\ i + Len(messages[i].calls) <= Len(messages)
    /\ Answers(i, i + Len(messages[i].calls))

\* Every result answers a message.
EachAnswers ==
    \A j \in 1..Len(messages) :
        messages[j].role = "toolResult" => \E i \in 1 .. j - 1 : Answers(i, j)

\* Without aborts and failures every message that did not fail, but that of
\* the batch under way, is answered.
AllAnswered ==
    (aborts = 0 /\ faults = 0) =>
        \A i \in 1..Len(messages) :
            (messages[i].role = "assistant" /\ ~messages[i].failed) =>
                Complete(i) \/ (pc \in {"prepare", "execute"} /\ i = Len(context))

ResultsAnswer == EachAnswers /\ AllAnswered

\* All of it as long as no custom message came in beside a run.
TranscriptInv == LoopTypeOK /\ RunShape /\ (inserted \/ (CopyTrails /\ ResultsAnswer))

\* Unless prompts raced one driver is under way, and the session says so.
OneDriver ==
    raced \/ /\ \A d, e \in Msg : d # e => ~({driver[d], driver[e]} \subseteq {"preflight", "running", "sleeping"})
             /\ \A d \in Msg : driver[d] \in {"running", "sleeping"} => streaming

\* Who runs and who sleeps; a driver is the prompt call of its message.
DriversKnown ==
    /\ \A m \in Msg : driver[m] # "none" => via[m] # "none"
    /\ owner # 0 => driver[owner] = "running"
    /\ sleeper # 0 => driver[sleeper] = "sleeping"

\* A run that is about to end knows how its last turn ended.
LastKnown ==
    /\ pc = "prompts" => more
    /\ pc \in {"end", "turnEnd", "prepare", "execute", "follow", "failEnd"}
         \/ (pc \in {"poll", "inject", "request"} /\ ~more) => last # "none"

\* Without failures there is something to continue from: what a run emits
\* first is the user's.
UserFirst ==
    /\ pc \in {"failing", "failEnd"} => faults > 0
    /\ faults = 0 =>
         /\ pc \notin {"off", "prompts"} \/ (\E d \in Msg : driver[d] = "sleeping") => messages # <<>>
         /\ messages # <<>> => messages[1].role # "assistant"

\* What was queued for a run is taken up before the last driver settles.
NoneLeft ==
    /\ early \subseteq {m \in Msg : via[m] # "none"}
    /\ ~AtWork /\ faults = 0 => (ToSet(steering) \cup ToSet(followUp)) \cap early = {}

DriverInv == OneDriver /\ DriversKnown /\ LastKnown /\ UserFirst /\ NoneLeft

\* m may be sent before n, and all of one set before all of another.
Precedes(m, n) == m # n /\ (via[m] = via[n] /\ via[m] # "prompt" => m < n)
AllPrecede(M, N) == \A m \in M, n \in N : Precedes(m, n)

\* Messages taken in their order.
Rising(q) == \A i, j \in 1..Len(q) : i < j => q[i] < q[j]

\* The user's entries of the transcript, what they are about and their
\* order, and what is queued.
Sent == {i \in 1..Len(messages) : messages[i].role = "user"}
SentIds == {messages[i].id : i \in Sent}
SentInOrder == \A i, j \in Sent : i < j => Precedes(messages[i].id, messages[j].id)
Queued == ToSet(steering) \cup ToSet(followUp)

\* Messages are used in their order, and each knows how it came in.
Numbered ==
    /\ \A m, n \in Msg : n < m /\ via[m] # "none" => via[n] # "none"
    /\ \A m \in Msg : driver[m] # "none" => via[m] = "prompt"
    /\ \A m \in SentIds \cup ToSet(pending) : via[m] # "none"
    /\ \A m \in ToSet(steering) : via[m] = "steer"
    /\ \A m \in ToSet(followUp) : via[m] = "followUp"

\* The transcript, what the run holds and the queues, in this order, hold
\* every message once and those of a kind in their order.
InOrder ==
    /\ SentInOrder
    /\ Rising(pending) /\ Rising(steering) /\ Rising(followUp)
    /\ AllPrecede(SentIds, ToSet(pending) \cup Queued)
    /\ AllPrecede(ToSet(pending), Queued)

\* A prompt that has not begun is nowhere yet.
PromptsFresh == \A m \in Msg : driver[m] = "preflight" => m \notin SentIds \cup ToSet(pending)

\* A queued message is shown, and one no longer queued is somewhere else.
Accounted ==
    /\ Queued \subseteq shown
    /\ faults = 0 =>
         \A m \in Msg : via[m] \in {"steer", "followUp"} =>
            m \in Queued \cup ToSet(pending) \cup restored \cup SentIds

OrderInv == Numbered /\ InOrder /\ PromptsFresh /\ Accounted

-----------------------------------------------------------------------------
(* Sequences. *)

\* Taking from a queue splits it: what is taken comes first.
Splits(q) ==
    /\ Drain(q) \in Seq(Msg) /\ Rest(q) \in Seq(Msg)
    /\ Len(Drain(q)) \in Nat /\ Len(Rest(q)) \in Nat
    /\ Len(q) = Len(Drain(q)) + Len(Rest(q))
    /\ \A i \in 1..Len(Drain(q)) : Drain(q)[i] = q[i]
    /\ \A i \in 1..Len(Rest(q)) : Rest(q)[i] = q[Len(Drain(q)) + i]
    /\ Drain(q) = <<>> <=> q = <<>>

\* PendingMessageQueue.drain loses nothing and keeps the order.
LEMMA DrainSplits ==
    ASSUME NEW q \in Seq(Msg)
    PROVE  Splits(q)
  <1>1. Len(q) \in Nat /\ \A i \in 1..Len(q) : q[i] \in Msg
    BY LenProperties, ElementOfSeq
  <1>2. q = <<>> <=> Len(q) = 0
    BY EmptySeq
  <1> DEFINE d == Drain(q)
             n == Len(d)
  <1>3. /\ d \in Seq(Msg) /\ n \in 0..Len(q)
        /\ \A i \in 1..n : d[i] = q[i]
        /\ d = <<>> <=> q = <<>>
    <2>1. CASE mode = "all"
      <3>1. d = q
        BY <2>1 DEF Drain
      <3> QED
        BY <3>1, <1>1
    <2>2. CASE mode # "all"
      <3> DEFINE z == IF q = <<>> THEN 0 ELSE 1
      <3>1. d = SubSeq(q, 1, z)
        BY <2>2 DEF Drain
      <3>2. z \in 0..1 /\ z <= Len(q) /\ (z = 0 <=> q = <<>>)
        BY <1>1, <1>2
      <3> HIDE DEF z, d
      <3>3. \A i \in 1..z : q[i] \in Msg
        BY <3>2, <1>1
      <3>4. /\ d \in Seq(Msg)
            /\ Len(d) = IF 1 <= z THEN z - 1 + 1 ELSE 0
            /\ \A i \in 1..(z - 1 + 1) : d[i] = q[1 + i - 1]
        <4>1. z \in Int /\ 1 \in Int
          BY <3>2
        <4> QED
          BY <3>1, <3>3, <4>1, SubSeqProperties
      <3>5. n = z /\ \A i \in 1..z : d[i] = q[i]
        BY <3>2, <3>4
      <3>6. d = <<>> <=> n = 0
        BY <3>4, EmptySeq
      <3> QED
        BY <3>2, <3>4, <3>5, <3>6, <1>1
    <2> QED
      BY <2>1, <2>2
  <1> HIDE DEF d
  <1>4. \A i \in (n + 1)..Len(q) : q[i] \in Msg
    BY <1>1, <1>3
  <1>5. n \in Nat /\ n + 1 \in Int /\ Len(q) \in Int
    BY <1>1, <1>3
  <1>6. Rest(q) = SubSeq(q, n + 1, Len(q))
    BY DEF Rest, d
  <1>7. /\ Rest(q) \in Seq(Msg)
        /\ Len(Rest(q)) = IF n + 1 <= Len(q) THEN Len(q) - (n + 1) + 1 ELSE 0
        /\ \A i \in 1..(Len(q) - (n + 1) + 1) : Rest(q)[i] = q[n + 1 + i - 1]
    BY <1>4, <1>5, <1>6, SubSeqProperties
  <1>8. /\ Len(q) = n + Len(Rest(q)) /\ Len(Rest(q)) \in Nat
        /\ \A i \in 1..Len(Rest(q)) : Rest(q)[i] = q[n + i]
    BY <1>1, <1>3, <1>5, <1>7
  <1> QED
    BY <1>3, <1>5, <1>7, <1>8 DEF Splits, d

\* The next message is taken from what the run holds.
LEMMA HeadTaken ==
    ASSUME NEW s \in Seq(Msg), s # <<>>
    PROVE  /\ Head(s) \in Msg /\ Head(s) = s[1]
           /\ Tail(s) \in Seq(Msg) /\ Len(Tail(s)) = Len(s) - 1 /\ Len(s) \in Nat \ {0}
           /\ \A i \in 1..Len(Tail(s)) : Tail(s)[i] = s[i + 1]
           /\ Tail(s) # <<>> <=> Len(s) > 1
  <1>1. /\ Head(s) \in Msg /\ Tail(s) \in Seq(Msg)
        /\ Len(Tail(s)) = Len(s) - 1
        /\ \A i \in 1..Len(Tail(s)) : Tail(s)[i] = s[i + 1]
    BY HeadTailProperties
  <1>2. Len(s) \in Nat /\ Len(s) # 0 /\ Head(s) = s[1]
    BY LenProperties, EmptySeq
  <1>3. Tail(s) = <<>> <=> Len(Tail(s)) = 0
    BY <1>1, EmptySeq
  <1> QED
    BY <1>1, <1>2, <1>3

\* What a queue holds.
LEMMA SetOf ==
    ASSUME NEW q \in Seq(Msg)
    PROVE  ToSet(q) = {q[i] : i \in 1..Len(q)}
  BY LenProperties DEF ToSet

\* A message joins a queue.
LEMMA SetAdded ==
    ASSUME NEW q \in Seq(Msg), NEW m \in Msg
    PROVE  ToSet(Append(q, m)) = ToSet(q) \cup {m}
  <1>1. /\ Append(q, m) \in Seq(Msg) /\ Len(Append(q, m)) = Len(q) + 1 /\ Len(q) \in Nat
        /\ \A i \in 1..Len(q) : Append(q, m)[i] = q[i]
        /\ Append(q, m)[Len(q) + 1] = m
    BY AppendProperties, LenProperties
  <1>2. ToSet(Append(q, m)) = {Append(q, m)[i] : i \in 1..(Len(q) + 1)} /\ ToSet(q) = {q[i] : i \in 1..Len(q)}
    BY <1>1, SetOf
  <1>3. ASSUME NEW x \in {Append(q, m)[i] : i \in 1..(Len(q) + 1)}
        PROVE  x \in {q[i] : i \in 1..Len(q)} \cup {m}
    <2>1. PICK i \in 1..(Len(q) + 1) : x = Append(q, m)[i]
      BY <1>3
    <2>2. i \in 1..Len(q) \/ i = Len(q) + 1
      BY <1>1
    <2> QED
      BY <2>1, <2>2, <1>1
  <1>4. ASSUME NEW x \in {q[i] : i \in 1..Len(q)} \cup {m}
        PROVE  x \in {Append(q, m)[i] : i \in 1..(Len(q) + 1)}
    <2>1. 1..Len(q) \subseteq 1..(Len(q) + 1) /\ Len(q) + 1 \in 1..(Len(q) + 1)
      BY <1>1
    <2> QED
      BY <2>1, <1>1, <1>4
  <1> QED
    BY <1>2, <1>3, <1>4

\* An entry added to a transcript.
LEMMA Added ==
    ASSUME NEW s \in Seq(Entry), NEW e \in Entry
    PROVE  /\ Append(s, e) \in Seq(Entry) /\ Append(s, e) # <<>>
           /\ Len(Append(s, e)) = Len(s) + 1 /\ Len(s) \in Nat
           /\ \A i \in 1..Len(s) : Append(s, e)[i] = s[i]
           /\ Append(s, e)[Len(s) + 1] = e
  BY AppendProperties, LenProperties, EmptySeq

\* Entries are what they are made to be.
LEMMA Entries ==
    /\ \A m \in Msg : User(m) \in Entry /\ User(m).role = "user" /\ User(m).id = m
    /\ \A cs \in Seq(Call) : /\ Assistant(cs) \in Entry /\ Assistant(cs).role = "assistant"
                             /\ Assistant(cs).calls = cs /\ ~Assistant(cs).failed
    /\ \A cs \in Seq(Call) : /\ Failed(cs) \in Entry /\ Failed(cs).role = "assistant"
                             /\ Failed(cs).calls = cs /\ Failed(cs).failed
    /\ \A c \in Call : Result(c) \in Entry /\ Result(c).role = "toolResult"
    /\ Custom \in Entry /\ Custom.role = "custom"
    /\ <<>> \in Seq(Call) /\ Assistant(<<>>) \in Entry /\ Failed(<<>>) \in Entry
    /\ \A e \in Entry : /\ e.role \in {"user", "assistant", "toolResult", "custom"}
                        /\ e.role = "user" => e.id \in Msg
                        /\ e.role = "assistant" => e.calls \in Seq(Call) /\ e.failed \in BOOLEAN
  BY DEF User, Assistant, Failed, Result, Custom, Entry

\* The calls of a streamed message.
LEMMA CallsNew ==
    ASSUME NEW cs \in NewCalls
    PROVE  cs \in Seq(Call) /\ Len(cs) \in Nat \ {0} /\ Len(cs) <= MaxCalls /\ cs # <<>>
  <1>1. PICK n \in Call : cs \in [1..n -> UnusedCalls]
    BY DEF NewCalls
  <1>2. cs \in [1..n -> Call] /\ n \in Nat \ {0}
    BY <1>1, AgentLoopAssumption DEF UnusedCalls, Call
  <1>3. cs \in Seq(Call) /\ Len(cs) = n
    BY <1>2, SeqDef
  <1> QED
    BY <1>2, <1>3, EmptySeq, AgentLoopAssumption DEF Call

\* The prompts and results a sequence of them makes.
LEMMA Lists ==
    /\ \A ms \in Seq(Msg) : /\ Users(ms) \in Seq(Entry) /\ Len(Users(ms)) = Len(ms)
                            /\ \A i \in 1..Len(ms) : Users(ms)[i] = User(ms[i])
    /\ \A cs \in Seq(Call) : /\ Results(cs) \in Seq(Entry) /\ Len(Results(cs)) = Len(cs)
                             /\ \A i \in 1..Len(cs) : Results(cs)[i] = Result(cs[i])
  <1>1. ASSUME NEW ms \in Seq(Msg)
        PROVE  /\ Users(ms) \in Seq(Entry) /\ Len(Users(ms)) = Len(ms)
               /\ \A i \in 1..Len(ms) : Users(ms)[i] = User(ms[i])
    <2>1. Len(ms) \in Nat /\ \A i \in 1..Len(ms) : ms[i] \in Msg
      BY LenProperties, ElementOfSeq
    <2>2. Users(ms) \in [1..Len(ms) -> Entry]
      BY <2>1, Entries DEF Users
    <2> QED
      BY <2>1, <2>2, SeqDef DEF Users
  <1>2. ASSUME NEW cs \in Seq(Call)
        PROVE  /\ Results(cs) \in Seq(Entry) /\ Len(Results(cs)) = Len(cs)
               /\ \A i \in 1..Len(cs) : Results(cs)[i] = Result(cs[i])
    <2>1. Len(cs) \in Nat /\ \A i \in 1..Len(cs) : cs[i] \in Call
      BY LenProperties, ElementOfSeq
    <2>2. Results(cs) \in [1..Len(cs) -> Entry]
      BY <2>1, Entries DEF Results
    <2> QED
      BY <2>1, <2>2, SeqDef DEF Results
  <1> QED
    BY <1>1, <1>2

\* An error message that will be retried leaves the transcript.
LEMMA LastDropped ==
    ASSUME NEW s \in Seq(Entry), s # <<>>
    PROVE  /\ Front(s) \in Seq(Entry)
           /\ Len(s) \in Nat \ {0} /\ Len(Front(s)) = Len(s) - 1
           /\ \A i \in 1..(Len(s) - 1) : Front(s)[i] = s[i]
           /\ Last(s) = s[Len(s)]
  <1>1. Len(s) \in Nat \ {0} /\ \A i \in 1..Len(s) : s[i] \in Entry
    BY EmptySeq, LenProperties, ElementOfSeq
  <1>2. 1 \in Int /\ Len(s) - 1 \in Int /\ \A i \in 1..(Len(s) - 1) : s[i] \in Entry
    BY <1>1
  <1>3. /\ SubSeq(s, 1, Len(s) - 1) \in Seq(Entry)
        /\ Len(SubSeq(s, 1, Len(s) - 1)) = IF 1 <= Len(s) - 1 THEN Len(s) - 1 - 1 + 1 ELSE 0
        /\ \A i \in 1..(Len(s) - 1 - 1 + 1) : SubSeq(s, 1, Len(s) - 1)[i] = s[1 + i - 1]
    BY <1>2, SubSeqProperties
  <1> DEFINE t == SubSeq(s, 1, Len(s) - 1)
  <1> HIDE DEF t
  <1>4. t \in Seq(Entry) /\ Len(t) = Len(s) - 1 /\ \A i \in 1..(Len(s) - 1) : t[i] = s[i]
    <2>1. t \in Seq(Entry) /\ Len(t) = IF 1 <= Len(s) - 1 THEN Len(s) - 1 - 1 + 1 ELSE 0
      BY <1>3 DEF t
    <2>2. \A i \in 1..(Len(s) - 1 - 1 + 1) : t[i] = s[1 + i - 1]
      BY <1>3 DEF t
    <2>3. Len(s) - 1 - 1 + 1 = Len(s) - 1
      BY <1>1
    <2>4. \A i \in 1..(Len(s) - 1) : 1 + i - 1 = i
      OBVIOUS
    <2>5. \A i \in 1..(Len(s) - 1) : t[i] = s[i]
      BY <2>2, <2>3, <2>4
    <2>6. Len(t) = Len(s) - 1
      <3> DEFINE n == Len(s)
      <3>1. n \in Nat \ {0} /\ Len(t) = IF 1 <= n - 1 THEN n - 1 - 1 + 1 ELSE 0
        BY <1>1, <2>1
      <3> HIDE DEF n
      <3>2. Len(t) = n - 1
        BY <3>1
      <3> QED
        BY <3>2 DEF n
    <2> QED
      BY <2>1, <2>5, <2>6
  <1> QED
    BY <1>1, <1>4 DEF t, Front, Last

-----------------------------------------------------------------------------
(* Types. *)

SessionOK ==
    /\ mode \in {"all", "one-at-a-time"}
    /\ via \in [Msg -> {"none", "prompt", "steer", "followUp"}]
    /\ driver \in [Msg -> {"none", "preflight", "running", "sleeping", "returned", "threw"}]
    /\ streaming \in BOOLEAN
    /\ sleeper \in Msg \cup {0}
    /\ retries \in 0..MaxRetries
    /\ last \in {"none", "ok", "error", "retryable", "aborted"}

QueueOK ==
    /\ steering \in Seq(Msg) /\ followUp \in Seq(Msg)
    /\ shown \subseteq Msg /\ restored \subseteq Msg /\ early \subseteq Msg

\* The run, and the prompts or injected messages it is about to emit.
RunOK ==
    /\ owner \in Msg \cup {0}
    /\ signalled \in BOOLEAN
    /\ pc \in {"off", "prompts", "poll", "inject", "request", "stream", "prepare", "execute",
              "turnEnd", "follow", "end", "failing", "failEnd"}
    /\ owner # 0 <=> pc # "off"
    /\ skip \in BOOLEAN /\ more \in BOOLEAN
    /\ budget \in 0..MaxIterations
    /\ context \in Seq(Entry)
    /\ pending \in Seq(Msg)
    /\ pc \in {"prompts", "inject"} <=> pending # <<>>

BatchOK ==
    /\ batch \in Seq(Call)
    /\ batchMode \in {"parallel", "sequential", "truncated"}
    /\ at \in 0..Len(batch)
    /\ out \in 0..at
    /\ pc \in {"prepare", "execute"} => out < at
    /\ pc = "execute" /\ batchMode # "sequential" /\ ~signalled => at = Len(batch)

CountsOK ==
    /\ messages \in Seq(Entry)
    /\ tool \in [Call -> {"unused", "partial", "todo", "prepared", "running", "done"}]
    /\ aborts \in Nat /\ faults \in Nat /\ clears \in Nat /\ raced \in BOOLEAN /\ inserted \in BOOLEAN
    /\ signalled => aborts > 0

PartsOK == SessionOK /\ QueueOK /\ RunOK /\ BatchOK /\ CountsOK

\* The type invariant and the shape of the run, by parts.
LEMMA Parts == PartsOK <=> LoopTypeOK /\ RunShape
  <1>1. LoopTypeOK /\ RunShape => PartsOK
    BY DEF PartsOK, SessionOK, QueueOK, RunOK, BatchOK, CountsOK, LoopTypeOK, RunShape
  <1>2. PartsOK => RunShape
    BY DEF PartsOK, SessionOK, QueueOK, RunOK, BatchOK, CountsOK, RunShape
  <1>3. PartsOK => LoopTypeOK
    BY DEF PartsOK, SessionOK, QueueOK, RunOK, BatchOK, CountsOK, LoopTypeOK
  <1> QED
    BY <1>1, <1>2, <1>3

\* The run after a step of a driver.
StartedOK == RunOK' /\ ~signalled' /\ pc' \in {"prompts", "poll", "off"}

\* runPromptMessages.
LEMMA PromptsStart ==
    ASSUME PartsOK, NEW d \in Msg, NEW ms \in Seq(Msg), ms # <<>>, NEW b \in BOOLEAN,
           RunPrompts(d, ms, b, messages)
    PROVE  StartedOK
  <1>1. d \in Nat /\ d # 0
    BY AgentLoopAssumption DEF Msg
  <1>2. Users(ms) \in Seq(Entry) /\ messages \in Seq(Entry)
    BY Lists DEF PartsOK, CountsOK
  <1>3. messages \o Users(ms) \in Seq(Entry)
    BY <1>2, ConcatProperties
  <1>4. 0 \in 0..MaxIterations
    BY AgentLoopAssumption
  <1> QED
    BY <1>1, <1>3, <1>4 DEF RunPrompts, StartedOK, RunOK

\* runContinuation.
LEMMA ContinuationStarts ==
    ASSUME PartsOK, NEW d \in Msg, RunContinuation(d, messages)
    PROVE  StartedOK
  <1>1. d \in Nat /\ d # 0
    BY AgentLoopAssumption DEF Msg
  <1>2. messages \in Seq(Entry) /\ <<>> \in Seq(Msg)
    BY EmptySeq DEF PartsOK, CountsOK
  <1>3. 0 \in 0..MaxIterations
    BY AgentLoopAssumption
  <1> QED
    BY <1>1, <1>2, <1>3 DEF RunContinuation, StartedOK, RunOK

\* finishRun.
LEMMA RunOver ==
    ASSUME NoRun
    PROVE  StartedOK
  <1>1. <<>> \in Seq(Msg) /\ <<>> \in Seq(Entry) /\ 0 \in 0..MaxIterations
    BY EmptySeq, AgentLoopAssumption
  <1> QED
    BY <1>1 DEF NoRun, StartedOK, RunOK

\* What a driver that goes on, or does not, does to the run and the queues.
ContinuedOK ==
    /\ StartedOK
    /\ driver' \in [Msg -> {"none", "preflight", "running", "sleeping", "returned", "threw"}]
    /\ streaming' \in BOOLEAN
    /\ steering' \in Seq(Msg) /\ followUp' \in Seq(Msg)

\* Agent.continue.
LEMMA ContinueTypes ==
    ASSUME PartsOK, NEW d \in Msg, Continue(d, messages)
    PROVE  ContinuedOK
  <1>1. /\ steering \in Seq(Msg) /\ followUp \in Seq(Msg)
        /\ driver \in [Msg -> {"none", "preflight", "running", "sleeping", "returned", "threw"}]
        /\ streaming \in BOOLEAN
    BY DEF PartsOK, QueueOK, SessionOK
  <1>2. Splits(steering) /\ Splits(followUp)
    BY <1>1, DrainSplits
  <1>3. CASE /\ EndsWithAssistant(messages)
             /\ steering # <<>>
             /\ driver' = [driver EXCEPT ![d] = "running"]
             /\ RunPrompts(d, Drain(steering), TRUE, messages)
             /\ steering' = Rest(steering)
             /\ UNCHANGED <<streaming, followUp>>
    <2>1. StartedOK
      BY <1>2, <1>3, PromptsStart DEF Splits
    <2> QED
      BY <2>1, <1>1, <1>2, <1>3 DEF ContinuedOK, Splits
  <1>4. CASE /\ EndsWithAssistant(messages)
             /\ steering = <<>>
             /\ followUp # <<>>
             /\ driver' = [driver EXCEPT ![d] = "running"]
             /\ RunPrompts(d, Drain(followUp), FALSE, messages)
             /\ followUp' = Rest(followUp)
             /\ UNCHANGED <<streaming, steering>>
    <2>1. StartedOK
      BY <1>2, <1>4, PromptsStart DEF Splits
    <2> QED
      BY <2>1, <1>1, <1>2, <1>4 DEF ContinuedOK, Splits
  <1>5. CASE /\ driver' = [driver EXCEPT ![d] = "running"]
             /\ RunContinuation(d, messages)
             /\ UNCHANGED <<streaming, steering, followUp>>
    BY <1>1, <1>5, ContinuationStarts DEF ContinuedOK
  <1>6. CASE Settle(d, "threw") /\ NoRun /\ UNCHANGED <<steering, followUp>>
    BY <1>1, <1>6, RunOver DEF ContinuedOK, Settle
  <1> QED
    BY <1>3, <1>4, <1>5, <1>6 DEF Continue

\* The end of _handlePostAgentRun.
LEMMA ContinueOrSettleTypes ==
    ASSUME PartsOK, NEW d \in Msg, ContinueOrSettle(d, messages)
    PROVE  ContinuedOK
  <1>1. /\ steering \in Seq(Msg) /\ followUp \in Seq(Msg)
        /\ driver \in [Msg -> {"none", "preflight", "running", "sleeping", "returned", "threw"}]
    BY DEF PartsOK, QueueOK, SessionOK
  <1>2. CASE Continue(d, messages)
    BY <1>2, ContinueTypes
  <1>3. CASE Settle(d, "returned") /\ NoRun /\ UNCHANGED <<steering, followUp>>
    BY <1>1, <1>3, RunOver DEF ContinuedOK, Settle
  <1> QED
    BY <1>2, <1>3 DEF ContinueOrSettle

\* Agent.continue throws beside another run.
LEMMA BusyTypes ==
    ASSUME PartsOK, NEW d \in Msg, ContinueBusy(d)
    PROVE  /\ driver' \in [Msg -> {"none", "preflight", "running", "sleeping", "returned", "threw"}]
           /\ streaming' \in BOOLEAN
           /\ UNCHANGED <<steering, followUp, owner, signalled, pc, skip, more, pending, budget, context>>
  BY DEF ContinueBusy, Settle, SameRun, loop, PartsOK, SessionOK

\* A step that leaves the batch alone.
BatchSame == UNCHANGED <<batch, batchMode, at, out>>

\* A batch stays in shape when the run starts anew, is over or is left alone.
LEMMA BatchKept ==
    ASSUME PartsOK, BatchSame, \/ pc' = pc /\ (signalled => signalled')
                               \/ pc' \notin {"prepare", "execute"}
    PROVE  BatchOK'
  BY DEF PartsOK, BatchOK, BatchSame

\* Messages come in and are queued.
LEMMA InputTypes ==
    ASSUME PartsOK, NEW m \in Msg, Steer(m) \/ FollowUp(m) \/ Prompt(m) \/ PreflightFails(m)
    PROVE  PartsOK'
  <1>1. /\ steering \in Seq(Msg) /\ followUp \in Seq(Msg) /\ <<>> \in Seq(Msg)
        /\ Append(steering, m) \in Seq(Msg) /\ Append(followUp, m) \in Seq(Msg)
    BY AppendProperties, EmptySeq DEF PartsOK, QueueOK
  <1> USE DEF session, queue, loop, tools
  <1>2. CASE Steer(m)
    <2>1. SessionOK' /\ QueueOK'
      BY <1>1, <1>2 DEF Steer, Enqueue, PartsOK, SessionOK, QueueOK
    <2>2. RunOK' /\ BatchOK' /\ CountsOK'
      BY <1>2 DEF Steer, PartsOK, RunOK, BatchOK, CountsOK
    <2> QED
      BY <2>1, <2>2 DEF PartsOK
  <1>3. CASE FollowUp(m)
    <2>1. SessionOK' /\ QueueOK'
      BY <1>1, <1>3 DEF FollowUp, Enqueue, PartsOK, SessionOK, QueueOK
    <2>2. RunOK' /\ BatchOK' /\ CountsOK'
      BY <1>3 DEF FollowUp, PartsOK, RunOK, BatchOK, CountsOK
    <2> QED
      BY <2>1, <2>2 DEF PartsOK
  <1>4. CASE Prompt(m)
    <2>1. SessionOK' /\ QueueOK'
      BY <1>4 DEF Prompt, PartsOK, SessionOK, QueueOK
    <2>2. RunOK' /\ BatchOK' /\ CountsOK'
      BY <1>4 DEF Prompt, PartsOK, RunOK, BatchOK, CountsOK
    <2> QED
      BY <2>1, <2>2 DEF PartsOK
  <1>5. CASE PreflightFails(m)
    <2>1. SessionOK' /\ QueueOK'
      BY <1>5 DEF PreflightFails, PartsOK, SessionOK, QueueOK
    <2>2. RunOK' /\ BatchOK' /\ CountsOK'
      BY <1>5 DEF PreflightFails, PartsOK, RunOK, BatchOK, CountsOK
    <2> QED
      BY <2>1, <2>2 DEF PartsOK
  <1> QED
    BY <1>2, <1>3, <1>4, <1>5

\* The queues are given back.
LEMMA ClearTypes ==
    ASSUME PartsOK, ClearQueue
    PROVE  PartsOK'
  <1> USE DEF session, queue, loop, tools
  <1>1. <<>> \in Seq(Msg)
    BY EmptySeq
  <1>2. SessionOK' /\ QueueOK'
    BY <1>1 DEF ClearQueue, PartsOK, SessionOK, QueueOK
  <1>3. RunOK' /\ BatchOK' /\ CountsOK'
    BY DEF ClearQueue, PartsOK, RunOK, BatchOK, CountsOK
  <1> QED
    BY <1>2, <1>3 DEF PartsOK

\* A custom message comes in.
LEMMA CustomTypes ==
    ASSUME PartsOK, SendCustomMessage
    PROVE  PartsOK'
  <1> USE DEF session, queue, loop, tools
  <1>1. messages' \in Seq(Entry)
    BY Entries, AppendProperties DEF SendCustomMessage, PartsOK, CountsOK
  <1>2. SessionOK' /\ QueueOK'
    BY DEF SendCustomMessage, PartsOK, SessionOK, QueueOK
  <1>3. RunOK' /\ BatchOK'
    BY DEF SendCustomMessage, PartsOK, RunOK, BatchOK
  <1>4. CountsOK'
    BY <1>1 DEF SendCustomMessage, PartsOK, CountsOK
  <1> QED
    BY <1>2, <1>3, <1>4 DEF PartsOK

\* A driver begins a run, or is refused.
LEMMA RunAgentPromptTypes ==
    ASSUME PartsOK, NEW m \in Msg, RunAgentPrompt(m)
    PROVE  PartsOK'
  <1> USE DEF session, queue, loop, tools
  <1>1. <<m>> \in Seq(Msg) /\ <<m>> # <<>>
    OBVIOUS
  <1>2. RunOK' /\ BatchOK' /\ (signalled' => signalled) /\ SessionOK'
    <2>1. BatchSame
      BY DEF RunAgentPrompt, BatchSame
    <2>2. CASE RunPrompts(m, <<m>>, FALSE, messages) /\ driver' = [driver EXCEPT ![m] = "running"] /\ streaming' = TRUE
      <3>1. StartedOK
        BY <1>1, <2>2, PromptsStart
      <3>2. RunOK' /\ BatchOK' /\ ~signalled'
        BY <3>1, <2>1, BatchKept DEF StartedOK
      <3>3. SessionOK'
        BY <2>2 DEF RunAgentPrompt, PartsOK, SessionOK
      <3> QED
        BY <3>2, <3>3
    <2>3. CASE Settle(m, "threw") /\ SameRun
      <3>1. RunOK' /\ BatchOK' /\ signalled' = signalled
        BY <2>1, <2>3 DEF SameRun, BatchSame, PartsOK, RunOK, BatchOK
      <3>2. SessionOK'
        BY <2>3 DEF RunAgentPrompt, Settle, PartsOK, SessionOK
      <3> QED
        BY <3>1, <3>2
    <2> QED
      BY <2>2, <2>3 DEF RunAgentPrompt
  <1>3. QueueOK' /\ CountsOK'
    BY <1>2 DEF RunAgentPrompt, PartsOK, QueueOK, CountsOK
  <1> QED
    BY <1>2, <1>3 DEF PartsOK

\* The loop emits what it holds.
LEMMA EmitMessageTypes ==
    ASSUME PartsOK, EmitMessage
    PROVE  PartsOK'
  <1> USE DEF session, queue, loop, tools
  <1> DEFINE m == Head(pending)
  <1>1. pending \in Seq(Msg) /\ pending # <<>> /\ messages \in Seq(Entry) /\ context \in Seq(Entry)
    BY DEF EmitMessage, PartsOK, RunOK, CountsOK
  <1>2. /\ m \in Msg /\ Tail(pending) \in Seq(Msg) /\ Len(pending) \in Nat
        /\ Tail(pending) # <<>> <=> Len(pending) > 1
    BY <1>1, HeadTaken
  <1>3. User(m) \in Entry
    BY <1>2, Entries
  <1> HIDE DEF m
  <1>4. Append(messages, User(m)) \in Seq(Entry) /\ Append(context, User(m)) \in Seq(Entry)
    BY <1>1, <1>3, AppendProperties
  <1>5. messages' \in Seq(Entry) /\ context' \in Seq(Entry) /\ pending' = Tail(pending)
    BY <1>1, <1>4 DEF EmitMessage, m
  <1>6. RunOK'
    BY <1>2, <1>5 DEF EmitMessage, PartsOK, RunOK
  <1>7. SessionOK' /\ QueueOK' /\ CountsOK'
    BY <1>5 DEF EmitMessage, PartsOK, SessionOK, QueueOK, CountsOK
  <1>8. BatchOK'
    BY BatchKept DEF EmitMessage, BatchSame
  <1> QED
    BY <1>6, <1>7, <1>8 DEF PartsOK

\* The loop polls the queues.
LEMMA PollTypes ==
    ASSUME PartsOK, PollSteering \/ PollFollowUps
    PROVE  PartsOK'
  <1> USE DEF session, queue, loop, tools
  <1>1. steering \in Seq(Msg) /\ followUp \in Seq(Msg) /\ <<>> \in Seq(Msg)
    BY EmptySeq DEF PartsOK, QueueOK
  <1>2. Splits(steering) /\ Splits(followUp)
    BY <1>1, DrainSplits
  <1>3. BatchOK'
    BY BatchKept DEF PollSteering, PollFollowUps, BatchSame
  <1>4. SessionOK' /\ CountsOK'
    BY DEF PollSteering, PollFollowUps, PartsOK, SessionOK, CountsOK
  <1>5. CASE PollSteering
    <2>1. pending' \in Seq(Msg) /\ steering' \in Seq(Msg)
      BY <1>1, <1>2, <1>5 DEF PollSteering, Splits
    <2>2. QueueOK'
      BY <2>1, <1>5 DEF PollSteering, PartsOK, QueueOK
    <2>3. RunOK'
      BY <2>1, <1>5 DEF PollSteering, PartsOK, RunOK
    <2> QED
      BY <2>2, <2>3, <1>3, <1>4 DEF PartsOK
  <1>6. CASE PollFollowUps
    <2>1. pending' \in Seq(Msg) /\ followUp' \in Seq(Msg) /\ (pending' # <<>> <=> followUp # <<>>)
      BY <1>1, <1>2, <1>6 DEF PollFollowUps, Splits
    <2>2. QueueOK'
      BY <2>1, <1>6 DEF PollFollowUps, PartsOK, QueueOK
    <2>3. RunOK'
      BY <2>1, <1>6 DEF PollFollowUps, PartsOK, RunOK
    <2> QED
      BY <2>2, <2>3, <1>3, <1>4 DEF PartsOK
  <1> QED
    BY <1>5, <1>6

\* The provider is asked, or the run's budget is spent.
LEMMA RequestTypes ==
    ASSUME PartsOK, Request
    PROVE  PartsOK'
  <1> USE DEF session, queue, loop, tools
  <1>1. messages \in Seq(Entry) /\ context \in Seq(Entry) /\ Failed(<<>>) \in Entry
    BY Entries DEF PartsOK, RunOK, CountsOK
  <1>2. messages' \in Seq(Entry) /\ context' \in Seq(Entry)
    <2>1. Append(messages, Failed(<<>>)) \in Seq(Entry) /\ Append(context, Failed(<<>>)) \in Seq(Entry)
      BY <1>1, AppendProperties
    <2>2. UNCHANGED <<messages, context>> \/ (/\ messages' = Append(messages, Failed(<<>>))
                                              /\ context' = Append(context, Failed(<<>>)))
      BY DEF Request
    <2> QED
      BY <2>1, <2>2, <1>1
  <1>3. budget' \in 0..MaxIterations
    BY AgentLoopAssumption DEF Request, PartsOK, RunOK
  <1>4. RunOK'
    BY <1>2, <1>3 DEF Request, PartsOK, RunOK
  <1>5. SessionOK' /\ QueueOK' /\ CountsOK'
    BY <1>2 DEF Request, PartsOK, SessionOK, QueueOK, CountsOK
  <1>6. BatchOK'
    BY BatchKept DEF Request, BatchSame
  <1> QED
    BY <1>4, <1>5, <1>6 DEF PartsOK

\* What the provider streamed joins the transcript.
LEMMA StreamedTypes ==
    ASSUME PartsOK, NEW e \in Entry, NEW o \in {"ok", "error", "retryable", "aborted"}, Streamed(e, o)
    PROVE  /\ messages' \in Seq(Entry) /\ context' \in Seq(Entry)
           /\ SessionOK' /\ QueueOK'
  <1> USE DEF session, queue, loop, tools
  <1>1. messages \in Seq(Entry) /\ context \in Seq(Entry)
    BY DEF PartsOK, RunOK, CountsOK
  <1>2. messages' \in Seq(Entry) /\ context' \in Seq(Entry)
    BY <1>1, AppendProperties DEF Streamed
  <1>3. retries' \in 0..MaxRetries
    BY AgentLoopAssumption DEF Streamed, PartsOK, SessionOK
  <1>4. SessionOK' /\ QueueOK'
    BY <1>3 DEF Streamed, PartsOK, SessionOK, QueueOK
  <1> QED
    BY <1>2, <1>4

\* What was streamed: a message that failed, a message without calls, or one
\* whose calls begin a batch.
StreamEnds ==
    \E cs \in Seq(Call), e \in Entry, o \in {"ok", "error", "retryable", "aborted"} :
        /\ Streamed(e, o)
        /\ e.role = "assistant"
        /\ \/ StreamFails /\ e = Failed(cs)
           \/ StreamStops /\ e = Assistant(<<>>)
           \/ (StreamCallsTools \/ StreamTruncated) /\ e = Assistant(cs) /\ batch' = cs /\ out' = 0

\* A stream ends in one of these ways.
LEMMA StreamKinds ==
    ASSUME StreamFails \/ StreamStops \/ StreamCallsTools \/ StreamTruncated
    PROVE  StreamEnds
  <1>1. CASE StreamFails
    <2>1. PICK cs \in NewCalls \cup {<<>>}, o \in {"error", "retryable", "aborted"} : Streamed(Failed(cs), o)
      BY <1>1 DEF StreamFails
    <2>2. cs \in Seq(Call)
      BY CallsNew, EmptySeq
    <2>3. PICK e \in Entry : e = Failed(cs) /\ e.role = "assistant"
      BY <2>2, Entries
    <2> QED
      BY <1>1, <2>1, <2>2, <2>3 DEF StreamEnds
  <1>2. CASE StreamStops
    <2>1. PICK e \in Entry : e = Assistant(<<>>) /\ e.role = "assistant"
      BY Entries
    <2>2. Streamed(e, "ok") /\ <<>> \in Seq(Call)
      BY <1>2, <2>1, EmptySeq DEF StreamStops
    <2> QED
      BY <1>2, <2>1, <2>2 DEF StreamEnds
  <1>3. CASE StreamCallsTools \/ StreamTruncated
    <2>1. PICK cs \in NewCalls : Streamed(Assistant(cs), "ok") /\ batch' = cs /\ out' = 0
      BY <1>3 DEF StreamCallsTools, StreamTruncated
    <2>2. cs \in Seq(Call)
      BY CallsNew
    <2>3. PICK e \in Entry : e = Assistant(cs) /\ e.role = "assistant"
      BY <2>2, Entries
    <2> QED
      BY <1>3, <2>1, <2>2, <2>3 DEF StreamEnds
  <1> QED
    BY <1>1, <1>2, <1>3

\* The provider's message has ended, and a batch may begin.
LEMMA StreamTypes ==
    ASSUME PartsOK, StreamFails \/ StreamStops \/ StreamCallsTools \/ StreamTruncated
    PROVE  PartsOK'
  <1> USE DEF session, queue, loop, tools
  <1>1. PICK e \in Entry, o \in {"ok", "error", "retryable", "aborted"} : Streamed(e, o)
    BY StreamKinds DEF StreamEnds
  <1>3. messages' \in Seq(Entry) /\ context' \in Seq(Entry) /\ SessionOK' /\ QueueOK'
    BY <1>1, StreamedTypes
  <1>4. /\ pc = "stream" /\ pc' \in {"end", "turnEnd", "prepare", "execute"} /\ more' \in BOOLEAN
        /\ UNCHANGED <<owner, signalled, skip, pending, budget, aborts, faults, clears, raced, inserted>>
    BY DEF StreamFails, StreamStops, StreamCallsTools, StreamTruncated, Streamed, PartsOK, RunOK
  <1>5. RunOK'
    BY <1>3, <1>4 DEF PartsOK, RunOK
  <1>6. BatchOK' /\ tool' \in [Call -> {"unused", "partial", "todo", "prepared", "running", "done"}]
    <2>1. CASE StreamFails \/ StreamStops
      <3>1. BatchSame /\ pc' \notin {"prepare", "execute"}
        BY <2>1 DEF StreamFails, StreamStops, BatchSame
      <3>2. (\E cs : CallsBecome(cs, "partial")) \/ tool' = tool
        BY <2>1 DEF StreamFails, StreamStops
      <3>3. tool' \in [Call -> {"unused", "partial", "todo", "prepared", "running", "done"}]
        BY <3>2 DEF CallsBecome, PartsOK, CountsOK
      <3> QED
        BY <3>1, <3>3, BatchKept
    <2>2. CASE StreamCallsTools
      <3>1. PICK calls \in NewCalls, how \in {"parallel", "sequential"} :
              /\ pc' = "prepare" /\ batch' = calls /\ batchMode' = how /\ at' = 1 /\ out' = 0
              /\ CallsBecome(calls, "todo")
        BY <2>2 DEF StreamCallsTools
      <3>2. calls \in Seq(Call) /\ Len(calls) \in Nat \ {0}
        BY CallsNew
      <3>3. BatchOK'
        BY <3>1, <3>2 DEF BatchOK
      <3> QED
        BY <3>1, <3>3 DEF CallsBecome, PartsOK, CountsOK
    <2>3. CASE StreamTruncated
      <3>1. PICK calls \in NewCalls :
              /\ pc' = "execute" /\ batch' = calls /\ batchMode' = "truncated"
              /\ at' = Len(calls) /\ out' = 0
              /\ CallsBecome(calls, "done")
        BY <2>3 DEF StreamTruncated
      <3>2. calls \in Seq(Call) /\ Len(calls) \in Nat \ {0}
        BY CallsNew
      <3>3. BatchOK'
        BY <3>1, <3>2 DEF BatchOK
      <3> QED
        BY <3>1, <3>3 DEF CallsBecome, PartsOK, CountsOK
    <2> QED
      BY <2>1, <2>2, <2>3
  <1>7. CountsOK'
    BY <1>3, <1>4, <1>6 DEF PartsOK, CountsOK
  <1> QED
    BY <1>3, <1>5, <1>6, <1>7 DEF PartsOK

\* A call is prepared, and launched with the batch or on its own.
LEMMA PrepareTypes ==
    ASSUME PartsOK, NEW s \in {"prepared", "done"}, PrepareToolCall(s)
    PROVE  PartsOK'
  <1> USE DEF session, queue, loop, tools
  <1> DEFINE prepared == [tool EXCEPT ![batch[at]] = s]
             launch == batchMode = "sequential" \/ signalled \/ at = Len(batch)
  <1>1. tool \in [Call -> {"unused", "partial", "todo", "prepared", "running", "done"}]
    BY DEF PartsOK, CountsOK
  <1>2. prepared \in [Call -> {"unused", "partial", "todo", "prepared", "running", "done"}]
    BY <1>1
  <1>3. Launched(prepared) \in [Call -> {"unused", "partial", "todo", "prepared", "running", "done"}]
    <2> HIDE DEF prepared
    <2> QED
      BY <1>2 DEF Launched
  <1> HIDE DEF prepared
  <1>4. tool' \in [Call -> {"unused", "partial", "todo", "prepared", "running", "done"}]
    BY <1>2, <1>3 DEF PrepareToolCall, prepared
  <1>5. SessionOK' /\ QueueOK' /\ CountsOK'
    BY <1>4 DEF PrepareToolCall, PartsOK, SessionOK, QueueOK, CountsOK
  <1>6. RunOK'
    BY DEF PrepareToolCall, PartsOK, RunOK
  <1>7. BatchOK'
    <2>1. /\ batch \in Seq(Call) /\ at \in 0..Len(batch) /\ out \in 0..at /\ out < at /\ Len(batch) \in Nat
      BY LenProperties DEF PrepareToolCall, PartsOK, BatchOK
    <2>2. UNCHANGED <<batch, batchMode, out, signalled>>
      BY DEF PrepareToolCall
    <2>3. CASE launch
      <3>1. pc' = "execute" /\ at' = at
        BY <2>3 DEF PrepareToolCall
      <3> QED
        BY <2>1, <2>2, <2>3, <3>1 DEF PartsOK, BatchOK
    <2>4. CASE ~launch
      <3>1. pc' = "prepare" /\ at' = at + 1
        BY <2>4 DEF PrepareToolCall
      <3>2. at' \in 0..Len(batch) /\ out < at' /\ out \in 0..at'
        BY <2>1, <2>4, <3>1
      <3> QED
        BY <2>1, <2>2, <3>1, <3>2 DEF PartsOK, BatchOK
    <2> QED
      BY <2>3, <2>4
  <1> QED
    BY <1>5, <1>6, <1>7 DEF PartsOK

\* A result joins the transcript.
LEMMA EmitResultTypes ==
    ASSUME PartsOK, EmitResult
    PROVE  PartsOK'
  <1> USE DEF session, queue, loop, tools
  <1>1. /\ batch \in Seq(Call) /\ at \in 0..Len(batch) /\ out \in 0..at /\ out < at /\ Len(batch) \in Nat
        /\ \A i \in 1..Len(batch) : batch[i] \in Call
    BY LenProperties, ElementOfSeq DEF EmitResult, PartsOK, BatchOK
  <1>2. out + 1 \in 1..Len(batch) /\ out + 1 \in 0..at
    BY <1>1
  <1>3. Result(batch[out + 1]) \in Entry /\ messages \in Seq(Entry) /\ context \in Seq(Entry)
    BY <1>1, <1>2, Entries DEF PartsOK, RunOK, CountsOK
  <1>4. messages' \in Seq(Entry)
    BY <1>3, AppendProperties DEF EmitResult
  <1>5. context \o Results(SubSeq(batch, 1, out + 1)) \in Seq(Entry)
    <2>1. \A i \in 1..(out + 1) : batch[i] \in Call
      BY <1>1, <1>2
    <2>2. 1 \in Int /\ out + 1 \in Int
      BY <1>2
    <2>3. SubSeq(batch, 1, out + 1) \in Seq(Call)
      BY <2>1, <2>2, SubSeqProperties
    <2> QED
      BY <2>3, <1>3, Lists, ConcatProperties
  <1>6. context' \in Seq(Entry) /\ more' \in BOOLEAN
    BY <1>3, <1>5 DEF EmitResult, PartsOK, RunOK
  <1>7. RunOK'
    BY <1>6 DEF EmitResult, PartsOK, RunOK
  <1>8. SessionOK' /\ QueueOK' /\ CountsOK'
    BY <1>4 DEF EmitResult, PartsOK, SessionOK, QueueOK, CountsOK
  <1>9. BatchOK'
    <2>1. UNCHANGED <<batch, batchMode, signalled>> /\ out' = out + 1 /\ pc = "execute"
      BY DEF EmitResult
    <2>2. CASE pc' = "turnEnd" /\ at' = at
      BY <2>1, <2>2, <1>1, <1>2 DEF PartsOK, BatchOK
    <2>3. CASE /\ ~BatchEnded(out + 1)
               /\ pc' = IF out + 1 = at THEN "prepare" ELSE "execute"
               /\ at' = IF out + 1 = at THEN at + 1 ELSE at
      <3>1. CASE out + 1 = at
        <4>1. at # Len(batch)
          BY <2>3, <3>1 DEF BatchEnded, PartsOK, BatchOK, EmitResult
        <4>2. at' = at + 1 /\ at' \in 0..Len(batch) /\ out' < at' /\ out' \in 0..at' /\ pc' = "prepare"
          BY <2>1, <2>3, <3>1, <4>1, <1>1
        <4> QED
          BY <2>1, <4>2 DEF PartsOK, BatchOK
      <3>2. CASE out + 1 # at
        <4>1. at' = at /\ pc' = "execute" /\ out' < at' /\ out' \in 0..at'
          BY <2>1, <2>3, <3>2, <1>1
        <4> QED
          BY <2>1, <4>1 DEF PartsOK, BatchOK
      <3> QED
        BY <3>1, <3>2
    <2> QED
      BY <2>2, <2>3 DEF EmitResult
  <1> QED
    BY <1>7, <1>8, <1>9 DEF PartsOK

\* No batch is in shape.
LEMMA NoBatchOK ==
    ASSUME NoBatch, pc' \notin {"prepare", "execute"}
    PROVE  BatchOK'
  <1>1. <<>> \in Seq(Call) /\ Len(<<>>) = 0
    BY EmptySeq
  <1> QED
    BY <1>1 DEF NoBatch, BatchOK

\* A tool ends, and so does a turn.
LEMMA EndsTypes ==
    ASSUME PartsOK, (\E c \in Call : ToolEnds(c)) \/ TurnEnd
    PROVE  PartsOK'
  <1> USE DEF session, queue, loop, tools
  <1>1. CASE TurnEnd
    <2>1. BatchOK'
      BY <1>1, NoBatchOK DEF TurnEnd
    <2>2. SessionOK' /\ QueueOK' /\ CountsOK'
      BY <1>1 DEF TurnEnd, NoBatch, PartsOK, SessionOK, QueueOK, CountsOK
    <2>3. RunOK'
      BY <1>1 DEF TurnEnd, PartsOK, RunOK
    <2> QED
      BY <2>1, <2>2, <2>3 DEF PartsOK
  <1>2. ASSUME NEW c \in Call, ToolEnds(c)
        PROVE  PartsOK'
    <2>1. BatchOK' /\ RunOK'
      BY <1>2 DEF ToolEnds, PartsOK, BatchOK, RunOK
    <2>2. SessionOK' /\ QueueOK' /\ CountsOK'
      BY <1>2 DEF ToolEnds, PartsOK, SessionOK, QueueOK, CountsOK
    <2> QED
      BY <2>1, <2>2 DEF PartsOK
  <1> QED
    BY <1>1, <1>2

\* A run has ended, and its driver retries, goes on or settles.
LEMMA FinishTypes ==
    ASSUME PartsOK, Finish
    PROVE  PartsOK'
  <1> USE DEF session, queue, loop, tools
  <1>1. /\ owner \in Msg /\ messages \in Seq(Entry) /\ retries \in 0..MaxRetries /\ MaxRetries \in Nat
        /\ driver \in [Msg -> {"none", "preflight", "running", "sleeping", "returned", "threw"}]
    BY AgentLoopAssumption DEF Finish, PartsOK, RunOK, CountsOK, SessionOK
  <1>2. BatchSame /\ UNCHANGED <<mode, via, shown, restored, early, tool, aborts, faults, clears, raced, inserted>> /\ last' = "none"
    BY DEF Finish, BatchSame
  <1>3. /\ StartedOK
        /\ steering' \in Seq(Msg) /\ followUp' \in Seq(Msg)
        /\ driver' \in [Msg -> {"none", "preflight", "running", "sleeping", "returned", "threw"}]
        /\ streaming' \in BOOLEAN /\ sleeper' \in Msg \cup {0} /\ retries' \in 0..MaxRetries
        /\ messages' \in Seq(Entry)
    <2>1. CASE Settle(owner, "returned") /\ NoRun /\ UNCHANGED <<sleeper, retries, messages, steering, followUp>>
      BY <2>1, <1>1, RunOver DEF Settle, PartsOK, SessionOK, QueueOK
    <2>2. CASE /\ retries < MaxRetries
               /\ retries' = retries + 1
               /\ sleeper' = owner
               /\ messages' = IF EndsWithAssistant(messages) THEN Front(messages) ELSE messages
               /\ driver' = [driver EXCEPT ![owner] = "sleeping"]
               /\ NoRun
               /\ UNCHANGED <<streaming, steering, followUp>>
      <3>1. messages' \in Seq(Entry)
        BY <2>2, <1>1, LastDropped DEF EndsWithAssistant
      <3> QED
        BY <2>2, <3>1, <1>1, RunOver DEF PartsOK, SessionOK, QueueOK
    <2>3. CASE /\ retries' = IF last \in {"error", "retryable"} THEN 0 ELSE retries
               /\ ContinueOrSettle(owner, messages)
               /\ UNCHANGED <<sleeper, messages>>
      <3>1. ContinuedOK
        BY <2>3, <1>1, ContinueOrSettleTypes
      <3> QED
        BY <2>3, <3>1, <1>1 DEF ContinuedOK, PartsOK, SessionOK
    <2> QED
      BY <2>1, <2>2, <2>3 DEF Finish
  <1>4. RunOK' /\ BatchOK'
    BY <1>2, <1>3, BatchKept DEF StartedOK
  <1>5. SessionOK' /\ QueueOK'
    BY <1>2, <1>3 DEF PartsOK, SessionOK, QueueOK
  <1>6. CountsOK'
    BY <1>2, <1>3 DEF PartsOK, CountsOK, StartedOK
  <1> QED
    BY <1>4, <1>5, <1>6 DEF PartsOK

\* The backoff of a retry is over.
LEMMA WakeTypes ==
    ASSUME PartsOK, NEW d \in Msg, Wake(d)
    PROVE  PartsOK'
  <1> USE DEF session, queue, loop, tools
  <1>1. BatchSame /\ sleeper' = 0
        /\ UNCHANGED <<mode, via, retries, last, shown, restored, early, messages, tool, aborts, faults, clears, raced, inserted>>
    BY DEF Wake, BatchSame
  <1>2. /\ steering' \in Seq(Msg) /\ followUp' \in Seq(Msg)
        /\ driver' \in [Msg -> {"none", "preflight", "running", "sleeping", "returned", "threw"}]
        /\ streaming' \in BOOLEAN
        /\ RunOK' /\ BatchOK' /\ (signalled' => signalled)
    <2>1. CASE Continue(d, messages)
      <3>1. ContinuedOK
        BY <2>1, ContinueTypes
      <3> QED
        BY <3>1, <1>1, BatchKept DEF ContinuedOK, StartedOK
    <2>2. CASE ContinueBusy(d)
      <3>1. /\ driver' \in [Msg -> {"none", "preflight", "running", "sleeping", "returned", "threw"}]
            /\ streaming' \in BOOLEAN
            /\ UNCHANGED <<steering, followUp, owner, signalled, pc, skip, more, pending, budget, context>>
        BY <2>2, BusyTypes
      <3>2. RunOK' /\ BatchOK'
        BY <3>1, <1>1, BatchKept DEF PartsOK, RunOK
      <3> QED
        BY <3>1, <3>2 DEF PartsOK, QueueOK
    <2> QED
      BY <2>1, <2>2 DEF Wake
  <1>3. SessionOK' /\ QueueOK'
    BY <1>1, <1>2 DEF PartsOK, SessionOK, QueueOK
  <1>4. CountsOK'
    BY <1>1, <1>2 DEF PartsOK, CountsOK
  <1> QED
    BY <1>2, <1>3, <1>4 DEF PartsOK

\* The user aborts a run or a retry.
LEMMA AbortTypes ==
    ASSUME PartsOK, AbortSession
    PROVE  PartsOK'
  <1> USE DEF session, queue, loop, tools
  <1>1. BatchSame /\ aborts' = aborts + 1 /\ aborts \in Nat
        /\ UNCHANGED <<mode, via, last, shown, restored, early, messages, tool, faults, clears, raced, inserted>>
    BY DEF AbortSession, BatchSame, PartsOK, CountsOK
  <1>2. /\ driver \in [Msg -> {"none", "preflight", "running", "sleeping", "returned", "threw"}]
        /\ streaming \in BOOLEAN /\ steering \in Seq(Msg) /\ followUp \in Seq(Msg)
        /\ sleeper \in Msg \cup {0} /\ retries \in 0..MaxRetries /\ 0 \in 0..MaxRetries
    BY AgentLoopAssumption DEF PartsOK, SessionOK, QueueOK
  <1>3. /\ steering' \in Seq(Msg) /\ followUp' \in Seq(Msg)
        /\ driver' \in [Msg -> {"none", "preflight", "running", "sleeping", "returned", "threw"}]
        /\ streaming' \in BOOLEAN /\ sleeper' \in Msg \cup {0} /\ retries' \in 0..MaxRetries
        /\ RunOK' /\ BatchOK'
    <2>1. ASSUME signalled' = TRUE, UNCHANGED <<owner, pc, skip, more, pending, budget, context>>
          PROVE  RunOK' /\ BatchOK'
      BY <2>1, <1>1, BatchKept DEF PartsOK, RunOK
    <2>2. CASE sleeper = 0
      BY <2>2, <2>1, <1>2 DEF AbortSession
    <2>3. CASE sleeper # 0 /\ owner = 0
      <3>1. ContinuedOK
        BY <2>3, <1>2, ContinueOrSettleTypes DEF AbortSession
      <3>2. RunOK' /\ BatchOK'
        BY <3>1, <1>1, BatchKept DEF ContinuedOK, StartedOK
      <3> QED
        BY <2>3, <3>1, <3>2, <1>2 DEF AbortSession, ContinuedOK
    <2>4. CASE sleeper # 0 /\ owner # 0
      <3>1. signalled' = TRUE /\ UNCHANGED <<owner, pc, skip, more, pending, budget, context, steering, followUp>>
            /\ (\E how \in {"threw", "returned"} : Settle(sleeper, how)) /\ sleeper' = 0 /\ retries' = 0
        BY <2>4 DEF AbortSession
      <3> QED
        BY <2>1, <3>1, <1>2 DEF Settle
    <2> QED
      BY <2>2, <2>3, <2>4
  <1>4. SessionOK' /\ QueueOK'
    BY <1>1, <1>3 DEF PartsOK, SessionOK, QueueOK
  <1>5. CountsOK'
    BY <1>1, <1>3 DEF PartsOK, CountsOK, RunOK
  <1> QED
    BY <1>3, <1>4, <1>5 DEF PartsOK

\* A listener throws, and the run's failure is reported or throws in turn.
LEMMA FailureTypes ==
    ASSUME PartsOK, ListenerThrows \/ HandleRunFailure \/ FailureThrows
    PROVE  PartsOK'
  <1> USE DEF session, queue, loop, tools
  <1>1. /\ messages \in Seq(Entry) /\ Failed(<<>>) \in Entry /\ <<>> \in Seq(Msg) /\ <<>> \in Seq(Entry)
        /\ faults \in Nat /\ retries \in 0..MaxRetries /\ 0 \in 0..MaxRetries
        /\ driver \in [Msg -> {"none", "preflight", "running", "sleeping", "returned", "threw"}]
    BY Entries, EmptySeq, AgentLoopAssumption DEF PartsOK, CountsOK, SessionOK
  <1>2. CASE ListenerThrows
    <2>1. messages' \in Seq(Entry) /\ shown' \subseteq Msg
      <3>1. pc \in {"prompts", "inject"} => Append(messages, User(Head(pending))) \in Seq(Entry)
        <4> SUFFICES ASSUME pc \in {"prompts", "inject"}
                     PROVE  Append(messages, User(Head(pending))) \in Seq(Entry)
          OBVIOUS
        <4>1. pending \in Seq(Msg) /\ pending # <<>>
          BY DEF PartsOK, RunOK
        <4>2. User(Head(pending)) \in Entry
          BY <4>1, HeadTaken, Entries
        <4> QED
          BY <4>2, <1>1, AppendProperties
      <3>2. messages' \in Seq(Entry)
        BY <1>1, <1>2, <3>1 DEF ListenerThrows
      <3>3. shown' \subseteq Msg
        BY <1>2 DEF ListenerThrows, PartsOK, QueueOK
      <3> QED
        BY <3>2, <3>3
    <2>2. BatchOK'
      BY <1>2, NoBatchOK DEF ListenerThrows
    <2>3. RunOK'
      BY <1>1, <1>2 DEF ListenerThrows, PartsOK, RunOK
    <2>4. SessionOK' /\ QueueOK'
      BY <1>2, <2>1 DEF ListenerThrows, PartsOK, SessionOK, QueueOK
    <2>5. CountsOK'
      BY <1>1, <1>2, <2>1 DEF ListenerThrows, NoBatch, PartsOK, CountsOK
    <2> QED
      BY <2>2, <2>3, <2>4, <2>5 DEF PartsOK
  <1>3. CASE HandleRunFailure
    <2>1. messages' \in Seq(Entry)
      BY <1>1, <1>3, AppendProperties DEF HandleRunFailure
    <2>2. BatchOK'
      BY <1>3, BatchKept DEF HandleRunFailure, BatchSame
    <2>3. RunOK'
      BY <1>3 DEF HandleRunFailure, PartsOK, RunOK
    <2>4. SessionOK' /\ QueueOK'
      BY <1>1, <1>3 DEF HandleRunFailure, PartsOK, SessionOK, QueueOK
    <2>5. CountsOK'
      BY <1>3, <2>1 DEF HandleRunFailure, PartsOK, CountsOK
    <2> QED
      BY <2>2, <2>3, <2>4, <2>5 DEF PartsOK
  <1>4. CASE FailureThrows
    <2>1. StartedOK
      BY <1>4, RunOver DEF FailureThrows
    <2>2. BatchOK' /\ RunOK'
      BY <1>4, <2>1, BatchKept DEF FailureThrows, BatchSame, StartedOK
    <2>3. SessionOK' /\ QueueOK'
      BY <1>1, <1>4 DEF FailureThrows, Settle, PartsOK, SessionOK, QueueOK
    <2>4. CountsOK'
      BY <1>1, <1>4, <2>1 DEF FailureThrows, StartedOK, PartsOK, CountsOK
    <2> QED
      BY <2>2, <2>3, <2>4 DEF PartsOK
  <1> QED
    BY <1>2, <1>3, <1>4

\* Every step keeps the types.
LEMMA TypesNext ==
    ASSUME PartsOK, [LoopNext]_loopVars
    PROVE  PartsOK'
  <1>1. CASE Input
    BY <1>1, InputTypes, ClearTypes, CustomTypes, AbortTypes DEF Input
  <1>2. CASE Progress
    BY <1>2, InputTypes, RunAgentPromptTypes, WakeTypes, EmitMessageTypes, PollTypes, RequestTypes,
       StreamTypes, PrepareTypes, EndsTypes, EmitResultTypes, FinishTypes, FailureTypes
       DEF Progress
  <1>3. CASE Fault
    BY <1>3, FailureTypes DEF Fault
  <1>4. CASE UNCHANGED loopVars
    BY <1>4 DEF loopVars, session, queue, loop, tools, PartsOK, SessionOK, QueueOK, RunOK, BatchOK, CountsOK
  <1> QED
    BY <1>1, <1>2, <1>3, <1>4 DEF LoopNext

-----------------------------------------------------------------------------
(* What the loop's own copy holds. *)

\* A prompt emitted is the first of those the context holds beyond the
\* transcript.
LEMMA PromptEmitted ==
    ASSUME NEW s \in Seq(Entry), NEW q \in Seq(Msg), q # <<>>
    PROVE  /\ s \o Users(q) = Append(s, User(Head(q))) \o Users(Tail(q))
           /\ Tail(q) = <<>> => s \o Users(q) = Append(s, User(Head(q)))
  <1>1. /\ Head(q) \in Msg /\ Head(q) = q[1] /\ Tail(q) \in Seq(Msg) /\ Len(q) \in Nat \ {0}
        /\ Len(Tail(q)) = Len(q) - 1 /\ \A i \in 1..Len(Tail(q)) : Tail(q)[i] = q[i + 1]
    BY HeadTaken
  <1>2. /\ Users(q) \in Seq(Entry) /\ Len(Users(q)) = Len(q) /\ \A i \in 1..Len(q) : Users(q)[i] = User(q[i])
        /\ Users(Tail(q)) \in Seq(Entry) /\ Len(Users(Tail(q))) = Len(q) - 1
        /\ \A i \in 1..(Len(q) - 1) : Users(Tail(q))[i] = User(Tail(q)[i])
    BY <1>1, Lists
  <1> DEFINE u == Users(q)
             v == Users(Tail(q))
             n == Len(q)
             k == Len(s)
             a == Append(s, User(Head(q)))
             left == s \o u
             right == a \o v
  <1>3. /\ a \in Seq(Entry) /\ Len(a) = k + 1 /\ k \in Nat /\ n \in Nat \ {0}
        /\ \A i \in 1..k : a[i] = s[i]
        /\ a[k + 1] = User(q[1])
    BY <1>1, Entries, Added
  <1>4. /\ u \in Seq(Entry) /\ Len(u) = n /\ \A i \in 1..n : u[i] = User(q[i])
        /\ v \in Seq(Entry) /\ Len(v) = n - 1 /\ \A i \in 1..(n - 1) : v[i] = User(q[i + 1])
    BY <1>1, <1>2
  <1> HIDE DEF u, v, n, k, a
  <1>5. /\ left \in Seq(Entry) /\ Len(left) = k + n
        /\ \A i \in 1..(k + n) : left[i] = IF i <= k THEN s[i] ELSE u[i - k]
    BY <1>4, ConcatProperties DEF k
  <1>6. /\ right \in Seq(Entry) /\ Len(right) = (k + 1) + (n - 1)
        /\ \A i \in 1..((k + 1) + (n - 1)) : right[i] = IF i <= k + 1 THEN a[i] ELSE v[i - (k + 1)]
    <2>1. /\ right \in Seq(Entry) /\ Len(right) = Len(a) + Len(v)
          /\ \A i \in 1..(Len(a) + Len(v)) : right[i] = IF i <= Len(a) THEN a[i] ELSE v[i - Len(a)]
      BY <1>3, <1>4, ConcatProperties
    <2>2. Len(a) = k + 1 /\ Len(v) = n - 1
      BY <1>3, <1>4
    <2> HIDE DEF right
    <2> QED
      BY <2>1, <2>2
  <1> HIDE DEF left, right
  <1>7. ASSUME NEW i \in 1..(k + n)
        PROVE  left[i] = right[i]
    <2>1. (k + 1) + (n - 1) = k + n
      BY <1>3
    <2>2. /\ left[i] = IF i <= k THEN s[i] ELSE u[i - k]
          /\ right[i] = IF i <= k + 1 THEN a[i] ELSE v[i - (k + 1)]
      BY <1>5, <1>6, <2>1
    <2>3. CASE i <= k
      <3>1. i \in 1..k /\ i <= k + 1
        BY <2>3, <1>3
      <3>2. a[i] = s[i]
        BY <3>1, <1>3
      <3> QED
        BY <2>2, <2>3, <3>1, <3>2
    <2>4. CASE i = k + 1
      <3>1. left[i] = u[1] /\ right[i] = a[k + 1]
        BY <2>2, <2>4, <1>3
      <3> QED
        BY <3>1, <1>3, <1>4
    <2>5. CASE i > k + 1
      <3>1. left[i] = u[i - k] /\ right[i] = v[i - (k + 1)]
        BY <2>2, <2>5, <1>3
      <3>2. i - k \in 1..n /\ i - (k + 1) \in 1..(n - 1) /\ i - (k + 1) + 1 = i - k
        BY <2>5, <1>3
      <3>3. u[i - k] = User(q[i - k]) /\ v[i - (k + 1)] = User(q[i - (k + 1) + 1])
        BY <1>4, <3>2
      <3> QED
        BY <3>1, <3>2, <3>3
    <2> QED
      BY <2>3, <2>4, <2>5, <1>3
  <1>8. left = right
    <2>1. Len(left) = k + n /\ Len(right) = k + n
      BY <1>3, <1>5, <1>6
    <2>2. \A i \in 1..Len(left) : left[i] = right[i]
      BY <1>7, <2>1
    <2> QED
      BY <1>5, <1>6, <2>1, <2>2, SeqEqual
  <1>9. ASSUME Tail(q) = <<>>
        PROVE  right = a
    <2>1. v = <<>>
      <3>1. Len(Tail(q)) = 0
        BY <1>9, EmptySeq
      <3>2. Len(v) = 0
        BY <3>1, <1>1, <1>4 DEF n
      <3> QED
        BY <3>2, <1>4, EmptySeq
    <2> QED
      BY <2>1, <1>3, ConcatEmptySeq DEF right
  <1> QED
    BY <1>8, <1>9 DEF left, right, a, u, v

\* The results of a batch so far, behind the message that asked for them.
BatchSoFar(s, cs, n) == s \o Results(SubSeq(cs, 1, n))

\* Entry by entry.
LEMMA BatchEntries ==
    ASSUME NEW s \in Seq(Entry), NEW cs \in Seq(Call), NEW n \in 0..Len(cs)
    PROVE  /\ BatchSoFar(s, cs, n) \in Seq(Entry)
           /\ Len(BatchSoFar(s, cs, n)) = Len(s) + n /\ Len(s) \in Nat
           /\ \A i \in 1..Len(s) : BatchSoFar(s, cs, n)[i] = s[i]
           /\ \A i \in 1..n : BatchSoFar(s, cs, n)[Len(s) + i] = Result(cs[i])
  <1>1. Len(s) \in Nat /\ Len(cs) \in Nat /\ n \in Nat /\ n <= Len(cs)
    BY LenProperties
  <1>2. \A i \in 1..n : cs[i] \in Call
    <2>1. \A i \in 1..Len(cs) : cs[i] \in Call
      BY ElementOfSeq
    <2> QED
      BY <1>1, <2>1
  <1>3. 1 \in Int /\ n \in Int
    BY <1>1
  <1> DEFINE c == SubSeq(cs, 1, n)
             r == Results(c)
             k == Len(s)
             b == s \o r
  <1>4. c \in Seq(Call) /\ Len(c) = (IF 1 <= n THEN n - 1 + 1 ELSE 0) /\ \A i \in 1..(n - 1 + 1) : c[i] = cs[1 + i - 1]
    BY <1>2, <1>3, SubSeqProperties
  <1> HIDE DEF c
  <1>5. Len(c) = n /\ \A i \in 1..n : c[i] = cs[i]
    <2>1. Len(c) = n
      BY <1>1, <1>4
    <2>2. n - 1 + 1 = n /\ \A i \in 1..n : 1 + i - 1 = i
      BY <1>1
    <2> QED
      BY <1>4, <2>1, <2>2
  <1>6. r \in Seq(Entry) /\ Len(r) = n /\ \A i \in 1..n : r[i] = Result(cs[i])
    BY <1>4, <1>5, Lists
  <1> HIDE DEF r, k
  <1>7. b \in Seq(Entry) /\ Len(b) = k + n /\ \A i \in 1..(k + n) : b[i] = IF i <= k THEN s[i] ELSE r[i - k]
    BY <1>6, ConcatProperties DEF k
  <1> HIDE DEF b
  <1>8. k \in Nat
    BY <1>1 DEF k
  <1>9. \A i \in 1..k : b[i] = s[i]
    BY <1>1, <1>7, <1>8
  <1>10. ASSUME NEW i \in 1..n
         PROVE  b[k + i] = Result(cs[i])
    <2> DEFINE j == k + i
    <2>1. j \in 1..(k + n) /\ ~(j <= k) /\ j - k = i
      BY <1>1, <1>8
    <2> HIDE DEF j
    <2>2. b[j] = r[j - k]
      BY <1>7, <2>1
    <2>3. b[j] = Result(cs[i])
      BY <2>1, <2>2, <1>6
    <2> QED
      BY <2>3 DEF j
  <1> QED
    BY <1>7, <1>8, <1>9, <1>10 DEF BatchSoFar, b, c, r, k

\* One more result.
LEMMA BatchGrows ==
    ASSUME NEW s \in Seq(Entry), NEW cs \in Seq(Call), NEW n \in 0..Len(cs), n < Len(cs)
    PROVE  Append(BatchSoFar(s, cs, n), Result(cs[n + 1])) = BatchSoFar(s, cs, n + 1)
  <1> DEFINE b == BatchSoFar(s, cs, n)
             d == BatchSoFar(s, cs, n + 1)
             k == Len(s)
             e == Result(cs[n + 1])
             a == Append(b, e)
  <1>1. Len(cs) \in Nat /\ n \in Nat /\ n + 1 \in 0..Len(cs) /\ n + 1 \in 1..Len(cs)
    BY LenProperties
  <1>2. /\ b \in Seq(Entry) /\ Len(b) = k + n /\ k \in Nat
        /\ \A i \in 1..k : b[i] = s[i]
        /\ \A i \in 1..n : b[k + i] = Result(cs[i])
    BY BatchEntries
  <1>3. /\ d \in Seq(Entry) /\ Len(d) = k + (n + 1)
        /\ \A i \in 1..k : d[i] = s[i]
        /\ \A i \in 1..(n + 1) : d[k + i] = Result(cs[i])
    BY <1>1, BatchEntries
  <1>4. e \in Entry
    BY <1>1, ElementOfSeq, Entries
  <1> HIDE DEF b, d, k, e
  <1>5. a \in Seq(Entry) /\ Len(a) = Len(b) + 1 /\ (\A i \in 1..Len(b) : a[i] = b[i]) /\ a[Len(b) + 1] = e
    BY <1>2, <1>4, Added
  <1> HIDE DEF a
  <1>6. Len(a) = k + n + 1 /\ Len(d) = k + n + 1 /\ (\A i \in 1..(k + n) : a[i] = b[i]) /\ a[k + n + 1] = e
    BY <1>1, <1>2, <1>3, <1>5
  <1>7. ASSUME NEW i \in 1..(k + n + 1)
        PROVE  a[i] = d[i]
    <2>1. CASE i <= k
      BY <2>1, <1>1, <1>2, <1>3, <1>6
    <2>2. CASE i > k /\ i <= k + n
      <3>1. i - k \in 1..n /\ k + (i - k) = i /\ i \in 1..(k + n) /\ i - k \in 1..(n + 1)
        BY <2>2, <1>1, <1>2
      <3>2. b[k + (i - k)] = Result(cs[i - k]) /\ d[k + (i - k)] = Result(cs[i - k])
        BY <1>2, <1>3, <3>1
      <3> QED
        BY <1>6, <3>1, <3>2
    <2>3. CASE i = k + n + 1
      <3>1. n + 1 \in 1..(n + 1) /\ k + (n + 1) = i
        BY <2>3, <1>1, <1>2
      <3>2. d[k + (n + 1)] = Result(cs[n + 1])
        BY <1>3, <3>1
      <3> QED
        BY <2>3, <3>1, <3>2, <1>6 DEF e
    <2> QED
      BY <2>1, <2>2, <2>3, <1>1, <1>2
  <1>8. a = d
    BY <1>3, <1>5, <1>6, <1>7, SeqEqual
  <1> QED
    BY <1>8 DEF a, b, d, e

\* None yet.
LEMMA BatchBegins ==
    ASSUME NEW s \in Seq(Entry), NEW cs \in Seq(Call)
    PROVE  s = BatchSoFar(s, cs, 0)
  <1>1. Len(cs) \in Nat /\ 0 \in 0..Len(cs) /\ Len(s) \in Nat
    BY LenProperties
  <1> DEFINE b == BatchSoFar(s, cs, 0)
  <1>2. b \in Seq(Entry) /\ Len(b) = Len(s) + 0 /\ \A i \in 1..Len(s) : b[i] = s[i]
    BY <1>1, BatchEntries
  <1> HIDE DEF b
  <1>3. s = b
    BY <1>1, <1>2, SeqEqual
  <1> QED
    BY <1>3 DEF b

\* A driver that goes on hands the run a copy of the transcript.
LEMMA DriverCopies ==
    ASSUME NEW d \in Msg, Continue(d, messages) \/ ContinueOrSettle(d, messages), messages' = messages
    PROVE  CopyTrails'
  <1>1. ASSUME NEW ms, NEW b \in BOOLEAN, RunPrompts(d, ms, b, messages)
        PROVE  CopyTrails'
    BY <1>1 DEF RunPrompts, CopyTrails
  <1>2. ASSUME RunContinuation(d, messages)
        PROVE  CopyTrails'
    BY <1>2 DEF RunContinuation, CopyTrails
  <1>3. ASSUME NoRun
        PROVE  CopyTrails'
    BY <1>3 DEF NoRun, CopyTrails
  <1>4. CASE Continue(d, messages)
    BY <1>1, <1>2, <1>3, <1>4 DEF Continue
  <1>5. CASE ContinueOrSettle(d, messages)
    BY <1>3, <1>4, <1>5 DEF ContinueOrSettle
  <1> QED
    BY <1>4, <1>5

\* Neither the run nor the transcript is touched.
LEMMA CopySame ==
    ASSUME CopyTrails, UNCHANGED <<pc, pending, messages, context, batch, out>>
    PROVE  CopyTrails'
  BY DEF CopyTrails

\* Emitting and polling.
LEMMA EmitCopies ==
    ASSUME PartsOK, CopyTrails, EmitMessage \/ PollSteering \/ PollFollowUps
    PROVE  CopyTrails'
  <1>1. CASE EmitMessage
    <2> DEFINE e == User(Head(pending))
    <2>1. /\ pending \in Seq(Msg) /\ pending # <<>> /\ messages \in Seq(Entry) /\ pc \in {"prompts", "inject"}
          /\ Len(pending) \in Nat
      BY <1>1, LenProperties DEF EmitMessage, PartsOK, RunOK, CountsOK
    <2>2. /\ messages \o Users(pending) = Append(messages, e) \o Users(Tail(pending))
          /\ Tail(pending) = <<>> => messages \o Users(pending) = Append(messages, e)
          /\ Tail(pending) # <<>> <=> Len(pending) > 1
      BY <2>1, PromptEmitted, HeadTaken
    <2>3. /\ messages' = Append(messages, e) /\ pending' = Tail(pending)
          /\ context' = IF pc = "inject" THEN Append(context, e) ELSE context
          /\ pc' = IF Len(pending) > 1 THEN pc ELSE IF pc = "prompts" THEN "poll" ELSE "request"
      BY <1>1 DEF EmitMessage
    <2> HIDE DEF e
    <2>4. CASE pc = "prompts"
      <3>1. context = messages \o Users(pending)
        BY <2>4 DEF CopyTrails
      <3>2. CASE Len(pending) > 1
        BY <2>2, <2>3, <2>4, <3>1, <3>2 DEF CopyTrails
      <3>3. CASE ~(Len(pending) > 1)
        BY <2>2, <2>3, <2>4, <3>1, <3>3 DEF CopyTrails
      <3> QED
        BY <3>2, <3>3
    <2>5. CASE pc = "inject"
      <3>1. context = messages /\ context' = messages' /\ pc' \in {"inject", "request"}
        BY <2>3, <2>5 DEF CopyTrails
      <3> QED
        BY <3>1 DEF CopyTrails
    <2> QED
      BY <2>1, <2>4, <2>5
  <1>2. CASE PollSteering \/ PollFollowUps
    <2>1. /\ pc \in {"poll", "follow"} /\ UNCHANGED <<messages, context>>
          /\ pc' \in {"inject", "request", "follow", "end"}
      BY <1>2 DEF PollSteering, PollFollowUps
    <2> QED
      BY <2>1 DEF CopyTrails
  <1> QED
    BY <1>1, <1>2

\* A turn begins with a provider call.
LEMMA TurnCopies ==
    ASSUME PartsOK, CopyTrails, Request \/ StreamFails \/ StreamStops \/ StreamCallsTools \/ StreamTruncated
    PROVE  CopyTrails'
  <1>1. messages \in Seq(Entry)
    BY DEF PartsOK, CountsOK
  <1>2. CASE Request
    <2>1. context = messages /\ pc' \in {"stream", "end"} /\ (pc' = "stream" => UNCHANGED <<messages, context>>)
      BY <1>2 DEF Request, CopyTrails
    <2> QED
      BY <2>1 DEF CopyTrails
  <1>3. CASE StreamFails \/ StreamStops
    <2>1. context = messages /\ context' = messages' /\ pc' \in {"end", "turnEnd"}
      BY <1>3 DEF StreamFails, StreamStops, Streamed, CopyTrails
    <2> QED
      BY <2>1 DEF CopyTrails
  <1>4. CASE StreamCallsTools \/ StreamTruncated
    <2>1. PICK cs \in NewCalls :
             /\ Streamed(Assistant(cs), "ok") /\ batch' = cs /\ out' = 0 /\ pc' \in {"prepare", "execute"}
      BY <1>4 DEF StreamCallsTools, StreamTruncated
    <2>2. cs \in Seq(Call)
      BY CallsNew
    <2>3. Assistant(cs) \in Entry
      BY <2>2, Entries
    <2> DEFINE e == Assistant(cs)
               t == Append(messages, e)
    <2>4. context' = t /\ messages' = t
      BY <2>1 DEF Streamed, CopyTrails
    <2> HIDE DEF e
    <2>5. t \in Seq(Entry) /\ t # <<>> /\ Len(t) = Len(messages) + 1 /\ t[Len(messages) + 1] = e
      BY <1>1, <2>3, Added DEF e
    <2> HIDE DEF t
    <2>6. t = BatchSoFar(t, cs, 0)
      BY <2>2, <2>5, BatchBegins
    <2>7. t[Len(t)] = e
      BY <2>5
    <2>8. context'[Len(context')] = Assistant(batch')
      BY <2>1, <2>4, <2>7 DEF e
    <2>9. messages' = context' \o Results(SubSeq(batch', 1, out'))
      BY <2>1, <2>4, <2>6 DEF BatchSoFar
    <2> QED
      BY <2>1, <2>4, <2>5, <2>8, <2>9 DEF CopyTrails
  <1> QED
    BY <1>2, <1>3, <1>4

\* Results join the transcript one by one, and the context together.
LEMMA ResultCopies ==
    ASSUME PartsOK, CopyTrails, EmitResult
    PROVE  CopyTrails'
  <1>1. /\ batch \in Seq(Call) /\ at \in 0..Len(batch) /\ out \in 0..at /\ out < at /\ Len(batch) \in Nat
        /\ context \in Seq(Entry)
    BY LenProperties DEF EmitResult, PartsOK, BatchOK, RunOK
  <1>2. /\ messages = BatchSoFar(context, batch, out) /\ context # <<>>
        /\ context[Len(context)] = Assistant(batch)
    BY DEF EmitResult, CopyTrails, BatchSoFar
  <1>3. out \in 0..Len(batch) /\ out < Len(batch)
    BY <1>1
  <1>4. messages' = BatchSoFar(context, batch, out + 1)
    <2>1. messages' = Append(messages, Result(batch[out + 1]))
      BY DEF EmitResult
    <2> QED
      BY <2>1, <1>1, <1>2, <1>3, BatchGrows
  <1>5. out' = out + 1 /\ batch' = batch
    BY DEF EmitResult
  <1>6. CASE pc' = "turnEnd" /\ context' = context \o Results(SubSeq(batch, 1, out + 1))
    <2>1. context' = messages'
      BY <1>4, <1>6 DEF BatchSoFar
    <2> QED
      BY <1>6, <2>1 DEF CopyTrails
  <1>7. CASE pc' \in {"prepare", "execute"} /\ context' = context
    <2>1. messages' = context' \o Results(SubSeq(batch', 1, out'))
      BY <1>4, <1>5, <1>7 DEF BatchSoFar
    <2>2. context' # <<>> /\ context'[Len(context')] = Assistant(batch')
      BY <1>2, <1>5, <1>7
    <2> QED
      BY <1>7, <2>1, <2>2 DEF CopyTrails
  <1> QED
    BY <1>6, <1>7 DEF EmitResult

\* A run ends or fails, or its driver wakes.
LEMMA EndCopies ==
    ASSUME PartsOK, CopyTrails,
           \/ Finish \/ AbortSession \/ ListenerThrows \/ HandleRunFailure \/ FailureThrows
           \/ \E d \in Msg : Wake(d) \/ RunAgentPrompt(d)
    PROVE  CopyTrails'
  <1> USE DEF session, queue, loop, tools
  <1>1. CASE Finish
    <2>1. owner \in Msg
      BY <1>1 DEF Finish, PartsOK, RunOK
    <2>2. CASE ContinueOrSettle(owner, messages) /\ messages' = messages
      BY <2>1, <2>2, DriverCopies
    <2>3. CASE NoRun
      BY <2>3 DEF NoRun, CopyTrails
    <2> QED
      BY <1>1, <2>2, <2>3 DEF Finish
  <1>2. CASE AbortSession
    <2>1. CASE UNCHANGED <<loop, context>>
      BY <1>2, <2>1, CopySame DEF AbortSession
    <2>2. CASE sleeper # 0 /\ ContinueOrSettle(sleeper, messages)
      <3>1. sleeper \in Msg /\ messages' = messages
        BY <1>2, <2>2 DEF AbortSession, PartsOK, SessionOK
      <3> QED
        BY <2>2, <3>1, DriverCopies
    <2> QED
      BY <1>2, <2>1, <2>2 DEF AbortSession
  <1>3. CASE ListenerThrows \/ HandleRunFailure \/ FailureThrows
    <2>1. pc' \in {"failing", "failEnd", "off"}
      BY <1>3 DEF ListenerThrows, HandleRunFailure, FailureThrows, NoRun
    <2> QED
      BY <2>1 DEF CopyTrails
  <1>4. ASSUME NEW d \in Msg, Wake(d)
        PROVE  CopyTrails'
    <2>1. CASE Continue(d, messages)
      BY <1>4, <2>1, DriverCopies DEF Wake
    <2>2. CASE ContinueBusy(d)
      BY <1>4, <2>2, CopySame DEF Wake, ContinueBusy, SameRun
    <2> QED
      BY <1>4, <2>1, <2>2 DEF Wake
  <1>5. ASSUME NEW d \in Msg, RunAgentPrompt(d)
        PROVE  CopyTrails'
    <2>1. CASE RunPrompts(d, <<d>>, FALSE, messages)
      BY <1>5, <2>1 DEF RunAgentPrompt, RunPrompts, CopyTrails
    <2>2. CASE SameRun
      BY <1>5, <2>2, CopySame DEF RunAgentPrompt, SameRun
    <2> QED
      BY <1>5, <2>1, <2>2 DEF RunAgentPrompt
  <1> QED
    BY <1>1, <1>2, <1>3, <1>4, <1>5

\* What comes in beside a run is remembered.
LEMMA InsertedStays ==
    ASSUME PartsOK, [LoopNext]_loopVars, ~inserted'
    PROVE  ~inserted
  <1> USE DEF session, queue, loop, tools
  <1>1. CASE Input
    BY <1>1 DEF Input, Steer, FollowUp, Prompt, ClearQueue, SendCustomMessage, AbortSession, PartsOK, CountsOK
  <1>2. CASE Progress
    BY <1>2 DEF Progress, PreflightFails, RunAgentPrompt, Wake, EmitMessage, PollSteering, PollFollowUps,
       Request, StreamFails, StreamStops, StreamCallsTools, StreamTruncated, Streamed, PrepareToolCall,
       ToolEnds, EmitResult, TurnEnd, Finish, HandleRunFailure
  <1>3. CASE Fault
    BY <1>3 DEF Fault, ListenerThrows, FailureThrows
  <1>4. CASE UNCHANGED loopVars
    BY <1>4 DEF loopVars
  <1> QED
    BY <1>1, <1>2, <1>3, <1>4 DEF LoopNext

\* A custom message that is not beside a run.
LEMMA AddedAside ==
    ASSUME PartsOK, SendCustomMessage, ~inserted'
    PROVE  pc = "off" /\ pc' = "off" /\ messages' = Append(messages, Custom) /\ UNCHANGED <<aborts, faults>>
  BY DEF SendCustomMessage, loop, PartsOK, RunOK, CountsOK

\* The loop's copy lags behind the transcript as it should after every step.
LEMMA CopyNext ==
    ASSUME PartsOK, CopyTrails, [LoopNext]_loopVars, ~inserted'
    PROVE  CopyTrails'
  <1> USE DEF session, queue, loop, tools
  <1>1. ASSUME NEW m \in Msg, Steer(m) \/ FollowUp(m) \/ Prompt(m) \/ PreflightFails(m)
        PROVE  CopyTrails'
    BY <1>1, CopySame DEF Steer, FollowUp, Prompt, PreflightFails
  <1>2. CASE ClearQueue
    BY <1>2, CopySame DEF ClearQueue
  <1>3. ASSUME NEW c \in Call, ToolEnds(c)
        PROVE  CopyTrails'
    BY <1>3, CopySame DEF ToolEnds
  <1>4. ASSUME NEW s \in {"prepared", "done"}, PrepareToolCall(s)
        PROVE  CopyTrails'
    <2>1. /\ pc = "prepare" /\ pc' \in {"prepare", "execute"}
          /\ UNCHANGED <<messages, context, batch, out>>
      BY <1>4 DEF PrepareToolCall
    <2> QED
      BY <2>1 DEF CopyTrails
  <1>5. CASE TurnEnd
    BY <1>5 DEF TurnEnd, CopyTrails
  <1>6. CASE UNCHANGED loopVars
    BY <1>6, CopySame DEF loopVars
  <1>10. CASE SendCustomMessage
    BY <1>10, AddedAside DEF CopyTrails
  <1>7. CASE Input
    BY <1>1, <1>2, <1>7, <1>10, EndCopies DEF Input
  <1>8. CASE Progress
    BY <1>1, <1>3, <1>4, <1>5, <1>8, EndCopies, EmitCopies, TurnCopies, ResultCopies DEF Progress
  <1>9. CASE Fault
    BY <1>9, EndCopies DEF Fault
  <1> QED
    BY <1>6, <1>7, <1>8, <1>9 DEF LoopNext

-----------------------------------------------------------------------------
(* Calls and their results. *)

\* Answers looks no further than the result.
LEMMA AnswersKept ==
    ASSUME NEW n \in Nat, \A k \in 1..n : messages'[k] = messages[k],
           NEW i \in 1..n, NEW j \in 0..n
    PROVE  Answers(i, j)' <=> Answers(i, j)
  <1>1. messages'[i] = messages[i] /\ \A k \in i + 1 .. j : messages'[k] = messages[k]
    OBVIOUS
  <1> QED
    BY <1>1 DEF Answers

\* A message's results stay what they are.
LEMMA CompleteKept ==
    ASSUME messages \in Seq(Entry), NEW n \in Nat, Len(messages') \in Nat, n <= Len(messages'),
           \A k \in 1..n : messages'[k] = messages[k],
           NEW i \in 1..n, messages[i].calls \in Seq(Call),
           Complete(i), i + Len(messages[i].calls) <= n
    PROVE  Complete(i)'
  <1>1. Len(messages[i].calls) \in Nat
    BY LenProperties
  <1>2. PICK j \in Nat : j = i + Len(messages[i].calls)
    BY <1>1
  <1>3. j \in 0..n /\ messages'[i] = messages[i]
    BY <1>2
  <1>4. Answers(i, j)
    BY <1>2 DEF Complete
  <1>5. Answers(i, j)'
    BY <1>3, <1>4, AnswersKept
  <1>6. j = i + Len(messages'[i].calls) /\ j <= Len(messages')
    BY <1>2, <1>3
  <1> QED
    BY <1>5, <1>6 DEF Complete

\* The transcript is untouched.
LEMMA EachSame ==
    ASSUME EachAnswers, messages' = messages
    PROVE  EachAnswers'
  BY DEF EachAnswers, Answers

\* The transcript gets an entry that is no result.
LEMMA EachAdded ==
    ASSUME messages \in Seq(Entry), EachAnswers, NEW e \in Entry, e.role # "toolResult",
           messages' = Append(messages, e)
    PROVE  EachAnswers'
  <1> DEFINE n == Len(messages)
  <1>1. n \in Nat /\ Len(messages') = n + 1 /\ (\A k \in 1..n : messages'[k] = messages[k]) /\ messages'[n + 1] = e
    BY Added
  <1> SUFFICES ASSUME NEW j \in 1..Len(messages'), messages'[j].role = "toolResult"
               PROVE  \E i \in 1 .. j - 1 : Answers(i, j)'
    BY DEF EachAnswers
  <1>2. j \in 1..n
    BY <1>1
  <1>3. messages[j].role = "toolResult"
    BY <1>1, <1>2
  <1>4. PICK i \in 1 .. j - 1 : Answers(i, j)
    BY <1>2, <1>3 DEF EachAnswers
  <1>5. i \in 1..n /\ j \in 0..n
    BY <1>1, <1>2
  <1> HIDE DEF n
  <1>6. Answers(i, j)'
    BY <1>1, <1>4, <1>5, AnswersKept
  <1> QED
    BY <1>6

\* The end of a transcript is dropped.
LEMMA EachDropped ==
    ASSUME messages \in Seq(Entry), messages # <<>>, EachAnswers, messages' = Front(messages)
    PROVE  EachAnswers'
  <1> DEFINE n == Len(messages) - 1
  <1>1. n \in Nat /\ Len(messages') = n /\ \A k \in 1..n : messages'[k] = messages[k]
    BY LastDropped
  <1> SUFFICES ASSUME NEW j \in 1..Len(messages'), messages'[j].role = "toolResult"
               PROVE  \E i \in 1 .. j - 1 : Answers(i, j)'
    BY DEF EachAnswers
  <1>2. j \in 1..n /\ j \in 1..Len(messages)
    BY <1>1
  <1>3. messages[j].role = "toolResult"
    BY <1>1, <1>2
  <1>4. PICK i \in 1 .. j - 1 : Answers(i, j)
    BY <1>2, <1>3 DEF EachAnswers
  <1>5. i \in 1..n /\ j \in 0..n
    BY <1>1, <1>2
  <1> HIDE DEF n
  <1>6. Answers(i, j)'
    BY <1>1, <1>4, <1>5, AnswersKept
  <1> QED
    BY <1>6

\* A batch goes on, or nothing happens to it.
LEMMA AllSame ==
    ASSUME AllAnswered, UNCHANGED <<messages, context>>, aborts' = 0 /\ faults' = 0 => aborts = 0 /\ faults = 0,
           pc \in {"prepare", "execute"} => pc' \in {"prepare", "execute"}
    PROVE  AllAnswered'
  BY DEF AllAnswered, Complete, Answers

\* Outside batches the transcript may grow.
LEMMA AllAdded ==
    ASSUME messages \in Seq(Entry), AllAnswered, pc \notin {"prepare", "execute"},
           aborts' = 0 /\ faults' = 0 => aborts = 0 /\ faults = 0,
           NEW e \in Entry, messages' = Append(messages, e),
           e.role = "assistant" => \/ e = Assistant(<<>>) \/ e.failed
                                   \/ pc' \in {"prepare", "execute"} /\ Len(context') = Len(messages')
    PROVE  AllAnswered'
  <1> DEFINE n == Len(messages)
  <1>1. /\ messages' \in Seq(Entry) /\ n \in Nat /\ Len(messages') = n + 1
        /\ \A k \in 1..n : messages'[k] = messages[k]
        /\ messages'[n + 1] = e
    BY Added
  <1> SUFFICES ASSUME aborts' = 0, faults' = 0, NEW i \in 1..Len(messages'), messages'[i].role = "assistant",
                      ~messages'[i].failed
               PROVE  Complete(i)' \/ (pc' \in {"prepare", "execute"} /\ i = Len(context'))
    BY DEF AllAnswered
  <1>2. CASE i \in 1..n
    <2>1. messages[i] = messages'[i] /\ messages[i] \in Entry
      BY <1>1, <1>2, ElementOfSeq
    <2>2. messages[i].calls \in Seq(Call)
      BY <2>1, Entries
    <2>3. Complete(i)
      BY <1>2, <2>1 DEF AllAnswered
    <2>4. i + Len(messages[i].calls) <= n /\ n <= Len(messages') /\ Len(messages') \in Nat
      BY <2>3, <1>1 DEF Complete
    <2> HIDE DEF n
    <2> QED
      BY <1>1, <1>2, <2>2, <2>3, <2>4, CompleteKept
  <1>3. CASE i = n + 1
    <2>1. messages'[i] = e
      BY <1>1, <1>3
    <2>2. CASE e = Assistant(<<>>)
      <3>1. (messages \in Seq(Entry))' /\ (i \in 1..Len(messages))' /\ (messages[i] = Assistant(<<>>))'
        BY <1>1, <2>1, <2>2
      <3>2. Complete(i)'
        <4>1. messages'[i].role = "assistant" /\ messages'[i].calls = <<>> /\ ~messages'[i].failed
          BY <3>1 DEF Assistant
        <4>2. Len(messages') \in Nat /\ Len(<<>>) = 0 /\ i + 0 = i
          BY <1>1, EmptySeq
        <4>3. i + Len(messages'[i].calls) = i
          BY <4>1, <4>2
        <4>4. Answers(i, i)'
          BY <4>1, <4>2 DEF Answers
        <4> QED
          BY <4>2, <4>3, <4>4 DEF Complete
      <3> QED
        BY <3>2
    <2>3. CASE pc' \in {"prepare", "execute"} /\ Len(context') = Len(messages')
      BY <2>3, <1>1, <1>3
    <2> QED
      BY <2>1, <2>2, <2>3
  <1> QED
    BY <1>1, <1>2, <1>3

\* Outside batches the transcript may stay what it is.
LEMMA AllOutside ==
    ASSUME AllAnswered, pc \notin {"prepare", "execute"}, messages' = messages,
           aborts' = 0 /\ faults' = 0 => aborts = 0 /\ faults = 0
    PROVE  AllAnswered'
  BY DEF AllAnswered, Complete, Answers

\* An error message that is dropped had no results.
LEMMA AllDropped ==
    ASSUME messages \in Seq(Entry), messages # <<>>, AllAnswered, pc \notin {"prepare", "execute"},
           Last(messages).role = "assistant", messages' = Front(messages), UNCHANGED <<aborts, faults>>
    PROVE  AllAnswered'
  <1> DEFINE n == Len(messages) - 1
  <1>1. /\ n \in Nat /\ Len(messages') = n /\ \A k \in 1..n : messages'[k] = messages[k]
        /\ Len(messages) = n + 1 /\ messages[n + 1].role = "assistant"
    <2>1. /\ Len(messages) \in Nat \ {0} /\ Len(Front(messages)) = Len(messages) - 1
          /\ \A k \in 1..(Len(messages) - 1) : Front(messages)[k] = messages[k]
          /\ Last(messages) = messages[Len(messages)]
      BY LastDropped
    <2>2. n \in Nat /\ Len(messages) = n + 1
      BY <2>1
    <2>3. Len(messages') = n /\ \A k \in 1..n : messages'[k] = messages[k]
      BY <2>1
    <2>4. messages[n + 1].role = "assistant"
      BY <2>1, <2>2
    <2> QED
      BY <2>2, <2>3, <2>4
  <1> SUFFICES ASSUME aborts' = 0, faults' = 0, NEW i \in 1..Len(messages'), messages'[i].role = "assistant",
                      ~messages'[i].failed
               PROVE  Complete(i)'
    BY DEF AllAnswered
  <1>2. i \in 1..n /\ i \in 1..Len(messages)
    BY <1>1
  <1>3. messages[i] = messages'[i] /\ messages[i] \in Entry
    BY <1>1, <1>2, ElementOfSeq
  <1>4. messages[i].calls \in Seq(Call) /\ Len(messages[i].calls) \in Nat
    BY <1>3, Entries, LenProperties
  <1>5. Complete(i)
    BY <1>2, <1>3 DEF AllAnswered
  <1> DEFINE l == Len(messages[i].calls)
  <1>6. l \in Nat /\ i + l <= n + 1
    BY <1>1, <1>4, <1>5 DEF Complete
  <1>7. n <= Len(messages') /\ Len(messages') \in Nat
    BY <1>1
  <1> HIDE DEF l, n
  <1>8. i + l <= n
    <2> SUFFICES ASSUME i + l = n + 1
                 PROVE  FALSE
      BY <1>1, <1>2, <1>6
    <2>1. Answers(i, n + 1)
      BY <1>5 DEF Complete, l
    <2>2. PICK k \in i + 1 .. n + 1 : k = n + 1
      BY <1>1, <1>2
    <2>3. messages[k] = Result(messages[i].calls[k - i])
      BY <2>1 DEF Answers
    <2>4. messages[n + 1].role = "toolResult"
      BY <2>2, <2>3 DEF Result
    <2> QED
      BY <1>1, <2>4
  <1> QED
    BY <1>1, <1>2, <1>4, <1>5, <1>7, <1>8, CompleteKept DEF l

\* A result joins those of its batch.
LEMMA ResultAnswers ==
    ASSUME PartsOK, CopyTrails, ResultsAnswer, EmitResult
    PROVE  ResultsAnswer'
  <1>1. /\ batch \in Seq(Call) /\ at \in 0..Len(batch) /\ out \in 0..at /\ out < at /\ Len(batch) \in Nat
        /\ context \in Seq(Entry) /\ messages \in Seq(Entry)
    BY LenProperties DEF EmitResult, PartsOK, BatchOK, RunOK, CountsOK
  <1>2. /\ messages = BatchSoFar(context, batch, out) /\ context # <<>>
        /\ context[Len(context)] = Assistant(batch)
    BY DEF EmitResult, CopyTrails, BatchSoFar
  <1>3. out \in 0..Len(batch) /\ out < Len(batch) /\ out + 1 \in 0..Len(batch)
    BY <1>1
  <1>4. messages' = BatchSoFar(context, batch, out + 1)
    <2>1. messages' = Append(messages, Result(batch[out + 1]))
      BY DEF EmitResult
    <2> QED
      BY <2>1, <1>1, <1>2, <1>3, BatchGrows
  <1>5. PICK k \in Nat, n \in Nat : k = Len(context) /\ n = out + 1
    BY <1>1, LenProperties
  <1>6. k > 0 /\ n > 0 /\ n <= Len(batch) /\ out = n - 1
    BY <1>1, <1>2, <1>5, EmptySeq
  <1>7. /\ Len(messages') = k + n
        /\ \A i \in 1..k : messages'[i] = context[i]
        /\ \A i \in 1..n : messages'[k + i] = Result(batch[i])
    BY <1>1, <1>3, <1>4, <1>5, BatchEntries
  <1>8. /\ Len(messages) = k + (n - 1)
        /\ \A i \in 1..k : messages[i] = context[i]
        /\ \A i \in 1..(n - 1) : messages[k + i] = Result(batch[i])
    <2>1. /\ Len(messages) = k + out
          /\ \A i \in 1..k : messages[i] = context[i]
          /\ \A i \in 1..out : messages[k + i] = Result(batch[i])
      BY <1>1, <1>2, <1>3, <1>5, BatchEntries
    <2> QED
      BY <2>1, <1>6
  <1>9. PICK t \in Nat : t = k + (n - 1)
    BY <1>6
  <1>10. \A i \in 1..t : messages'[i] = messages[i]
    <2>1. messages' = Append(messages, Result(batch[out + 1]))
      BY DEF EmitResult
    <2>2. Result(batch[out + 1]) \in Entry
      BY <1>1, <1>5, <1>6, ElementOfSeq, Entries
    <2> QED
      BY <2>1, <2>2, <1>1, <1>8, <1>9, Added
  <1>11. messages'[k] = Assistant(batch) /\ messages[k] = Assistant(batch)
    BY <1>2, <1>5, <1>6, <1>7, <1>8
  <1>12. Answers(k, k + n)'
    <2>1. messages'[k].role = "assistant" /\ ~messages'[k].failed /\ messages'[k].calls = batch
      BY <1>11 DEF Assistant
    <2>2. ASSUME NEW l \in k + 1 .. k + n
          PROVE  l - k <= Len(batch) /\ messages'[l] = Result(batch[l - k])
      <3>1. PICK i \in 1..n : l = k + i
        <4>1. l - k \in 1..n /\ l = k + (l - k)
          OBVIOUS
        <4> QED
          BY <4>1
      <3>2. l - k = i
        BY <3>1
      <3>3. messages'[l] = Result(batch[i])
        BY <3>1, <1>7
      <3> QED
        BY <3>2, <3>3, <1>1, <1>6
    <2> QED
      BY <2>1, <2>2 DEF Answers
  <1>13. EachAnswers'
    <2> SUFFICES ASSUME NEW j \in 1..Len(messages'), messages'[j].role = "toolResult"
                 PROVE  \E i \in 1 .. j - 1 : Answers(i, j)'
      BY DEF EachAnswers
    <2>1. CASE j \in 1..t
      <3>1. j \in 1..Len(messages) /\ messages[j].role = "toolResult"
        BY <2>1, <1>8, <1>9, <1>10
      <3>2. PICK i \in 1 .. j - 1 : Answers(i, j)
        BY <3>1 DEF ResultsAnswer, EachAnswers
      <3>3. i \in 1..t /\ j \in 0..t
        BY <2>1
      <3>4. Answers(i, j)'
        BY <1>10, <3>2, <3>3, AnswersKept
      <3> QED
        BY <3>4
    <2>2. CASE j = k + n
      <3>1. k \in 1 .. j - 1
        BY <2>2, <1>6
      <3> QED
        BY <3>1, <2>2, <1>12
    <2> QED
      BY <2>1, <2>2, <1>6, <1>7, <1>9
  <1>14. AllAnswered'
    <2> SUFFICES ASSUME aborts' = 0, faults' = 0, NEW i \in 1..Len(messages'), messages'[i].role = "assistant",
                        ~messages'[i].failed
                 PROVE  Complete(i)' \/ (pc' \in {"prepare", "execute"} /\ i = Len(context'))
      BY DEF AllAnswered
    <2>1. aborts = 0 /\ faults = 0 /\ pc = "execute"
      BY DEF EmitResult
    <2>2. ~signalled
      BY <2>1 DEF PartsOK, CountsOK
    <2>3. i \in 1..t
      <3>1. CASE i = k + n
        <4>1. n \in 1..n
          BY <1>6
        <4>2. messages'[i] = Result(batch[n])
          BY <3>1, <4>1, <1>7
        <4> QED
          BY <4>2 DEF Result
      <3> QED
        BY <3>1, <1>6, <1>7, <1>9
    <2>4. messages[i] = messages'[i] /\ i \in 1..Len(messages)
      BY <2>3, <1>8, <1>9, <1>10
    <2>5. Complete(i) \/ i = k
      BY <2>1, <2>4, <1>5 DEF ResultsAnswer, AllAnswered
    <2>6. CASE Complete(i)
      <3>1. messages[i].calls \in Seq(Call)
        BY <2>4, <1>1, ElementOfSeq, Entries
      <3>2. i + Len(messages[i].calls) <= t
        BY <2>6, <1>8, <1>9 DEF Complete
      <3>3. Len(messages') \in Nat /\ t <= Len(messages')
        BY <1>7, <1>9
      <3> QED
        BY <2>3, <2>6, <3>1, <3>2, <3>3, <1>1, <1>10, CompleteKept
    <2>7. CASE i = k
      <3>1. CASE BatchEnded(n)
        <4>1. n = Len(batch)
          BY <3>1, <2>1, <2>2, <1>5 DEF BatchEnded, PartsOK, BatchOK
        <4>2. messages'[i].calls = batch /\ i + Len(batch) = k + n /\ i + Len(batch) <= Len(messages')
          BY <4>1, <2>7, <1>7, <1>11 DEF Assistant
        <4>3. Complete(k)'
          BY <4>1, <4>2, <2>7, <1>12 DEF Complete
        <4> QED
          BY <4>3, <2>7
      <3>2. CASE ~BatchEnded(n)
        <4>1. pc' \in {"prepare", "execute"} /\ context' = context
          BY <3>2, <1>5 DEF EmitResult
        <4> QED
          BY <4>1, <2>7, <1>5
      <3> QED
        BY <3>1, <3>2
    <2> QED
      BY <2>5, <2>6, <2>7
  <1> QED
    BY <1>13, <1>14 DEF ResultsAnswer

\* An entry that is no result, and asks for none or starts a batch.
LEMMA ResultsAdded ==
    ASSUME messages \in Seq(Entry), ResultsAnswer, pc \notin {"prepare", "execute"},
           aborts' = 0 /\ faults' = 0 => aborts = 0 /\ faults = 0,
           NEW e \in Entry, e.role # "toolResult", messages' = Append(messages, e),
           e.role = "assistant" => \/ e = Assistant(<<>>) \/ e.failed
                                   \/ pc' \in {"prepare", "execute"} /\ context' = messages'
    PROVE  ResultsAnswer'
  BY EachAdded, AllAdded DEF ResultsAnswer

\* No entry is added, and no batch ends.
LEMMA ResultsSame ==
    ASSUME ResultsAnswer, messages' = messages, aborts' = 0 /\ faults' = 0 => aborts = 0 /\ faults = 0,
           \/ pc \notin {"prepare", "execute"}
           \/ pc' \in {"prepare", "execute"} /\ context' = context
    PROVE  ResultsAnswer'
  BY EachSame, AllSame, AllOutside DEF ResultsAnswer

\* After an abort or a failure answers may be missing.
LEMMA ResultsExcused ==
    ASSUME EachAnswers', aborts' > 0 \/ faults' > 0, aborts' \in Nat, faults' \in Nat
    PROVE  ResultsAnswer'
  BY DEF ResultsAnswer, AllAnswered

\* Messages streamed and emitted.
LEMMA MessageAnswers ==
    ASSUME PartsOK, CopyTrails, ResultsAnswer,
           EmitMessage \/ Request \/ StreamFails \/ StreamStops \/ StreamCallsTools \/ StreamTruncated
    PROVE  ResultsAnswer'
  <1>1. messages \in Seq(Entry)
    BY DEF PartsOK, CountsOK
  <1>2. CASE EmitMessage
    <2> DEFINE e == User(Head(pending))
    <2>1. pending \in Seq(Msg) /\ pending # <<>> /\ pc \notin {"prepare", "execute"}
      BY <1>2 DEF EmitMessage, PartsOK, RunOK
    <2>2. e \in Entry /\ e.role = "user"
      BY <2>1, HeadTaken, Entries
    <2>3. messages' = Append(messages, e) /\ UNCHANGED <<aborts, faults>>
      BY <1>2 DEF EmitMessage
    <2> HIDE DEF e
    <2>4. PICK u \in Entry : u.role = "user" /\ messages' = Append(messages, u)
      BY <2>2, <2>3
    <2> QED
      BY <1>1, <2>1, <2>3, <2>4, ResultsAdded
  <1>3. CASE Request
    <2>1. pc \notin {"prepare", "execute"} /\ UNCHANGED <<aborts, faults>>
          /\ (messages' = messages \/ messages' = Append(messages, Failed(<<>>)))
      BY <1>3 DEF Request
    <2>2. CASE messages' = messages
      BY <2>1, <2>2, ResultsSame
    <2>3. CASE messages' = Append(messages, Failed(<<>>))
      <3>1. PICK a \in Entry : a = Failed(<<>>) /\ a.role = "assistant" /\ a.failed
        BY Entries
      <3> QED
        BY <1>1, <2>1, <2>3, <3>1, ResultsAdded
    <2> QED
      BY <2>1, <2>2, <2>3
  <1>4. CASE StreamFails \/ StreamStops \/ StreamCallsTools \/ StreamTruncated
    <2>1. PICK cs \in Seq(Call), e \in Entry, o \in {"ok", "error", "retryable", "aborted"} :
             /\ Streamed(e, o)
             /\ e.role = "assistant"
             /\ \/ StreamFails /\ e = Failed(cs)
                \/ StreamStops /\ e = Assistant(<<>>)
                \/ StreamCallsTools \/ StreamTruncated
      BY <1>4, StreamKinds DEF StreamEnds
    <2>2. e = Assistant(<<>>) \/ e.failed \/ pc' \in {"prepare", "execute"}
      BY <2>1, Entries DEF StreamCallsTools, StreamTruncated
    <2>4. /\ messages' = Append(messages, e) /\ pc \notin {"prepare", "execute"}
          /\ UNCHANGED <<aborts, faults>> /\ context' = messages'
      BY <2>1 DEF Streamed, CopyTrails
    <2> QED
      BY <1>1, <2>1, <2>2, <2>4, ResultsAdded
  <1> QED
    BY <1>2, <1>3, <1>4

\* A run ends or fails, or its driver wakes.
LEMMA EndAnswers ==
    ASSUME PartsOK, ResultsAnswer,
           \/ Finish \/ AbortSession \/ ListenerThrows \/ HandleRunFailure \/ FailureThrows
           \/ \E d \in Msg : Wake(d) \/ RunAgentPrompt(d)
    PROVE  ResultsAnswer'
  <1> USE DEF session, queue, loop, tools
  <1>1. messages \in Seq(Entry) /\ aborts \in Nat /\ faults \in Nat /\ EachAnswers
    BY DEF PartsOK, CountsOK, ResultsAnswer
  <1>2. CASE Finish
    <2>1. pc \notin {"prepare", "execute"} /\ UNCHANGED <<aborts, faults>>
      BY <1>2 DEF Finish
    <2>2. CASE messages' = messages
      BY <2>1, <2>2, ResultsSame
    <2>3. CASE EndsWithAssistant(messages) /\ messages' = Front(messages)
      BY <1>1, <2>1, <2>3, EachDropped, AllDropped DEF EndsWithAssistant, ResultsAnswer
    <2> QED
      BY <1>2, <2>2, <2>3 DEF Finish
  <1>3. CASE AbortSession
    <2>1. messages' = messages /\ aborts' > 0 /\ aborts' \in Nat /\ faults' \in Nat
      BY <1>1, <1>3 DEF AbortSession
    <2> QED
      BY <2>1, <1>1, EachSame, ResultsExcused
  <1>4. CASE ListenerThrows
    <2>1. faults' > 0 /\ faults' \in Nat /\ aborts' \in Nat
      BY <1>1, <1>4 DEF ListenerThrows
    <2>2. CASE messages' = messages
      BY <2>1, <2>2, <1>1, EachSame, ResultsExcused
    <2>3. CASE pc \in {"prompts", "inject"} /\ messages' = Append(messages, User(Head(pending)))
      <3>1. pending \in Seq(Msg) /\ pending # <<>>
        BY <2>3 DEF PartsOK, RunOK
      <3>2. PICK u \in Entry : u = User(Head(pending)) /\ u.role = "user"
        BY <3>1, HeadTaken, Entries
      <3>3. EachAnswers'
        BY <1>1, <2>3, <3>2, EachAdded
      <3> QED
        BY <2>1, <3>3, ResultsExcused
    <2> QED
      BY <1>4, <2>2, <2>3 DEF ListenerThrows
  <1>5. CASE HandleRunFailure
    <2>1. pc \notin {"prepare", "execute"} /\ UNCHANGED <<aborts, faults>> /\ messages' = Append(messages, Failed(<<>>))
      BY <1>5 DEF HandleRunFailure
    <2>2. PICK a \in Entry : a = Failed(<<>>) /\ a.role = "assistant" /\ a.failed
      BY Entries
    <2> QED
      BY <1>1, <2>1, <2>2, ResultsAdded
  <1>6. CASE FailureThrows
    <2>1. messages' = messages /\ faults' > 0 /\ aborts' \in Nat /\ faults' \in Nat
      BY <1>1, <1>6 DEF FailureThrows
    <2> QED
      BY <2>1, <1>1, EachSame, ResultsExcused
  <1>7. ASSUME NEW d \in Msg, Wake(d) \/ RunAgentPrompt(d)
        PROVE  ResultsAnswer'
    <2>1. messages' = messages /\ UNCHANGED <<aborts, faults>>
      BY <1>7 DEF Wake, RunAgentPrompt
    <2>2. owner = 0 => pc = "off"
      BY DEF PartsOK, RunOK
    <2>3. owner # 0 => UNCHANGED <<pc, context>>
      BY <1>7 DEF Wake, RunAgentPrompt, ContinueBusy, SameRun
    <2> QED
      BY <2>1, <2>2, <2>3, ResultsSame
  <1> QED
    BY <1>2, <1>3, <1>4, <1>5, <1>6, <1>7

\* Every step leaves each result behind the message that asked for it.
LEMMA AnswersNext ==
    ASSUME PartsOK, CopyTrails, ResultsAnswer, [LoopNext]_loopVars, ~inserted'
    PROVE  ResultsAnswer'
  <1> USE DEF session, queue, loop, tools
  <1>1. ASSUME NEW m \in Msg, Steer(m) \/ FollowUp(m) \/ Prompt(m) \/ PreflightFails(m)
        PROVE  ResultsAnswer'
    BY <1>1, ResultsSame DEF Steer, FollowUp, Prompt, PreflightFails
  <1>2. CASE ClearQueue
    BY <1>2, ResultsSame DEF ClearQueue
  <1>3. ASSUME NEW c \in Call, ToolEnds(c)
        PROVE  ResultsAnswer'
    BY <1>3, ResultsSame DEF ToolEnds
  <1>4. ASSUME NEW s \in {"prepared", "done"}, PrepareToolCall(s)
        PROVE  ResultsAnswer'
    <2>1. pc' \in {"prepare", "execute"} /\ UNCHANGED <<messages, context, aborts, faults>>
      BY <1>4 DEF PrepareToolCall
    <2> QED
      BY <2>1, ResultsSame
  <1>5. CASE TurnEnd \/ PollSteering \/ PollFollowUps
    <2>1. pc \notin {"prepare", "execute"} /\ UNCHANGED <<messages, aborts, faults>>
      BY <1>5 DEF TurnEnd, PollSteering, PollFollowUps
    <2> QED
      BY <2>1, ResultsSame
  <1>6. CASE UNCHANGED loopVars
    BY <1>6, ResultsSame DEF loopVars
  <1>10. CASE SendCustomMessage
    <2>1. pc \notin {"prepare", "execute"} /\ messages' = Append(messages, Custom) /\ UNCHANGED <<aborts, faults>>
      BY <1>10, AddedAside
    <2>2. PICK e \in Entry : e = Custom /\ e.role = "custom"
      BY Entries
    <2> QED
      BY <2>1, <2>2, ResultsAdded DEF PartsOK, CountsOK
  <1>7. CASE Input
    BY <1>1, <1>2, <1>7, <1>10, EndAnswers DEF Input
  <1>8. CASE Progress
    BY <1>1, <1>3, <1>4, <1>5, <1>8, EndAnswers, MessageAnswers, ResultAnswers DEF Progress
  <1>9. CASE Fault
    BY <1>9, EndAnswers DEF Fault
  <1> QED
    BY <1>6, <1>7, <1>8, <1>9 DEF LoopNext

-----------------------------------------------------------------------------
(* The transcript. *)

\* The loop starts in shape.
LEMMA LoopStarts == LoopInit => PartsOK
  <1> SUFFICES ASSUME LoopInit
               PROVE  PartsOK
    OBVIOUS
  <1>1. /\ <<>> \in Seq(Msg) /\ <<>> \in Seq(Call) /\ <<>> \in Seq(Entry) /\ Len(<<>>) = 0
        /\ 0 \in 0..MaxRetries /\ 0 \in 0..MaxIterations
    BY EmptySeq, AgentLoopAssumption
  <1>2. SessionOK /\ QueueOK
    BY <1>1 DEF LoopInit, SessionOK, QueueOK
  <1>3. RunOK
    BY <1>1 DEF LoopInit, RunOK
  <1>4. BatchOK
    BY <1>1 DEF LoopInit, BatchOK
  <1>5. CountsOK
    BY <1>1 DEF LoopInit, CountsOK
  <1> QED
    BY <1>2, <1>3, <1>4, <1>5 DEF PartsOK

\* What the invariant says of the transcript.
LEMMA WellFormed == TranscriptInv => TranscriptWellFormed
  <1>1. CASE LoopTypeOK /\ inserted
    BY <1>1 DEF TranscriptWellFormed
  <1>2. CASE LoopTypeOK /\ CopyTrails /\ ResultsAnswer
    <2>1. pc = "stream" => context = messages
      BY <1>2 DEF CopyTrails
    <2>2. \A j \in 1..Len(messages) :
             messages[j].role = "toolResult" => \E i \in 1 .. j - 1 : Answers(i, j)
      BY <1>2 DEF ResultsAnswer, EachAnswers
    <2>3. (pc = "stream" /\ aborts = 0 /\ faults = 0) =>
             \A i \in 1..Len(messages) :
                (messages[i].role = "assistant" /\ ~messages[i].failed) => Complete(i)
      BY <1>2 DEF ResultsAnswer, AllAnswered
    <2> QED
      BY <1>2, <2>1, <2>2, <2>3 DEF TranscriptWellFormed, Complete
  <1> QED
    BY <1>1, <1>2 DEF TranscriptInv

\* What is sent to the provider is the transcript, and in it results stand
\* right behind the message that asked for them, in call order, once each and
\* never behind a message that failed with calls in it, as long as no custom
\* message came in beside a run (runLoop and executeToolCalls of
\* agent-loop.ts).
THEOREM TranscriptHolds == LoopSpec => []TranscriptWellFormed
  <1> DEFINE Inv == PartsOK /\ (inserted \/ (CopyTrails /\ ResultsAnswer))
  <1>1. LoopInit => Inv
    BY LoopStarts DEF LoopInit, CopyTrails, ResultsAnswer, EachAnswers, AllAnswered
  <1>2. Inv /\ [LoopNext]_loopVars => Inv'
    <2> SUFFICES ASSUME Inv, [LoopNext]_loopVars
                 PROVE  Inv'
      OBVIOUS
    <2>1. PartsOK'
      BY TypesNext
    <2>2. CASE inserted'
      BY <2>1, <2>2
    <2>3. CASE ~inserted'
      <3>1. CopyTrails /\ ResultsAnswer
        BY <2>3, InsertedStays
      <3>2. CopyTrails' /\ ResultsAnswer'
        BY <2>3, <3>1, CopyNext, AnswersNext
      <3> QED
        BY <2>1, <3>2
    <2> QED
      BY <2>2, <2>3
  <1>3. Inv => TranscriptWellFormed
    BY Parts, WellFormed DEF TranscriptInv
  <1> QED
    BY <1>1, <1>2, <1>3, PTL DEF LoopSpec

-----------------------------------------------------------------------------
(* Drivers. *)

\* A driver goes on: it starts a run, or settles.
GoesOn(d) ==
    /\ driver' = [driver EXCEPT ![d] = "running"]
    /\ streaming' = streaming
    /\ owner' = d
    /\ more' = TRUE
    /\ pc' \in {"prompts", "poll"}
    /\ pc' = "poll" => messages # <<>>

Settles(d) ==
    /\ \E how \in {"returned", "threw"} : driver' = [driver EXCEPT ![d] = how]
    /\ streaming' = FALSE
    /\ owner' = 0
    /\ pc' = "off"
    /\ UNCHANGED <<steering, followUp>>
    /\ messages = <<>> \/ (steering = <<>> /\ followUp = <<>>)

\* Agent.continue, and the end of _handlePostAgentRun.
LEMMA GoesOnOrSettles ==
    ASSUME NEW d \in Msg, Continue(d, messages) \/ ContinueOrSettle(d, messages)
    PROVE  GoesOn(d) \/ Settles(d)
  <1>1. CASE Continue(d, messages)
    <2>1. CASE /\ driver' = [driver EXCEPT ![d] = "running"]
               /\ streaming' = streaming
               /\ \E ms, b : RunPrompts(d, ms, b, messages)
      BY <2>1 DEF RunPrompts, GoesOn
    <2>2. CASE /\ messages # <<>>
               /\ driver' = [driver EXCEPT ![d] = "running"]
               /\ streaming' = streaming
               /\ RunContinuation(d, messages)
      BY <2>2 DEF RunContinuation, GoesOn
    <2>3. CASE /\ messages = <<>> \/ (steering = <<>> /\ followUp = <<>>)
               /\ Settle(d, "threw")
               /\ NoRun
               /\ UNCHANGED <<steering, followUp>>
      BY <2>3 DEF Settle, NoRun, Settles
    <2> QED
      BY <1>1, <2>1, <2>2, <2>3 DEF Continue
  <1>2. CASE ContinueOrSettle(d, messages)
    <2>1. CASE /\ steering = <<>> /\ followUp = <<>>
               /\ Settle(d, "returned")
               /\ NoRun
               /\ UNCHANGED <<steering, followUp>>
      BY <2>1 DEF Settle, NoRun, Settles
    <2> QED
      BY <1>1, <1>2, <2>1 DEF ContinueOrSettle
  <1> QED
    BY <1>1, <1>2

\* The driver that is under way moves on.
LEMMA OneMoves ==
    ASSUME SessionOK, OneDriver, NEW d \in Msg,
           NEW x \in {"running", "sleeping", "returned", "threw"},
           driver[d] \in {"preflight", "running", "sleeping"},
           driver' = [driver EXCEPT ![d] = x], raced' = raced,
           x \in {"running", "sleeping"} => \/ streaming' = TRUE
                                            \/ driver[d] # "preflight" /\ streaming' = streaming
    PROVE  OneDriver'
  <1> SUFFICES ASSUME ~raced
               PROVE  /\ \A a, b \in Msg : a # b => ~({driver'[a], driver'[b]} \subseteq {"preflight", "running", "sleeping"})
                      /\ \A a \in Msg : driver'[a] \in {"running", "sleeping"} => streaming'
    BY DEF OneDriver
  <1>1. \A a, b \in Msg : a # b => ~(driver[a] \in {"preflight", "running", "sleeping"}
                                       /\ driver[b] \in {"preflight", "running", "sleeping"})
    BY DEF OneDriver
  <1>2. \A a \in Msg : driver'[a] = IF a = d THEN x ELSE driver[a]
    BY DEF SessionOK
  <1>3. \A a \in Msg : a # d => driver'[a] \notin {"preflight", "running", "sleeping"}
    BY <1>1, <1>2
  <1>4. x \in {"running", "sleeping"} => streaming'
    BY DEF OneDriver
  <1> QED
    BY <1>2, <1>3, <1>4

\* A refused driver settles beside the one that runs.
LEMMA RacedMoves ==
    ASSUME SessionOK, OneDriver, DriversKnown, owner \in Msg, NEW d \in Msg, driver[d] \in {"preflight", "sleeping"},
           raced' = raced
    PROVE  OneDriver'
  <1>1. driver[owner] = "running" /\ owner # d
    BY AgentLoopAssumption DEF DriversKnown, Msg
  <1>2. raced
    BY <1>1 DEF OneDriver
  <1> QED
    BY <1>2 DEF OneDriver

\* Nothing queued is left while someone is at work.
LEMMA WorkLeft ==
    ASSUME NoneLeft, early' = early, via' = via, AtWork'
    PROVE  NoneLeft'
  BY DEF NoneLeft

\* The queues and the drivers stay as they are, or the queues are empty.
LEMMA SameLeft ==
    ASSUME NoneLeft, early' = early, via' = via,
           \/ UNCHANGED <<driver, steering, followUp>> /\ (faults' = 0 => faults = 0)
           \/ steering' = <<>> /\ followUp' = <<>>
    PROVE  NoneLeft'
  <1>1. ToSet(<<>>) = {}
    BY EmptySeq DEF ToSet
  <1>2. CASE steering' = <<>> /\ followUp' = <<>>
    <2>1. (ToSet(steering') \cup ToSet(followUp')) \cap early' = {}
      BY <1>1, <1>2
    <2>2. early' \subseteq {m \in Msg : via'[m] # "none"}
      BY DEF NoneLeft
    <2> QED
      BY <2>1, <2>2 DEF NoneLeft
  <1>3. CASE UNCHANGED <<driver, steering, followUp>> /\ (faults' = 0 => faults = 0)
    BY <1>3 DEF NoneLeft, AtWork
  <1> QED
    BY <1>2, <1>3

\* The transcript, and who sleeps, stay what they are.
LEMMA SameFirst ==
    ASSUME UserFirst, messages' = messages, faults' = faults,
           \A d \in Msg : driver'[d] = "sleeping" => driver[d] = "sleeping",
           pc' \in {"failing", "failEnd"} => pc \in {"failing", "failEnd"},
           faults = 0 => pc' \in {"off", "prompts"} \/ pc \notin {"off", "prompts"} \/ messages # <<>>
    PROVE  UserFirst'
  BY DEF UserFirst

\* The transcript grows behind its first entry, or gets a first one.
LEMMA MoreFirst ==
    ASSUME UserFirst, messages \in Seq(Entry), NEW e \in Entry, messages' = Append(messages, e),
           faults = 0 => messages # <<>> \/ e.role # "assistant",
           UNCHANGED <<driver, faults>>, pc' \in {"failing", "failEnd"} => faults > 0
    PROVE  UserFirst'
  <1>1. messages' # <<>> /\ Len(messages) \in Nat
    BY Added
  <1>2. faults = 0 => messages'[1].role # "assistant"
    <2> SUFFICES ASSUME faults = 0
                 PROVE  messages'[1].role # "assistant"
      OBVIOUS
    <2>1. CASE messages = <<>>
      BY <2>1, Added, EmptySeq
    <2>2. CASE messages # <<>>
      <3>1. 1 \in 1..Len(messages)
        BY <2>2, EmptySeq
      <3>2. messages'[1] = messages[1]
        BY <3>1, Added
      <3> QED
        BY <2>2, <3>2 DEF UserFirst
    <2> QED
      BY <2>1, <2>2
  <1> QED
    BY <1>1, <1>2 DEF UserFirst

\* A driver that finished, woke or was aborted goes on or settles.
LEMMA GoingOn ==
    ASSUME PartsOK, DriverInv, NEW d \in Msg, driver[d] \in {"running", "sleeping"},
           GoesOn(d) \/ Settles(d), owner = 0 \/ owner = d, UNCHANGED <<raced, messages, via, early, faults>>,
           sleeper' = 0 \/ (sleeper' = sleeper /\ sleeper # d),
           faults = 0 => messages # <<>>
    PROVE  DriverInv'
  <1>1. SessionOK /\ SessionOK
    BY DEF PartsOK
  <1>2. PICK x \in {"running", "returned", "threw"} : driver' = [driver EXCEPT ![d] = x] /\ (x = "running" <=> GoesOn(d))
    <2>1. CASE GoesOn(d)
      BY <2>1 DEF GoesOn
    <2>2. CASE ~GoesOn(d) /\ Settles(d)
      BY <2>2 DEF Settles
    <2> QED
      BY <2>1, <2>2
  <1>3. \A a \in Msg : driver'[a] = IF a = d THEN x ELSE driver[a]
    BY <1>1, <1>2 DEF SessionOK
  <1>4. OneDriver'
    <2>1. x = "running" => streaming' = streaming
      BY <1>2 DEF GoesOn
    <2> QED
      BY <1>1, <1>2, <2>1, OneMoves DEF DriverInv
  <1>5. DriversKnown'
    <2>1. \A m \in Msg : driver'[m] # "none" => via'[m] # "none"
      BY <1>3 DEF DriverInv, DriversKnown
    <2>2. sleeper' # 0 => driver'[sleeper'] = "sleeping"
      BY <1>1, <1>3 DEF DriverInv, DriversKnown, SessionOK
    <2>3. owner' # 0 => driver'[owner'] = "running"
      BY <1>2, <1>3 DEF GoesOn, Settles
    <2> QED
      BY <2>1, <2>2, <2>3 DEF DriversKnown
  <1>6. LastKnown'
    BY DEF GoesOn, Settles, LastKnown
  <1>7. UserFirst'
    <2>1. \A a \in Msg : driver'[a] = "sleeping" => driver[a] = "sleeping"
      BY <1>3
    <2>2. pc' \notin {"failing", "failEnd"}
      BY DEF GoesOn, Settles
    <2> QED
      BY <2>1, <2>2, SameFirst DEF DriverInv
  <1>8. NoneLeft'
    <2>1. CASE GoesOn(d)
      <3>1. driver'[d] = "running"
        BY <2>1, <1>2, <1>3
      <3>2. AtWork'
        BY <3>1 DEF AtWork
      <3> QED
        BY <3>2, WorkLeft DEF DriverInv
    <2>2. CASE Settles(d) /\ faults = 0
      BY <2>2, SameLeft DEF Settles, DriverInv
    <2>3. CASE faults # 0
      BY <2>3 DEF DriverInv, NoneLeft
    <2> QED
      BY <2>1, <2>2, <2>3
  <1> QED
    BY <1>4, <1>5, <1>6, <1>7, <1>8 DEF DriverInv

\* A refused or woken driver settles beside a run that goes on.
LEMMA SettlingBeside ==
    ASSUME PartsOK, DriverInv, NEW d \in Msg, driver[d] \in {"preflight", "sleeping"}, owner # 0,
           NEW how \in {"returned", "threw"}, Settle(d, how), UNCHANGED <<owner, pc, more, last>>,
           UNCHANGED <<raced, messages, via, early, faults>>, sleeper' \in {0, sleeper},
           sleeper' # 0 => sleeper # d
    PROVE  DriverInv'
  <1>1. SessionOK /\ owner \in Msg /\ 0 \notin Msg
    BY AgentLoopAssumption DEF PartsOK, RunOK, Msg
  <1>2. \A a \in Msg : driver'[a] = IF a = d THEN how ELSE driver[a]
    BY <1>1 DEF Settle, SessionOK
  <1>3. driver[owner] = "running" /\ owner # d /\ driver'[owner] = "running"
    BY <1>1, <1>2 DEF DriverInv, DriversKnown
  <1>4. OneDriver'
    BY <1>1, RacedMoves DEF DriverInv
  <1>5. DriversKnown'
    <2>1. \A m \in Msg : driver'[m] # "none" => via'[m] # "none"
      BY <1>2 DEF DriverInv, DriversKnown
    <2>2. sleeper' # 0 => driver'[sleeper'] = "sleeping"
      BY <1>1, <1>2 DEF DriverInv, DriversKnown, SessionOK
    <2> QED
      BY <1>3, <2>1, <2>2 DEF DriversKnown
  <1>6. LastKnown'
    BY DEF DriverInv, LastKnown
  <1>7. UserFirst'
    <2>1. \A a \in Msg : driver'[a] = "sleeping" => driver[a] = "sleeping"
      BY <1>2
    <2>2. pc # "off"
      BY DEF PartsOK, RunOK
    <2>3. pc = "prompts" \/ pc \notin {"off", "prompts"}
      BY <2>2
    <2> QED
      BY <2>1, <2>2, <2>3, SameFirst DEF DriverInv
  <1>8. NoneLeft'
    <2>1. AtWork'
      BY <1>1, <1>3 DEF AtWork
    <2> QED
      BY <2>1, WorkLeft DEF DriverInv
  <1> QED
    BY <1>4, <1>5, <1>6, <1>7, <1>8 DEF DriverInv

\* A step of the run leaves its driver alone.
LEMMA RunSteps ==
    ASSUME PartsOK, DriverInv, pc # "off",
           UNCHANGED <<driver, streaming, sleeper, owner, raced, via, early>>,
           LastKnown', UserFirst'
    PROVE  DriverInv'
  <1>1. owner \in Msg /\ owner # 0
    BY DEF PartsOK, RunOK
  <1>2. driver[owner] = "running"
    BY <1>1 DEF DriverInv, DriversKnown
  <1>3. AtWork'
    BY <1>1, <1>2 DEF AtWork
  <1>4. NoneLeft'
    BY <1>3, WorkLeft DEF DriverInv
  <1>5. OneDriver' /\ DriversKnown'
    BY DEF DriverInv, OneDriver, DriversKnown
  <1> QED
    BY <1>4, <1>5 DEF DriverInv

\* Messages come in.
LEMMA InputDrives ==
    ASSUME PartsOK, DriverInv, NEW m \in Msg, Steer(m) \/ FollowUp(m) \/ Prompt(m)
    PROVE  DriverInv'
  <1> USE DEF session, queue, loop, tools
  <1>1. /\ SessionOK /\ via[m] = "none" /\ m \notin early /\ steering \in Seq(Msg) /\ followUp \in Seq(Msg)
        /\ driver[m] = "none"
    BY DEF Steer, FollowUp, Prompt, Fresh, PartsOK, QueueOK, DriverInv, NoneLeft, DriversKnown
  <1>2. UNCHANGED <<sleeper, owner, pc, more, last, messages, faults, streaming>>
    BY DEF Steer, FollowUp, Prompt
  <1>3. LastKnown'
    BY <1>2 DEF DriverInv, LastKnown
  <1>4. CASE Steer(m) \/ FollowUp(m)
    <2>1. UNCHANGED <<driver, raced>> /\ via' \in {[via EXCEPT ![m] = "steer"], [via EXCEPT ![m] = "followUp"]}
      BY <1>4 DEF Steer, FollowUp
    <2>2. \A a \in Msg : via[a] # "none" => via'[a] # "none"
      BY <2>1, <1>1 DEF SessionOK
    <2>3. via'[m] # "none"
      BY <2>1, <1>1 DEF SessionOK
    <2>4. OneDriver' /\ DriversKnown'
      BY <2>1, <2>2, <1>2 DEF DriverInv, OneDriver, DriversKnown
    <2>5. UserFirst'
      BY <2>1, <1>2 DEF DriverInv, UserFirst
    <2>6. NoneLeft'
      <3>1. early' = IF AtWork THEN early \cup {m} ELSE early
        BY <1>4 DEF Steer, FollowUp, Enqueue
      <3>2. early' \subseteq {a \in Msg : via'[a] # "none"}
        BY <3>1, <2>2, <2>3 DEF DriverInv, NoneLeft
      <3>3. AtWork' <=> AtWork
        BY <2>1 DEF AtWork
      <3>4. ToSet(steering') \cup ToSet(followUp') \subseteq ToSet(steering) \cup ToSet(followUp) \cup {m}
        <4>1. ToSet(Append(steering, m)) = ToSet(steering) \cup {m}
          BY <1>1, SetAdded
        <4>2. ToSet(Append(followUp, m)) = ToSet(followUp) \cup {m}
          BY <1>1, SetAdded
        <4>3. \/ steering' = Append(steering, m) /\ followUp' = followUp
              \/ followUp' = Append(followUp, m) /\ steering' = steering
          BY <1>4 DEF Steer, FollowUp
        <4> QED
          BY <4>1, <4>2, <4>3
      <3> QED
        BY <3>1, <3>2, <3>3, <3>4, <1>1, <1>2 DEF DriverInv, NoneLeft
    <2> QED
      BY <1>3, <2>4, <2>5, <2>6 DEF DriverInv
  <1>5. CASE Prompt(m)
    <2>1. /\ via' = [via EXCEPT ![m] = "prompt"] /\ driver' = [driver EXCEPT ![m] = "preflight"]
          /\ raced' = (raced \/ \E d \in Msg : driver[d] \in {"preflight", "running", "sleeping"})
          /\ UNCHANGED <<steering, followUp, early>>
      BY <1>5 DEF Prompt
    <2>2. /\ \A a \in Msg : driver'[a] = IF a = m THEN "preflight" ELSE driver[a]
          /\ \A a \in Msg : via'[a] = IF a = m THEN "prompt" ELSE via[a]
      BY <2>1, <1>1 DEF SessionOK
    <2>3. OneDriver'
      <3> SUFFICES ASSUME ~raced'
                   PROVE  /\ \A a, b \in Msg : a # b => ~({driver'[a], driver'[b]} \subseteq {"preflight", "running", "sleeping"})
                          /\ \A a \in Msg : driver'[a] \in {"running", "sleeping"} => streaming'
        BY DEF OneDriver
      <3>1. \A a \in Msg : a # m => driver'[a] \notin {"preflight", "running", "sleeping"}
        BY <2>1, <2>2
      <3> QED
        BY <2>2, <3>1
    <2>4. DriversKnown'
      <3>1. \A a \in Msg : driver'[a] # "none" => via'[a] # "none"
        BY <2>2 DEF DriverInv, DriversKnown
      <3>2. owner' # 0 => driver'[owner'] = "running"
        BY <1>1, <1>2, <2>2 DEF DriverInv, DriversKnown, PartsOK, RunOK
      <3>3. sleeper' # 0 => driver'[sleeper'] = "sleeping"
        BY <1>1, <1>2, <2>2 DEF DriverInv, DriversKnown, SessionOK
      <3> QED
        BY <3>1, <3>2, <3>3 DEF DriversKnown
    <2>5. UserFirst'
      <3>1. \A a \in Msg : driver'[a] = "sleeping" => driver[a] = "sleeping"
        BY <2>2
      <3> QED
        BY <3>1, <1>2, SameFirst DEF DriverInv, UserFirst
    <2>6. NoneLeft'
      <3>1. AtWork' <=> AtWork
        BY <2>2, <1>1 DEF AtWork
      <3>2. early' \subseteq {a \in Msg : via'[a] # "none"}
        BY <2>1, <2>2 DEF DriverInv, NoneLeft
      <3> QED
        BY <3>1, <3>2, <2>1, <1>2 DEF DriverInv, NoneLeft
    <2> QED
      BY <1>3, <2>3, <2>4, <2>5, <2>6 DEF DriverInv
  <1> QED
    BY <1>4, <1>5

\* Prompts fail before they begin, and queues are given back.
LEMMA AsideDrives ==
    ASSUME PartsOK, DriverInv,
           ClearQueue \/ (\E c \in Call : ToolEnds(c)) \/ (\E m \in Msg : PreflightFails(m)) \/ UNCHANGED loopVars
    PROVE  DriverInv'
  <1> USE DEF session, queue, loop, tools
  <1>1. UNCHANGED <<via, streaming, sleeper, last, early, owner, pc, more, messages, faults, raced>>
    BY DEF ClearQueue, ToolEnds, PreflightFails, loopVars
  <1>2. LastKnown'
    BY <1>1 DEF DriverInv, LastKnown
  <1>3. CASE ClearQueue \/ (\E c \in Call : ToolEnds(c)) \/ UNCHANGED loopVars
    <2>1. driver' = driver /\ (UNCHANGED <<steering, followUp>> \/ (steering' = <<>> /\ followUp' = <<>>))
      BY <1>3 DEF ClearQueue, ToolEnds, loopVars
    <2>2. OneDriver' /\ DriversKnown' /\ UserFirst'
      BY <1>1, <2>1 DEF DriverInv, OneDriver, DriversKnown, UserFirst
    <2>3. NoneLeft'
      BY <1>1, <2>1, SameLeft DEF DriverInv
    <2> QED
      BY <1>2, <2>2, <2>3 DEF DriverInv
  <1>4. ASSUME NEW m \in Msg, PreflightFails(m)
        PROVE  DriverInv'
    <2>1. /\ SessionOK /\ driver[m] = "preflight" /\ driver' = [driver EXCEPT ![m] = "threw"]
          /\ UNCHANGED <<steering, followUp>>
      BY <1>4 DEF PreflightFails, PartsOK
    <2>2. \A a \in Msg : driver'[a] = IF a = m THEN "threw" ELSE driver[a]
      BY <2>1 DEF SessionOK
    <2>3. OneDriver'
      BY <1>1, <2>1, OneMoves DEF DriverInv
    <2>4. DriversKnown'
      <3>1. \A a \in Msg : driver'[a] # "none" => via'[a] # "none"
        BY <1>1, <2>1, <2>2 DEF DriverInv, DriversKnown
      <3>2. owner' # 0 => driver'[owner'] = "running"
        BY <1>1, <2>1, <2>2 DEF DriverInv, DriversKnown, PartsOK, RunOK
      <3>3. sleeper' # 0 => driver'[sleeper'] = "sleeping"
        BY <1>1, <2>1, <2>2 DEF DriverInv, DriversKnown, SessionOK
      <3> QED
        BY <3>1, <3>2, <3>3 DEF DriversKnown
    <2>5. UserFirst'
      <3>1. \A a \in Msg : driver'[a] = "sleeping" => driver[a] = "sleeping"
        BY <2>2
      <3> QED
        BY <3>1, <1>1, SameFirst DEF DriverInv, UserFirst
    <2>6. NoneLeft'
      <3>1. AtWork' <=> AtWork
        BY <2>1, <2>2 DEF AtWork
      <3> QED
        BY <3>1, <1>1, <2>1 DEF DriverInv, NoneLeft
    <2> QED
      BY <1>2, <2>3, <2>4, <2>5, <2>6 DEF DriverInv
  <1> QED
    BY <1>3, <1>4

\* A custom message goes right into the transcript.
LEMMA CustomDrives ==
    ASSUME PartsOK, DriverInv, SendCustomMessage
    PROVE  DriverInv'
  <1> USE DEF session, queue, loop, tools
  <1>1. /\ UNCHANGED <<via, driver, streaming, sleeper, last, early, owner, pc, more, faults, raced,
                       steering, followUp>>
        /\ messages' = Append(messages, Custom)
    BY DEF SendCustomMessage
  <1>2. PICK e \in Entry : e = Custom /\ e.role = "custom"
    BY Entries
  <1>4. UserFirst'
    <2>1. messages \in Seq(Entry) /\ UserFirst /\ (pc' \in {"failing", "failEnd"} => faults > 0)
      BY <1>1 DEF PartsOK, CountsOK, DriverInv, UserFirst
    <2> QED
      BY <1>1, <1>2, <2>1, MoreFirst
  <1>5. OneDriver' /\ DriversKnown' /\ LastKnown'
    BY <1>1 DEF DriverInv, OneDriver, DriversKnown, LastKnown
  <1>6. NoneLeft'
    BY <1>1, SameLeft DEF DriverInv
  <1> QED
    BY <1>4, <1>5, <1>6 DEF DriverInv

\* A driver begins its run, or finds another's.
LEMMA PromptDrives ==
    ASSUME PartsOK, DriverInv, NEW m \in Msg, RunAgentPrompt(m)
    PROVE  DriverInv'
  <1> USE DEF session, queue, loop, tools
  <1>1. /\ SessionOK /\ m # 0 /\ driver[m] = "preflight"
        /\ UNCHANGED <<via, sleeper, last, messages, raced, early, faults, steering, followUp>>
    BY AgentLoopAssumption DEF RunAgentPrompt, PartsOK, Msg
  <1>2. CASE owner = 0
    <2>1. /\ driver' = [driver EXCEPT ![m] = "running"] /\ streaming' = TRUE
          /\ owner' = m /\ pc' = "prompts" /\ more' = TRUE
      BY <1>2 DEF RunAgentPrompt, RunPrompts
    <2>2. \A a \in Msg : driver'[a] = IF a = m THEN "running" ELSE driver[a]
      BY <1>1, <2>1 DEF SessionOK
    <2>3. OneDriver'
      BY <1>1, <2>1, OneMoves DEF DriverInv
    <2>4. DriversKnown'
      <3>1. \A a \in Msg : driver'[a] # "none" => via'[a] # "none"
        BY <1>1, <2>2 DEF DriverInv, DriversKnown
      <3>2. sleeper' # 0 => driver'[sleeper'] = "sleeping"
        BY <1>1, <2>2 DEF DriverInv, DriversKnown, SessionOK
      <3> QED
        BY <2>1, <2>2, <3>1, <3>2 DEF DriversKnown
    <2>5. LastKnown'
      BY <2>1 DEF LastKnown
    <2>6. UserFirst'
      <3>1. \A a \in Msg : driver'[a] = "sleeping" => driver[a] = "sleeping"
        BY <2>2
      <3> QED
        BY <3>1, <1>1, <2>1, SameFirst DEF DriverInv
    <2>7. NoneLeft'
      <3>1. AtWork'
        BY <2>2 DEF AtWork
      <3> QED
        BY <3>1, <1>1, WorkLeft DEF DriverInv
    <2> QED
      BY <2>3, <2>4, <2>5, <2>6, <2>7 DEF DriverInv
  <1>3. CASE owner # 0
    <2>1. Settle(m, "threw") /\ UNCHANGED <<owner, pc, more>>
      BY <1>3 DEF RunAgentPrompt, SameRun
    <2>2. sleeper # 0 => sleeper # m
      BY <1>1 DEF DriverInv, DriversKnown
    <2> QED
      BY <1>1, <1>3, <2>1, <2>2, SettlingBeside
  <1> QED
    BY <1>2, <1>3

\* The run polls, streams and runs tools.
LEMMA RunDrives ==
    ASSUME PartsOK, DriverInv,
           \/ EmitMessage \/ PollSteering \/ PollFollowUps \/ Request
           \/ StreamFails \/ StreamStops \/ StreamCallsTools \/ StreamTruncated
           \/ (\E s \in {"prepared", "done"} : PrepareToolCall(s)) \/ EmitResult \/ TurnEnd
           \/ HandleRunFailure \/ ListenerThrows
    PROVE  DriverInv'
  <1> USE DEF session, queue, loop, tools
  <1>1. pc # "off" /\ UNCHANGED <<driver, streaming, sleeper, owner, raced, via, early>>
    BY DEF EmitMessage, PollSteering, PollFollowUps, Request, StreamFails, StreamStops, StreamCallsTools,
       StreamTruncated, Streamed, PrepareToolCall, EmitResult, TurnEnd, HandleRunFailure, ListenerThrows
  <1>2. /\ messages \in Seq(Entry) /\ Failed(<<>>) \in Entry /\ faults \in Nat
        /\ pc \in {"prompts", "inject"} => User(Head(pending)) \in Entry /\ User(Head(pending)).role = "user"
    BY HeadTaken, Entries DEF PartsOK, CountsOK, RunOK
  <1>3. faults = 0 => (pc \notin {"off", "prompts"} => messages # <<>>) /\ pc \notin {"failing", "failEnd"}
    BY DEF DriverInv, UserFirst
  <1>4. CASE EmitMessage
    <2>1. LastKnown'
      BY <1>4 DEF EmitMessage, DriverInv, LastKnown
    <2>2. PICK e \in Entry : messages' = Append(messages, e) /\ e.role = "user"
      BY <1>2, <1>4 DEF EmitMessage
    <2>3. UNCHANGED <<driver, faults>> /\ pc' \notin {"failing", "failEnd"}
      BY <1>4 DEF EmitMessage
    <2>4. UserFirst'
      BY <1>2, <2>2, <2>3, MoreFirst DEF DriverInv
    <2> QED
      BY <1>1, <2>1, <2>4, RunSteps
  <1>5. CASE PollSteering \/ PollFollowUps \/ TurnEnd \/ \E s \in {"prepared", "done"} : PrepareToolCall(s)
    <2>1. /\ UNCHANGED <<messages, driver, faults, last, more>>
          /\ pc \notin {"prompts", "failing", "failEnd"} /\ pc' \notin {"prompts", "failing", "failEnd"}
      BY <1>5 DEF PollSteering, PollFollowUps, TurnEnd, PrepareToolCall
    <2>2. LastKnown'
      <3>1. CASE PollSteering
        BY <3>1 DEF PollSteering, DriverInv, LastKnown
      <3>2. CASE PollFollowUps
        BY <3>2 DEF PollFollowUps, DriverInv, LastKnown
      <3>3. CASE TurnEnd
        BY <3>3 DEF TurnEnd, DriverInv, LastKnown
      <3>4. ASSUME NEW s \in {"prepared", "done"}, PrepareToolCall(s)
            PROVE  LastKnown'
        BY <3>4 DEF PrepareToolCall, DriverInv, LastKnown
      <3> QED
        BY <1>5, <3>1, <3>2, <3>3, <3>4
    <2>3. UserFirst'
      BY <2>1, <1>1, <1>3, SameFirst DEF DriverInv
    <2> QED
      BY <1>1, <2>2, <2>3, RunSteps
  <1>6. CASE Request
    <2>1. LastKnown'
      BY <1>6 DEF Request, DriverInv, LastKnown
    <2>2. /\ UNCHANGED <<driver, faults>> /\ pc' \notin {"failing", "failEnd"} /\ pc = "request"
          /\ messages' = messages \/ messages' = Append(messages, Failed(<<>>))
      BY <1>6 DEF Request
    <2>3. UserFirst'
      <3>1. CASE messages' = messages
        BY <2>2, <3>1, <1>3, SameFirst DEF DriverInv
      <3>2. CASE messages' = Append(messages, Failed(<<>>))
        BY <2>2, <3>2, <1>2, <1>3, MoreFirst DEF DriverInv
      <3> QED
        BY <2>2, <3>1, <3>2
    <2> QED
      BY <1>1, <2>1, <2>3, RunSteps
  <1>7. CASE StreamFails \/ StreamStops \/ StreamCallsTools \/ StreamTruncated
    <2>1. PICK a \in Entry, o \in {"ok", "error", "retryable", "aborted"} : Streamed(a, o)
      BY <1>7, StreamKinds DEF StreamEnds
    <2>4. /\ pc = "stream" /\ pc' \notin {"failing", "failEnd", "prompts"} /\ last' # "none"
          /\ messages' = Append(messages, a) /\ UNCHANGED <<driver, faults>>
      BY <1>7, <2>1 DEF StreamFails, StreamStops, StreamCallsTools, StreamTruncated, Streamed
    <2>5. LastKnown'
      BY <2>4 DEF LastKnown
    <2>6. UserFirst'
      BY <2>4, <1>2, <1>3, MoreFirst DEF DriverInv
    <2> QED
      BY <1>1, <2>5, <2>6, RunSteps
  <1>8. CASE EmitResult
    <2>1. /\ pc = "execute" /\ pc' \notin {"failing", "failEnd", "prompts"} /\ UNCHANGED <<last, driver, faults>>
          /\ messages' = Append(messages, Result(batch[out + 1]))
      BY <1>8 DEF EmitResult
    <2>2. Result(batch[out + 1]) \in Entry
      <3>1. out + 1 \in 1..Len(batch) /\ \A i \in 1..Len(batch) : batch[i] \in Call
        BY <2>1, LenProperties, ElementOfSeq DEF PartsOK, BatchOK
      <3> QED
        BY <3>1, Entries
    <2>3. LastKnown'
      BY <2>1 DEF DriverInv, LastKnown
    <2>4. UserFirst'
      BY <2>1, <2>2, <1>2, <1>3, MoreFirst DEF DriverInv
    <2> QED
      BY <1>1, <2>3, <2>4, RunSteps
  <1>9. CASE HandleRunFailure
    <2>1. /\ pc = "failing" /\ pc' = "failEnd" /\ last' # "none" /\ UNCHANGED <<driver, faults>>
          /\ messages' = Append(messages, Failed(<<>>))
      BY <1>9 DEF HandleRunFailure
    <2>2. LastKnown'
      BY <2>1 DEF LastKnown
    <2>3. faults > 0
      BY <2>1 DEF DriverInv, UserFirst
    <2>4. UserFirst'
      BY <2>1, <2>3, <1>2, MoreFirst DEF DriverInv
    <2> QED
      BY <1>1, <2>2, <2>4, RunSteps
  <1>10. CASE ListenerThrows
    <2>1. pc' = "failing" /\ faults' > 0
      BY <1>2, <1>10 DEF ListenerThrows
    <2>2. LastKnown' /\ UserFirst'
      BY <2>1 DEF LastKnown, UserFirst
    <2> QED
      BY <1>1, <2>2, RunSteps
  <1> QED
    BY <1>4, <1>5, <1>6, <1>7, <1>8, <1>9, <1>10

\* A run has ended.
LEMMA FinishDrives ==
    ASSUME PartsOK, DriverInv, Finish
    PROVE  DriverInv'
  <1> USE DEF session, queue, loop, tools
  <1>1. /\ SessionOK /\ owner \in Msg /\ owner # 0 /\ messages \in Seq(Entry) /\ last # "none"
        /\ driver[owner] = "running"
        /\ faults = 0 => messages # <<>> /\ messages[1].role # "assistant"
        /\ UNCHANGED <<via, early, faults, raced>>
    BY DEF Finish, PartsOK, RunOK, CountsOK, DriverInv, LastKnown, UserFirst, DriversKnown
  <1>2. CASE /\ sleeper' = owner
             /\ messages' = IF EndsWithAssistant(messages) THEN Front(messages) ELSE messages
             /\ driver' = [driver EXCEPT ![owner] = "sleeping"]
             /\ NoRun
             /\ streaming' = streaming
    <2>1. \A a \in Msg : driver'[a] = IF a = owner THEN "sleeping" ELSE driver[a]
      BY <1>1, <1>2 DEF SessionOK
    <2>2. OneDriver'
      BY <1>1, <1>2, OneMoves DEF DriverInv
    <2>3. DriversKnown'
      <3>1. \A m \in Msg : driver'[m] # "none" => via'[m] # "none"
        BY <1>1, <2>1 DEF DriverInv, DriversKnown
      <3> QED
        BY <3>1, <1>1, <1>2, <2>1 DEF DriversKnown, NoRun
    <2>4. LastKnown'
      BY <1>2 DEF NoRun, LastKnown
    <2>5. faults = 0 => messages' # <<>> /\ messages'[1].role # "assistant"
      <3>1. CASE ~EndsWithAssistant(messages)
        BY <3>1, <1>1, <1>2
      <3>2. CASE EndsWithAssistant(messages) /\ faults = 0
        <4>1. /\ Front(messages) \in Seq(Entry) /\ Len(Front(messages)) = Len(messages) - 1 /\ Len(messages) \in Nat \ {0}
              /\ \A i \in 1..(Len(messages) - 1) : Front(messages)[i] = messages[i]
              /\ messages[Len(messages)].role = "assistant"
          BY <1>1, <3>2, LastDropped DEF EndsWithAssistant
        <4>2. Len(messages) # 1
          BY <4>1, <3>2, <1>1
        <4>3. 1 \in 1..(Len(messages) - 1) /\ Len(Front(messages)) # 0
          BY <4>1, <4>2
        <4>4. Front(messages) # <<>> /\ Front(messages)[1] = messages[1]
          BY <4>1, <4>3, EmptySeq
        <4> QED
          BY <4>4, <1>1, <1>2, <3>2
      <3> QED
        BY <3>1, <3>2
    <2>6. UserFirst'
      BY <1>1, <1>2, <2>5 DEF NoRun, UserFirst
    <2>7. NoneLeft'
      <3>1. AtWork'
        BY <2>1, <1>1 DEF AtWork
      <3> QED
        BY <3>1, <1>1, WorkLeft DEF DriverInv
    <2> QED
      BY <2>2, <2>3, <2>4, <2>6, <2>7 DEF DriverInv
  <1>3. CASE ContinueOrSettle(owner, messages) /\ UNCHANGED <<sleeper, messages>>
    <2>1. GoesOn(owner) \/ Settles(owner)
      BY <1>1, <1>3, GoesOnOrSettles
    <2>2. sleeper # owner
      BY <1>1 DEF DriverInv, DriversKnown
    <2>3. PICK d \in Msg : d = owner
      BY <1>1
    <2> QED
      BY <1>1, <1>3, <2>1, <2>2, <2>3, GoingOn
  <1> QED
    BY <1>1, <1>2, <1>3 DEF Finish

\* A retry's backoff is over, or cut short; a failing run's driver gives up.
LEMMA WakeDrives ==
    ASSUME PartsOK, DriverInv, AbortSession \/ FailureThrows \/ \E d \in Msg : Wake(d)
    PROVE  DriverInv'
  <1> USE DEF session, queue, loop, tools
  <1>1. SessionOK /\ 0 \notin Msg /\ faults \in Nat
    BY AgentLoopAssumption DEF PartsOK, CountsOK, Msg
  <1>2. ASSUME NEW d \in Msg, Wake(d)
        PROVE  DriverInv'
    <2>1. /\ driver[d] = "sleeping" /\ sleeper' = 0
          /\ UNCHANGED <<raced, messages, via, early, faults, last>>
          /\ faults = 0 => messages # <<>>
      BY <1>2 DEF Wake, DriverInv, UserFirst
    <2>2. CASE owner = 0
      <3>1. GoesOn(d) \/ Settles(d)
        BY <1>2, <2>2, GoesOnOrSettles DEF Wake
      <3> QED
        BY <2>1, <2>2, <3>1, GoingOn
    <2>3. CASE owner # 0
      <3>1. Settle(d, "threw") /\ UNCHANGED <<owner, pc, more>>
        BY <1>2, <2>3 DEF Wake, ContinueBusy, SameRun
      <3> QED
        BY <2>1, <2>3, <3>1, SettlingBeside
    <2> QED
      BY <2>2, <2>3
  <1>3. CASE AbortSession
    <2>1. UNCHANGED <<raced, messages, via, early, faults, last>>
      BY <1>3 DEF AbortSession
    <2>2. CASE sleeper = 0
      <3>1. UNCHANGED <<driver, streaming, sleeper, owner, pc, more, steering, followUp>>
        BY <1>3, <2>2 DEF AbortSession
      <3>2. OneDriver' /\ DriversKnown' /\ LastKnown' /\ UserFirst'
        BY <2>1, <3>1 DEF DriverInv, OneDriver, DriversKnown, LastKnown, UserFirst
      <3>3. NoneLeft'
        BY <2>1, <3>1, SameLeft DEF DriverInv
      <3> QED
        BY <3>2, <3>3 DEF DriverInv
    <2>3. CASE sleeper # 0
      <3>1. PICK d \in Msg : d = sleeper
        BY <2>3, <1>1 DEF SessionOK
      <3>2. driver[d] = "sleeping" /\ sleeper' = 0 /\ (faults = 0 => messages # <<>>)
        BY <1>3, <2>3, <3>1 DEF AbortSession, DriverInv, DriversKnown, UserFirst
      <3>3. CASE owner = 0
        <4>1. GoesOn(d) \/ Settles(d)
          BY <1>3, <2>3, <3>1, <3>3, GoesOnOrSettles DEF AbortSession
        <4> QED
          BY <2>1, <3>2, <3>3, <4>1, GoingOn
      <3>4. CASE owner # 0
        <4>1. PICK how \in {"returned", "threw"} : Settle(d, how)
          BY <1>3, <2>3, <3>1, <3>4 DEF AbortSession
        <4>2. UNCHANGED <<owner, pc, more>>
          BY <1>3, <2>3, <3>4 DEF AbortSession
        <4> QED
          BY <2>1, <3>2, <3>4, <4>1, <4>2, SettlingBeside
      <3> QED
        BY <3>3, <3>4
    <2> QED
      BY <2>2, <2>3
  <1>4. CASE FailureThrows
    <2>1. /\ owner \in Msg /\ driver[owner] = "running" /\ Settle(owner, "threw") /\ NoRun /\ faults' > 0
          /\ UNCHANGED <<via, sleeper, raced, early>>
      BY <1>1, <1>4 DEF FailureThrows, PartsOK, RunOK, DriverInv, DriversKnown
    <2>2. \A a \in Msg : driver'[a] = IF a = owner THEN "threw" ELSE driver[a]
      BY <1>1, <2>1 DEF Settle, SessionOK
    <2>3. OneDriver'
      BY <1>1, <2>1, OneMoves DEF DriverInv, Settle
    <2>4. DriversKnown'
      <3>1. \A m \in Msg : driver'[m] # "none" => via'[m] # "none"
        BY <2>1, <2>2 DEF DriverInv, DriversKnown
      <3>2. sleeper' # 0 => driver'[sleeper'] = "sleeping"
        BY <1>1, <2>1, <2>2 DEF DriverInv, DriversKnown, SessionOK
      <3> QED
        BY <3>1, <3>2, <2>1 DEF DriversKnown, NoRun
    <2>5. LastKnown' /\ UserFirst'
      BY <2>1 DEF NoRun, LastKnown, UserFirst
    <2>6. NoneLeft'
      BY <2>1 DEF DriverInv, NoneLeft
    <2> QED
      BY <2>3, <2>4, <2>5, <2>6 DEF DriverInv
  <1> QED
    BY <1>2, <1>3, <1>4

\* Every step keeps the drivers' invariant.
LEMMA DriversNext ==
    ASSUME PartsOK, DriverInv, [LoopNext]_loopVars
    PROVE  DriverInv'
  <1>1. CASE Input
    BY <1>1, InputDrives, AsideDrives, CustomDrives, WakeDrives DEF Input
  <1>2. CASE Progress
    BY <1>2, AsideDrives, PromptDrives, RunDrives, FinishDrives, WakeDrives DEF Progress
  <1>3. CASE Fault
    BY <1>3, RunDrives, WakeDrives DEF Fault
  <1>4. CASE UNCHANGED loopVars
    BY <1>4, AsideDrives
  <1> QED
    BY <1>1, <1>2, <1>3, <1>4 DEF LoopNext

\* Nobody is at work in the beginning.
LEMMA DriversStart == LoopInit => DriverInv
  <1> SUFFICES ASSUME LoopInit
               PROVE  DriverInv
    OBVIOUS
  <1>1. \A m \in Msg : driver[m] = "none"
    BY DEF LoopInit
  <1>2. OneDriver /\ DriversKnown /\ LastKnown /\ UserFirst
    BY <1>1 DEF LoopInit, OneDriver, DriversKnown, LastKnown, UserFirst
  <1>3. NoneLeft
    BY DEF LoopInit, NoneLeft
  <1> QED
    BY <1>2, <1>3 DEF DriverInv

\* isIdle is true only when nobody is at work, unless prompts raced, and the
\* last driver leaves no earlier queued message behind (_runAgentPrompt and
\* _handlePostAgentRun of agent-session.ts).
THEOREM IdleHolds == LoopSpec => []IdleMeansDone
  <1>1. LoopInit => PartsOK /\ DriverInv
    BY LoopStarts, DriversStart
  <1>2. PartsOK /\ DriverInv /\ [LoopNext]_loopVars => (PartsOK /\ DriverInv)'
    BY TypesNext, DriversNext
  <1>3. PartsOK /\ DriverInv => IdleMeansDone
    <2> SUFFICES ASSUME PartsOK, DriverInv
                 PROVE  IdleMeansDone
      OBVIOUS
    <2>1. ~streaming => (owner = 0 /\ ~AtWork) \/ raced
      BY DEF PartsOK, RunOK, DriverInv, OneDriver, DriversKnown, AtWork
    <2>2. ~AtWork /\ faults = 0 => (ToSet(steering) \cup ToSet(followUp)) \cap early = {}
      BY DEF DriverInv, NoneLeft
    <2> QED
      BY <2>1, <2>2 DEF IdleMeansDone
  <1> QED
    BY <1>1, <1>2, <1>3, PTL DEF LoopSpec

-----------------------------------------------------------------------------
(* Messages and their order. *)

\* The head of a queue and the rest of it.
LEMMA SetHead ==
    ASSUME NEW q \in Seq(Msg), q # <<>>
    PROVE  ToSet(q) = {Head(q)} \cup ToSet(Tail(q))
  <1>1. /\ Head(q) = q[1] /\ Tail(q) \in Seq(Msg) /\ Len(Tail(q)) = Len(q) - 1 /\ Len(q) \in Nat \ {0}
        /\ \A i \in 1..Len(Tail(q)) : Tail(q)[i] = q[i + 1]
    BY HeadTaken
  <1>2. ToSet(q) = {q[i] : i \in 1..Len(q)} /\ ToSet(Tail(q)) = {Tail(q)[i] : i \in 1..Len(Tail(q))}
    BY <1>1, SetOf
  <1>3. ASSUME NEW i \in 1..Len(q)
        PROVE  q[i] \in {Head(q)} \cup ToSet(Tail(q))
    <2>1. CASE i = 1
      BY <2>1, <1>1
    <2>2. CASE i # 1
      <3>1. PICK j \in 1..Len(Tail(q)) : i = j + 1
        <4>1. i - 1 \in 1..Len(Tail(q)) /\ i = i - 1 + 1
          BY <2>2, <1>1
        <4> QED
          BY <4>1
      <3> QED
        BY <3>1, <1>1, <1>2
    <2> QED
      BY <2>1, <2>2
  <1>4. ASSUME NEW j \in 1..Len(Tail(q))
        PROVE  Tail(q)[j] \in ToSet(q)
    <2>1. j + 1 \in 1..Len(q)
      BY <1>1
    <2> QED
      BY <2>1, <1>1, <1>2
  <1>5. Head(q) \in ToSet(q)
    BY <1>1, <1>2
  <1> QED
    BY <1>2, <1>3, <1>4, <1>5

\* The first of a queue in order comes before the rest.
LEMMA HeadFirst ==
    ASSUME NEW q \in Seq(Msg), q # <<>>, Rising(q)
    PROVE  Rising(Tail(q)) /\ \A m \in ToSet(Tail(q)) : Head(q) < m
  <1>1. /\ Head(q) = q[1] /\ Tail(q) \in Seq(Msg) /\ Len(Tail(q)) = Len(q) - 1 /\ Len(q) \in Nat \ {0}
        /\ \A i \in 1..Len(Tail(q)) : Tail(q)[i] = q[i + 1]
    BY HeadTaken
  <1>2. ASSUME NEW i \in 1..Len(Tail(q)), NEW j \in 1..Len(Tail(q)), i < j
        PROVE  Tail(q)[i] < Tail(q)[j]
    <2>1. i + 1 \in 1..Len(q) /\ j + 1 \in 1..Len(q) /\ i + 1 < j + 1
      BY <1>1, <1>2
    <2>2. q[i + 1] < q[j + 1]
      BY <2>1 DEF Rising
    <2> QED
      BY <2>2, <1>1
  <1>3. ASSUME NEW m \in ToSet(Tail(q))
        PROVE  Head(q) < m
    <2>1. PICK i \in 1..Len(Tail(q)) : m = Tail(q)[i]
      BY <1>1, <1>3, SetOf
    <2>2. i + 1 \in 1..Len(q) /\ 1 \in 1..Len(q) /\ 1 < i + 1
      BY <1>1
    <2>3. q[1] < q[i + 1]
      BY <2>2 DEF Rising
    <2> QED
      BY <2>1, <2>3, <1>1
  <1> QED
    BY <1>2, <1>3 DEF Rising

\* What is taken from a queue comes before what is left in it.
LEMMA TakenFirst ==
    ASSUME NEW q \in Seq(Msg), Rising(q)
    PROVE  /\ Rising(Drain(q)) /\ Rising(Rest(q))
           /\ ToSet(q) = ToSet(Drain(q)) \cup ToSet(Rest(q))
           /\ \A m \in ToSet(Drain(q)), n \in ToSet(Rest(q)) : m < n
  <1> DEFINE d == Drain(q)
             r == Rest(q)
             k == Len(d)
  <1>1. /\ d \in Seq(Msg) /\ r \in Seq(Msg) /\ k \in Nat /\ Len(r) \in Nat
        /\ Len(q) = k + Len(r)
        /\ \A i \in 1..k : d[i] = q[i]
        /\ \A i \in 1..Len(r) : r[i] = q[k + i]
    BY DrainSplits DEF Splits
  <1> HIDE DEF d, r
  <1>2. /\ ToSet(q) = {q[i] : i \in 1..Len(q)} /\ ToSet(d) = {d[i] : i \in 1..k}
        /\ ToSet(r) = {r[i] : i \in 1..Len(r)}
    BY <1>1, SetOf
  <1> HIDE DEF k
  <1>3. /\ \A i \in 1..k : i \in 1..Len(q)
        /\ \A i \in 1..Len(r) : k + i \in 1..Len(q)
    BY <1>1
  <1>4. Rising(d)
    BY <1>1, <1>3 DEF Rising, k
  <1>5. Rising(r)
    <2> SUFFICES ASSUME NEW i \in 1..Len(r), NEW j \in 1..Len(r), i < j
                 PROVE  r[i] < r[j]
      BY DEF Rising
    <2>1. k + i \in 1..Len(q) /\ k + j \in 1..Len(q) /\ k + i < k + j
      BY <1>1, <1>3
    <2>2. q[k + i] < q[k + j]
      BY <2>1 DEF Rising
    <2> QED
      BY <2>2, <1>1
  <1>6. ASSUME NEW m \in ToSet(d), NEW n \in ToSet(r)
        PROVE  m < n
    <2>1. PICK i \in 1..k : m = d[i]
      BY <1>2, <1>6
    <2>2. PICK j \in 1..Len(r) : n = r[j]
      BY <1>2, <1>6
    <2>3. i \in 1..Len(q) /\ k + j \in 1..Len(q) /\ i < k + j
      BY <1>1, <1>3
    <2>4. q[i] < q[k + j]
      BY <2>3 DEF Rising
    <2> QED
      BY <2>1, <2>2, <2>4, <1>1
  <1>7. ToSet(d) \cup ToSet(r) \subseteq ToSet(q)
    BY <1>1, <1>2, <1>3
  <1>8. ToSet(q) \subseteq ToSet(d) \cup ToSet(r)
    <2> SUFFICES ASSUME NEW i \in 1..Len(q)
                 PROVE  q[i] \in ToSet(d) \cup ToSet(r)
      BY <1>2
    <2>1. CASE i \in 1..k
      BY <2>1, <1>1, <1>2
    <2>2. CASE i \notin 1..k
      <3>1. PICK j \in 1..Len(r) : i = k + j
        <4>1. i - k \in 1..Len(r) /\ i = k + (i - k)
          BY <2>2, <1>1
        <4> QED
          BY <4>1
      <3> QED
        BY <3>1, <1>1, <1>2
    <2> QED
      BY <2>1, <2>2
  <1> QED
    BY <1>4, <1>5, <1>6, <1>7, <1>8 DEF d, r

\* The latest message goes last.
LEMMA AddedLast ==
    ASSUME NEW q \in Seq(Msg), Rising(q), NEW m \in Msg, \A n \in ToSet(q) : n < m
    PROVE  Rising(Append(q, m))
  <1>1. /\ Append(q, m) \in Seq(Msg) /\ Len(Append(q, m)) = Len(q) + 1 /\ Len(q) \in Nat
        /\ \A i \in 1..Len(q) : Append(q, m)[i] = q[i]
        /\ Append(q, m)[Len(q) + 1] = m
    BY AppendProperties, LenProperties
  <1> SUFFICES ASSUME NEW i \in 1..(Len(q) + 1), NEW j \in 1..(Len(q) + 1), i < j
               PROVE  Append(q, m)[i] < Append(q, m)[j]
    BY <1>1 DEF Rising
  <1>2. i \in 1..Len(q) /\ Append(q, m)[i] = q[i]
    BY <1>1
  <1>3. CASE j \in 1..Len(q)
    BY <1>1, <1>2, <1>3 DEF Rising
  <1>4. CASE j = Len(q) + 1
    <2>1. q[i] \in ToSet(q)
      BY <1>2, SetOf
    <2> QED
      BY <2>1, <1>1, <1>2, <1>4
  <1> QED
    BY <1>1, <1>3, <1>4

\* The user's part of the transcript stays, or gets one more entry.
SentSame == Sent' = Sent /\ \A i \in Sent : messages'[i].id = messages[i].id

SentMore(m) ==
    \E n \in Nat : /\ Sent \subseteq 1..n
                   /\ Sent' = Sent \cup {n + 1}
                   /\ \A i \in Sent : messages'[i].id = messages[i].id
                   /\ messages'[n + 1].id = m

\* Results and answers are not the user's.
LEMMA OthersSent ==
    ASSUME messages \in Seq(Entry), NEW e \in Entry, e.role # "user", messages' = Append(messages, e)
    PROVE  SentSame
  <1> DEFINE n == Len(messages)
  <1>1. n \in Nat /\ Len(messages') = n + 1 /\ (\A k \in 1..n : messages'[k] = messages[k]) /\ messages'[n + 1] = e
    BY Added
  <1>2. Sent' = {i \in 1..(n + 1) : messages'[i].role = "user"} /\ Sent = {i \in 1..n : messages[i].role = "user"}
    BY <1>1 DEF Sent
  <1> HIDE DEF n
  <1> QED
    BY <1>1, <1>2 DEF SentSame

\* A message of the user's is sent.
LEMMA UserSent ==
    ASSUME messages \in Seq(Entry), NEW m \in Msg, messages' = Append(messages, User(m))
    PROVE  SentMore(m)
  <1> DEFINE n == Len(messages)
  <1>1. User(m) \in Entry /\ User(m).role = "user" /\ User(m).id = m
    BY Entries
  <1>2. n \in Nat /\ Len(messages') = n + 1 /\ (\A k \in 1..n : messages'[k] = messages[k]) /\ messages'[n + 1] = User(m)
    BY <1>1, Added
  <1>3. Sent' = {i \in 1..(n + 1) : messages'[i].role = "user"} /\ Sent = {i \in 1..n : messages[i].role = "user"}
    BY <1>2 DEF Sent
  <1> HIDE DEF n
  <1>4. Sent' = Sent \cup {n + 1}
    BY <1>1, <1>2, <1>3
  <1>5. Sent \subseteq 1..n /\ \A i \in Sent : messages'[i].id = messages[i].id
    BY <1>2, <1>3
  <1>6. messages'[n + 1].id = m
    BY <1>1, <1>2
  <1> QED
    BY <1>2, <1>4, <1>5, <1>6 DEF SentMore

\* What is dropped for a retry is not the user's.
LEMMA DroppedSent ==
    ASSUME messages \in Seq(Entry), messages # <<>>, Last(messages).role = "assistant", messages' = Front(messages)
    PROVE  SentSame
  <1> DEFINE n == Len(messages) - 1
  <1>1. /\ n \in Nat /\ Len(messages') = n /\ \A k \in 1..n : messages'[k] = messages[k]
        /\ Len(messages) = n + 1 /\ messages[n + 1].role = "assistant"
    BY LastDropped
  <1>2. Sent' = {i \in 1..n : messages'[i].role = "user"} /\ Sent = {i \in 1..(n + 1) : messages[i].role = "user"}
    BY <1>1 DEF Sent
  <1> HIDE DEF n
  <1> QED
    BY <1>1, <1>2 DEF SentSame

\* The ids that go with it.
LEMMA IdsSame == ASSUME SentSame PROVE SentIds' = SentIds
  BY DEF SentSame, SentIds

\* One more id.
LEMMA IdsMore == ASSUME NEW m, SentMore(m) PROVE SentIds' = SentIds \cup {m}
  <1>1. PICK n \in Nat : /\ Sent \subseteq 1..n
                         /\ Sent' = Sent \cup {n + 1}
                         /\ \A i \in Sent : messages'[i].id = messages[i].id
                         /\ messages'[n + 1].id = m
    BY DEF SentMore
  <1>2. SentIds' = {messages'[i].id : i \in Sent'} /\ SentIds = {messages[i].id : i \in Sent}
    BY DEF SentIds
  <1> QED
    BY <1>1, <1>2

\* And the order of what was sent.
LEMMA OrderSame ==
    ASSUME SentInOrder, SentSame, \A m, n \in SentIds : Precedes(m, n) => Precedes(m, n)'
    PROVE  SentInOrder'
  <1> SUFFICES ASSUME NEW i \in Sent', NEW j \in Sent', i < j
               PROVE  Precedes(messages[i].id, messages[j].id)'
    BY DEF SentInOrder
  <1>1. i \in Sent /\ j \in Sent /\ messages'[i].id = messages[i].id /\ messages'[j].id = messages[j].id
    BY DEF SentSame
  <1>2. PICK m \in SentIds, n \in SentIds : m = messages[i].id /\ n = messages[j].id
    BY <1>1 DEF SentIds
  <1>3. Precedes(m, n)
    BY <1>1, <1>2 DEF SentInOrder
  <1>4. Precedes(m, n)'
    BY <1>3
  <1>5. m = messages'[i].id /\ n = messages'[j].id
    BY <1>1, <1>2
  <1> QED
    BY <1>4, <1>5 DEF Precedes

\* One more entry goes last.
LEMMA OrderMore ==
    ASSUME SentInOrder, NEW m, SentMore(m), via' = via, AllPrecede(SentIds, {m})
    PROVE  SentInOrder'
  <1>1. PICK n \in Nat : /\ Sent \subseteq 1..n
                         /\ Sent' = Sent \cup {n + 1}
                         /\ \A i \in Sent : messages'[i].id = messages[i].id
                         /\ messages'[n + 1].id = m
    BY DEF SentMore
  <1> SUFFICES ASSUME NEW i \in Sent', NEW j \in Sent', i < j
               PROVE  Precedes(messages[i].id, messages[j].id)'
    BY DEF SentInOrder
  <1>2. i \in Sent
    <2>1. i \in Sent \cup {n + 1} /\ j \in Sent \cup {n + 1}
      BY <1>1
    <2>2. j \in 1..n \/ j = n + 1
      BY <1>1, <2>1
    <2>3. i # n + 1
      BY <2>2
    <2> QED
      BY <2>1, <2>3
  <1>3. messages[i].id \in SentIds /\ messages'[i].id = messages[i].id
    BY <1>1, <1>2 DEF SentIds
  <1>4. CASE j \in Sent
    <2>1. Precedes(messages[i].id, messages[j].id) /\ messages'[j].id = messages[j].id
      BY <1>1, <1>2, <1>4 DEF SentInOrder
    <2> QED
      BY <2>1, <1>3 DEF Precedes
  <1>5. CASE j = n + 1
    <2>1. Precedes(messages[i].id, m) /\ messages'[j].id = m
      BY <1>1, <1>3, <1>5 DEF AllPrecede
    <2> QED
      BY <2>1, <1>3 DEF Precedes
  <1> QED
    BY <1>1, <1>4, <1>5

\* A driver that has not begun is one that had not.
SameDrivers ==
    \A m \in Msg : /\ driver'[m] # "none" => driver[m] # "none"
                   /\ driver'[m] = "preflight" => driver[m] = "preflight"

\* A step that moves no message.
LEMMA OrderKept ==
    ASSUME OrderInv, SentSame, SameDrivers, UNCHANGED <<via, pending, steering, followUp, shown, restored>>,
           faults' = 0 => faults = 0
    PROVE  OrderInv'
  <1>1. SentIds' = SentIds /\ Queued' = Queued
    BY IdsSame DEF Queued
  <1>2. Numbered' /\ PromptsFresh'
    BY <1>1 DEF OrderInv, Numbered, PromptsFresh, SameDrivers
  <1>3. InOrder'
    <2>1. SentInOrder'
      BY OrderSame DEF OrderInv, InOrder, Precedes
    <2> QED
      BY <1>1, <2>1 DEF OrderInv, InOrder, Rising, AllPrecede, Precedes
  <1>4. Accounted'
    BY <1>1 DEF OrderInv, Accounted
  <1> QED
    BY <1>2, <1>3, <1>4 DEF OrderInv

\* What is taken from a queue is in the run's hands.
TakenFrom ==
    \/ UNCHANGED <<pending, steering, followUp>>
    \/ pending' = Drain(steering) /\ steering' = Rest(steering) /\ followUp' = followUp
    \/ pending' = Drain(followUp) /\ followUp' = Rest(followUp) /\ steering' = steering

\* Polling, and continuing with what is queued.
LEMMA OrderTaken ==
    ASSUME PartsOK, OrderInv, pending = <<>>, TakenFrom, SameDrivers, UNCHANGED <<via, messages, shown, restored, faults>>
    PROVE  OrderInv'
  <1>1. SentSame /\ SentIds' = SentIds
    BY IdsSame DEF SentSame, Sent
  <1>2. CASE UNCHANGED <<pending, steering, followUp>>
    BY <1>1, <1>2, OrderKept
  <1>3. /\ steering \in Seq(Msg) /\ followUp \in Seq(Msg) /\ Rising(steering) /\ Rising(followUp)
        /\ ToSet(pending) = {} /\ Msg \subseteq Int
    BY AgentLoopAssumption, EmptySeq DEF PartsOK, QueueOK, OrderInv, InOrder, ToSet, Msg
  <1>4. ToSet(steering) \subseteq Msg /\ ToSet(followUp) \subseteq Msg
    BY <1>3, SetOf, ElementOfSeq
  <1>5. ASSUME NEW d, NEW r, NEW q \in {steering, followUp}, NEW o \in {steering, followUp},
               \/ q = steering /\ o = followUp /\ steering' = r /\ followUp' = o
               \/ q = followUp /\ o = steering /\ followUp' = r /\ steering' = o,
               pending' = d, Rising(d), Rising(r), Rising(o), ToSet(q) = ToSet(d) \cup ToSet(r),
               \A m \in ToSet(d), n \in ToSet(r) : m < n
        PROVE  OrderInv'
    <2>1. Queued' = ToSet(r) \cup ToSet(o) /\ Queued = ToSet(q) \cup ToSet(o) /\ ToSet(pending') = ToSet(d)
      BY <1>5 DEF Queued
    <2>2. Numbered'
      <3>1. \A m \in ToSet(d) : via[m] # "none"
        BY <1>5 DEF OrderInv, Numbered
      <3>2. \A m \in ToSet(steering') : via[m] = "steer"
        BY <1>5 DEF OrderInv, Numbered
      <3>3. \A m \in ToSet(followUp') : via[m] = "followUp"
        BY <1>5 DEF OrderInv, Numbered
      <3> QED
        BY <1>1, <2>1, <3>1, <3>2, <3>3 DEF OrderInv, Numbered, SameDrivers
    <2>3. InOrder'
      <3>1. SentInOrder'
        BY <1>1, OrderSame DEF OrderInv, InOrder, Precedes
      <3>2. Rising(pending)' /\ Rising(steering)' /\ Rising(followUp)'
        BY <1>5 DEF Rising
      <3>3. AllPrecede(SentIds, ToSet(d) \cup (ToSet(r) \cup ToSet(o)))
        BY <1>5, <2>1 DEF OrderInv, InOrder, AllPrecede
      <3>4. AllPrecede(ToSet(d), ToSet(r) \cup ToSet(o))
        <4> SUFFICES ASSUME NEW m \in ToSet(d), NEW n \in ToSet(r) \cup ToSet(o)
                     PROVE  Precedes(m, n)
          BY DEF AllPrecede
        <4>1. m \in ToSet(q)
          BY <1>5
        <4>2. CASE n \in ToSet(r)
          <5>1. m < n /\ m \in Msg /\ n \in Msg
            BY <1>4, <1>5, <4>1, <4>2
          <5>2. m # n
            BY <5>1, <1>3
          <5> QED
            BY <5>1, <5>2 DEF Precedes
        <4>3. CASE n \in ToSet(o)
          <5>1. via[m] # via[n]
            BY <1>5, <4>1, <4>3 DEF OrderInv, Numbered
          <5> QED
            BY <5>1 DEF Precedes
        <4> QED
          BY <4>2, <4>3
      <3> QED
        BY <1>1, <2>1, <3>1, <3>2, <3>3, <3>4 DEF InOrder, AllPrecede, Precedes
    <2>4. PromptsFresh'
      <3> SUFFICES ASSUME NEW m \in Msg, driver'[m] = "preflight"
                   PROVE  m \notin SentIds /\ m \notin ToSet(d)
        BY <1>1, <2>1 DEF PromptsFresh
      <3>1. driver[m] = "preflight"
        BY DEF SameDrivers
      <3>2. via[m] = "prompt" /\ m \notin SentIds
        BY <3>1 DEF OrderInv, Numbered, PromptsFresh
      <3>3. \A n \in ToSet(q) : via[n] # "prompt"
        BY <1>5 DEF OrderInv, Numbered
      <3> QED
        BY <1>5, <3>2, <3>3
    <2>5. Accounted'
      <3>1. Queued' \subseteq Queued /\ Queued \cup ToSet(pending) = Queued' \cup ToSet(pending')
        BY <1>3, <1>5, <2>1
      <3> QED
        BY <1>1, <3>1 DEF OrderInv, Accounted
    <2> QED
      BY <2>2, <2>3, <2>4, <2>5 DEF OrderInv
  <1>6. CASE pending' = Drain(steering) /\ steering' = Rest(steering) /\ followUp' = followUp
    <2>1. /\ Rising(Drain(steering)) /\ Rising(Rest(steering))
          /\ ToSet(steering) = ToSet(Drain(steering)) \cup ToSet(Rest(steering))
          /\ \A m \in ToSet(Drain(steering)), n \in ToSet(Rest(steering)) : m < n
      BY <1>3, TakenFirst
    <2> QED
      BY <1>3, <1>5, <1>6, <2>1
  <1>7. CASE pending' = Drain(followUp) /\ followUp' = Rest(followUp) /\ steering' = steering
    <2>1. /\ Rising(Drain(followUp)) /\ Rising(Rest(followUp))
          /\ ToSet(followUp) = ToSet(Drain(followUp)) \cup ToSet(Rest(followUp))
          /\ \A m \in ToSet(Drain(followUp)), n \in ToSet(Rest(followUp)) : m < n
      BY <1>3, TakenFirst
    <2> QED
      BY <1>3, <1>5, <1>7, <2>1
  <1> QED
    BY <1>2, <1>6, <1>7 DEF TakenFrom

\* A message is emitted; if its listener throws the run drops the others.
LEMMA OrderEmitted ==
    ASSUME PartsOK, OrderInv, pending # <<>>, messages' = Append(messages, User(Head(pending))),
           pending' = Tail(pending) \/ (pending' = <<>> /\ faults' > 0),
           faults' = 0 => faults = 0,
           shown' = shown \ {Head(pending)}, UNCHANGED <<via, driver, steering, followUp, restored>>
    PROVE  OrderInv'
  <1>1. PICK h \in Msg : h = Head(pending)
    BY HeadTaken DEF PartsOK, RunOK
  <1>2. /\ pending \in Seq(Msg) /\ Rising(pending) /\ messages \in Seq(Entry) /\ Tail(pending) \in Seq(Msg)
        /\ Msg \subseteq Int
    BY AgentLoopAssumption, HeadTaken DEF PartsOK, RunOK, CountsOK, OrderInv, InOrder, Msg
  <1>3. ToSet(pending) = {h} \cup ToSet(Tail(pending)) /\ Rising(Tail(pending)) /\ \A m \in ToSet(Tail(pending)) : h < m
    BY <1>1, <1>2, SetHead, HeadFirst
  <1>4. SentMore(h) /\ SentIds' = SentIds \cup {h}
    BY <1>1, <1>2, UserSent, IdsMore
  <1>5. /\ ToSet(pending') \subseteq ToSet(Tail(pending)) /\ Rising(pending')
        /\ pending' = Tail(pending) \/ faults' > 0
    <2>1. ToSet(<<>>) = {} /\ Rising(<<>>)
      BY EmptySeq DEF ToSet, Rising
    <2> QED
      BY <1>3, <2>1
  <1>6. Queued' = Queued /\ h \notin Queued
    BY <1>3 DEF Queued, OrderInv, InOrder, AllPrecede, Precedes
  <1>7. Numbered'
    BY <1>3, <1>4, <1>5 DEF OrderInv, Numbered
  <1>8. InOrder'
    <2>1. SentInOrder'
      <3>1. AllPrecede(SentIds, {h})
        BY <1>3 DEF OrderInv, InOrder, AllPrecede
      <3> QED
        BY <1>4, <3>1, OrderMore DEF OrderInv, InOrder
    <2>2. Rising(pending)' /\ Rising(steering)' /\ Rising(followUp)'
      BY <1>5 DEF OrderInv, InOrder, Rising
    <2>3. AllPrecede({h}, ToSet(pending') \cup Queued)
      <3> SUFFICES ASSUME NEW n \in ToSet(pending') \cup Queued
                   PROVE  Precedes(h, n)
        BY DEF AllPrecede
      <3>1. CASE n \in Queued
        BY <3>1, <1>3 DEF OrderInv, InOrder, AllPrecede
      <3>2. CASE n \in ToSet(pending')
        <4>1. h < n /\ n \in Msg
          BY <3>2, <1>2, <1>3, <1>5, SetOf, ElementOfSeq
        <4>2. h # n
          BY <4>1, <1>2
        <4> QED
          BY <4>1, <4>2 DEF Precedes
      <3> QED
        BY <3>1, <3>2
    <2>4. AllPrecede(SentIds \cup {h}, ToSet(pending') \cup Queued) /\ AllPrecede(ToSet(pending'), Queued)
      BY <2>3, <1>3, <1>5 DEF OrderInv, InOrder, AllPrecede
    <2> QED
      BY <1>4, <1>6, <2>1, <2>2, <2>4 DEF InOrder, AllPrecede, Precedes
  <1>9. PromptsFresh'
    BY <1>3, <1>4, <1>5 DEF OrderInv, PromptsFresh
  <1>10. Accounted'
    <2>1. Queued' \subseteq shown'
      BY <1>1, <1>6 DEF OrderInv, Accounted
    <2>2. faults' = 0 => ToSet(pending) \subseteq ToSet(pending') \cup SentIds'
      <3> SUFFICES ASSUME faults' = 0
                   PROVE  ToSet(pending) \subseteq ToSet(pending') \cup SentIds'
        OBVIOUS
      <3>1. pending' = Tail(pending)
        BY <1>5
      <3>2. ToSet(pending') = ToSet(Tail(pending))
        BY <3>1
      <3> QED
        BY <3>2, <1>3, <1>4
    <2> QED
      BY <1>4, <1>6, <2>1, <2>2 DEF OrderInv, Accounted
  <1> QED
    BY <1>7, <1>8, <1>9, <1>10 DEF OrderInv

\* Whatever is sent, held or queued is a message.
LEMMA AllKnown ==
    ASSUME PartsOK
    PROVE  SentIds \cup ToSet(pending) \cup Queued \subseteq Msg
  <1>1. ASSUME NEW i \in Sent
        PROVE  messages[i].id \in Msg
    <2>1. messages[i] \in Entry /\ messages[i].role = "user"
      BY ElementOfSeq DEF Sent, PartsOK, CountsOK
    <2> QED
      BY <2>1, Entries
  <1>2. pending \in Seq(Msg) /\ steering \in Seq(Msg) /\ followUp \in Seq(Msg)
    BY DEF PartsOK, RunOK, QueueOK
  <1>3. ToSet(pending) \subseteq Msg /\ ToSet(steering) \subseteq Msg /\ ToSet(followUp) \subseteq Msg
    BY <1>2, SetOf, ElementOfSeq
  <1> QED
    BY <1>1, <1>3 DEF SentIds, Queued

\* A message queued goes behind all others of its kind.
LEMMA QueueKeeps ==
    ASSUME PartsOK, OrderInv, NEW m \in Msg, Steer(m) \/ FollowUp(m)
    PROVE  OrderInv'
  <1> USE DEF session, queue, loop, tools
  <1>1. /\ via \in [Msg -> {"none", "prompt", "steer", "followUp"}] /\ via[m] = "none"
        /\ \A n \in Msg : n < m => via[n] # "none"
        /\ steering \in Seq(Msg) /\ followUp \in Seq(Msg) /\ Msg \subseteq Int
        /\ UNCHANGED <<driver, messages, pending, restored, faults>> /\ shown' = shown \cup {m}
    <2>1. via \in [Msg -> {"none", "prompt", "steer", "followUp"}] /\ steering \in Seq(Msg) /\ followUp \in Seq(Msg)
      BY DEF PartsOK, SessionOK, QueueOK
    <2>2. Msg \subseteq Int
      BY AgentLoopAssumption DEF Msg
    <2>3. via[m] = "none" /\ \A n \in Msg : n < m => via[n] # "none"
      BY DEF Steer, FollowUp, Fresh
    <2>4. UNCHANGED <<driver, messages, pending, restored, faults>> /\ shown' = shown \cup {m}
      BY DEF Steer, FollowUp, Enqueue
    <2> QED
      BY <2>1, <2>2, <2>3, <2>4
  <1>2. /\ ToSet(Append(steering, m)) = ToSet(steering) \cup {m}
        /\ ToSet(Append(followUp, m)) = ToSet(followUp) \cup {m}
    BY <1>1, SetAdded
  <1>3. SentIds \cup ToSet(pending) \cup Queued \subseteq Msg
    BY AllKnown
  <1>4. \A n \in Msg : via[n] # "none" => n < m
    <2> SUFFICES ASSUME NEW n \in Msg, via[n] # "none"
                 PROVE  n < m
      OBVIOUS
    <2>1. n # m /\ ~(m < n)
      BY <1>1 DEF OrderInv, Numbered
    <2> QED
      BY <2>1, <1>1
  <1>5. PICK k \in {"steer", "followUp"} : via' = [via EXCEPT ![m] = k]
    BY DEF Steer, FollowUp
  <1>6. /\ \A n \in Msg : via'[n] = IF n = m THEN k ELSE via[n]
        /\ \A n \in SentIds \cup ToSet(pending) \cup Queued : n # m /\ n < m /\ via'[n] = via[n] /\ n \in Msg
    <2>1. \A n \in Msg : via'[n] = IF n = m THEN k ELSE via[n]
      BY <1>1, <1>5
    <2>2. \A n \in SentIds \cup ToSet(pending) \cup Queued : via[n] # "none" /\ n \in Msg
      BY <1>3 DEF OrderInv, Numbered, Queued
    <2> QED
      BY <2>1, <2>2, <1>1, <1>4
  <1>7. /\ Queued' = Queued \cup {m} /\ Rising(steering') /\ Rising(followUp')
        /\ \A n \in ToSet(steering') : via'[n] = "steer"
        /\ \A n \in ToSet(followUp') : via'[n] = "followUp"
    <2>1. CASE Steer(m)
      <3>1. steering' = Append(steering, m) /\ followUp' = followUp /\ via'[m] = "steer"
        BY <2>1, <1>1 DEF Steer
      <3>2. Rising(Append(steering, m))
        BY <1>1, <1>6, AddedLast DEF OrderInv, InOrder, Queued
      <3> QED
        BY <3>1, <3>2, <1>2, <1>6 DEF OrderInv, InOrder, Numbered, Queued
    <2>2. CASE FollowUp(m)
      <3>1. followUp' = Append(followUp, m) /\ steering' = steering /\ via'[m] = "followUp"
        BY <2>2, <1>1 DEF FollowUp
      <3>2. Rising(Append(followUp, m))
        BY <1>1, <1>6, AddedLast DEF OrderInv, InOrder, Queued
      <3> QED
        BY <3>1, <3>2, <1>2, <1>6 DEF OrderInv, InOrder, Numbered, Queued
    <2> QED
      BY <2>1, <2>2
  <1>8. SentSame /\ SentIds' = SentIds
    BY <1>1, IdsSame DEF SentSame, Sent
  <1>9. Numbered'
    <2>1. \A a, b \in Msg : b < a /\ via'[a] # "none" => via'[b] # "none"
      <3> SUFFICES ASSUME NEW a \in Msg, NEW b \in Msg, b < a, via'[a] # "none"
                   PROVE  via'[b] # "none"
        OBVIOUS
      <3>1. CASE a = m
        BY <3>1, <1>1, <1>6
      <3>2. CASE a # m
        BY <3>2, <1>6 DEF OrderInv, Numbered
      <3> QED
        BY <3>1, <3>2
    <2>2. \A a \in Msg : driver'[a] # "none" => via'[a] = "prompt"
      BY <1>1, <1>6 DEF OrderInv, Numbered
    <2>3. \A a \in SentIds \cup ToSet(pending) : via'[a] # "none"
      BY <1>6 DEF OrderInv, Numbered
    <2> QED
      BY <1>1, <1>7, <1>8, <2>1, <2>2, <2>3 DEF Numbered
  <1>10. \A a \in SentIds \cup ToSet(pending) \cup Queued, b \in SentIds \cup ToSet(pending) \cup Queued :
            Precedes(a, b) => Precedes(a, b)'
    BY <1>6 DEF Precedes
  <1>11. \A a \in SentIds \cup ToSet(pending) : Precedes(a, m)'
    BY <1>6 DEF Precedes
  <1>12. InOrder'
    <2>1. SentInOrder'
      BY <1>8, <1>10, OrderSame DEF OrderInv, InOrder
    <2>2. AllPrecede(SentIds, ToSet(pending) \cup (Queued \cup {m}))'
      <3> SUFFICES ASSUME NEW a \in SentIds, NEW b \in ToSet(pending) \cup (Queued \cup {m})
                   PROVE  Precedes(a, b)'
        BY <1>1, <1>7, <1>8 DEF AllPrecede
      <3>1. CASE b = m
        BY <3>1, <1>11
      <3>2. CASE b # m
        BY <3>2, <1>10 DEF OrderInv, InOrder, AllPrecede
      <3> QED
        BY <3>1, <3>2
    <2>3. AllPrecede(ToSet(pending), Queued)'
      <3> SUFFICES ASSUME NEW a \in ToSet(pending), NEW b \in Queued \cup {m}
                   PROVE  Precedes(a, b)'
        BY <1>1, <1>7 DEF AllPrecede
      <3>1. CASE b = m
        BY <3>1, <1>11
      <3>2. CASE b # m
        BY <3>2, <1>10 DEF OrderInv, InOrder, AllPrecede
      <3> QED
        BY <3>1, <3>2
    <2>4. AllPrecede(SentIds, ToSet(pending) \cup Queued)'
      BY <2>2, <1>7 DEF AllPrecede
    <2>5. Rising(pending)'
      BY <1>1 DEF OrderInv, InOrder, Rising
    <2> QED
      BY <2>1, <2>3, <2>4, <2>5, <1>7 DEF InOrder, Rising
  <1>13. PromptsFresh'
    BY <1>1, <1>8 DEF OrderInv, PromptsFresh
  <1>14. Accounted'
    <2>1. Queued' \subseteq shown'
      BY <1>1, <1>7 DEF OrderInv, Accounted
    <2>2. faults' = 0 => \A a \in Msg : via'[a] \in {"steer", "followUp"} =>
                            a \in Queued' \cup ToSet(pending') \cup restored' \cup SentIds'
      BY <1>1, <1>6, <1>7, <1>8 DEF OrderInv, Accounted
    <2> QED
      BY <2>1, <2>2 DEF Accounted
  <1> QED
    BY <1>9, <1>12, <1>13, <1>14 DEF OrderInv

\* A prompt comes in.
LEMMA PromptKeeps ==
    ASSUME PartsOK, OrderInv, NEW m \in Msg, Prompt(m)
    PROVE  OrderInv'
  <1> USE DEF session, queue, loop, tools
  <1>1. /\ SessionOK /\ via[m] = "none" /\ \A n \in Msg : n < m => via[n] # "none"
        /\ via' = [via EXCEPT ![m] = "prompt"] /\ driver' = [driver EXCEPT ![m] = "preflight"]
        /\ UNCHANGED <<messages, pending, steering, followUp, shown, restored, faults>>
    BY DEF Prompt, Fresh, PartsOK
  <1>2. /\ \A n \in Msg : via'[n] = IF n = m THEN "prompt" ELSE via[n]
        /\ \A n \in Msg : driver'[n] = IF n = m THEN "preflight" ELSE driver[n]
    BY <1>1 DEF SessionOK
  <1>3. SentSame /\ SentIds' = SentIds /\ Queued' = Queued
    BY <1>1, IdsSame DEF SentSame, Sent, Queued
  <1>4. SentIds \cup ToSet(pending) \cup Queued \subseteq Msg
    BY AllKnown
  <1>5. \A n \in SentIds \cup ToSet(pending) \cup Queued : n # m /\ via'[n] = via[n]
    <2>1. \A n \in SentIds \cup ToSet(pending) \cup Queued : via[n] # "none"
      BY DEF OrderInv, Numbered, Queued
    <2> QED
      BY <2>1, <1>1, <1>2, <1>4
  <1>6. Numbered'
    <2>1. \A a, b \in Msg : b < a /\ via'[a] # "none" => via'[b] # "none"
      BY <1>1, <1>2 DEF OrderInv, Numbered
    <2>2. \A a \in Msg : driver'[a] # "none" => via'[a] = "prompt"
      BY <1>2 DEF OrderInv, Numbered
    <2>3. /\ \A a \in SentIds \cup ToSet(pending) : via'[a] # "none"
          /\ \A a \in ToSet(steering) : via'[a] = "steer"
          /\ \A a \in ToSet(followUp) : via'[a] = "followUp"
      BY <1>5 DEF OrderInv, Numbered, Queued
    <2> QED
      BY <1>1, <1>3, <2>1, <2>2, <2>3 DEF Numbered
  <1>7. \A a \in SentIds \cup ToSet(pending) \cup Queued, b \in SentIds \cup ToSet(pending) \cup Queued :
           Precedes(a, b) => Precedes(a, b)'
    BY <1>5 DEF Precedes
  <1>8. InOrder'
    <2>1. SentInOrder'
      BY <1>3, <1>7, OrderSame DEF OrderInv, InOrder
    <2>2. AllPrecede(SentIds, ToSet(pending) \cup Queued)' /\ AllPrecede(ToSet(pending), Queued)'
      BY <1>1, <1>3, <1>7 DEF OrderInv, InOrder, AllPrecede
    <2> QED
      BY <1>1, <2>1, <2>2 DEF OrderInv, InOrder, Rising
  <1>9. PromptsFresh'
    BY <1>1, <1>2, <1>3, <1>5 DEF OrderInv, PromptsFresh
  <1>10. Accounted'
    BY <1>1, <1>2, <1>3 DEF OrderInv, Accounted
  <1> QED
    BY <1>6, <1>8, <1>9, <1>10 DEF OrderInv

\* The queues are given back to the editor.
LEMMA ClearKeeps ==
    ASSUME OrderInv, ClearQueue
    PROVE  OrderInv'
  <1> USE DEF session, queue, loop, tools
  <1>1. /\ UNCHANGED <<via, driver, messages, pending, faults>> /\ restored' = restored \cup shown
        /\ steering' = <<>> /\ followUp' = <<>>
    BY DEF ClearQueue
  <1>2. ToSet(<<>>) = {} /\ Rising(<<>>)
    BY EmptySeq DEF ToSet, Rising
  <1>3. SentSame /\ SentIds' = SentIds
    BY <1>1, IdsSame DEF SentSame, Sent
  <1>4. Queued' = {} /\ ToSet(steering') = {} /\ ToSet(followUp') = {} /\ Rising(steering') /\ Rising(followUp')
    BY <1>1, <1>2 DEF Queued
  <1>5. Numbered' /\ PromptsFresh'
    BY <1>1, <1>3, <1>4 DEF OrderInv, Numbered, PromptsFresh
  <1>6. InOrder'
    <2>1. SentInOrder'
      BY <1>1, <1>3, OrderSame DEF OrderInv, InOrder, Precedes
    <2>2. AllPrecede(SentIds, ToSet(pending) \cup Queued)' /\ AllPrecede(ToSet(pending), Queued)'
      BY <1>1, <1>3, <1>4 DEF OrderInv, InOrder, AllPrecede, Precedes
    <2> QED
      BY <1>1, <1>4, <2>1, <2>2 DEF OrderInv, InOrder, Rising
  <1>7. Accounted'
    BY <1>1, <1>3, <1>4 DEF OrderInv, Accounted
  <1> QED
    BY <1>5, <1>6, <1>7 DEF OrderInv

\* A custom message is not the user's.
LEMMA CustomKeeps ==
    ASSUME PartsOK, OrderInv, SendCustomMessage
    PROVE  OrderInv'
  <1> USE DEF session, queue, loop, tools
  <1>1. PICK e \in Entry : e = Custom /\ e.role = "custom"
    BY Entries
  <1>2. messages \in Seq(Entry) /\ messages' = Append(messages, e)
    BY <1>1 DEF SendCustomMessage, PartsOK, CountsOK
  <1>3. SentSame
    BY <1>1, <1>2, OthersSent
  <1>4. SameDrivers /\ UNCHANGED <<via, pending, steering, followUp, shown, restored, faults>>
    BY DEF SendCustomMessage, SameDrivers
  <1> QED
    BY <1>3, <1>4, OrderKept

\* A prompt's message is in the hands of the run it starts.
LEMMA BeginKeeps ==
    ASSUME PartsOK, OrderInv, NEW m \in Msg, RunAgentPrompt(m)
    PROVE  OrderInv'
  <1> USE DEF session, queue, loop, tools
  <1>1. /\ SessionOK /\ driver[m] = "preflight"
        /\ UNCHANGED <<via, messages, steering, followUp, shown, restored, faults>>
    BY DEF RunAgentPrompt, PartsOK
  <1>2. SentSame /\ SentIds' = SentIds /\ Queued' = Queued
    BY <1>1, IdsSame DEF SentSame, Sent, Queued
  <1>3. CASE owner # 0
    <2>1. pending' = pending /\ driver' = [driver EXCEPT ![m] = "threw"]
      BY <1>3 DEF RunAgentPrompt, SameRun, Settle
    <2>2. SameDrivers
      BY <1>1, <2>1 DEF SessionOK, SameDrivers
    <2> QED
      BY <1>1, <1>2, <2>1, <2>2, OrderKept
  <1>4. CASE owner = 0
    <2>1. pending' = <<m>> /\ driver' = [driver EXCEPT ![m] = "running"] /\ pc = "off"
      BY <1>4 DEF RunAgentPrompt, RunPrompts, PartsOK, RunOK
    <2>2. ToSet(pending') = {m} /\ Rising(pending') /\ ToSet(pending) = {}
      <3>1. <<m>> \in Seq(Msg) /\ Len(<<m>>) = 1 /\ <<m>>[1] = m
        OBVIOUS
      <3>2. ToSet(<<m>>) = {m} /\ Rising(<<m>>)
        <4>1. 1..1 = {1}
          OBVIOUS
        <4>2. ToSet(<<m>>) = {<<m>>[i] : i \in 1..1}
          BY <3>1, SetOf
        <4>3. Rising(<<m>>)
          BY <3>1 DEF Rising
        <4> QED
          BY <4>1, <4>2, <4>3, <3>1
      <3>3. pending = <<>>
        BY <2>1 DEF PartsOK, RunOK
      <3> QED
        BY <2>1, <3>2, <3>3, EmptySeq DEF ToSet
    <2>3. via[m] = "prompt" /\ m \notin SentIds
      BY <1>1 DEF OrderInv, Numbered, PromptsFresh
    <2>4. \A n \in Msg : driver'[n] = IF n = m THEN "running" ELSE driver[n]
      BY <1>1, <2>1 DEF SessionOK
    <2>5. Numbered'
      BY <1>1, <1>2, <2>2, <2>3, <2>4 DEF OrderInv, Numbered
    <2>6. InOrder'
      <3>1. SentInOrder'
        BY <1>1, <1>2, OrderSame DEF OrderInv, InOrder, Precedes
      <3>2. \A n \in SentIds : Precedes(n, m)
        BY <2>3 DEF Precedes
      <3>3. \A n \in Queued : Precedes(m, n)
        BY <2>3 DEF OrderInv, Numbered, Queued, Precedes
      <3>4. AllPrecede(SentIds, {m} \cup Queued) /\ AllPrecede({m}, Queued)
        BY <3>2, <3>3 DEF OrderInv, InOrder, AllPrecede
      <3> QED
        BY <1>1, <1>2, <2>2, <3>1, <3>4 DEF OrderInv, InOrder, AllPrecede, Precedes, Rising
    <2>7. PromptsFresh'
      BY <1>2, <2>2, <2>4 DEF OrderInv, PromptsFresh
    <2>8. Accounted'
      BY <1>1, <1>2, <2>2 DEF OrderInv, Accounted
    <2> QED
      BY <2>5, <2>6, <2>7, <2>8 DEF OrderInv
  <1> QED
    BY <1>3, <1>4

\* What a driver takes along when it goes on.
LEMMA ContinueTakes ==
    ASSUME SessionOK, pending = <<>>, NEW d \in Msg, driver[d] # "none",
           Continue(d, messages) \/ ContinueOrSettle(d, messages)
    PROVE  TakenFrom /\ SameDrivers
  <1>1. ASSUME NEW x \in {"running", "returned", "threw"}, driver' = [driver EXCEPT ![d] = x]
        PROVE  SameDrivers
    BY <1>1 DEF SessionOK, SameDrivers
  <1>2. CASE Continue(d, messages)
    <2>1. TakenFrom
      BY <1>2 DEF Continue, RunPrompts, RunContinuation, NoRun, TakenFrom
    <2>2. SameDrivers
      BY <1>1, <1>2 DEF Continue, Settle
    <2> QED
      BY <2>1, <2>2
  <1>3. CASE Settle(d, "returned") /\ NoRun /\ UNCHANGED <<steering, followUp>>
    BY <1>1, <1>3 DEF Settle, NoRun, TakenFrom
  <1> QED
    BY <1>2, <1>3 DEF ContinueOrSettle

\* The run polls, emits, streams and runs tools.
LEMMA RunKeeps ==
    ASSUME PartsOK, OrderInv,
           \/ EmitMessage \/ PollSteering \/ PollFollowUps \/ Request
           \/ StreamFails \/ StreamStops \/ StreamCallsTools \/ StreamTruncated
           \/ (\E s \in {"prepared", "done"} : PrepareToolCall(s)) \/ EmitResult \/ TurnEnd
           \/ HandleRunFailure \/ ListenerThrows
    PROVE  OrderInv'
  <1> USE DEF session, queue, loop, tools
  <1>1. UNCHANGED <<via, driver, restored>> /\ SameDrivers
    BY DEF EmitMessage, PollSteering, PollFollowUps, Request, StreamFails, StreamStops, StreamCallsTools,
       StreamTruncated, Streamed, PrepareToolCall, EmitResult, TurnEnd, HandleRunFailure, ListenerThrows, SameDrivers
  <1>2. /\ messages \in Seq(Entry) /\ Failed(<<>>) \in Entry /\ Failed(<<>>).role = "assistant"
        /\ faults \in Nat
        /\ pc \in {"prompts", "inject"} <=> pending # <<>>
    BY Entries DEF PartsOK, CountsOK, RunOK
  <1>3. CASE EmitMessage
    <2>1. /\ pending # <<>> /\ messages' = Append(messages, User(Head(pending))) /\ pending' = Tail(pending)
          /\ shown' = shown \ {Head(pending)} /\ UNCHANGED <<steering, followUp, faults>>
      BY <1>2, <1>3 DEF EmitMessage
    <2> QED
      BY <1>1, <2>1, OrderEmitted
  <1>4. CASE PollSteering \/ PollFollowUps
    <2>1. pending = <<>> /\ UNCHANGED <<messages, shown, faults>>
      BY <1>2, <1>4 DEF PollSteering, PollFollowUps
    <2>2. TakenFrom
      <3>1. CASE PollSteering /\ skip
        BY <2>1, <3>1 DEF PollSteering, TakenFrom
      <3>2. CASE PollSteering /\ ~skip
        BY <3>2 DEF PollSteering, TakenFrom
      <3>3. CASE PollFollowUps
        BY <3>3 DEF PollFollowUps, TakenFrom
      <3> QED
        BY <1>4, <3>1, <3>2, <3>3
    <2> QED
      BY <1>1, <2>1, <2>2, OrderTaken
  <1>5. ASSUME UNCHANGED <<pending, steering, followUp, shown, faults>>,
               \/ messages' = messages
               \/ \E e \in Entry : e.role # "user" /\ messages' = Append(messages, e)
        PROVE  OrderInv'
    <2>1. SentSame
      BY <1>2, <1>5, OthersSent DEF SentSame, Sent
    <2> QED
      BY <1>1, <1>5, <2>1, OrderKept
  <1>6. CASE Request \/ HandleRunFailure
    <2>1. /\ UNCHANGED <<pending, steering, followUp, shown, faults>>
          /\ messages' = messages \/ messages' = Append(messages, Failed(<<>>))
      BY <1>6 DEF Request, HandleRunFailure
    <2> QED
      BY <1>2, <1>5, <2>1
  <1>7. CASE StreamFails \/ StreamStops \/ StreamCallsTools \/ StreamTruncated
    <2>1. PICK a \in Entry, o \in {"ok", "error", "retryable", "aborted"} : Streamed(a, o) /\ a.role = "assistant"
      BY <1>7, StreamKinds DEF StreamEnds
    <2>2. UNCHANGED <<pending, steering, followUp, shown, faults>> /\ messages' = Append(messages, a)
      BY <2>1 DEF Streamed
    <2> QED
      BY <1>5, <2>1, <2>2
  <1>8. CASE TurnEnd \/ \E s \in {"prepared", "done"} : PrepareToolCall(s)
    BY <1>5, <1>8 DEF TurnEnd, PrepareToolCall
  <1>9. CASE EmitResult
    <2>1. UNCHANGED <<pending, steering, followUp, shown, faults>> /\ messages' = Append(messages, Result(batch[out + 1]))
      BY <1>9 DEF EmitResult
    <2>2. Result(batch[out + 1]) \in Entry /\ Result(batch[out + 1]).role = "toolResult"
      <3>1. out + 1 \in 1..Len(batch) /\ \A i \in 1..Len(batch) : batch[i] \in Call
        BY <1>9, LenProperties, ElementOfSeq DEF EmitResult, PartsOK, BatchOK
      <3> QED
        BY <3>1, Entries
    <2> QED
      BY <1>5, <2>1, <2>2
  <1>10. CASE ListenerThrows
    <2>1. faults' > 0 /\ pending' = <<>> /\ UNCHANGED <<steering, followUp>>
      BY <1>2, <1>10 DEF ListenerThrows
    <2>2. CASE pc \in {"prompts", "inject"} /\ messages' = Append(messages, User(Head(pending)))
      <3>1. pending # <<>> /\ messages' # messages
        <4>1. pending # <<>>
          BY <1>2, <2>2
        <4>2. PICK e \in Entry : e = User(Head(pending))
          BY <4>1, HeadTaken, Entries DEF PartsOK, RunOK
        <4>3. Len(messages') = Len(messages) + 1 /\ Len(messages) \in Nat
          BY <1>2, <2>2, <4>2, Added
        <4> QED
          BY <4>1, <4>3
      <3>2. shown' = shown \ {Head(pending)}
        BY <1>10, <3>1 DEF ListenerThrows
      <3> QED
        BY <1>1, <2>1, <2>2, <3>1, <3>2, OrderEmitted
    <2>3. CASE messages' = messages
      <3>1. shown' = shown
        BY <1>10, <2>3 DEF ListenerThrows
      <3>2. SentSame /\ SentIds' = SentIds /\ Queued' = Queued
        BY <2>1, <2>3, IdsSame DEF SentSame, Sent, Queued
      <3>3. ToSet(pending') = {} /\ Rising(pending')
        BY <2>1, EmptySeq DEF ToSet, Rising
      <3>4. Numbered' /\ PromptsFresh'
        BY <1>1, <2>1, <3>2, <3>3 DEF OrderInv, Numbered, PromptsFresh
      <3>5. InOrder'
        <4>1. SentInOrder'
          BY <1>1, <3>2, OrderSame DEF OrderInv, InOrder, Precedes
        <4>2. AllPrecede(SentIds, ToSet(pending) \cup Queued)' /\ AllPrecede(ToSet(pending), Queued)'
          BY <1>1, <3>2, <3>3 DEF OrderInv, InOrder, AllPrecede, Precedes
        <4> QED
          BY <2>1, <3>3, <4>1, <4>2 DEF OrderInv, InOrder, Rising
      <3>6. Accounted'
        BY <2>1, <3>1, <3>2 DEF OrderInv, Accounted
      <3> QED
        BY <3>4, <3>5, <3>6 DEF OrderInv
    <2> QED
      BY <1>10, <2>2, <2>3 DEF ListenerThrows
  <1> QED
    BY <1>3, <1>4, <1>6, <1>7, <1>8, <1>9, <1>10

\* A run ends, its driver wakes or gives up.
LEMMA EndKeeps ==
    ASSUME PartsOK, DriverInv, OrderInv, Finish \/ AbortSession \/ FailureThrows \/ \E d \in Msg : Wake(d)
    PROVE  OrderInv'
  <1> USE DEF session, queue, loop, tools
  <1>1. /\ SessionOK /\ messages \in Seq(Entry) /\ faults \in Nat
        /\ pc \in {"prompts", "inject"} <=> pending # <<>>
        /\ owner # 0 <=> pc # "off"
    BY DEF PartsOK, CountsOK, RunOK
  <1>2. UNCHANGED <<via, shown, restored>>
    BY DEF Finish, AbortSession, FailureThrows, Wake
  <1>3. ASSUME NEW d \in Msg, driver[d] # "none", NEW x \in {"running", "sleeping", "returned", "threw"},
               driver' = [driver EXCEPT ![d] = x]
        PROVE  SameDrivers
    BY <1>1, <1>3 DEF SessionOK, SameDrivers
  <1>4. ASSUME NEW d \in Msg, driver[d] # "none", pending = <<>>, UNCHANGED <<messages, faults>>,
               Continue(d, messages) \/ ContinueOrSettle(d, messages)
        PROVE  OrderInv'
    BY <1>1, <1>2, <1>4, ContinueTakes, OrderTaken
  <1>5. CASE Finish
    <2>1. PICK d \in Msg : d = owner /\ driver[d] # "none" /\ pending = <<>> /\ faults' = faults
      BY <1>1, <1>5 DEF Finish, PartsOK, RunOK, DriverInv, DriversKnown
    <2>2. CASE ContinueOrSettle(owner, messages) /\ messages' = messages
      BY <1>4, <2>1, <2>2
    <2>3. CASE /\ \/ driver' = [driver EXCEPT ![owner] = "sleeping"]
                  \/ driver' = [driver EXCEPT ![owner] = "returned"]
               /\ \/ messages' = messages
                  \/ EndsWithAssistant(messages) /\ messages' = Front(messages)
               /\ NoRun
               /\ UNCHANGED <<steering, followUp>>
      <3>1. SameDrivers
        BY <1>3, <2>1, <2>3
      <3>2. SentSame
        BY <1>1, <2>3, DroppedSent DEF EndsWithAssistant, SentSame, Sent
      <3> QED
        BY <1>2, <2>1, <2>3, <3>1, <3>2, OrderKept DEF NoRun
    <2> QED
      BY <1>5, <2>2, <2>3 DEF Finish, Settle
  <1>6. ASSUME NEW d \in Msg, Wake(d)
        PROVE  OrderInv'
    <2>1. driver[d] # "none" /\ UNCHANGED <<messages, faults>>
      BY <1>6 DEF Wake
    <2>2. CASE owner = 0
      <3>1. pending = <<>> /\ Continue(d, messages)
        BY <1>1, <1>6, <2>2 DEF Wake
      <3> QED
        BY <1>4, <2>1, <3>1
    <2>3. CASE owner # 0
      <3>1. driver' = [driver EXCEPT ![d] = "threw"] /\ UNCHANGED <<pending, steering, followUp>>
        BY <1>6, <2>3 DEF Wake, ContinueBusy, Settle, SameRun
      <3>2. SameDrivers /\ SentSame
        BY <1>3, <2>1, <3>1 DEF SentSame, Sent
      <3> QED
        BY <1>2, <2>1, <3>1, <3>2, OrderKept
    <2> QED
      BY <2>2, <2>3
  <1>7. CASE AbortSession
    <2>1. UNCHANGED <<messages, faults>>
      BY <1>7 DEF AbortSession
    <2>2. CASE sleeper = 0
      <3>1. UNCHANGED <<driver, pending, steering, followUp>>
        BY <1>7, <2>2 DEF AbortSession
      <3>2. SameDrivers /\ SentSame
        BY <2>1, <3>1 DEF SameDrivers, SentSame, Sent
      <3> QED
        BY <1>2, <2>1, <3>1, <3>2, OrderKept
    <2>3. CASE sleeper # 0
      <3>1. PICK d \in Msg : d = sleeper /\ driver[d] # "none"
        BY <1>1, <2>3 DEF SessionOK, DriverInv, DriversKnown
      <3>2. CASE owner = 0
        <4>1. pending = <<>> /\ ContinueOrSettle(d, messages)
          BY <1>1, <1>7, <2>3, <3>1, <3>2 DEF AbortSession
        <4> QED
          BY <1>4, <2>1, <3>1, <4>1
      <3>3. CASE owner # 0
        <4>1. /\ \E how \in {"returned", "threw"} : driver' = [driver EXCEPT ![d] = how]
              /\ UNCHANGED <<pending, steering, followUp>>
          BY <1>7, <2>3, <3>1, <3>3 DEF AbortSession, Settle
        <4>2. SameDrivers /\ SentSame
          BY <1>3, <2>1, <3>1, <4>1 DEF SentSame, Sent
        <4> QED
          BY <1>2, <2>1, <4>1, <4>2, OrderKept
      <3> QED
        BY <3>2, <3>3
    <2> QED
      BY <2>2, <2>3
  <1>8. CASE FailureThrows
    <2>1. /\ pending = <<>> /\ pending' = <<>> /\ UNCHANGED <<messages, steering, followUp>> /\ faults' > 0
          /\ driver' = [driver EXCEPT ![owner] = "threw"]
      BY <1>1, <1>8 DEF FailureThrows, Settle, NoRun
    <2>2. PICK d \in Msg : d = owner /\ driver[d] # "none"
      BY <1>1, <1>8 DEF FailureThrows, PartsOK, RunOK, DriverInv, DriversKnown
    <2>3. SameDrivers /\ SentSame
      BY <1>3, <2>1, <2>2 DEF SentSame, Sent
    <2> QED
      BY <1>2, <2>1, <2>3, OrderKept
  <1> QED
    BY <1>5, <1>6, <1>7, <1>8

\* Every step keeps each message in one place, and in order.
LEMMA OrderNext ==
    ASSUME PartsOK, DriverInv, OrderInv, [LoopNext]_loopVars
    PROVE  OrderInv'
  <1> USE DEF session, queue, loop, tools
  <1>1. CASE (\E c \in Call : ToolEnds(c)) \/ UNCHANGED loopVars
    <2>1. UNCHANGED <<via, driver, messages, pending, steering, followUp, shown, restored, faults>>
      BY <1>1 DEF ToolEnds, loopVars
    <2>2. SameDrivers /\ SentSame
      BY <2>1 DEF SameDrivers, SentSame, Sent
    <2> QED
      BY <2>1, <2>2, OrderKept
  <1>2. ASSUME NEW m \in Msg, PreflightFails(m)
        PROVE  OrderInv'
    <2>1. UNCHANGED <<via, messages, pending, steering, followUp, shown, restored, faults>>
      BY <1>2 DEF PreflightFails
    <2>2. SameDrivers /\ SentSame
      BY <1>2, <2>1 DEF PreflightFails, PartsOK, SessionOK, SameDrivers, SentSame, Sent
    <2> QED
      BY <2>1, <2>2, OrderKept
  <1>3. CASE Input
    BY <1>3, QueueKeeps, PromptKeeps, ClearKeeps, CustomKeeps, EndKeeps DEF Input
  <1>4. CASE Progress
    BY <1>1, <1>2, <1>4, BeginKeeps, RunKeeps, EndKeeps DEF Progress
  <1>5. CASE Fault
    BY <1>5, RunKeeps, EndKeeps DEF Fault
  <1> QED
    BY <1>1, <1>3, <1>4, <1>5 DEF LoopNext

\* A message is at most once in a queue in order.
LEMMA OnceIn ==
    ASSUME NEW q \in Seq(Msg), Rising(q), NEW m \in Msg
    PROVE  /\ Cardinality({i \in DOMAIN q : q[i] = m}) \in {0, 1}
           /\ Cardinality({i \in DOMAIN q : q[i] = m}) = 0 <=> m \notin ToSet(q)
  <1> DEFINE places == {i \in DOMAIN q : q[i] = m}
  <1>1. DOMAIN q = 1..Len(q) /\ Len(q) \in Nat /\ ToSet(q) = {q[i] : i \in 1..Len(q)} /\ Msg \subseteq Int
    BY SetOf, LenProperties, AgentLoopAssumption DEF Msg
  <1>2. CASE m \notin ToSet(q)
    <2>1. places = {}
      BY <1>1, <1>2
    <2> HIDE DEF places
    <2>2. Cardinality(places) = 0
      BY <2>1, FS_EmptySet
    <2> QED
      BY <2>2, <1>2 DEF places
  <1>3. CASE m \in ToSet(q)
    <2>1. PICK k \in 1..Len(q) : q[k] = m
      BY <1>1, <1>3
    <2>2. ASSUME NEW i \in 1..Len(q), q[i] = m
          PROVE  i = k
      <3>1. ~(i < k) /\ ~(k < i)
        BY <2>1, <2>2, <1>1 DEF Rising
      <3> QED
        BY <3>1
    <2>3. places = {k}
      BY <2>1, <2>2, <1>1
    <2> HIDE DEF places
    <2>4. Cardinality(places) = 1
      BY <2>3, FS_Singleton
    <2> QED
      BY <2>4, <1>3 DEF places
  <1> QED
    BY <1>2, <1>3

\* And at most once in the transcript.
LEMMA OnceSent ==
    ASSUME messages \in Seq(Entry), SentInOrder, NEW m \in Msg
    PROVE  /\ Cardinality({i \in DOMAIN messages : messages[i] = User(m)}) \in {0, 1}
           /\ Cardinality({i \in DOMAIN messages : messages[i] = User(m)}) = 0 <=> m \notin SentIds
  <1> DEFINE places == {i \in DOMAIN messages : messages[i] = User(m)}
  <1>1. DOMAIN messages = 1..Len(messages) /\ Len(messages) \in Nat
    BY LenProperties
  <1>2. \A i \in 1..Len(messages) : messages[i] = User(m) <=> i \in Sent /\ messages[i].id = m
    <2> SUFFICES ASSUME NEW i \in 1..Len(messages)
                 PROVE  messages[i] = User(m) <=> messages[i].role = "user" /\ messages[i].id = m
      BY DEF Sent
    <2>1. PICK e \in Entry : e = messages[i]
      BY ElementOfSeq
    <2>2. e.role = "user" => e \in [role : {"user"}, id : Msg]
      BY DEF Entry, Custom
    <2>3. \A u \in [role : {"user"}, id : Msg] : u = [role |-> u.role, id |-> u.id]
      OBVIOUS
    <2>4. e.role = "user" /\ e.id = m => e = User(m)
      BY <2>2, <2>3 DEF User
    <2> QED
      BY <2>1, <2>4 DEF User
  <1>3. places = {i \in Sent : messages[i].id = m}
    BY <1>1, <1>2 DEF Sent
  <1>4. CASE m \notin SentIds
    <2>1. places = {}
      BY <1>3, <1>4 DEF SentIds
    <2> QED
      BY <2>1, <1>4, FS_EmptySet
  <1>5. CASE m \in SentIds
    <2>1. PICK k \in Sent : messages[k].id = m
      BY <1>5 DEF SentIds
    <2>2. ASSUME NEW i \in Sent, messages[i].id = m
          PROVE  i = k
      <3>1. ~(i < k) /\ ~(k < i)
        BY <2>1, <2>2 DEF SentInOrder, Precedes
      <3>2. i \in 1..Len(messages) /\ k \in 1..Len(messages)
        BY DEF Sent
      <3> QED
        BY <3>1, <3>2
    <2>3. places = {k}
      BY <2>1, <2>2, <1>3
    <2>4. Cardinality({k}) = 1
      BY FS_Singleton
    <2> QED
      BY <2>3, <2>4, <1>5
  <1> QED
    BY <1>4, <1>5

\* What the invariant says of every message.
LEMMA KeptInPlace ==
    ASSUME PartsOK, OrderInv
    PROVE  MessagesKept
  <1>1. /\ steering \in Seq(Msg) /\ followUp \in Seq(Msg) /\ pending \in Seq(Msg) /\ messages \in Seq(Entry)
        /\ Rising(steering) /\ Rising(followUp) /\ Rising(pending) /\ SentInOrder
        /\ faults \in Nat
    BY DEF PartsOK, QueueOK, RunOK, CountsOK, OrderInv, InOrder
  <1>2. ASSUME NEW m \in Msg
        PROVE  /\ Places(m) <= 1
               /\ (via[m] \in {"steer", "followUp"} /\ Places(m) = 0) => (m \in restored \/ faults > 0)
    <2> DEFINE s == Cardinality({i \in DOMAIN steering : steering[i] = m})
               f == Cardinality({i \in DOMAIN followUp : followUp[i] = m})
               p == Cardinality({i \in DOMAIN pending : pending[i] = m})
               t == Cardinality({i \in DOMAIN messages : messages[i] = User(m)})
    <2>1. /\ s \in {0, 1} /\ (s = 0 <=> m \notin ToSet(steering))
          /\ f \in {0, 1} /\ (f = 0 <=> m \notin ToSet(followUp))
          /\ p \in {0, 1} /\ (p = 0 <=> m \notin ToSet(pending))
      BY <1>1, OnceIn
    <2>2. t \in {0, 1} /\ (t = 0 <=> m \notin SentIds)
      BY <1>1, OnceSent
    <2>3. Places(m) = s + f + p + t
      BY DEF Places
    <2> HIDE DEF s, f, p, t
    <2>4. /\ ~(m \in ToSet(steering) /\ m \in ToSet(followUp))
          /\ ~(m \in ToSet(pending) /\ m \in Queued)
          /\ ~(m \in SentIds /\ m \in ToSet(pending) \cup Queued)
      BY DEF OrderInv, Numbered, InOrder, AllPrecede, Precedes
    <2>5. Places(m) <= 1
      BY <2>1, <2>2, <2>3, <2>4 DEF Queued
    <2>6. Places(m) = 0 => m \notin Queued \cup ToSet(pending) \cup SentIds
      BY <2>1, <2>2, <2>3 DEF Queued
    <2>7. (via[m] \in {"steer", "followUp"} /\ Places(m) = 0) => (m \in restored \/ faults > 0)
      BY <2>6, <1>1 DEF OrderInv, Accounted
    <2> QED
      BY <2>5, <2>7
  <1>3. ASSUME NEW i \in 1..Len(messages), NEW j \in 1..Len(messages),
               i < j, messages[i].role = "user", messages[j].role = "user"
        PROVE  ~(via[messages[i].id] = via[messages[j].id] /\ via[messages[i].id] # "prompt"
                   /\ messages[i].id > messages[j].id)
    <2>1. i \in Sent /\ j \in Sent
      BY <1>3 DEF Sent
    <2>2. Precedes(messages[i].id, messages[j].id)
      BY <2>1, <1>1, <1>3 DEF SentInOrder
    <2>3. messages[i].id \in Msg /\ messages[j].id \in Msg /\ Msg \subseteq Int
      BY <2>1, AllKnown, AgentLoopAssumption DEF SentIds, Msg
    <2>4. PICK a \in Msg, b \in Msg : a = messages[i].id /\ b = messages[j].id
      BY <2>3
    <2>5. ~(via[a] = via[b] /\ via[a] # "prompt" /\ a > b)
      BY <2>2, <2>3, <2>4 DEF Precedes
    <2> QED
      BY <2>4, <2>5
  <1> QED
    BY <1>2, <1>3 DEF MessagesKept

\* No interleaving of polling, injecting, clearing, retrying and aborting
\* loses a queued message, sends one twice or overtakes one of its kind
\* (PendingMessageQueue of agent.ts, clearQueue of agent-session.ts).
THEOREM MessagesKeptHolds == LoopSpec => []MessagesKept
  <1>1. LoopInit => PartsOK /\ DriverInv /\ OrderInv
    <2> SUFFICES ASSUME LoopInit
                 PROVE  OrderInv
      BY LoopStarts, DriversStart
    <2>1. ToSet(<<>>) = {} /\ Rising(<<>>) /\ Len(<<>>) = 0
      BY EmptySeq DEF ToSet, Rising
    <2>2. Sent = {} /\ SentIds = {} /\ Queued = {} /\ ToSet(pending) = {}
      BY <2>1 DEF LoopInit, Sent, SentIds, Queued
    <2>3. Numbered /\ PromptsFresh /\ Accounted
      BY <2>1, <2>2 DEF LoopInit, Numbered, PromptsFresh, Accounted
    <2>4. InOrder
      BY <2>1, <2>2 DEF LoopInit, InOrder, SentInOrder, AllPrecede
    <2> QED
      BY <2>3, <2>4 DEF OrderInv
  <1>2. PartsOK /\ DriverInv /\ OrderInv /\ [LoopNext]_loopVars => (PartsOK /\ DriverInv /\ OrderInv)'
    BY TypesNext, DriversNext, OrderNext
  <1>3. PartsOK /\ OrderInv => MessagesKept
    BY KeptInPlace
  <1> QED
    BY <1>1, <1>2, <1>3, PTL DEF LoopSpec

================================================================================
