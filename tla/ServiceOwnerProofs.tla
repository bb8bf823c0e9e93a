-------------------------- MODULE ServiceOwnerProofs --------------------------
(* One owner, a reachable service and true diagnoses, for any number of     *)
(* processes, killed anywhere, as long as one starts at a time; with what   *)
(* a start that a shutdown has overtaken may still do to the health file.   *)
EXTENDS ServiceOwner, FiniteSetTheorems, TLAPS

\* The process has had its receipt written, or has given up.
Past(p) == pc[p] \in ServeStates \cup StopStates \cup {"released"} \cup OverStates

Own(p, full) == [by |-> p, n |-> attempt[p], full |-> full]

\* If q has begun a shutdown, health tells it, unless a late start wrote over it.
HealthTells(q) ==
    exit[q] # None /\ NoneLateBut(q) => health.id = MyId(q) /\ health.exit = exit[q]

OneStarter ==
    \A p, q \in Process : pc[p] \in AcquireStates /\ pc[q] \in AcquireStates => p = q

\* Who owns the service has its receipt in the file, from its creation on.
OwnerHolds ==
    \A p \in Process : /\ Owner(p) => ownerFile = Own(p, TRUE)
                       /\ pc[p] = "write" => ownerFile = Own(p, FALSE)

\* A complete receipt is of a process that got past its start, and names its
\* last attempt.
ReceiptSound ==
    ownerFile # None /\ ownerFile.full =>
        /\ Past(ownerFile.by) /\ ownerFile.n = attempt[ownerFile.by]
        /\ HealthTells(ownerFile.by)

\* What a starter knows of the receipt it has read, and that it stays true
\* until the receipt is renamed and diagnosed.
StarterKnows ==
    \A p \in Process : pc[p] \in {"inspect", "rename", "diagnose"} =>
        /\ seen[p].full /\ Past(seen[p].by) /\ seen[p].n = attempt[seen[p].by]
        /\ pc[p] # "diagnose" => ownerFile \in {None, seen[p]}
        /\ pc[p] # "inspect" => ~Alive(seen[p].by)
        /\ pc[p] = "diagnose" => ownerFile = None /\ HealthTells(seen[p].by)

ListenerBound == \A p \in Process : pc[p] \in {"recover", "ready"} => socket = p

\* A shutdown is classified once, and health never tells of one that was not.
ExitSound ==
    /\ \A p \in Process : exit[p] # None => pc[p] \in StopStates \cup {"released"} \cup OverStates
    /\ health.exit # None => health.id \in ServiceId /\ exit[health.id[1]] = health.exit

\* Health says "ready" of a ready service, of a dead one, or of a late start.
ReadySound ==
    health.ready =>
        /\ health.id \in ServiceId
        /\ late[health.id[1]] = "no" => pc[health.id[1]] \in {"ready", "dead"}

\* What a diagnosis says of how q ended.
Truthful(q, said) ==
    /\ said = "planned" => exit[q] = "planned"
    /\ exit[q] = "planned" /\ NoneLateBut(q) => said = "planned"

HistorySound ==
    \A d \in history : pc[d.id[1]] \in OverStates /\ Truthful(d.id[1], d.exit)

Supervised ==
    /\ OneStarter /\ OwnerHolds /\ ReceiptSound /\ StarterKnows
    /\ ListenerBound /\ ExitSound /\ ReadySound /\ HistorySound

\* Whoever looks at a receipt has read one, however many start.
ReceiptRead ==
    \A p \in Process : pc[p] \in {"inspect", "rename", "diagnose"} => seen[p] \in Receipt

IndInv == TypeOK /\ ReceiptRead /\ (starters = 1 => Supervised)

-----------------------------------------------------------------------------

\* A late start stays one.
LateGrows == \A q \in Process : late[q] # "no" => late'[q] # "no"

\* A late start stays one, so what holds while none is late holds on.
LEMMA LateStays ==
    ASSUME LateGrows, NEW q \in Process
    PROVE  NoneLateBut(q)' => NoneLateBut(q)
  BY DEF NoneLateBut, LateGrows

\* A step of a process that is not over leaves the diagnoses of others true.
LEMMA HistoryFrame ==
    ASSUME TypeOK, HistorySound, NEW p \in Process, pc[p] \notin OverStates,
           \A q \in Process \ {p} : pc'[q] = pc[q] /\ exit'[q] = exit[q],
           LateGrows,
           history' = history
    PROVE  HistorySound'
<1> SUFFICES ASSUME NEW d \in history
             PROVE  pc'[d.id[1]] \in OverStates /\ Truthful(d.id[1], d.exit)'
  BY DEF HistorySound
<1>1. d.id[1] \in Process /\ d.id[1] # p
  BY DEF TypeOK, ServiceId, HistorySound
<1>2. NoneLateBut(d.id[1])' => NoneLateBut(d.id[1])
  BY <1>1, LateStays
<1> QED
  BY <1>1, <1>2 DEF HistorySound, Truthful

\* Health goes on to tell of a shutdown while nobody writes it.
LEMMA TellsFrame ==
    ASSUME LateGrows, NEW q \in Process, HealthTells(q),
           health' = health, exit' = exit, attempt'[q] = attempt[q]
    PROVE  HealthTells(q)'
  BY LateStays DEF HealthTells, MyId

\* A process that is not acquiring, or stops acquiring, disturbs no starter, if
\* it writes health only while nobody diagnoses.
LEMMA StarterFrame ==
    ASSUME TypeOK, ReceiptRead, StarterKnows, LateGrows, NEW p \in Process,
           \A q \in Process \ {p} : pc'[q] = pc[q] /\ seen'[q] = seen[q],
           pc'[p] \notin {"inspect", "rename", "diagnose"},
           Past(p) => Past(p)', ~Alive(p) => ~Alive(p)',
           attempt' = attempt, ownerFile' \in {None, ownerFile},
           (health' = health /\ exit' = exit) \/ \A q \in Process : pc[q] # "diagnose"
    PROVE  StarterKnows'
<1> SUFFICES ASSUME NEW q \in Process, pc'[q] \in {"inspect", "rename", "diagnose"}
             PROVE  /\ seen'[q].full /\ Past(seen[q].by)' /\ seen'[q].n = attempt'[seen'[q].by]
                    /\ pc'[q] # "diagnose" => ownerFile' \in {None, seen'[q]}
                    /\ pc'[q] # "inspect" => ~Alive(seen[q].by)'
                    /\ pc'[q] = "diagnose" => ownerFile' = None /\ HealthTells(seen[q].by)'
  BY DEF StarterKnows
<1>1. q # p /\ pc'[q] = pc[q] /\ seen'[q] = seen[q]
  OBVIOUS
<1>2. seen[q].by \in Process
  BY <1>1 DEF ReceiptRead, Receipt
<1>3. Past(seen[q].by)' /\ (~Alive(seen[q].by) => ~Alive(seen[q].by)')
  <2>1. CASE seen[q].by = p
    BY <2>1, <1>1 DEF StarterKnows
  <2>2. CASE seen[q].by # p
    BY <2>2, <1>1, <1>2 DEF StarterKnows, Past, Alive
  <2> QED
    BY <2>1, <2>2
<1>4. pc'[q] = "diagnose" => HealthTells(seen[q].by)'
  <2>1. ASSUME pc'[q] = "diagnose" PROVE HealthTells(seen[q].by)'
    <3>1. HealthTells(seen[q].by) /\ health' = health /\ exit' = exit
      BY <2>1, <1>1 DEF StarterKnows
    <3> DEFINE c == seen[q].by
    <3>2. HealthTells(c)'
      BY <3>1, <1>2, TellsFrame
    <3> QED
      BY <3>2, <1>1
  <2> QED
    BY <2>1
<1> QED
  BY <1>1, <1>2, <1>3, <1>4 DEF StarterKnows

\* Health stays ready of whom it was while nobody writes it and no ready
\* service turns to anything but death.
LEMMA ReadyFrame ==
    ASSUME TypeOK, ReadySound, LateGrows, NEW p \in Process, health' = health,
           \A q \in Process \ {p} : pc'[q] = pc[q],
           pc[p] \in {"ready", "dead"} => pc'[p] \in {"ready", "dead"}
    PROVE  ReadySound'
<1> SUFFICES ASSUME health.ready
             PROVE  late'[health.id[1]] = "no" => pc'[health.id[1]] \in {"ready", "dead"}
  BY DEF ReadySound
<1>1. health.id[1] \in Process
  BY DEF ReadySound, ServiceId
<1> QED
  BY <1>1 DEF ReadySound, LateGrows

\* A receipt is not the absence of one.
LEMMA OwnReceipt ==
    ASSUME TypeOK, NEW p \in Process, NEW full \in BOOLEAN
    PROVE  Own(p, full) \in Receipt /\ Own(p, full) # None
<1>1. Own(p, full) \in Receipt
  BY DEF TypeOK, Receipt, Own
<1> QED
  BY <1>1, ServiceOwnerAssumption

\* A complete receipt is never that of a process still acquiring, so a retry
\* does not change the attempt it names.
LEMMA ReceiptOfAnother ==
    ASSUME TypeOK, Supervised, NEW p \in Process, pc[p] \in AcquireStates,
           ownerFile # None, ownerFile.full
    PROVE  ownerFile.by \in Process \ {p}
<1>1. ownerFile.by \in Process
  BY DEF TypeOK, Receipt
<1>2. Past(ownerFile.by)
  BY DEF Supervised, ReceiptSound
<1> QED
  BY <1>1, <1>2 DEF Past, AcquireStates, ServeStates, StopStates, OverStates

\* While a service has an owner nobody is diagnosing an earlier one: the
\* receipt that was renamed away was the only one.
LEMMA OwnerAlone ==
    ASSUME TypeOK, Supervised, NEW p \in Process, Owner(p)
    PROVE  /\ ownerFile = Own(p, TRUE) /\ ownerFile # None
           /\ \A q \in Process : pc[q] # "diagnose" /\ pc[q] # "write" /\ (Owner(q) => q = p)
<1>1. ownerFile = Own(p, TRUE) /\ ownerFile # None
  BY OwnReceipt DEF Supervised, OwnerHolds
<1>2. ASSUME NEW q \in Process PROVE pc[q] # "diagnose"
  BY <1>1 DEF Supervised, StarterKnows
<1>3. ASSUME NEW q \in Process PROVE pc[q] # "write" /\ (Owner(q) => q = p)
  BY <1>1 DEF Supervised, OwnerHolds, Own
<1> QED
  BY <1>1, <1>2, <1>3


\* What a process writes of itself is a snapshot.
LEMMA HealthType ==
    ASSUME TypeOK, NEW p \in Process, NEW e \in ExitKind \cup {None}
    PROVE  /\ [id |-> MyId(p), exit |-> e, ready |-> TRUE]
                \in [id : ServiceId \cup {None}, exit : ExitKind \cup {None}, ready : BOOLEAN]
           /\ [id |-> MyId(p), exit |-> e, ready |-> FALSE]
                \in [id : ServiceId \cup {None}, exit : ExitKind \cup {None}, ready : BOOLEAN]
<1>1. MyId(p) \in ServiceId
  BY DEF TypeOK, MyId, ServiceId
<1> QED
  BY <1>1

\* Diagnoses stay true while no process ends.
LEMMA LateHistory ==
    ASSUME TypeOK, Supervised, LateGrows, UNCHANGED <<pc, history, exit>>
    PROVE  HistorySound'
<1> SUFFICES ASSUME NEW d \in history
             PROVE  pc'[d.id[1]] \in OverStates /\ Truthful(d.id[1], d.exit)'
  BY DEF HistorySound
<1>1. d.id[1] \in Process
  BY DEF TypeOK, ServiceId
<1>2. NoneLateBut(d.id[1])' => NoneLateBut(d.id[1])
  BY <1>1, LateStays
<1> QED
  BY <1>2 DEF Supervised, HistorySound, Truthful

\* What a late start writes into health is excepted for every other service,
\* and is true of its own.
LEMMA LateWriteKeeps ==
    ASSUME TypeOK, ReceiptRead, Supervised, LateGrows, NEW p \in Process,
           late[p] # "no", late'[p] # "no", Alive(p),
           UNCHANGED <<pc, attempt, seen, ownerFile, socket, history, exit>>,
           \/ health' = health
           \/ health' = [id |-> MyId(p), exit |-> exit[p], ready |-> TRUE]
           \/ health' = [id |-> MyId(p), exit |-> exit[p], ready |-> FALSE]
    PROVE  Supervised'
<1>1. OneStarter' /\ OwnerHolds' /\ ListenerBound'
  BY DEF Supervised, OneStarter, OwnerHolds, ListenerBound, Owner, Own
<1>2. CASE health' = health
  <2>1. \A q \in Process : HealthTells(q) => HealthTells(q)'
    BY <1>2, TellsFrame
  <2>2. ReceiptSound'
    BY <2>1 DEF Supervised, ReceiptSound, Past, TypeOK, Receipt
  <2>3. StarterKnows'
    BY <2>1 DEF Supervised, StarterKnows, Past, Alive, ReceiptRead, Receipt
  <2>4. ExitSound'
    BY <1>2 DEF Supervised, ExitSound
  <2>5. ReadySound'
    BY <1>2, ReadyFrame DEF Supervised
  <2> QED
    BY <1>1, <2>2, <2>3, <2>4, <2>5, LateHistory DEF Supervised
<1>3. CASE health'.id = MyId(p) /\ health'.exit = exit[p]
  <2>1. \A q \in Process : HealthTells(q)'
    <3> SUFFICES ASSUME NEW q \in Process PROVE HealthTells(q)'
      OBVIOUS
    <3>1. CASE q = p
      BY <1>3, <3>1 DEF HealthTells, MyId
    <3>2. CASE q # p
      BY <3>2 DEF HealthTells, NoneLateBut
    <3> QED
      BY <3>1, <3>2
  <2>2. ReceiptSound'
    BY <2>1 DEF Supervised, ReceiptSound, Past, TypeOK, Receipt
  <2>3. StarterKnows'
    BY <2>1 DEF Supervised, StarterKnows, Past, Alive, ReceiptRead, Receipt
  <2>4. ExitSound'
    BY <1>3 DEF Supervised, ExitSound, MyId, ServiceId, TypeOK
  <2>5. ReadySound'
    BY <1>3 DEF ReadySound, MyId, ServiceId, TypeOK
  <2> QED
    BY <1>1, <2>2, <2>3, <2>4, <2>5, LateHistory DEF Supervised
<1>4. \/ health' = health
      \/ health'.id = MyId(p) /\ health'.exit = exit[p]
  <2>1. ASSUME NEW c \in BOOLEAN, health' = [id |-> MyId(p), exit |-> exit[p], ready |-> c]
        PROVE  health'.id = MyId(p) /\ health'.exit = exit[p]
    BY <2>1
  <2> QED
    BY <2>1
<1> QED
  BY <1>2, <1>3, <1>4

\* A new process starts at its first attempt.
LEMMA StartType ==
    ASSUME TypeOK, ReceiptRead, NEW p \in Process, Start(p)
    PROVE  TypeOK' /\ ReceiptRead' /\ starters' = starters
  BY ServiceOwnerAssumption DEF TypeOK, ReceiptRead, Start, Goto, AcquireStates

\* It is the only one acquiring: the set that is counted is empty.
LEMMA StartKeeps ==
    ASSUME TypeOK, ReceiptRead, TypeOK', Supervised, starters = 1, NEW p \in Process, Start(p)
    PROVE  Supervised'
<1> USE ServiceOwnerAssumption DEF Start, Goto, TypeOK, Supervised, AcquireStates, ServeStates, StopStates, OverStates
<1>0. LateGrows
  BY DEF LateGrows
<1>1. OneStarter'
  <2> DEFINE A == {q \in Process : pc[q] \in AcquireStates}
  <2>1. A = {}
    <3> SUFFICES ASSUME NEW q \in A PROVE FALSE
      OBVIOUS
    <3>1. A = {q}
      BY DEF OneStarter
    <3>2. Cardinality(A) < 1
      BY DEF Start
    <3> HIDE DEF A
    <3>3. Cardinality(A) = 1
      BY <3>1, FS_Singleton
    <3> QED
      BY <3>2, <3>3
  <2> QED
    BY <2>1 DEF OneStarter
<1>2. OwnerHolds'
  BY DEF OwnerHolds, Owner, Own
<1>3. ReceiptSound'
  BY DEF ReceiptSound, Past, HealthTells, NoneLateBut, MyId
<1>4. StarterKnows'
  BY <1>1 DEF StarterKnows, OneStarter
<1>5. ListenerBound'
  BY DEF ListenerBound, OwnerHolds
<1>6. ExitSound'
  BY DEF ExitSound, MyId
<1>7. HistorySound'
  <2>1. \A q \in Process \ {p} : pc'[q] = pc[q] /\ exit'[q] = exit[q]
    OBVIOUS
  <2> QED
    BY <1>0, <2>1, HistoryFrame
<1>8. ReadySound'
  <2>1. \A q \in Process \ {p} : pc'[q] = pc[q]
    OBVIOUS
  <2>2. pc[p] \in {"ready", "dead"} => pc'[p] \in {"ready", "dead"}
    OBVIOUS
  <2> QED
    BY <1>0, <2>1, <2>2, ReadyFrame
<1> QED
  BY <1>1, <1>2, <1>3, <1>4, <1>5, <1>6, <1>7, <1>8

\* Opening with "wx" creates an own, incomplete receipt.
LEMMA OpenExclusiveType ==
    ASSUME TypeOK, ReceiptRead, NEW p \in Process, OpenExclusive(p)
    PROVE  TypeOK' /\ ReceiptRead' /\ starters' = starters
<1>1. pc' \in [Process -> {"off"} \cup AcquireStates \cup ServeStates \cup StopStates
                    \cup {"released"} \cup OverStates]
  BY DEF TypeOK, OpenExclusive, Goto, AcquireStates
<1>2. ownerFile' \in Receipt \cup {None}
  BY OwnReceipt DEF TypeOK, OpenExclusive, Own
<1>3. ReceiptRead'
  BY DEF TypeOK, ReceiptRead, OpenExclusive, Goto
<1> QED
  BY <1>1, <1>2, <1>3 DEF TypeOK, OpenExclusive

\* The file was free, so nobody owned the service; or it was not, and
\* nothing moves.
LEMMA OpenExclusiveKeeps ==
    ASSUME TypeOK, ReceiptRead, TypeOK', Supervised, starters = 1, NEW p \in Process, OpenExclusive(p)
    PROVE  Supervised'
<1> USE ServiceOwnerAssumption DEF OpenExclusive, Goto, TypeOK, Supervised, AcquireStates, ServeStates, StopStates, OverStates
<1>0. LateGrows
  BY DEF LateGrows
<1>1. OneStarter'
  BY DEF OneStarter
<1>2. OwnerHolds'
  <2>1. CASE ownerFile = None
    <3>1. \A q \in Process : ~Owner(q) /\ pc[q] # "write"
      BY <2>1, OwnReceipt DEF OwnerHolds
    <3>2. ownerFile' = Own(p, FALSE)' /\ pc'[p] = "write"
      BY <2>1 DEF Own
    <3> QED
      BY <3>1, <3>2 DEF OwnerHolds, Owner
  <2>2. CASE ownerFile # None
    BY <2>2 DEF OwnerHolds, Owner, Own
  <2> QED
    BY <2>1, <2>2
<1>3. ReceiptSound'
  <2>1. CASE ownerFile = None
    BY <2>1 DEF ReceiptSound
  <2>2. CASE ownerFile # None
    <3> SUFFICES ASSUME ownerFile.full
                 PROVE  ReceiptSound'
      BY <2>2 DEF ReceiptSound
    <3>1. ownerFile.by \in Process \ {p}
      BY <2>2, ReceiptOfAnother
    <3> QED
      BY <2>2, <3>1 DEF ReceiptSound, Past, HealthTells, NoneLateBut, MyId
  <2> QED
    BY <2>1, <2>2
<1>4. StarterKnows'
  BY DEF StarterKnows, OneStarter
<1>5. ListenerBound'
  BY DEF ListenerBound, OwnerHolds
<1>6. ExitSound'
  BY DEF ExitSound, MyId
<1>7. HistorySound'
  <2>1. \A q \in Process \ {p} : pc'[q] = pc[q] /\ exit'[q] = exit[q]
    OBVIOUS
  <2> QED
    BY <1>0, <2>1, HistoryFrame
<1>8. ReadySound'
  <2>1. \A q \in Process \ {p} : pc'[q] = pc[q]
    OBVIOUS
  <2>2. pc[p] \in {"ready", "dead"} => pc'[p] \in {"ready", "dead"}
    OBVIOUS
  <2> QED
    BY <1>0, <2>1, <2>2, ReadyFrame
<1> QED
  BY <1>1, <1>2, <1>3, <1>4, <1>5, <1>6, <1>7, <1>8

\* Writing completes the receipt that was opened.
LEMMA WriteReceiptType ==
    ASSUME TypeOK, ReceiptRead, NEW p \in Process, WriteReceipt(p)
    PROVE  TypeOK' /\ ReceiptRead' /\ starters' = starters
<1>1. pc' \in [Process -> {"off"} \cup AcquireStates \cup ServeStates \cup StopStates
                    \cup {"released"} \cup OverStates]
  BY DEF TypeOK, WriteReceipt, Goto, ServeStates
<1>2. ownerFile' \in Receipt \cup {None}
  <2>1. CASE ownerFile = [by |-> p, n |-> attempt[p], full |-> FALSE]
    <3>1. ownerFile' = [by |-> p, n |-> attempt[p], full |-> TRUE]
      BY <2>1 DEF WriteReceipt
    <3> QED
      BY <3>1 DEF TypeOK, Receipt
  <2>2. CASE ownerFile # [by |-> p, n |-> attempt[p], full |-> FALSE]
    BY <2>2 DEF TypeOK, WriteReceipt
  <2> QED
    BY <2>1, <2>2
<1>3. ReceiptRead'
  BY DEF ReceiptRead, WriteReceipt, Goto
<1> QED
  BY <1>1, <1>2, <1>3 DEF TypeOK, WriteReceipt

\* The receipt is still in place, since nobody else acquires: the writer
\* becomes the owner.
LEMMA WriteReceiptKeeps ==
    ASSUME TypeOK, ReceiptRead, TypeOK', Supervised, starters = 1, NEW p \in Process, WriteReceipt(p)
    PROVE  Supervised'
<1> USE ServiceOwnerAssumption DEF WriteReceipt, Goto, TypeOK, Supervised, AcquireStates, ServeStates, StopStates, OverStates
<1>0. LateGrows
  BY DEF LateGrows
<1>1. OneStarter'
  BY DEF OneStarter
<1>2. OwnerHolds'
  <2>1. ownerFile' = Own(p, TRUE)
    <3>1. ownerFile = [by |-> p, n |-> attempt[p], full |-> FALSE]
      BY DEF OwnerHolds, Own
    <3>2. ownerFile' = [by |-> p, n |-> attempt[p], full |-> TRUE]
      BY <3>1 DEF WriteReceipt
    <3> QED
      BY <3>2 DEF Own
  <2>2. \A q \in Process : ~Owner(q) /\ (q # p => pc[q] # "write")
    BY OwnerAlone DEF OneStarter
  <2> QED
    BY <2>1, <2>2 DEF OwnerHolds, Owner, Own
<1>3. ReceiptSound'
  BY DEF ReceiptSound, OwnerHolds, Own, Past, HealthTells, NoneLateBut, ExitSound
<1>4. StarterKnows'
  BY DEF StarterKnows, OneStarter
<1>5. ListenerBound'
  BY DEF ListenerBound, OwnerHolds
<1>6. ExitSound'
  BY DEF ExitSound, MyId
<1>7. HistorySound'
  <2>1. \A q \in Process \ {p} : pc'[q] = pc[q] /\ exit'[q] = exit[q]
    OBVIOUS
  <2> QED
    BY <1>0, <2>1, HistoryFrame
<1>8. ReadySound'
  <2>1. \A q \in Process \ {p} : pc'[q] = pc[q]
    OBVIOUS
  <2>2. pc[p] \in {"ready", "dead"} => pc'[p] \in {"ready", "dead"}
    OBVIOUS
  <2> QED
    BY <1>0, <2>1, <2>2, ReadyFrame
<1> QED
  BY <1>1, <1>2, <1>3, <1>4, <1>5, <1>6, <1>7, <1>8

\* Only a complete receipt is looked at.
LEMMA ReadOwnerType ==
    ASSUME TypeOK, ReceiptRead, NEW p \in Process, ReadOwner(p)
    PROVE  TypeOK' /\ ReceiptRead' /\ starters' = starters
  BY ServiceOwnerAssumption DEF TypeOK, ReceiptRead, ReadOwner, Goto, Retry, AcquireStates,
     OverStates

\* What was read is the receipt in place, of a process past its start.
LEMMA ReadOwnerKeeps ==
    ASSUME TypeOK, ReceiptRead, TypeOK', Supervised, starters = 1, NEW p \in Process, ReadOwner(p)
    PROVE  Supervised'
<1> USE ServiceOwnerAssumption DEF ReadOwner, Goto, Retry, TypeOK, Supervised, AcquireStates, ServeStates, StopStates, OverStates
<1>0. LateGrows
  BY DEF LateGrows
<1>1. OneStarter'
  BY DEF OneStarter
<1>2. OwnerHolds'
  BY DEF OwnerHolds, Owner, Own
<1>3. ReceiptSound'
  <2> SUFFICES ASSUME ownerFile' # None, ownerFile'.full
               PROVE  ReceiptSound'
    BY DEF ReceiptSound
  <2>1. ownerFile' = ownerFile /\ ownerFile.by \in Process \ {p}
    BY ReceiptOfAnother
  <2> QED
    BY <2>1 DEF ReceiptSound, Past, HealthTells, NoneLateBut, MyId
<1>4. StarterKnows'
  BY DEF StarterKnows, OneStarter, ReceiptSound, Past, Receipt
<1>5. ListenerBound'
  BY DEF ListenerBound, OwnerHolds
<1>6. ExitSound'
  BY DEF ExitSound, MyId
<1>7. HistorySound'
  <2>1. \A q \in Process \ {p} : pc'[q] = pc[q] /\ exit'[q] = exit[q]
    OBVIOUS
  <2> QED
    BY <1>0, <2>1, HistoryFrame
<1>8. ReadySound'
  <2>1. \A q \in Process \ {p} : pc'[q] = pc[q]
    OBVIOUS
  <2>2. pc[p] \in {"ready", "dead"} => pc'[p] \in {"ready", "dead"}
    OBVIOUS
  <2> QED
    BY <1>0, <2>1, <2>2, ReadyFrame
<1> QED
  BY <1>1, <1>2, <1>3, <1>4, <1>5, <1>6, <1>7, <1>8

\* Inspecting moves only the inspector.
LEMMA InspectOwnerType ==
    ASSUME TypeOK, ReceiptRead, NEW p \in Process, InspectOwner(p)
    PROVE  TypeOK' /\ ReceiptRead' /\ starters' = starters
  BY ServiceOwnerAssumption DEF TypeOK, ReceiptRead, InspectOwner, Forget, Goto, AcquireStates,
     OverStates

\* A process that is not alive now, and is past its start, never will be
\* again.
LEMMA InspectOwnerKeeps ==
    ASSUME TypeOK, ReceiptRead, TypeOK', Supervised, starters = 1, NEW p \in Process, InspectOwner(p)
    PROVE  Supervised'
<1> USE ServiceOwnerAssumption DEF InspectOwner, Forget, Goto, Alive, TypeOK, Supervised, AcquireStates, ServeStates, StopStates, OverStates
<1>0. LateGrows
  BY DEF LateGrows
<1>1. OneStarter'
  BY DEF OneStarter
<1>2. OwnerHolds'
  BY DEF OwnerHolds, Owner, Own
<1>3. ReceiptSound'
  <2> SUFFICES ASSUME ownerFile' # None, ownerFile'.full
               PROVE  /\ Past(ownerFile.by)' /\ ownerFile'.n = attempt'[ownerFile.by]
                      /\ HealthTells(ownerFile.by)'
    BY DEF ReceiptSound
  <2> DEFINE b == ownerFile.by
  <2>1. b \in Process /\ ownerFile # None /\ Past(b) /\ HealthTells(b)
        /\ ownerFile.n = attempt[b]
    BY DEF ReceiptSound, Receipt
  <2>2. HealthTells(b)'
    BY <1>0, <2>1, TellsFrame
  <2>3. Past(b)'
    BY <2>1 DEF Past, Alive
  <2> QED
    BY <2>1, <2>2, <2>3
<1>4. StarterKnows'
  <2>1. \A q \in Process \ {p} : pc'[q] \notin AcquireStates
    BY DEF OneStarter
  <2>2. CASE Alive(seen[p].by)
    <3>1. pc'[p] = "failed"
      BY <2>2
    <3> QED
      BY <2>1, <3>1 DEF StarterKnows
  <2>3. CASE ~Alive(seen[p].by)
    <3>1. pc'[p] = "rename" /\ seen' = seen /\ attempt' = attempt /\ ownerFile' = ownerFile
      BY <2>3
    <3>2. /\ Past(seen[p].by) /\ seen[p].full /\ seen[p].n = attempt[seen[p].by]
          /\ ownerFile \in {None, seen[p]} /\ seen[p].by \in Process \ {p}
      BY <2>3 DEF StarterKnows, ReceiptRead, Receipt, Past
    <3>3. Past(seen[p].by)' /\ ~Alive(seen[p].by)'
      BY <2>3, <3>1, <3>2 DEF Past, Alive
    <3> QED
      BY <2>1, <3>1, <3>2, <3>3 DEF StarterKnows
  <2> QED
    BY <2>2, <2>3
<1>5. ListenerBound'
  BY DEF ListenerBound, OwnerHolds
<1>6. ExitSound'
  BY DEF ExitSound, MyId
<1>7. HistorySound'
  <2>1. \A q \in Process \ {p} : pc'[q] = pc[q] /\ exit'[q] = exit[q]
    OBVIOUS
  <2> QED
    BY <1>0, <2>1, HistoryFrame
<1>8. ReadySound'
  <2>1. \A q \in Process \ {p} : pc'[q] = pc[q]
    OBVIOUS
  <2>2. pc[p] \in {"ready", "dead"} => pc'[p] \in {"ready", "dead"}
    OBVIOUS
  <2> QED
    BY <1>0, <2>1, <2>2, ReadyFrame
<1> QED
  BY <1>1, <1>2, <1>3, <1>4, <1>5, <1>6, <1>7, <1>8

\* Renaming empties the path.
LEMMA RenameStaleType ==
    ASSUME TypeOK, ReceiptRead, NEW p \in Process, RenameStale(p)
    PROVE  TypeOK' /\ ReceiptRead' /\ starters' = starters
  BY ServiceOwnerAssumption DEF TypeOK, ReceiptRead, RenameStale, Forget, Goto, Retry,
     AcquireStates, OverStates

\* The receipt renamed is the one that was read: its owner is dead, so no
\* owner loses its receipt.
LEMMA RenameStaleKeeps ==
    ASSUME TypeOK, ReceiptRead, TypeOK', Supervised, starters = 1, NEW p \in Process, RenameStale(p)
    PROVE  Supervised'
<1> USE ServiceOwnerAssumption DEF RenameStale, Forget, Goto, Retry, TypeOK, Supervised, AcquireStates, ServeStates, StopStates, OverStates
<1>0. LateGrows
  BY DEF LateGrows
<1>1. OneStarter'
  BY DEF OneStarter
<1>2. OwnerHolds'
  BY DEF OwnerHolds, Owner, Own, StarterKnows, Alive
<1>3. ReceiptSound'
  BY DEF ReceiptSound, OneStarter
<1>4. StarterKnows'
  <2>1. /\ Past(seen[p].by) /\ seen[p].n = attempt[seen[p].by] /\ ~Alive(seen[p].by)
        /\ ownerFile \in {None, seen[p]} /\ seen[p] \in Receipt /\ seen[p].full
    BY DEF StarterKnows, ReceiptRead
  <2>2. \A q \in Process \ {p} : pc'[q] \notin AcquireStates
    BY DEF OneStarter
  <2>3. seen[p].by \in Process \ {p}
    BY <2>1 DEF Receipt, Alive
  <2>4. CASE ownerFile = None
    BY <2>4, <2>2 DEF StarterKnows
  <2>5. CASE ownerFile # None
    <3>1. pc'[p] = "diagnose" /\ ownerFile' = None
      BY <2>5
    <3>2. HealthTells(seen[p].by)
      BY <2>5, <2>1 DEF ReceiptSound
    <3>3. /\ Past(seen[p].by)' /\ seen'[p].full /\ seen'[p].n = attempt'[seen[p].by]
          /\ ~Alive(seen[p].by)' /\ HealthTells(seen[p].by)'
      BY <2>5, <2>1, <2>3, <3>2 DEF Past, Alive, HealthTells, NoneLateBut, MyId
    <3> QED
      BY <3>1, <3>3, <2>2 DEF StarterKnows
  <2> QED
    BY <2>4, <2>5
<1>5. ListenerBound'
  BY DEF ListenerBound, OwnerHolds
<1>6. ExitSound'
  BY DEF ExitSound, MyId
<1>7. HistorySound'
  <2>1. \A q \in Process \ {p} : pc'[q] = pc[q] /\ exit'[q] = exit[q]
    OBVIOUS
  <2> QED
    BY <1>0, <2>1, HistoryFrame
<1>8. ReadySound'
  <2>1. \A q \in Process \ {p} : pc'[q] = pc[q]
    OBVIOUS
  <2>2. pc[p] \in {"ready", "dead"} => pc'[p] \in {"ready", "dead"}
    OBVIOUS
  <2> QED
    BY <1>0, <2>1, <2>2, ReadyFrame
<1> QED
  BY <1>1, <1>2, <1>3, <1>4, <1>5, <1>6, <1>7, <1>8

\* The diagnosis is of the service whose receipt was read.
LEMMA DiagnoseType ==
    ASSUME TypeOK, ReceiptRead, NEW p \in Process, Diagnose(p)
    PROVE  TypeOK' /\ ReceiptRead' /\ starters' = starters
<1>1. /\ pc' \in [Process -> {"off"} \cup AcquireStates \cup ServeStates \cup StopStates
                    \cup {"released"} \cup OverStates]
      /\ attempt' \in [Process -> 1..MaxAttempts]
  BY ServiceOwnerAssumption DEF TypeOK, Diagnose, Forget, Retry, Goto, AcquireStates, OverStates
<1>2. history' \subseteq [id : ServiceId, exit : ExitKind]
  <2> DEFINE s == <<seen[p].by, seen[p].n>>
  <2>1. s \in ServiceId
    BY DEF ReceiptRead, Diagnose, Receipt, ServiceId
  <2>2. [id |-> s, exit |-> Classify(s)] \in [id : ServiceId, exit : ExitKind]
    BY <2>1 DEF Classify, ExitKind
  <2> QED
    BY <2>2 DEF TypeOK, Diagnose, Forget
<1>3. ReceiptRead'
  BY DEF TypeOK, ReceiptRead, Diagnose, Forget, Retry, Goto
<1> QED
  BY <1>1, <1>2, <1>3 DEF TypeOK, Diagnose, Forget

\* Health still tells of that service: nobody has served since, so nobody
\* wrote it.
LEMMA DiagnoseKeeps ==
    ASSUME TypeOK, ReceiptRead, TypeOK', Supervised, starters = 1, NEW p \in Process, Diagnose(p)
    PROVE  Supervised'
<1> USE ServiceOwnerAssumption DEF Diagnose, Forget, Goto, Retry, Classify, TypeOK, Supervised, AcquireStates, ServeStates, StopStates, OverStates
<1>0. LateGrows
  BY DEF LateGrows
<1>1. OneStarter'
  BY DEF OneStarter
<1>2. OwnerHolds'
  BY DEF OwnerHolds, Owner, Own
<1>3. ReceiptSound'
  <2> SUFFICES ASSUME ownerFile' # None, ownerFile'.full
               PROVE  ReceiptSound'
    BY DEF ReceiptSound
  <2>1. ownerFile' = ownerFile /\ ownerFile.by \in Process \ {p}
    BY ReceiptOfAnother
  <2> QED
    BY <2>1 DEF ReceiptSound, Past, HealthTells, NoneLateBut, MyId
<1>4. StarterKnows'
  BY DEF StarterKnows, OneStarter
<1>5. ListenerBound'
  BY DEF ListenerBound, OwnerHolds
<1>6. ExitSound'
  BY DEF ExitSound, MyId
<1>7. HistorySound'
  <2> DEFINE s == <<seen[p].by, seen[p].n>>
  <2>1. /\ seen[p] \in Receipt /\ Past(seen[p].by) /\ ~Alive(seen[p].by)
        /\ seen[p].n = attempt[seen[p].by] /\ HealthTells(seen[p].by)
    BY DEF StarterKnows, ReceiptRead
  <2>2. seen[p].by \in Process \ {p} /\ s = MyId(seen[p].by) /\ pc[seen[p].by] \in OverStates
    BY <2>1 DEF Receipt, Alive, MyId, Past
  <2>3. Truthful(seen[p].by, Classify(s))
    <3>1. ASSUME exit[seen[p].by] = "planned", NoneLateBut(seen[p].by) PROVE Classify(s) = "planned"
      BY <3>1, <2>1, <2>2 DEF HealthTells, ExitKind
    <3>2. ASSUME Classify(s) = "planned" PROVE exit[seen[p].by] = "planned"
      <4>1. health.id = s /\ health.exit = "planned"
        BY <3>2
      <4>2. s[1] = seen[p].by
        OBVIOUS
      <4> QED
        BY <4>1, <4>2, ServiceOwnerAssumption DEF ExitSound, ExitKind
    <3> QED
      BY <3>1, <3>2 DEF Truthful
  <2> HIDE DEF s
  <2> SUFFICES ASSUME NEW d \in history'
               PROVE  pc'[d.id[1]] \in OverStates /\ Truthful(d.id[1], d.exit)'
    BY DEF HistorySound
  <2>4. CASE d \in history
    <3>1. d.id[1] \in Process /\ d.id[1] # p
      BY <2>4 DEF ServiceId, HistorySound
    <3>2. NoneLateBut(d.id[1])' => NoneLateBut(d.id[1])
      BY <1>0, <3>1, LateStays
    <3> QED
      BY <2>4, <3>1, <3>2 DEF HistorySound, Truthful
  <2>5. CASE d = [id |-> s, exit |-> Classify(s)]
    <3>1. d.id[1] = seen[p].by /\ d.exit = Classify(s)
      BY <2>5 DEF s
    <3>2. pc'[seen[p].by] = pc[seen[p].by] /\ exit' = exit /\ late' = late
      BY <2>2
    <3> PICK c \in Process : c = seen[p].by
      BY <2>2
    <3>3. Truthful(c, d.exit)'
      BY <3>1, <3>2, <2>3 DEF Truthful, NoneLateBut
    <3> QED
      BY <3>1, <3>2, <3>3, <2>2
  <2>6. history' = history \cup {[id |-> s, exit |-> Classify(s)]}
    BY DEF s
  <2> QED
    BY <2>4, <2>5, <2>6
<1>8. ReadySound'
  <2>1. \A q \in Process \ {p} : pc'[q] = pc[q]
    OBVIOUS
  <2>2. pc[p] \in {"ready", "dead"} => pc'[p] \in {"ready", "dead"}
    OBVIOUS
  <2> QED
    BY <1>0, <2>1, <2>2, ReadyFrame
<1> QED
  BY <1>1, <1>2, <1>3, <1>4, <1>5, <1>6, <1>7, <1>8

\* The first snapshot is of this attempt.
LEMMA PersistStartingType ==
    ASSUME TypeOK, ReceiptRead, NEW p \in Process, PersistStarting(p)
    PROVE  TypeOK' /\ ReceiptRead' /\ starters' = starters
  BY ServiceOwnerAssumption DEF TypeOK, ReceiptRead, PersistStarting, Goto, MyId, ServiceId,
     ServeStates

\* The owner overwrites health, and nobody diagnoses an earlier service
\* meanwhile.
LEMMA PersistStartingKeeps ==
    ASSUME TypeOK, ReceiptRead, TypeOK', Supervised, starters = 1, NEW p \in Process, PersistStarting(p)
    PROVE  Supervised'
<1> USE ServiceOwnerAssumption DEF PersistStarting, Goto, MyId, TypeOK, Supervised, AcquireStates, ServeStates, StopStates, OverStates
<1>0. LateGrows
  BY DEF LateGrows
<1>1. OneStarter'
  BY DEF OneStarter
<1>2. OwnerHolds'
  BY DEF OwnerHolds, Owner, Own
<1>3. ReceiptSound'
  BY DEF ReceiptSound, OwnerHolds, Owner, Own, Past, HealthTells, NoneLateBut, ExitSound
<1>4. StarterKnows'
  <2>1. /\ \A q \in Process \ {p} : pc'[q] = pc[q] /\ seen'[q] = seen[q]
        /\ pc'[p] \notin {"inspect", "rename", "diagnose"}
        /\ attempt' = attempt /\ ownerFile' \in {None, ownerFile}
    OBVIOUS
  <2>2. (Past(p) => Past(p)') /\ (~Alive(p) => ~Alive(p)')
    BY DEF Past, Alive
  <2>3. (health' = health /\ exit' = exit) \/ \A q \in Process : pc[q] # "diagnose"
    BY OwnerAlone DEF Owner
  <2> QED
    BY <1>0, <2>1, <2>2, <2>3, StarterFrame
<1>5. ListenerBound'
  BY DEF ListenerBound, OwnerHolds
<1>6. ExitSound'
  BY DEF ExitSound, ServiceId
<1>7. HistorySound'
  <2>1. \A q \in Process \ {p} : pc'[q] = pc[q] /\ exit'[q] = exit[q]
    OBVIOUS
  <2> QED
    BY <1>0, <2>1, HistoryFrame
<1>8. ReadySound'
  BY DEF ReadySound, ServiceId
<1> QED
  BY <1>1, <1>2, <1>3, <1>4, <1>5, <1>6, <1>7, <1>8

\* Probing moves on or begins a shutdown.
LEMMA ProbeSocketType ==
    ASSUME TypeOK, ReceiptRead, NEW p \in Process, ProbeSocket(p)
    PROVE  TypeOK' /\ ReceiptRead' /\ starters' = starters
<1>1. /\ pc' \in [Process -> {"off"} \cup AcquireStates \cup ServeStates \cup StopStates
                    \cup {"released"} \cup OverStates]
      /\ exit' \in [Process -> ExitKind \cup {None}]
  BY DEF TypeOK, ProbeSocket, Goto, BeginShutdown, ExitKind, ServeStates, StopStates
<1>2. health' \in [id : ServiceId \cup {None}, exit : ExitKind \cup {None}, ready : BOOLEAN]
  <2>1. health' = health \/ health' = [id |-> MyId(p), exit |-> "process-crash", ready |-> FALSE]
    BY DEF ProbeSocket, BeginShutdown
  <2>2. "process-crash" \in ExitKind \cup {None}
    BY DEF ExitKind
  <2>3. [id |-> MyId(p), exit |-> "process-crash", ready |-> FALSE]
           \in [id : ServiceId \cup {None}, exit : ExitKind \cup {None}, ready : BOOLEAN]
    BY <2>2, HealthType
  <2>4. health \in [id : ServiceId \cup {None}, exit : ExitKind \cup {None}, ready : BOOLEAN]
    BY DEF TypeOK
  <2> QED
    BY <2>1, <2>3, <2>4
<1>3. ReceiptRead' /\ socket' \in Process \cup {None}
  BY DEF TypeOK, ReceiptRead, ProbeSocket, Goto, BeginShutdown
<1> QED
  BY <1>1, <1>2, <1>3 DEF TypeOK, ProbeSocket

\* A shutdown begun here is recorded in health, as the receipt demands.
LEMMA ProbeSocketKeeps ==
    ASSUME TypeOK, ReceiptRead, TypeOK', Supervised, starters = 1, NEW p \in Process, ProbeSocket(p)
    PROVE  Supervised'
<1> USE ServiceOwnerAssumption DEF ProbeSocket, Goto, BeginShutdown, Listening, MyId, TypeOK, Supervised, AcquireStates, ServeStates, StopStates, OverStates
<1>0. LateGrows
  BY DEF LateGrows
<1>1. OneStarter'
  BY DEF OneStarter
<1>2. OwnerHolds'
  BY DEF OwnerHolds, Owner, Own
<1>3. ReceiptSound'
  <2>1. Owner(p) /\ Past(p)'
    BY DEF Owner, Past
  <2>2. ownerFile = Own(p, TRUE) /\ ownerFile # None
    BY <2>1, OwnerAlone
  <2>3. HealthTells(p)'
    <3>1. CASE health' = health /\ exit' = exit
      <4>1. HealthTells(p)
        BY <2>2 DEF ReceiptSound, Own
      <4> QED
        BY <3>1, <4>1, <1>0, TellsFrame
    <3>2. CASE ~(health' = health /\ exit' = exit)
      <4>1. health' = [id |-> <<p, attempt[p]>>, exit |-> "process-crash", ready |-> FALSE]
            /\ exit'[p] = "process-crash" /\ attempt' = attempt
        BY <3>2
      <4> QED
        BY <4>1 DEF HealthTells
    <3> QED
      BY <3>1, <3>2
  <2> QED
    BY <2>1, <2>2, <2>3 DEF ReceiptSound, Own
<1>4. StarterKnows'
  <2>1. /\ \A q \in Process \ {p} : pc'[q] = pc[q] /\ seen'[q] = seen[q]
        /\ pc'[p] \notin {"inspect", "rename", "diagnose"}
        /\ attempt' = attempt /\ ownerFile' \in {None, ownerFile}
    OBVIOUS
  <2>2. (Past(p) => Past(p)') /\ (~Alive(p) => ~Alive(p)')
    BY DEF Past, Alive
  <2>3. (health' = health /\ exit' = exit) \/ \A q \in Process : pc[q] # "diagnose"
    BY OwnerAlone DEF Owner
  <2> QED
    BY <1>0, <2>1, <2>2, <2>3, StarterFrame
<1>5. ListenerBound'
  BY DEF ListenerBound, OwnerHolds
<1>6. ExitSound'
  BY DEF ExitSound, ServiceId
<1>7. HistorySound'
  <2>1. \A q \in Process \ {p} : pc'[q] = pc[q] /\ exit'[q] = exit[q]
    OBVIOUS
  <2> QED
    BY <1>0, <2>1, HistoryFrame
<1>8. ReadySound'
  <2>1. CASE health' = health
    <3>1. \A q \in Process \ {p} : pc'[q] = pc[q]
      OBVIOUS
    <3> QED
      BY <1>0, <2>1, <3>1, ReadyFrame
  <2>2. CASE ~health'.ready
    BY <2>2 DEF ReadySound
  <2> QED
    BY <2>1, <2>2
<1> QED
  BY <1>1, <1>2, <1>3, <1>4, <1>5, <1>6, <1>7, <1>8

\* Unlinking empties the path.
LEMMA UnlinkSocketType ==
    ASSUME TypeOK, ReceiptRead, NEW p \in Process, UnlinkSocket(p)
    PROVE  TypeOK' /\ ReceiptRead' /\ starters' = starters
  BY ServiceOwnerAssumption DEF TypeOK, ReceiptRead, UnlinkSocket, Goto, ServeStates

\* Nobody else listens: the one owner unlinks the socket.
LEMMA UnlinkSocketKeeps ==
    ASSUME TypeOK, ReceiptRead, TypeOK', Supervised, starters = 1, NEW p \in Process, UnlinkSocket(p)
    PROVE  Supervised'
<1> USE ServiceOwnerAssumption DEF UnlinkSocket, Goto, TypeOK, Supervised, AcquireStates, ServeStates, StopStates, OverStates
<1>0. LateGrows
  BY DEF LateGrows
<1>1. OneStarter'
  BY DEF OneStarter
<1>2. OwnerHolds'
  BY DEF OwnerHolds, Owner, Own
<1>3. ReceiptSound'
  <2> SUFFICES ASSUME ownerFile' # None, ownerFile'.full
               PROVE  /\ Past(ownerFile.by)' /\ ownerFile'.n = attempt'[ownerFile.by]
                      /\ HealthTells(ownerFile.by)'
    BY DEF ReceiptSound
  <2> DEFINE b == ownerFile.by
  <2>1. b \in Process /\ ownerFile # None /\ Past(b) /\ HealthTells(b)
        /\ ownerFile.n = attempt[b]
    BY DEF ReceiptSound, Receipt
  <2>2. HealthTells(b)'
    BY <1>0, <2>1, TellsFrame
  <2>3. Past(b)'
    BY <2>1 DEF Past, Alive
  <2> QED
    BY <2>1, <2>2, <2>3
<1>4. StarterKnows'
  <2>1. /\ \A q \in Process \ {p} : pc'[q] = pc[q] /\ seen'[q] = seen[q]
        /\ pc'[p] \notin {"inspect", "rename", "diagnose"}
        /\ attempt' = attempt /\ ownerFile' \in {None, ownerFile}
    OBVIOUS
  <2>2. (Past(p) => Past(p)') /\ (~Alive(p) => ~Alive(p)')
    BY DEF Past, Alive
  <2>3. (health' = health /\ exit' = exit) \/ \A q \in Process : pc[q] # "diagnose"
    OBVIOUS
  <2> QED
    BY <1>0, <2>1, <2>2, <2>3, StarterFrame
<1>5. ListenerBound'
  BY DEF ListenerBound, OwnerHolds, Owner, Own
<1>6. ExitSound'
  BY DEF ExitSound, MyId
<1>7. HistorySound'
  <2>1. \A q \in Process \ {p} : pc'[q] = pc[q] /\ exit'[q] = exit[q]
    OBVIOUS
  <2> QED
    BY <1>0, <2>1, HistoryFrame
<1>8. ReadySound'
  <2>1. \A q \in Process \ {p} : pc'[q] = pc[q]
    OBVIOUS
  <2>2. pc[p] \in {"ready", "dead"} => pc'[p] \in {"ready", "dead"}
    OBVIOUS
  <2> QED
    BY <1>0, <2>1, <2>2, ReadyFrame
<1> QED
  BY <1>1, <1>2, <1>3, <1>4, <1>5, <1>6, <1>7, <1>8

\* Binding names the process, or a shutdown begins.
LEMMA ListenType ==
    ASSUME TypeOK, ReceiptRead, NEW p \in Process, Listen(p)
    PROVE  TypeOK' /\ ReceiptRead' /\ starters' = starters
<1>1. /\ pc' \in [Process -> {"off"} \cup AcquireStates \cup ServeStates \cup StopStates
                    \cup {"released"} \cup OverStates]
      /\ exit' \in [Process -> ExitKind \cup {None}]
  BY DEF TypeOK, Listen, Goto, BeginShutdown, ExitKind, ServeStates, StopStates
<1>2. health' \in [id : ServiceId \cup {None}, exit : ExitKind \cup {None}, ready : BOOLEAN]
  <2>1. health' = health \/ health' = [id |-> MyId(p), exit |-> "process-crash", ready |-> FALSE]
    BY DEF Listen, BeginShutdown
  <2>2. "process-crash" \in ExitKind \cup {None}
    BY DEF ExitKind
  <2>3. [id |-> MyId(p), exit |-> "process-crash", ready |-> FALSE]
           \in [id : ServiceId \cup {None}, exit : ExitKind \cup {None}, ready : BOOLEAN]
    BY <2>2, HealthType
  <2>4. health \in [id : ServiceId \cup {None}, exit : ExitKind \cup {None}, ready : BOOLEAN]
    BY DEF TypeOK
  <2> QED
    BY <2>1, <2>3, <2>4
<1>3. ReceiptRead' /\ socket' \in Process \cup {None}
  BY DEF TypeOK, ReceiptRead, Listen, Goto, BeginShutdown
<1> QED
  BY <1>1, <1>2, <1>3 DEF TypeOK, Listen

\* The owner alone binds, so who listens is bound.
LEMMA ListenKeeps ==
    ASSUME TypeOK, ReceiptRead, TypeOK', Supervised, starters = 1, NEW p \in Process, Listen(p)
    PROVE  Supervised'
<1> USE ServiceOwnerAssumption DEF Listen, Goto, BeginShutdown, MyId, TypeOK, Supervised, AcquireStates, ServeStates, StopStates, OverStates
<1>0. LateGrows
  BY DEF LateGrows
<1>1. OneStarter'
  BY DEF OneStarter
<1>2. OwnerHolds'
  BY DEF OwnerHolds, Owner, Own
<1>3. ReceiptSound'
  <2>1. Owner(p) /\ Past(p)'
    BY DEF Owner, Past
  <2>2. ownerFile = Own(p, TRUE) /\ ownerFile # None
    BY <2>1, OwnerAlone
  <2>3. HealthTells(p)'
    <3>1. CASE health' = health /\ exit' = exit
      <4>1. HealthTells(p)
        BY <2>2 DEF ReceiptSound, Own
      <4> QED
        BY <3>1, <4>1, <1>0, TellsFrame
    <3>2. CASE ~(health' = health /\ exit' = exit)
      <4>1. health' = [id |-> <<p, attempt[p]>>, exit |-> "process-crash", ready |-> FALSE]
            /\ exit'[p] = "process-crash" /\ attempt' = attempt
        BY <3>2
      <4> QED
        BY <4>1 DEF HealthTells
    <3> QED
      BY <3>1, <3>2
  <2> QED
    BY <2>1, <2>2, <2>3 DEF ReceiptSound, Own
<1>4. StarterKnows'
  <2>1. /\ \A q \in Process \ {p} : pc'[q] = pc[q] /\ seen'[q] = seen[q]
        /\ pc'[p] \notin {"inspect", "rename", "diagnose"}
        /\ attempt' = attempt /\ ownerFile' \in {None, ownerFile}
    OBVIOUS
  <2>2. (Past(p) => Past(p)') /\ (~Alive(p) => ~Alive(p)')
    BY DEF Past, Alive
  <2>3. (health' = health /\ exit' = exit) \/ \A q \in Process : pc[q] # "diagnose"
    BY OwnerAlone DEF Owner
  <2> QED
    BY <1>0, <2>1, <2>2, <2>3, StarterFrame
<1>5. ListenerBound'
  BY DEF ListenerBound, OwnerHolds
<1>6. ExitSound'
  BY DEF ExitSound, ServiceId
<1>7. HistorySound'
  <2>1. \A q \in Process \ {p} : pc'[q] = pc[q] /\ exit'[q] = exit[q]
    OBVIOUS
  <2> QED
    BY <1>0, <2>1, HistoryFrame
<1>8. ReadySound'
  <2>1. CASE health' = health
    <3>1. \A q \in Process \ {p} : pc'[q] = pc[q]
      OBVIOUS
    <3> QED
      BY <1>0, <2>1, <3>1, ReadyFrame
  <2>2. CASE ~health'.ready
    BY <2>2 DEF ReadySound
  <2> QED
    BY <2>1, <2>2
<1> QED
  BY <1>1, <1>2, <1>3, <1>4, <1>5, <1>6, <1>7, <1>8

\* The snapshot is of this attempt.
LEMMA BecomeReadyType ==
    ASSUME TypeOK, ReceiptRead, NEW p \in Process, BecomeReady(p)
    PROVE  TypeOK' /\ ReceiptRead' /\ starters' = starters
  BY ServiceOwnerAssumption DEF TypeOK, ReceiptRead, BecomeReady, Goto, MyId, ServiceId,
     ServeStates

\* Becoming ready claims no shutdown.
LEMMA BecomeReadyKeeps ==
    ASSUME TypeOK, ReceiptRead, TypeOK', Supervised, starters = 1, NEW p \in Process, BecomeReady(p)
    PROVE  Supervised'
<1> USE ServiceOwnerAssumption DEF BecomeReady, Goto, MyId, TypeOK, Supervised, AcquireStates, ServeStates, StopStates, OverStates
<1>0. LateGrows
  BY DEF LateGrows
<1>1. OneStarter'
  BY DEF OneStarter
<1>2. OwnerHolds'
  BY DEF OwnerHolds, Owner, Own
<1>3. ReceiptSound'
  BY DEF ReceiptSound, OwnerHolds, Owner, Own, Past, HealthTells, NoneLateBut, ExitSound
<1>4. StarterKnows'
  <2>1. /\ \A q \in Process \ {p} : pc'[q] = pc[q] /\ seen'[q] = seen[q]
        /\ pc'[p] \notin {"inspect", "rename", "diagnose"}
        /\ attempt' = attempt /\ ownerFile' \in {None, ownerFile}
    OBVIOUS
  <2>2. (Past(p) => Past(p)') /\ (~Alive(p) => ~Alive(p)')
    BY DEF Past, Alive
  <2>3. (health' = health /\ exit' = exit) \/ \A q \in Process : pc[q] # "diagnose"
    BY OwnerAlone DEF Owner
  <2> QED
    BY <1>0, <2>1, <2>2, <2>3, StarterFrame
<1>5. ListenerBound'
  BY DEF ListenerBound, OwnerHolds
<1>6. ExitSound'
  BY DEF ExitSound, ServiceId
<1>7. HistorySound'
  <2>1. \A q \in Process \ {p} : pc'[q] = pc[q] /\ exit'[q] = exit[q]
    OBVIOUS
  <2> QED
    BY <1>0, <2>1, HistoryFrame
<1>8. ReadySound'
  BY DEF ReadySound, ServiceId
<1> QED
  BY <1>1, <1>2, <1>3, <1>4, <1>5, <1>6, <1>7, <1>8

\* The classification is one of the two.
LEMMA ShutdownType ==
    ASSUME TypeOK, ReceiptRead, NEW p \in Process, NEW kind \in ExitKind, Shutdown(p, kind)
    PROVE  TypeOK' /\ ReceiptRead' /\ starters' = starters
  BY ServiceOwnerAssumption DEF TypeOK, ReceiptRead, Shutdown, Goto, BeginShutdown, MyId,
     ServiceId, StopStates

\* Health and the classification agree from the first step of the shutdown.
LEMMA ShutdownKeeps ==
    ASSUME TypeOK, ReceiptRead, TypeOK', Supervised, starters = 1, NEW p \in Process, NEW kind \in ExitKind, Shutdown(p, kind)
    PROVE  Supervised'
<1> USE ServiceOwnerAssumption DEF Shutdown, Goto, BeginShutdown, MyId, TypeOK, Supervised, AcquireStates, ServeStates, StopStates, OverStates
<1>0. LateGrows
  BY DEF LateGrows
<1>1. OneStarter'
  BY DEF OneStarter
<1>2. OwnerHolds'
  BY DEF OwnerHolds, Owner, Own
<1>3. ReceiptSound'
  BY DEF ReceiptSound, OwnerHolds, Owner, Own, Past, HealthTells
<1>4. StarterKnows'
  <2>1. /\ \A q \in Process \ {p} : pc'[q] = pc[q] /\ seen'[q] = seen[q]
        /\ pc'[p] \notin {"inspect", "rename", "diagnose"}
        /\ attempt' = attempt /\ ownerFile' \in {None, ownerFile}
    OBVIOUS
  <2>2. (Past(p) => Past(p)') /\ (~Alive(p) => ~Alive(p)')
    BY DEF Past, Alive
  <2>3. (health' = health /\ exit' = exit) \/ \A q \in Process : pc[q] # "diagnose"
    BY OwnerAlone DEF Owner
  <2> QED
    BY <1>0, <2>1, <2>2, <2>3, StarterFrame
<1>5. ListenerBound'
  BY DEF ListenerBound, OwnerHolds
<1>6. ExitSound'
  BY DEF ExitSound, ServiceId
<1>7. HistorySound'
  <2>1. \A q \in Process \ {p} : pc'[q] = pc[q] /\ exit'[q] = exit[q]
    OBVIOUS
  <2> QED
    BY <1>0, <2>1, HistoryFrame
<1>8. ReadySound'
  BY DEF ReadySound, ServiceId
<1> QED
  BY <1>1, <1>2, <1>3, <1>4, <1>5, <1>6, <1>7, <1>8

\* A failed recovery is classified as a crash.
LEMMA RecoveryFailsType ==
    ASSUME TypeOK, ReceiptRead, NEW p \in Process, RecoveryFails(p)
    PROVE  TypeOK' /\ ReceiptRead' /\ starters' = starters
  BY ServiceOwnerAssumption DEF TypeOK, ReceiptRead, RecoveryFails, Goto, BeginShutdown, MyId,
     ServiceId, ExitKind, StopStates

\* It, too, is recorded in health at once.
LEMMA RecoveryFailsKeeps ==
    ASSUME TypeOK, ReceiptRead, TypeOK', Supervised, starters = 1, NEW p \in Process, RecoveryFails(p)
    PROVE  Supervised'
<1> USE ServiceOwnerAssumption DEF RecoveryFails, Goto, BeginShutdown, MyId, TypeOK, Supervised, AcquireStates, ServeStates, StopStates, OverStates
<1>0. LateGrows
  BY DEF LateGrows
<1>1. OneStarter'
  BY DEF OneStarter
<1>2. OwnerHolds'
  BY DEF OwnerHolds, Owner, Own
<1>3. ReceiptSound'
  BY DEF ReceiptSound, OwnerHolds, Owner, Own, Past, HealthTells
<1>4. StarterKnows'
  <2>1. /\ \A q \in Process \ {p} : pc'[q] = pc[q] /\ seen'[q] = seen[q]
        /\ pc'[p] \notin {"inspect", "rename", "diagnose"}
        /\ attempt' = attempt /\ ownerFile' \in {None, ownerFile}
    OBVIOUS
  <2>2. (Past(p) => Past(p)') /\ (~Alive(p) => ~Alive(p)')
    BY DEF Past, Alive
  <2>3. (health' = health /\ exit' = exit) \/ \A q \in Process : pc[q] # "diagnose"
    BY OwnerAlone DEF Owner
  <2> QED
    BY <1>0, <2>1, <2>2, <2>3, StarterFrame
<1>5. ListenerBound'
  BY DEF ListenerBound, OwnerHolds
<1>6. ExitSound'
  BY DEF ExitSound, ServiceId
<1>7. HistorySound'
  <2>1. \A q \in Process \ {p} : pc'[q] = pc[q] /\ exit'[q] = exit[q]
    OBVIOUS
  <2> QED
    BY <1>0, <2>1, HistoryFrame
<1>8. ReadySound'
  BY DEF ReadySound, ServiceId
<1> QED
  BY <1>1, <1>2, <1>3, <1>4, <1>5, <1>6, <1>7, <1>8

\* A planned shutdown, and a start that is late from now on.
LEMMA ShutdownOvertakesType ==
    ASSUME TypeOK, ReceiptRead, NEW p \in Process, ShutdownOvertakes(p)
    PROVE  TypeOK' /\ ReceiptRead' /\ starters' = starters
  BY ServiceOwnerAssumption DEF TypeOK, ReceiptRead, ShutdownOvertakes, Goto, BeginShutdown, MyId,
     ServiceId, ExitKind, StopStates, LateStates

\* The overtaken service is still the one owner.
LEMMA ShutdownOvertakesKeeps ==
    ASSUME TypeOK, ReceiptRead, TypeOK', Supervised, starters = 1, NEW p \in Process, ShutdownOvertakes(p)
    PROVE  Supervised'
<1> USE ServiceOwnerAssumption DEF ShutdownOvertakes, Goto, BeginShutdown, MyId, TypeOK, Supervised, AcquireStates, ServeStates, StopStates, OverStates
<1>0. LateGrows
  BY DEF LateGrows
<1>1. OneStarter'
  BY DEF OneStarter
<1>2. OwnerHolds'
  BY DEF OwnerHolds, Owner, Own
<1>3. ReceiptSound'
  BY DEF ReceiptSound, OwnerHolds, Owner, Own, Past, HealthTells
<1>4. StarterKnows'
  <2>1. /\ \A q \in Process \ {p} : pc'[q] = pc[q] /\ seen'[q] = seen[q]
        /\ pc'[p] \notin {"inspect", "rename", "diagnose"}
        /\ attempt' = attempt /\ ownerFile' \in {None, ownerFile}
    OBVIOUS
  <2>2. (Past(p) => Past(p)') /\ (~Alive(p) => ~Alive(p)')
    BY DEF Past, Alive
  <2>3. (health' = health /\ exit' = exit) \/ \A q \in Process : pc[q] # "diagnose"
    BY OwnerAlone DEF Owner
  <2> QED
    BY <1>0, <2>1, <2>2, <2>3, StarterFrame
<1>5. ListenerBound'
  BY DEF ListenerBound, OwnerHolds
<1>6. ExitSound'
  BY DEF ExitSound, ServiceId
<1>7. HistorySound'
  <2>1. \A q \in Process \ {p} : pc'[q] = pc[q] /\ exit'[q] = exit[q]
    OBVIOUS
  <2> QED
    BY <1>0, <2>1, HistoryFrame
<1>8. ReadySound'
  BY DEF ReadySound, ServiceId
<1> QED
  BY <1>1, <1>2, <1>3, <1>4, <1>5, <1>6, <1>7, <1>8

\* The late start ends one way or the other.
LEMMA LateReadyType ==
    ASSUME TypeOK, ReceiptRead, NEW p \in Process, LateReady(p)
    PROVE  TypeOK' /\ ReceiptRead' /\ starters' = starters
<1>1. health' \in [id : ServiceId \cup {None}, exit : ExitKind \cup {None}, ready : BOOLEAN]
  <2>1. health' = health \/ health' = [id |-> MyId(p), exit |-> exit[p], ready |-> TRUE]
    BY DEF LateReady
  <2>2. exit[p] \in ExitKind \cup {None}
    BY DEF TypeOK
  <2>3. [id |-> MyId(p), exit |-> exit[p], ready |-> TRUE]
           \in [id : ServiceId \cup {None}, exit : ExitKind \cup {None}, ready : BOOLEAN]
    BY <2>2, HealthType
  <2>4. health \in [id : ServiceId \cup {None}, exit : ExitKind \cup {None}, ready : BOOLEAN]
    BY DEF TypeOK
  <2> QED
    BY <2>1, <2>3, <2>4
<1>2. late' \in [Process -> LateStates]
  BY DEF TypeOK, LateReady, LateStates
<1> QED
  BY <1>1, <1>2 DEF TypeOK, ReceiptRead, LateReady

\* It writes over the health of any service but its own, which is excepted.
LEMMA LateReadyKeeps ==
    ASSUME TypeOK, ReceiptRead, TypeOK', Supervised, starters = 1, NEW p \in Process, LateReady(p)
    PROVE  Supervised'
<1>1. /\ late[p] # "no" /\ late'[p] # "no" /\ Alive(p)
      /\ UNCHANGED <<pc, attempt, seen, ownerFile, socket, history, exit>>
      /\ \/ health' = health
         \/ health' = [id |-> MyId(p), exit |-> exit[p], ready |-> TRUE]
  BY DEF LateReady, TypeOK
<1>2. LateGrows
  BY DEF LateReady, LateGrows, TypeOK
<1> QED
  BY <1>1, <1>2, LateWriteKeeps

\* A heartbeat writes what its service has in memory.
LEMMA HeartbeatType ==
    ASSUME TypeOK, ReceiptRead, NEW p \in Process, Heartbeat(p)
    PROVE  TypeOK' /\ ReceiptRead' /\ starters' = starters
  BY ServiceOwnerAssumption DEF TypeOK, ReceiptRead, Heartbeat, MyId, ServiceId

\* It is the owner's, who has begun no shutdown, or that of a late start.
LEMMA HeartbeatKeeps ==
    ASSUME TypeOK, ReceiptRead, TypeOK', Supervised, starters = 1, NEW p \in Process, Heartbeat(p)
    PROVE  Supervised'
<1>1. /\ UNCHANGED <<pc, attempt, seen, ownerFile, socket, history, exit, late>>
      /\ health'.id = MyId(p) /\ health'.exit = exit[p]
  BY DEF Heartbeat
<1>2. LateGrows
  BY <1>1 DEF LateGrows
<1>3. CASE late[p] # "no"
  <2>1. \/ health' = [id |-> MyId(p), exit |-> exit[p], ready |-> TRUE]
        \/ health' = [id |-> MyId(p), exit |-> exit[p], ready |-> FALSE]
    BY DEF Heartbeat
  <2>2. late'[p] # "no" /\ Alive(p)
    BY <1>1, <1>3 DEF Heartbeat, Alive, ServeStates
  <2> QED
    BY <1>1, <1>2, <1>3, <2>1, <2>2, LateWriteKeeps
<1>4. CASE late[p] = "no"
  <2>1. pc[p] = "ready" /\ Owner(p)
    BY <1>4 DEF Heartbeat, Owner, ServeStates
  <2>2. exit[p] = None
    BY <2>1 DEF Supervised, ExitSound, StopStates, OverStates
  <2>3. \A q \in Process : pc[q] # "diagnose"
    BY <2>1, OwnerAlone
  <2>4. ownerFile = Own(p, TRUE)
    BY <2>1, OwnerAlone
  <2>5. OneStarter' /\ OwnerHolds' /\ ListenerBound'
    BY <1>1 DEF Supervised, OneStarter, OwnerHolds, ListenerBound, Owner, Own
  <2>6. ReceiptSound'
    BY <1>1, <2>2, <2>4 DEF Supervised, ReceiptSound, Past, HealthTells, Own
  <2>7. StarterKnows'
    BY <1>1, <2>3 DEF Supervised, StarterKnows, Past, Alive
  <2>8. ExitSound'
    BY <1>1, <2>2 DEF Supervised, ExitSound
  <2>9. ReadySound'
    BY <1>1, <2>1 DEF ReadySound, MyId, ServiceId, TypeOK
  <2>10. HistorySound'
    BY <1>1 DEF Supervised, HistorySound, Truthful, NoneLateBut
  <2> QED
    BY <2>5, <2>6, <2>7, <2>8, <2>9, <2>10 DEF Supervised
<1> QED
  BY <1>3, <1>4

\* Closing empties the path or leaves it.
LEMMA CloseServerType ==
    ASSUME TypeOK, ReceiptRead, NEW p \in Process, CloseServer(p)
    PROVE  TypeOK' /\ ReceiptRead' /\ starters' = starters
  BY ServiceOwnerAssumption DEF TypeOK, ReceiptRead, CloseServer, Goto, StopStates

\* The one owner closes its own server.
LEMMA CloseServerKeeps ==
    ASSUME TypeOK, ReceiptRead, TypeOK', Supervised, starters = 1, NEW p \in Process, CloseServer(p)
    PROVE  Supervised'
<1> USE ServiceOwnerAssumption DEF CloseServer, Goto, TypeOK, Supervised, AcquireStates, ServeStates, StopStates, OverStates
<1>0. LateGrows
  BY DEF LateGrows
<1>1. OneStarter'
  BY DEF OneStarter
<1>2. OwnerHolds'
  BY DEF OwnerHolds, Owner, Own
<1>3. ReceiptSound'
  <2> SUFFICES ASSUME ownerFile' # None, ownerFile'.full
               PROVE  /\ Past(ownerFile.by)' /\ ownerFile'.n = attempt'[ownerFile.by]
                      /\ HealthTells(ownerFile.by)'
    BY DEF ReceiptSound
  <2> DEFINE b == ownerFile.by
  <2>1. b \in Process /\ ownerFile # None /\ Past(b) /\ HealthTells(b)
        /\ ownerFile.n = attempt[b]
    BY DEF ReceiptSound, Receipt
  <2>2. HealthTells(b)'
    BY <1>0, <2>1, TellsFrame
  <2>3. Past(b)'
    BY <2>1 DEF Past, Alive
  <2> QED
    BY <2>1, <2>2, <2>3
<1>4. StarterKnows'
  <2>1. /\ \A q \in Process \ {p} : pc'[q] = pc[q] /\ seen'[q] = seen[q]
        /\ pc'[p] \notin {"inspect", "rename", "diagnose"}
        /\ attempt' = attempt /\ ownerFile' \in {None, ownerFile}
    OBVIOUS
  <2>2. (Past(p) => Past(p)') /\ (~Alive(p) => ~Alive(p)')
    BY DEF Past, Alive
  <2>3. (health' = health /\ exit' = exit) \/ \A q \in Process : pc[q] # "diagnose"
    OBVIOUS
  <2> QED
    BY <1>0, <2>1, <2>2, <2>3, StarterFrame
<1>5. ListenerBound'
  BY DEF ListenerBound, OwnerHolds
<1>6. ExitSound'
  BY DEF ExitSound, MyId
<1>7. HistorySound'
  <2>1. \A q \in Process \ {p} : pc'[q] = pc[q] /\ exit'[q] = exit[q]
    OBVIOUS
  <2> QED
    BY <1>0, <2>1, HistoryFrame
<1>8. ReadySound'
  <2>1. \A q \in Process \ {p} : pc'[q] = pc[q]
    OBVIOUS
  <2>2. pc[p] \in {"ready", "dead"} => pc'[p] \in {"ready", "dead"}
    OBVIOUS
  <2> QED
    BY <1>0, <2>1, <2>2, ReadyFrame
<1> QED
  BY <1>1, <1>2, <1>3, <1>4, <1>5, <1>6, <1>7, <1>8

\* The last snapshot repeats the classification.
LEMMA RemoveSocketType ==
    ASSUME TypeOK, ReceiptRead, NEW p \in Process, RemoveSocket(p)
    PROVE  TypeOK' /\ ReceiptRead' /\ starters' = starters
  BY ServiceOwnerAssumption DEF TypeOK, ReceiptRead, RemoveSocket, Goto, MyId, ServiceId,
     StopStates, LateStates

\* No other process listens, and health says again what it said.
LEMMA RemoveSocketKeeps ==
    ASSUME TypeOK, ReceiptRead, TypeOK', Supervised, starters = 1, NEW p \in Process, RemoveSocket(p)
    PROVE  Supervised'
<1> USE ServiceOwnerAssumption DEF RemoveSocket, Goto, MyId, TypeOK, Supervised, AcquireStates, ServeStates, StopStates, OverStates
<1>0. LateGrows
  BY DEF LateGrows
<1>1. OneStarter'
  BY DEF OneStarter
<1>2. OwnerHolds'
  BY DEF OwnerHolds, Owner, Own
<1>3. ReceiptSound'
  BY DEF ReceiptSound, OwnerHolds, Owner, Own, Past, HealthTells
<1>4. StarterKnows'
  <2>1. /\ \A q \in Process \ {p} : pc'[q] = pc[q] /\ seen'[q] = seen[q]
        /\ pc'[p] \notin {"inspect", "rename", "diagnose"}
        /\ attempt' = attempt /\ ownerFile' \in {None, ownerFile}
    OBVIOUS
  <2>2. (Past(p) => Past(p)') /\ (~Alive(p) => ~Alive(p)')
    BY DEF Past, Alive
  <2>3. (health' = health /\ exit' = exit) \/ \A q \in Process : pc[q] # "diagnose"
    BY OwnerAlone DEF Owner
  <2> QED
    BY <1>0, <2>1, <2>2, <2>3, StarterFrame
<1>5. ListenerBound'
  BY DEF ListenerBound, OwnerHolds, Owner, Own
<1>6. ExitSound'
  BY DEF ExitSound, ServiceId
<1>7. HistorySound'
  <2>1. \A q \in Process \ {p} : pc'[q] = pc[q] /\ exit'[q] = exit[q]
    OBVIOUS
  <2> QED
    BY <1>0, <2>1, HistoryFrame
<1>8. ReadySound'
  BY DEF ReadySound, ServiceId
<1> QED
  BY <1>1, <1>2, <1>3, <1>4, <1>5, <1>6, <1>7, <1>8

\* Reading the receipt moves only the owner.
LEMMA ReadOwnType ==
    ASSUME TypeOK, ReceiptRead, NEW p \in Process, ReadOwn(p)
    PROVE  TypeOK' /\ ReceiptRead' /\ starters' = starters
  BY ServiceOwnerAssumption DEF TypeOK, ReceiptRead, ReadOwn, Goto, StopStates, OverStates

\* The receipt is the owner's, so it is removed next.
LEMMA ReadOwnKeeps ==
    ASSUME TypeOK, ReceiptRead, TypeOK', Supervised, starters = 1, NEW p \in Process, ReadOwn(p)
    PROVE  Supervised'
<1> USE ServiceOwnerAssumption DEF ReadOwn, Goto, TypeOK, Supervised, AcquireStates, ServeStates, StopStates, OverStates
<1>0. LateGrows
  BY DEF LateGrows
<1>1. OneStarter'
  BY DEF OneStarter
<1>2. OwnerHolds'
  BY DEF OwnerHolds, Owner, Own
<1>3. ReceiptSound'
  <2> SUFFICES ASSUME ownerFile' # None, ownerFile'.full
               PROVE  /\ Past(ownerFile.by)' /\ ownerFile'.n = attempt'[ownerFile.by]
                      /\ HealthTells(ownerFile.by)'
    BY DEF ReceiptSound
  <2> DEFINE b == ownerFile.by
  <2>1. b \in Process /\ ownerFile # None /\ Past(b) /\ HealthTells(b)
        /\ ownerFile.n = attempt[b]
    BY DEF ReceiptSound, Receipt
  <2>2. HealthTells(b)'
    BY <1>0, <2>1, TellsFrame
  <2>3. Past(b)'
    BY <2>1 DEF Past, Alive
  <2> QED
    BY <2>1, <2>2, <2>3
<1>4. StarterKnows'
  <2>1. /\ \A q \in Process \ {p} : pc'[q] = pc[q] /\ seen'[q] = seen[q]
        /\ pc'[p] \notin {"inspect", "rename", "diagnose"}
        /\ attempt' = attempt /\ ownerFile' \in {None, ownerFile}
    OBVIOUS
  <2>2. (Past(p) => Past(p)') /\ (~Alive(p) => ~Alive(p)')
    BY DEF Past, Alive
  <2>3. (health' = health /\ exit' = exit) \/ \A q \in Process : pc[q] # "diagnose"
    OBVIOUS
  <2> QED
    BY <1>0, <2>1, <2>2, <2>3, StarterFrame
<1>5. ListenerBound'
  BY DEF ListenerBound, OwnerHolds
<1>6. ExitSound'
  BY DEF ExitSound, MyId
<1>7. HistorySound'
  <2>1. \A q \in Process \ {p} : pc'[q] = pc[q] /\ exit'[q] = exit[q]
    OBVIOUS
  <2> QED
    BY <1>0, <2>1, HistoryFrame
<1>8. ReadySound'
  <2>1. \A q \in Process \ {p} : pc'[q] = pc[q]
    OBVIOUS
  <2>2. pc[p] \in {"ready", "dead"} => pc'[p] \in {"ready", "dead"}
    OBVIOUS
  <2> QED
    BY <1>0, <2>1, <2>2, ReadyFrame
<1> QED
  BY <1>1, <1>2, <1>3, <1>4, <1>5, <1>6, <1>7, <1>8

\* Unlinking empties the path.
LEMMA UnlinkOwnerType ==
    ASSUME TypeOK, ReceiptRead, NEW p \in Process, UnlinkOwner(p)
    PROVE  TypeOK' /\ ReceiptRead' /\ starters' = starters
  BY ServiceOwnerAssumption DEF TypeOK, ReceiptRead, UnlinkOwner, Goto, OverStates

\* Only the one owner's receipt goes, and with it the owner.
LEMMA UnlinkOwnerKeeps ==
    ASSUME TypeOK, ReceiptRead, TypeOK', Supervised, starters = 1, NEW p \in Process, UnlinkOwner(p)
    PROVE  Supervised'
<1> USE ServiceOwnerAssumption DEF UnlinkOwner, Goto, TypeOK, Supervised, AcquireStates, ServeStates, StopStates, OverStates
<1>0. LateGrows
  BY DEF LateGrows
<1>1. OneStarter'
  BY DEF OneStarter
<1>2. OwnerHolds'
  BY DEF OwnerHolds, Owner, Own
<1>3. ReceiptSound'
  BY DEF ReceiptSound, OneStarter
<1>4. StarterKnows'
  <2>1. /\ \A q \in Process \ {p} : pc'[q] = pc[q] /\ seen'[q] = seen[q]
        /\ pc'[p] \notin {"inspect", "rename", "diagnose"}
        /\ attempt' = attempt /\ ownerFile' \in {None, ownerFile}
    OBVIOUS
  <2>2. (Past(p) => Past(p)') /\ (~Alive(p) => ~Alive(p)')
    BY DEF Past, Alive
  <2>3. (health' = health /\ exit' = exit) \/ \A q \in Process : pc[q] # "diagnose"
    OBVIOUS
  <2> QED
    BY <1>0, <2>1, <2>2, <2>3, StarterFrame
<1>5. ListenerBound'
  BY DEF ListenerBound, OwnerHolds
<1>6. ExitSound'
  BY DEF ExitSound, MyId
<1>7. HistorySound'
  <2>1. \A q \in Process \ {p} : pc'[q] = pc[q] /\ exit'[q] = exit[q]
    OBVIOUS
  <2> QED
    BY <1>0, <2>1, HistoryFrame
<1>8. ReadySound'
  <2>1. \A q \in Process \ {p} : pc'[q] = pc[q]
    OBVIOUS
  <2>2. pc[p] \in {"ready", "dead"} => pc'[p] \in {"ready", "dead"}
    OBVIOUS
  <2> QED
    BY <1>0, <2>1, <2>2, ReadyFrame
<1> QED
  BY <1>1, <1>2, <1>3, <1>4, <1>5, <1>6, <1>7, <1>8

\* Both chains are over.
LEMMA ExitType ==
    ASSUME TypeOK, ReceiptRead, NEW p \in Process, Exit(p)
    PROVE  TypeOK' /\ ReceiptRead' /\ starters' = starters
  BY ServiceOwnerAssumption DEF TypeOK, ReceiptRead, Exit, Goto, EndLate, LateStates, OverStates

\* A released process owns nothing that its end could take away.
LEMMA ExitKeeps ==
    ASSUME TypeOK, ReceiptRead, TypeOK', Supervised, starters = 1, NEW p \in Process, Exit(p)
    PROVE  Supervised'
<1> USE ServiceOwnerAssumption DEF Exit, EndLate, Goto, Alive, TypeOK, Supervised, AcquireStates, ServeStates, StopStates, OverStates
<1>0. LateGrows
  BY DEF LateGrows
<1>1. OneStarter'
  BY DEF OneStarter
<1>2. OwnerHolds'
  BY DEF OwnerHolds, Owner, Own
<1>3. ReceiptSound'
  <2> SUFFICES ASSUME ownerFile' # None, ownerFile'.full
               PROVE  /\ Past(ownerFile.by)' /\ ownerFile'.n = attempt'[ownerFile.by]
                      /\ HealthTells(ownerFile.by)'
    BY DEF ReceiptSound
  <2> DEFINE b == ownerFile.by
  <2>1. b \in Process /\ ownerFile # None /\ Past(b) /\ HealthTells(b)
        /\ ownerFile.n = attempt[b]
    BY DEF ReceiptSound, Receipt
  <2>2. HealthTells(b)'
    BY <1>0, <2>1, TellsFrame
  <2>3. Past(b)'
    BY <2>1 DEF Past, Alive
  <2> QED
    BY <2>1, <2>2, <2>3
<1>4. StarterKnows'
  <2>1. /\ \A q \in Process \ {p} : pc'[q] = pc[q] /\ seen'[q] = seen[q]
        /\ pc'[p] \notin {"inspect", "rename", "diagnose"}
        /\ attempt' = attempt /\ ownerFile' \in {None, ownerFile}
    OBVIOUS
  <2>2. (Past(p) => Past(p)') /\ (~Alive(p) => ~Alive(p)')
    BY DEF Past, Alive
  <2>3. (health' = health /\ exit' = exit) \/ \A q \in Process : pc[q] # "diagnose"
    OBVIOUS
  <2> QED
    BY <1>0, <2>1, <2>2, <2>3, StarterFrame
<1>5. ListenerBound'
  BY DEF ListenerBound, OwnerHolds
<1>6. ExitSound'
  BY DEF ExitSound, MyId
<1>7. HistorySound'
  <2>1. \A q \in Process \ {p} : pc'[q] = pc[q] /\ exit'[q] = exit[q]
    OBVIOUS
  <2> QED
    BY <1>0, <2>1, HistoryFrame
<1>8. ReadySound'
  <2>1. \A q \in Process \ {p} : pc'[q] = pc[q]
    OBVIOUS
  <2>2. pc[p] \in {"ready", "dead"} => pc'[p] \in {"ready", "dead"}
    OBVIOUS
  <2> QED
    BY <1>0, <2>1, <2>2, ReadyFrame
<1> QED
  BY <1>1, <1>2, <1>3, <1>4, <1>5, <1>6, <1>7, <1>8

\* A kill leaves every file.
LEMMA CrashType ==
    ASSUME TypeOK, ReceiptRead, NEW p \in Process, Crash(p)
    PROVE  TypeOK' /\ ReceiptRead' /\ starters' = starters
  BY ServiceOwnerAssumption DEF TypeOK, ReceiptRead, Crash, Forget, EndLate, LateStates, Goto, OverStates

\* A killed process owns nothing, and its receipt stays sound.
LEMMA CrashKeeps ==
    ASSUME TypeOK, ReceiptRead, TypeOK', Supervised, starters = 1, NEW p \in Process, Crash(p)
    PROVE  Supervised'
<1> USE ServiceOwnerAssumption DEF Crash, Forget, EndLate, Goto, Alive, TypeOK, Supervised, AcquireStates, ServeStates, StopStates, OverStates
<1>0. LateGrows
  BY DEF LateGrows
<1>1. OneStarter'
  BY DEF OneStarter
<1>2. OwnerHolds'
  BY DEF OwnerHolds, Owner, Own
<1>3. ReceiptSound'
  <2> SUFFICES ASSUME ownerFile' # None, ownerFile'.full
               PROVE  /\ Past(ownerFile.by)' /\ ownerFile'.n = attempt'[ownerFile.by]
                      /\ HealthTells(ownerFile.by)'
    BY DEF ReceiptSound
  <2> DEFINE b == ownerFile.by
  <2>1. b \in Process /\ ownerFile # None /\ Past(b) /\ HealthTells(b)
        /\ ownerFile.n = attempt[b]
    BY DEF ReceiptSound, Receipt
  <2>2. HealthTells(b)'
    BY <1>0, <2>1, TellsFrame
  <2>3. Past(b)'
    BY <2>1 DEF Past, Alive
  <2> QED
    BY <2>1, <2>2, <2>3
<1>4. StarterKnows'
  <2>1. /\ \A q \in Process \ {p} : pc'[q] = pc[q] /\ seen'[q] = seen[q]
        /\ pc'[p] \notin {"inspect", "rename", "diagnose"}
        /\ attempt' = attempt /\ ownerFile' \in {None, ownerFile}
    OBVIOUS
  <2>2. (Past(p) => Past(p)') /\ (~Alive(p) => ~Alive(p)')
    BY DEF Past, Alive
  <2>3. (health' = health /\ exit' = exit) \/ \A q \in Process : pc[q] # "diagnose"
    OBVIOUS
  <2> QED
    BY <1>0, <2>1, <2>2, <2>3, StarterFrame
<1>5. ListenerBound'
  BY DEF ListenerBound, OwnerHolds
<1>6. ExitSound'
  BY DEF ExitSound, MyId
<1>7. HistorySound'
  <2>1. \A q \in Process \ {p} : pc'[q] = pc[q] /\ exit'[q] = exit[q]
    OBVIOUS
  <2> QED
    BY <1>0, <2>1, HistoryFrame
<1>8. ReadySound'
  <2>1. \A q \in Process \ {p} : pc'[q] = pc[q]
    OBVIOUS
  <2>2. pc[p] \in {"ready", "dead"} => pc'[p] \in {"ready", "dead"}
    OBVIOUS
  <2> QED
    BY <1>0, <2>1, <2>2, ReadyFrame
<1> QED
  BY <1>1, <1>2, <1>3, <1>4, <1>5, <1>6, <1>7, <1>8

-----------------------------------------------------------------------------

\* No process has started: the empty directory satisfies the invariant.
LEMMA InitIndInv == Init => IndInv
<1> SUFFICES ASSUME Init PROVE IndInv
  OBVIOUS
<1>1. TypeOK
  BY ServiceOwnerAssumption DEF Init, TypeOK, NoService, LateStates
<1>2. ReceiptRead /\ OneStarter /\ OwnerHolds /\ StarterKnows /\ ListenerBound
  BY DEF Init, ReceiptRead, OneStarter, OwnerHolds, Owner, StarterKnows, ListenerBound,
     AcquireStates, ServeStates, StopStates
<1>3. ReceiptSound /\ ExitSound /\ ReadySound /\ HistorySound
  BY DEF Init, ReceiptSound, ExitSound, ReadySound, HistorySound, NoService
<1> QED
  BY <1>1, <1>2, <1>3 DEF IndInv, Supervised

\* Every step keeps the types, one lemma per action.
LEMMA NextType ==
    ASSUME TypeOK, ReceiptRead, Next
    PROVE  TypeOK' /\ ReceiptRead' /\ starters' = starters
<1> PICK p \in Process : \/ Start(p) \/ Step(p)
                         \/ \E kind \in ExitKind : Shutdown(p, kind)
                         \/ RecoveryFails(p) \/ ShutdownOvertakes(p)
                         \/ LateReady(p) \/ Heartbeat(p) \/ Exit(p) \/ Crash(p)
  BY DEF Next
<1> QED
  BY StartType, OpenExclusiveType, WriteReceiptType, ReadOwnerType, InspectOwnerType,
     RenameStaleType, DiagnoseType, PersistStartingType, ProbeSocketType, UnlinkSocketType,
     ListenType, BecomeReadyType, ShutdownType, CloseServerType, RemoveSocketType, ReadOwnType,
     UnlinkOwnerType, RecoveryFailsType, ShutdownOvertakesType, LateReadyType, HeartbeatType,
     ExitType, CrashType DEF Step

\* Every step keeps what holds of supervised starts, one lemma per action.
LEMMA NextKeeps ==
    ASSUME TypeOK, ReceiptRead, TypeOK', Supervised, starters = 1, Next
    PROVE  Supervised'
<1> PICK p \in Process : \/ Start(p) \/ Step(p)
                         \/ \E kind \in ExitKind : Shutdown(p, kind)
                         \/ RecoveryFails(p) \/ ShutdownOvertakes(p)
                         \/ LateReady(p) \/ Heartbeat(p) \/ Exit(p) \/ Crash(p)
  BY DEF Next
<1> QED
  BY StartKeeps, OpenExclusiveKeeps, WriteReceiptKeeps, ReadOwnerKeeps, InspectOwnerKeeps,
     RenameStaleKeeps, DiagnoseKeeps, PersistStartingKeeps, ProbeSocketKeeps,
     UnlinkSocketKeeps, ListenKeeps, BecomeReadyKeeps, ShutdownKeeps, CloseServerKeeps,
     RemoveSocketKeeps, ReadOwnKeeps, UnlinkOwnerKeeps, RecoveryFailsKeeps,
     ShutdownOvertakesKeeps, LateReadyKeeps, HeartbeatKeeps, ExitKeeps, CrashKeeps DEF Step

\* A step that changes nothing keeps the invariant.
LEMMA StutterIndInv == IndInv /\ UNCHANGED vars => IndInv'
<1> SUFFICES ASSUME IndInv, UNCHANGED vars PROVE IndInv'
  OBVIOUS
<1>1. TypeOK' /\ ReceiptRead'
  BY DEF IndInv, TypeOK, ReceiptRead, vars
<1>2. ASSUME starters' = 1 PROVE Supervised'
  BY <1>2 DEF IndInv, vars, Supervised, OneStarter, OwnerHolds, ReceiptSound, StarterKnows,
     ListenerBound, ExitSound, ReadySound, HistorySound, Truthful, NoneLateBut, Owner, Own,
     Past, Alive, HealthTells, MyId
<1> QED
  BY <1>1, <1>2 DEF IndInv

\* The invariant is inductive.
LEMMA NextIndInv == IndInv /\ [Next]_vars => IndInv'
<1>1. ASSUME IndInv, Next PROVE IndInv'
  <2>1. TypeOK' /\ ReceiptRead' /\ starters' = starters
    BY <1>1, NextType DEF IndInv
  <2>2. ASSUME starters = 1 PROVE Supervised'
    BY <1>1, <2>1, <2>2, NextKeeps DEF IndInv
  <2> QED
    BY <2>1, <2>2 DEF IndInv
<1> QED
  BY <1>1, StutterIndInv

\* One starter at a time leaves one owner, by the receipt that only one can
\* have in the file, and a ready service is the one that bound the socket.
LEMMA IndInvImplies == IndInv => SupervisedOneOwner /\ DiagnosisTruthful
<1> SUFFICES ASSUME IndInv PROVE SupervisedOneOwner /\ DiagnosisTruthful
  OBVIOUS
<1>1. ASSUME starters = 1 PROVE OneOwner
  BY <1>1, OwnerAlone DEF IndInv, OneOwner
<1>2. ASSUME starters = 1 PROVE ReadyReachable
  BY <1>2 DEF IndInv, Supervised, ListenerBound, ReadySound, ReadyReachable, Alive,
     ServiceId, AcquireStates, ServeStates, StopStates
<1>3. DiagnosisTruthful
  BY DEF IndInv, Supervised, HistorySound, Truthful, DiagnosisTruthful
<1> QED
  BY <1>1, <1>2, <1>3 DEF SupervisedOneOwner, IndInv

\* service-ownership.ts and service-runtime.ts: where the native supervisor
\* starts one service at a time, at most one live process owns the service
\* directory and a service that says it is ready is reachable at the socket,
\* whatever processes were killed between any two file operations.
THEOREM SupervisedOneOwnerHolds == Spec => []SupervisedOneOwner
<1>1. Init => IndInv
  BY InitIndInv
<1>2. IndInv /\ [Next]_vars => IndInv'
  BY NextIndInv
<1>3. IndInv => SupervisedOneOwner
  BY IndInvImplies
<1> QED
  BY <1>1, <1>2, <1>3, PTL DEF Spec

\* classifyPreviousOwner: under the same supervisor the restart history never
\* says "planned" of a service that had not begun a planned shutdown, and says it
\* of each that had, but for the health another service's late start overwrote.
THEOREM DiagnosisTruthfulHolds == Spec => []DiagnosisTruthful
<1>1. Init => IndInv
  BY InitIndInv
<1>2. IndInv /\ [Next]_vars => IndInv'
  BY NextIndInv
<1>3. IndInv => DiagnosisTruthful
  BY IndInvImplies
<1> QED
  BY <1>1, <1>2, <1>3, PTL DEF Spec
=============================================================================
