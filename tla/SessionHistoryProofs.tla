-------------------------- MODULE SessionHistoryProofs --------------------------
(***************************************************************************)
(* What is proved of the two components that keep the history of a         *)
(* session: the Aizen runtime, with its journal and message queues, and    *)
(* SessionManager, with its files of entries.  The journal is exact        *)
(* through crashes, operations exclude each other and no message is lost   *)
(* or held twice; what a session shows is in its file, also behind failed  *)
(* writes, and its entries form a tree.  All for any numbers of messages,  *)
(* tools, events, retries, entries, files and failures.                    *)
(***************************************************************************)
EXTENDS AizenRuntime, SessionFile, WellFoundedInduction, FunctionTheorems, FiniteSetTheorems,
        SequenceTheorems, TLAPS

-----------------------------------------------------------------------------
(* THE AIZEN RUNTIME *)

(* Where the run stands (run.stage) decides what the phase and the journal's *)
(* active records may be, and where a message can be.                        *)

Stage ==
    {"none", "starting", "begin", "work", "prepared", "turn", "inject", "poll", "drained", "stream",
     "tools", "turnEnd", "agentEnd", "ended", "failing", "closing", "interrupting", "decide", "sleep",
     "retrying", "leafSet", "threshold", "compacting", "settling"}

\* The loop of an operation runs.
Looping == {"prepared", "turn", "inject", "poll", "drained", "stream", "tools", "turnEnd"}

\* The journal has an active operation.
Working == Looping \cup {"work", "agentEnd", "ended", "failing", "closing", "interrupting"}

Role == {"none", "user", "assistant", "error", "toolResult"}

RunType ==
    [stage : Stage, intent : {"none", "prompt", "message", "retry"}, input : Msg \cup {0},
     controller : BOOLEAN, aborted : BOOLEAN,
     resp : {"none", "stop", "error", "overflow", "aborted", "tools"},
     more : BOOLEAN, first : BOOLEAN, from : {"none", "steer", "followUp"}, detached : BOOLEAN,
     retries : Nat, overflow : BOOLEAN, compact : BOOLEAN]

QueueType ==
    [steer : Seq(Msg), followUp : Seq(Msg), nextTurn : Seq(Msg), pending : Seq(Msg),
     writes : Seq(Msg), waiting : Seq(Msg)]

ItemType ==
    [level : {"op", "turn", "tool"}, op : Nat, of : {"none", "prompt", "message", "retry"}, closes : Nat]

SessionType == [messages : Seq(Msg), last : Role, before : Role, journal : Seq(ItemType)]

ActiveType == [op : Nat, turn : Nat, tools : SUBSET Nat, swept : SUBSET Nat]

CountType ==
    [tools : Nat, aborts : Nat, compactions : Nat, crashes : Nat, faults : Nat, drainFaults : Nat]

Journal == DOMAIN session.journal

\* Every variable has its type.
Types ==
    /\ phase \in {"idle", "turn", "compaction", "retry"}
    /\ manual \in BOOLEAN /\ recovered \in BOOLEAN
    /\ run \in RunType /\ q \in QueueType /\ session \in SessionType
    /\ active \in ActiveType /\ count \in CountType
    /\ given \subseteq Msg /\ executing \subseteq Journal

\* The journal has an operation of a retry.
Retried == \E i \in Journal : session.journal[i].of = "retry"

\* A run that has a message to send has it in its hands, and a retry is in
\* the journal once it has begun.
InHand ==
    /\ run.stage \in {"starting", "begin", "work"} /\ run.intent # "retry" => run.input \in Msg
    /\ run.stage = "prepared" => q.pending # <<>>
    /\ run.stage = "drained" => run.from \in {"steer", "followUp"}
    /\ run.stage = "none" <=> run.intent = "none"
    /\ run.intent = "retry" /\ run.stage # "begin" => Retried

-----------------------------------------------------------------------------
(* The phase. *)

\* The ways out of the exclusion.
Excused ==
    /\ count.compactions > 0
    /\ count.faults > 0 \/ Retried

\* The harness has no operation: it is idle, or a manual compaction works.
Free == IF manual THEN phase = "compaction" ELSE phase = "idle"

\* What the phase is where the run stands.
PhaseHeld ==
    /\ manual => count.compactions > 0
    /\ ~Excused =>
        /\ run.stage \in Looping \cup {"agentEnd"} => phase \in {"turn", "retry"} /\ ~manual
        /\ run.stage = "failing" => ~manual /\ (phase \in {"turn", "retry"} \/ count.faults > 0)
        /\ run.stage = "compacting" => ~manual /\ phase = "compaction"
        /\ run.stage \in {"begin", "work"} =>
              /\ run.intent = "prompt" => Free
              /\ run.intent = "message" => ~manual /\ phase = "turn"
              /\ run.intent = "retry" /\ count.compactions = 0 => phase = "retry"
        /\ run.stage = "interrupting" =>
              /\ run.intent = "prompt" => Free
              /\ run.intent = "message" => ~manual /\ (phase \in {"turn", "retry"} \/ count.faults > 0)
        /\ run.stage \in {"none", "starting", "ended", "closing", "decide", "sleep", "retrying",
                         "leafSet", "threshold", "settling"} => Free

-----------------------------------------------------------------------------
(* The journal. *)

\* What is active where the run stands.
ActiveFits ==
    /\ run.stage \in Working <=> active.op # 0
    /\ active.op = 0 => active.turn = 0 /\ active.tools = {} /\ active.swept = {}
    /\ active.op # 0 => recovered
    /\ run.stage \in {"work", "prepared", "turn"} => active.turn = 0
    /\ run.stage \in {"poll", "drained"} /\ ~run.first => active.turn = 0
    /\ active.tools # {} =>
          \/ run.stage = "tools"
          \/ run.stage \in {"failing", "ended", "closing", "interrupting"} /\ count.faults > 0
    /\ active.swept # {} => run.stage \in {"closing", "interrupting"} /\ count.faults > 0

\* The records of what is active are open, but for the tools swept already.
ActiveOpen ==
    /\ active.op # 0 =>
        /\ active.op \in Journal
        /\ session.journal[active.op].level = "op" /\ session.journal[active.op].closes = 0
    /\ active.turn # 0 =>
        /\ active.turn \in Journal
        /\ session.journal[active.turn].level = "turn" /\ session.journal[active.turn].closes = 0
        /\ session.journal[active.turn].op = active.op
    /\ \A t \in active.tools :
        /\ t \in Journal
        /\ session.journal[t].level = "tool" /\ session.journal[t].op = active.op
        /\ session.journal[t].closes = IF t \in active.swept THEN 1 ELSE 0
    /\ active.swept \subseteq Journal

\* Nothing else is open once recovery has run.
NothingElseOpen ==
    recovered => \A i \in Open :
        i = active.op \/ i = active.turn \/ i \in active.tools \ active.swept

\* Operations name themselves, are closed last, and all are closed once.
Recorded ==
    \A i \in Journal :
        LET item == session.journal[i] IN
        /\ item.level = "op" => item.op = i
        /\ item.closes <= (IF item.level = "tool" /\ count.faults > 0 THEN 2 ELSE 1)
        /\ item.level = "op" /\ item.closes > 0 =>
              \A j \in Journal : session.journal[j].op = i => session.journal[j].closes > 0

RuntimeInv == Types /\ InHand /\ PhaseHeld /\ ActiveFits /\ ActiveOpen /\ NothingElseOpen /\ Recorded

-----------------------------------------------------------------------------
(* The session file and the journal in it. *)

\* What is appended to the branch leaves the journal alone.
LEMMA AppendedTyped ==
    ASSUME NEW s \in SessionType, NEW role \in Role
    PROVE  Appended(s, role) \in SessionType /\ Appended(s, role).journal = s.journal
BY DEF Appended, SessionType

\* So do user messages.
LEMMA AppendedUserTyped ==
    ASSUME NEW s \in SessionType, NEW ms \in Seq(Msg)
    PROVE  AppendedUser(s, ms) \in SessionType /\ AppendedUser(s, ms).journal = s.journal
<1>1. CASE ms = <<>>
  BY <1>1 DEF AppendedUser
<1>2. CASE ms # <<>>
  <2> DEFINE u == Appended(s, "user")
  <2>1. u \in SessionType /\ u.journal = s.journal
    BY AppendedTyped DEF Role
  <2>2. AppendedUser(s, ms) = [u EXCEPT !.messages = s.messages \o ms]
    BY <1>2 DEF AppendedUser
  <2>3. s.messages \o ms \in Seq(Msg)
    BY DEF SessionType
  <2> HIDE DEF u
  <2> QED
    BY <2>1, <2>2, <2>3 DEF SessionType
<1> QED
  BY <1>1, <1>2

\* So do the deferred writes.
LEMMA FlushedTyped ==
    ASSUME Types, NEW s \in SessionType
    PROVE  Flushed(s) \in SessionType /\ Flushed(s).journal = s.journal
BY AppendedUserTyped DEF Types, QueueType, Flushed

\* The records have their type.
LEMMA ItemsTyped ==
    ASSUME session \in SessionType
    PROVE  \A i \in Journal : session.journal[i] \in ItemType /\ session.journal[i].closes \in Nat
<1>1. session.journal \in Seq(ItemType)
  BY DEF SessionType
<1>2. \A i \in Journal : session.journal[i] \in ItemType
  BY <1>1 DEF Journal
<1> QED
  BY <1>2 DEF ItemType

\* The next place in the journal, and its places.
LEMMA PlaceTyped ==
    ASSUME session \in SessionType
    PROVE  /\ Place(session) \in Nat /\ Place(session) # 0 /\ Place(session) \notin Journal
           /\ Journal \subseteq Nat /\ 0 \notin Journal
<1>1. session.journal \in Seq(ItemType)
  BY DEF SessionType
<1>2. Len(session.journal) \in Nat /\ Journal = 1..Len(session.journal)
  BY <1>1 DEF Journal
<1> QED
  BY <1>2 DEF Place

\* One record is closed.
LEMMA ClosedTyped ==
    ASSUME NEW s \in SessionType, NEW i \in DOMAIN s.journal
    PROVE  /\ Closed(s, i) \in SessionType /\ Len(Closed(s, i).journal) = Len(s.journal)
           /\ Closed(s, i).journal[i] = [s.journal[i] EXCEPT !.closes = s.journal[i].closes + 1]
           /\ \A j \in DOMAIN s.journal \ {i} : Closed(s, i).journal[j] = s.journal[j]
<1> DEFINE x == [s.journal[i] EXCEPT !.closes = s.journal[i].closes + 1]
<1> DEFINE l == [s.journal EXCEPT ![i] = x]
<1>1. s.journal \in Seq(ItemType) /\ s.journal[i] \in ItemType
  BY DEF SessionType
<1>2. x \in ItemType
  <2>1. s.journal[i].closes + 1 \in Nat
    BY <1>1 DEF ItemType
  <2> QED
    BY <1>1, <2>1 DEF ItemType
<1>3. Closed(s, i) = [s EXCEPT !.journal = l]
  BY <1>1 DEF Closed, SessionType
<1> HIDE DEF x
<1>4. /\ l \in Seq(ItemType) /\ Len(l) = Len(s.journal) /\ l[i] = x
      /\ \A j \in DOMAIN s.journal \ {i} : l[j] = s.journal[j]
  BY <1>1, <1>2
<1> HIDE DEF l
<1>5. Closed(s, i) \in SessionType /\ Closed(s, i).journal = l
  BY <1>3, <1>4 DEF SessionType
<1> QED
  BY <1>1, <1>4, <1>5 DEF x

\* What closing a record changes: its count of closes.
ClosedOne(i) ==
    /\ Journal' = Journal
    /\ session'.journal[i].closes = session.journal[i].closes + 1
    /\ \A j \in Journal :
        /\ j # i => session'.journal[j].closes = session.journal[j].closes
        /\ session'.journal[j].level = session.journal[j].level
        /\ session'.journal[j].op = session.journal[j].op
        /\ session'.journal[j].of = session.journal[j].of
        /\ session'.journal[j].closes \in Nat /\ session.journal[j].closes \in Nat

\* A step that closes a record and appends to the branch.
LEMMA ClosedStep ==
    ASSUME NEW s \in SessionType, s.journal = session.journal, session \in SessionType, NEW i \in Journal,
           session' = Closed(s, i)
    PROVE  session' \in SessionType /\ ClosedOne(i)
<1>1. /\ session' \in SessionType /\ Len(session'.journal) = Len(session.journal)
      /\ session'.journal[i] = [session.journal[i] EXCEPT !.closes = session.journal[i].closes + 1]
      /\ \A j \in Journal \ {i} : session'.journal[j] = session.journal[j]
  BY ClosedTyped DEF Journal
<1>2. \A j \in Journal : session.journal[j] \in ItemType
  BY DEF Journal, SessionType
<1>3. session.journal \in Seq(ItemType) /\ session'.journal \in Seq(ItemType)
  BY <1>1 DEF SessionType
<1>4. Journal' = Journal
  BY <1>1, <1>3 DEF Journal
<1> QED
  BY <1>1, <1>2, <1>4 DEF ClosedOne, ItemType

\* A record is appended.
LEMMA StartedTyped ==
    ASSUME NEW s \in SessionType, NEW x \in ItemType
    PROVE  /\ [s EXCEPT !.journal = Append(@, x)] \in SessionType
           /\ [s EXCEPT !.journal = Append(@, x)].journal = Append(s.journal, x)
BY DEF SessionType

\* What starting a record changes: there is one more.
StartedOne(level, op, of) ==
    LET n == Place(session) IN
    /\ n \in Nat /\ n # 0 /\ n \notin Journal /\ Journal' = Journal \cup {n}
    /\ session'.journal[n] = [level |-> level, op |-> op, of |-> of, closes |-> 0]
    /\ \A j \in Journal : session'.journal[j] = session.journal[j] /\ session.journal[j].closes \in Nat

\* A step that starts a record.
LEMMA StartedStep ==
    ASSUME session \in SessionType, run \in RunType, NEW level \in {"op", "turn", "tool"}, NEW op \in Nat,
           session' = [session EXCEPT !.journal = Append(@, Item(level, op))]
    PROVE  session' \in SessionType /\ StartedOne(level, op, run.intent)
<1> DEFINE x == Item(level, op)
<1>1. x \in ItemType /\ x = [level |-> level, op |-> op, of |-> run.intent, closes |-> 0]
  BY DEF Item, ItemType, RunType
<1>2. session' \in SessionType /\ session'.journal = Append(session.journal, x)
  BY <1>1, StartedTyped
<1>3. session.journal \in Seq(ItemType)
  BY DEF SessionType
<1> HIDE DEF x
<1>4. /\ Place(session) = Len(session.journal) + 1 /\ Journal = 1..Len(session.journal)
      /\ Journal' = 1..(Len(session.journal) + 1) /\ session'.journal[Len(session.journal) + 1] = x
      /\ \A j \in Journal : session'.journal[j] = session.journal[j] /\ session.journal[j] \in ItemType
  BY <1>1, <1>2, <1>3 DEF Place, Journal
<1>5. Len(session.journal) \in Nat
  BY <1>3
<1> QED
  BY <1>1, <1>2, <1>4, <1>5 DEF StartedOne, ItemType

-----------------------------------------------------------------------------
(* Steps that leave the journal alone. *)

\* They leave its invariants alone.
LEMMA JournalKept ==
    ASSUME Types, ActiveOpen, NothingElseOpen, Recorded, session'.journal = session.journal,
           active' = active, recovered' = recovered, count' \in CountType, count'.faults >= count.faults
    PROVE  ActiveOpen' /\ NothingElseOpen' /\ Recorded'
<1>1. Journal' = Journal /\ Open' = Open
  BY DEF Journal, Open
<1>2. ActiveOpen' /\ NothingElseOpen'
  BY <1>1 DEF ActiveOpen, NothingElseOpen
<1>3. count.faults \in Nat /\ count'.faults \in Nat
  BY DEF Types, CountType
<1>4. \A i \in Journal : session.journal[i].closes \in Nat
  BY ItemsTyped DEF Types
<1>5. Recorded'
  <2>1. SUFFICES ASSUME NEW i \in Journal
                 PROVE  /\ session.journal[i].level = "op" => session.journal[i].op = i
                        /\ session.journal[i].closes
                              <= (IF session.journal[i].level = "tool" /\ count'.faults > 0 THEN 2 ELSE 1)
                        /\ session.journal[i].level = "op" /\ session.journal[i].closes > 0 =>
                              \A j \in Journal : session.journal[j].op = i => session.journal[j].closes > 0
    BY <1>1 DEF Recorded
  <2> QED
    BY <1>3, <1>4 DEF Recorded
<1> QED
  BY <1>2, <1>5

\* The ways out of the exclusion stay open.
LEMMA ExcusedStays ==
    ASSUME Types, count' \in CountType, count'.faults >= count.faults,
           count'.compactions >= count.compactions,
           \A i \in Journal : i \in Journal' /\ session'.journal[i].of = session.journal[i].of
    PROVE  (Excused => Excused') /\ (Retried => Retried')
<1>1. {count.faults, count'.faults, count.compactions, count'.compactions} \subseteq Nat
  BY DEF Types, CountType
<1>2. Retried => Retried'
  BY DEF Retried
<1> QED
  BY <1>1, <1>2 DEF Excused

\* What such a step keeps.
Kept ==
    /\ session'.journal = session.journal /\ active' = active /\ recovered' = recovered
    /\ executing' = executing /\ Journal' = Journal
    /\ ActiveOpen' /\ NothingElseOpen' /\ Recorded'
    /\ (Excused => Excused') /\ (Retried => Retried')

\* A step that leaves the journal alone keeps all this.
LEMMA StepKeeps ==
    ASSUME RuntimeInv, session'.journal = session.journal, active' = active, recovered' = recovered,
           executing' = executing,
           count' \in CountType, count'.faults >= count.faults, count'.compactions >= count.compactions
    PROVE  Kept
<1>1. Types /\ ActiveOpen /\ NothingElseOpen /\ Recorded
  BY DEF RuntimeInv
<1>2. Journal' = Journal
  BY DEF Journal
<1>3. (Excused => Excused') /\ (Retried => Retried')
  BY <1>1, <1>2, ExcusedStays
<1> QED
  BY <1>1, <1>2, <1>3, JournalKept DEF Kept

-----------------------------------------------------------------------------
(* The queues. *)

\* A drain takes one message, or all of them.
LEMMA DrainTyped ==
    ASSUME q \in QueueType, NEW name \in {"steer", "followUp"}, Drain(name)
    PROVE  q' \in QueueType
<1>1. CASE name = "steer"
  <2>1. q.steer \in Seq(Msg) /\ q.steer # <<>>
    BY <1>1 DEF Drain, QueueType
  <2>2. PICK n \in {1, Len(q.steer)} :
            q' = [q EXCEPT !.pending = SubSeq(q.steer, 1, n), !.steer = SubSeq(q.steer, n + 1, Len(q.steer))]
    BY <1>1 DEF Drain
  <2>3. SubSeq(q.steer, 1, n) \in Seq(Msg) /\ SubSeq(q.steer, n + 1, Len(q.steer)) \in Seq(Msg)
    BY <2>1, <2>2
  <2> QED
    BY <2>2, <2>3 DEF QueueType
<1>2. CASE name = "followUp"
  <2>1. q.followUp \in Seq(Msg) /\ q.followUp # <<>>
    BY <1>2 DEF Drain, QueueType
  <2>2. PICK n \in {1, Len(q.followUp)} :
            q' = [q EXCEPT !.pending = SubSeq(q.followUp, 1, n),
                           !.followUp = SubSeq(q.followUp, n + 1, Len(q.followUp))]
    BY <1>2 DEF Drain
  <2>3. /\ SubSeq(q.followUp, 1, n) \in Seq(Msg)
        /\ SubSeq(q.followUp, n + 1, Len(q.followUp)) \in Seq(Msg)
    BY <2>1, <2>2
  <2> QED
    BY <2>2, <2>3 DEF QueueType
<1> QED
  BY <1>1, <1>2

\* A drain that fails gives them back.
LEMMA RestoredTyped ==
    ASSUME q \in QueueType, run.from \in {"steer", "followUp"}
    PROVE  Restored \in QueueType
<1> DEFINE e == <<>>
<1> DEFINE back(s) == IF run.detached THEN s ELSE q.pending \o s
<1>1. q.steer \in Seq(Msg) /\ q.followUp \in Seq(Msg) /\ q.pending \in Seq(Msg) /\ e \in Seq(Msg)
  BY DEF QueueType
<1>2. back(q.steer) \in Seq(Msg) /\ back(q.followUp) \in Seq(Msg)
  BY <1>1
<1>3. \/ Restored = [q EXCEPT !.pending = e, !.steer = back(q.steer)]
      \/ Restored = [q EXCEPT !.pending = e, !.followUp = back(q.followUp)]
  <2>1. CASE run.from = "steer"
    BY <2>1 DEF Restored, QueueType
  <2>2. CASE run.from = "followUp"
    BY <2>2 DEF Restored, QueueType
  <2> QED
    BY <2>1, <2>2
<1> HIDE DEF e, back
<1> QED
  BY <1>1, <1>2, <1>3 DEF QueueType

\* A message is queued.
LEMMA QueueAppend ==
    ASSUME q \in QueueType, NEW m \in Msg,
           NEW r, \/ r = [q EXCEPT !.steer = Append(q.steer, m)]
                  \/ r = [q EXCEPT !.followUp = Append(q.followUp, m)]
                  \/ r = [q EXCEPT !.waiting = Append(q.waiting, m)]
                  \/ r = [q EXCEPT !.nextTurn = Append(q.nextTurn, m)]
                  \/ r = [q EXCEPT !.writes = Append(q.writes, m)]
    PROVE  r \in QueueType /\ r.pending = q.pending
<1>1. \A s \in Seq(Msg) : Append(s, m) \in Seq(Msg)
  OBVIOUS
<1> DEFINE a(s) == Append(s, m)
<1>2. \A s \in Seq(Msg) : a(s) \in Seq(Msg)
  BY <1>1
<1>3. \/ r = [q EXCEPT !.steer = a(q.steer)]
      \/ r = [q EXCEPT !.followUp = a(q.followUp)]
      \/ r = [q EXCEPT !.waiting = a(q.waiting)]
      \/ r = [q EXCEPT !.nextTurn = a(q.nextTurn)]
      \/ r = [q EXCEPT !.writes = a(q.writes)]
  OBVIOUS
<1> HIDE DEF a
<1> QED
  BY <1>2, <1>3 DEF QueueType

\* A queue is emptied.
LEMMA QueueClear ==
    ASSUME q \in QueueType
    PROVE  /\ [q EXCEPT !.pending = <<>>] \in QueueType
           /\ [q EXCEPT !.writes = <<>>] \in QueueType /\ [q EXCEPT !.writes = <<>>].pending = q.pending
           /\ [q EXCEPT !.steer = <<>>, !.followUp = <<>>] \in QueueType
           /\ [q EXCEPT !.steer = <<>>, !.followUp = <<>>].pending = q.pending
<1>1. <<>> \in Seq(Msg)
  OBVIOUS
<1> DEFINE e == <<>>
<1>2. e \in Seq(Msg)
  BY <1>1
<1> HIDE DEF e
<1>3. /\ [q EXCEPT !.pending = e] \in QueueType
      /\ [q EXCEPT !.writes = e] \in QueueType /\ [q EXCEPT !.writes = e].pending = q.pending
      /\ [q EXCEPT !.steer = e, !.followUp = e] \in QueueType
      /\ [q EXCEPT !.steer = e, !.followUp = e].pending = q.pending
  BY <1>2 DEF QueueType
<1> QED
  BY <1>3 DEF e

-----------------------------------------------------------------------------
(* One lemma for each action. *)

\* A prompt starts a run.
LEMMA PromptInd ==
    ASSUME RuntimeInv, NEW m \in Msg, Prompt(m)
    PROVE  RuntimeInv'
<1>1. Types /\ InHand /\ PhaseHeld /\ ActiveFits /\ ActiveOpen /\ NothingElseOpen /\ Recorded
  BY DEF RuntimeInv
<1>2. /\ phase' = phase /\ manual' = manual /\ q' = q /\ given' = given /\ session' = session
      /\ active' = active /\ executing' = executing /\ recovered' = recovered
      /\ count' = count
  BY DEF Prompt
<1>3. /\ count' \in CountType /\ count'.faults >= count.faults
      /\ count'.compactions >= count.compactions
  BY <1>1, <1>2 DEF Types, CountType
<1>4. /\ run.stage = "none"
      /\ run' \in RunType /\ run'.stage = "starting" /\ run'.intent = "prompt"
      /\ run'.input = m /\ run'.first = FALSE /\ run'.from = "none"
  BY DEF Prompt, At, RunType, Stage, StartRun, NoRun
<1>5. Kept
  BY <1>1, <1>2, <1>3, <1>4, StepKeeps DEF Types
<1>6. Types'
  BY <1>1, <1>2, <1>4, <1>5 DEF Types, Kept
<1>7. InHand'
  BY <1>4 DEF InHand
<1>8. PhaseHeld'
  BY <1>1, <1>2, <1>4, <1>5 DEF PhaseHeld, Free, Looping, Kept
<1>9. ActiveFits'
  BY <1>1, <1>2, <1>4 DEF ActiveFits, Working, Looping
<1> QED
  BY <1>5, <1>6, <1>7, <1>8, <1>9 DEF RuntimeInv, Kept

\* A message starts a run, or is queued.
LEMMA SendUserMessageInd ==
    ASSUME RuntimeInv, NEW m \in Msg, SendUserMessage(m)
    PROVE  RuntimeInv'
<1>1. Types /\ InHand /\ PhaseHeld /\ ActiveFits /\ ActiveOpen /\ NothingElseOpen /\ Recorded
  BY DEF RuntimeInv
<1>2. /\ phase' = phase /\ manual' = manual /\ given' = given /\ session' = session
      /\ active' = active /\ executing' = executing /\ recovered' = recovered
      /\ count' = count
  BY DEF SendUserMessage
<1>3. /\ count' \in CountType /\ count'.faults >= count.faults
      /\ count'.compactions >= count.compactions
  BY <1>1, <1>2 DEF Types, CountType
<1>4. \/ /\ run.stage = "none" /\ q' = q
         /\ run' \in RunType /\ run'.stage = "starting" /\ run'.intent = "message" /\ run'.input = m
      \/ run' = run /\ q' \in QueueType /\ q'.pending = q.pending
  <2>1. CASE StartRun(m, "message") /\ UNCHANGED q
    BY <2>1 DEF StartRun, At, NoRun, RunType, Stage
  <2>2. CASE /\ UNCHANGED run
             /\ \/ \E name \in {"steer", "followUp"} : q' = [q EXCEPT ![name] = Append(@, m)]
                \/ q' = [q EXCEPT !.waiting = Append(@, m)]
    <3>1. q \in QueueType
      BY <1>1 DEF Types
    <3>2. CASE q' = [q EXCEPT !.steer = Append(@, m)]
      BY <2>2, <3>1, <3>2, QueueAppend
    <3>3. CASE q' = [q EXCEPT !.followUp = Append(@, m)]
      BY <2>2, <3>1, <3>3, QueueAppend
    <3>4. CASE q' = [q EXCEPT !.waiting = Append(@, m)]
      BY <2>2, <3>1, <3>4, QueueAppend
    <3> QED
      BY <2>2, <3>2, <3>3, <3>4
  <2> QED
    BY <2>1, <2>2 DEF SendUserMessage
<1>5. Kept
  BY <1>1, <1>2, <1>3, <1>4, StepKeeps DEF Types
<1>6. Types'
  BY <1>1, <1>2, <1>4, <1>5 DEF Types, Kept
<1>7. InHand'
  BY <1>1, <1>4, <1>5 DEF InHand, Kept
<1>8. PhaseHeld'
  BY <1>1, <1>2, <1>4, <1>5 DEF PhaseHeld, Free, Looping, Kept
<1>9. ActiveFits'
  BY <1>1, <1>2, <1>4 DEF ActiveFits, Working, Looping
<1> QED
  BY <1>5, <1>6, <1>7, <1>8, <1>9 DEF RuntimeInv, Kept

\* A send that waited starts a run.
LEMMA ResendInd ==
    ASSUME RuntimeInv, Resend
    PROVE  RuntimeInv'
<1>1. Types /\ InHand /\ PhaseHeld /\ ActiveFits /\ ActiveOpen /\ NothingElseOpen /\ Recorded
  BY DEF RuntimeInv
<1>2. /\ phase' = phase /\ manual' = manual /\ given' = given /\ session' = session
      /\ active' = active /\ executing' = executing /\ recovered' = recovered
      /\ count' = count
  BY DEF Resend
<1>3. /\ count' \in CountType /\ count'.faults >= count.faults
      /\ count'.compactions >= count.compactions
  BY <1>1, <1>2 DEF Types, CountType
<1>4. q' \in QueueType /\ Head(q.waiting) \in Msg
  <2>1. q \in QueueType /\ q.waiting \in Seq(Msg) /\ q.waiting # <<>>
    BY <1>1 DEF Resend, Types, QueueType
  <2>2. Head(q.waiting) \in Msg /\ Tail(q.waiting) \in Seq(Msg)
    BY <2>1
  <2> QED
    BY <2>1, <2>2 DEF Resend, QueueType
<1>5. /\ run.stage = "none"
      /\ run' \in RunType /\ run'.stage = "starting" /\ run'.intent = "message"
      /\ run'.input = Head(q.waiting) /\ run'.first = FALSE /\ run'.from = "none"
  BY <1>4 DEF Resend, At, StartRun, NoRun, RunType, Stage
<1>6. Kept
  BY <1>2, <1>3, StepKeeps
<1>7. Types'
  BY <1>1, <1>2, <1>4, <1>5, <1>6 DEF Types, Kept
<1>8. InHand'
  BY <1>4, <1>5 DEF InHand
<1>9. PhaseHeld'
  BY <1>1, <1>2, <1>5, <1>6 DEF PhaseHeld, Free, Looping, Kept
<1>10. ActiveFits'
  BY <1>1, <1>2, <1>5 DEF ActiveFits, Working, Looping
<1> QED
  BY <1>6, <1>7, <1>8, <1>9, <1>10 DEF RuntimeInv, Kept

\* A message waits for the next turn.
LEMMA NextTurnMessageInd ==
    ASSUME RuntimeInv, NEW m \in Msg, NextTurnMessage(m)
    PROVE  RuntimeInv'
<1>1. Types /\ InHand /\ PhaseHeld /\ ActiveFits /\ ActiveOpen /\ NothingElseOpen /\ Recorded
  BY DEF RuntimeInv
<1>2. /\ phase' = phase /\ run' = run /\ manual' = manual /\ given' = given
      /\ session' = session /\ active' = active /\ executing' = executing
      /\ recovered' = recovered /\ count' = count
  BY DEF NextTurnMessage
<1>3. /\ count' \in CountType /\ count'.faults >= count.faults
      /\ count'.compactions >= count.compactions
  BY <1>1, <1>2 DEF Types, CountType
<1>4. q' \in QueueType /\ q'.pending = q.pending
  BY <1>1, QueueAppend, QueueClear DEF NextTurnMessage, Types
<1>5. Kept
  BY <1>1, <1>2, <1>3, <1>4, StepKeeps DEF Types
<1>6. Types'
  BY <1>1, <1>2, <1>4, <1>5 DEF Types, Kept
<1>7. InHand'
  BY <1>1, <1>2, <1>4, <1>5 DEF InHand, Kept
<1>8. PhaseHeld'
  BY <1>1, <1>2, <1>5 DEF PhaseHeld, Free, Kept
<1>9. ActiveFits'
  BY <1>1, <1>2 DEF ActiveFits
<1> QED
  BY <1>5, <1>6, <1>7, <1>8, <1>9 DEF RuntimeInv, Kept

\* A message is written, or deferred.
LEMMA AppendMessageInd ==
    ASSUME RuntimeInv, NEW m \in Msg, AppendMessage(m)
    PROVE  RuntimeInv'
<1>1. Types /\ InHand /\ PhaseHeld /\ ActiveFits /\ ActiveOpen /\ NothingElseOpen /\ Recorded
  BY DEF RuntimeInv
<1>2. /\ phase' = phase /\ run' = run /\ manual' = manual /\ given' = given
      /\ active' = active /\ executing' = executing /\ recovered' = recovered
      /\ count' = count
  BY DEF AppendMessage
<1>3. /\ count' \in CountType /\ count'.faults >= count.faults
      /\ count'.compactions >= count.compactions
  BY <1>1, <1>2 DEF Types, CountType
<1>4. q' \in QueueType /\ q'.pending = q.pending
  BY <1>1, QueueAppend, QueueClear DEF AppendMessage, Types
<1>5. session' \in SessionType /\ session'.journal = session.journal
  <2>1. <<m>> \in Seq(Msg) /\ session \in SessionType
    BY <1>1 DEF Types
  <2> QED
    BY <2>1, AppendedUserTyped DEF AppendMessage
<1>6. Kept
  BY <1>2, <1>3, <1>5, StepKeeps
<1>7. Types'
  BY <1>1, <1>2, <1>4, <1>5, <1>6 DEF Types, Kept
<1>8. InHand'
  BY <1>1, <1>2, <1>4, <1>6 DEF InHand, Kept
<1>9. PhaseHeld'
  BY <1>1, <1>2, <1>6 DEF PhaseHeld, Free, Kept
<1>10. ActiveFits'
  BY <1>1, <1>2 DEF ActiveFits
<1> QED
  BY <1>6, <1>7, <1>8, <1>9, <1>10 DEF RuntimeInv, Kept

\* The queues are handed back, and the run may be told to stop.
LEMMA ClearQueuesInd ==
    ASSUME RuntimeInv, NEW abort \in BOOLEAN, ClearQueues(abort)
    PROVE  RuntimeInv'
<1>1. Types /\ InHand /\ PhaseHeld /\ ActiveFits /\ ActiveOpen /\ NothingElseOpen /\ Recorded
  BY DEF RuntimeInv
<1>2. /\ phase' = phase /\ manual' = manual /\ session' = session /\ active' = active
      /\ executing' = executing /\ recovered' = recovered
  BY DEF ClearQueues
<1>3. /\ count' \in CountType /\ count'.faults >= count.faults /\ count'.compactions >= count.compactions
      /\ count'.faults = count.faults /\ count'.compactions = count.compactions
  BY <1>1 DEF ClearQueues, Types, CountType
<1>4. q' \in QueueType /\ q'.pending = q.pending
  BY <1>1, QueueAppend, QueueClear DEF ClearQueues, Types
<1>5. given' \subseteq Msg
  BY <1>1 DEF ClearQueues, Types, QueueType, ToSet
<1>6. /\ run' \in RunType /\ run'.stage = run.stage /\ run'.intent = run.intent
      /\ run'.input = run.input /\ run'.first = run.first /\ run'.from = run.from
  <2> DEFINE d == At("drained")
  <2> DEFINE a == run.aborted \/ (abort /\ run.controller)
  <2>1. d \in BOOLEAN /\ a \in BOOLEAN /\ run' = [run EXCEPT !.detached = d, !.aborted = a]
    BY DEF ClearQueues, At
  <2> HIDE DEF d, a
  <2> QED
    BY <1>1, <2>1 DEF Types, RunType
<1>7. Kept
  BY <1>2, <1>3, StepKeeps
<1>8. Types'
  BY <1>1, <1>2, <1>3, <1>4, <1>5, <1>6, <1>7 DEF Types, Kept
<1>9. InHand'
  BY <1>1, <1>4, <1>6, <1>7 DEF InHand, Kept
<1>10. PhaseHeld'
  BY <1>1, <1>2, <1>3, <1>6, <1>7 DEF PhaseHeld, Free, Kept
<1>11. ActiveFits'
  BY <1>1, <1>2, <1>3, <1>6 DEF ActiveFits
<1> QED
  BY <1>7, <1>8, <1>9, <1>10, <1>11 DEF RuntimeInv, Kept

\* A run begins, or is refused.
LEMMA StartInd ==
    ASSUME RuntimeInv, Start
    PROVE  RuntimeInv'
<1>1. Types /\ InHand /\ PhaseHeld /\ ActiveFits /\ ActiveOpen /\ NothingElseOpen /\ Recorded
  BY DEF RuntimeInv
<1>2. /\ manual' = manual /\ q' = q /\ session' = session /\ active' = active
      /\ executing' = executing /\ recovered' = recovered /\ count' = count
  BY DEF Start
<1>3. /\ count' \in CountType /\ count'.faults >= count.faults
      /\ count'.compactions >= count.compactions
  BY <1>1, <1>2 DEF Types, CountType
<1>4. given' \subseteq Msg
  BY <1>1 DEF Start, Refused, Types, RunType
<1>5. /\ run.stage = "starting" /\ run' \in RunType
      /\ \/ run'.stage = "none" /\ run'.intent = "none" /\ phase' = phase
         \/ /\ run'.stage = "begin" /\ run'.intent = run.intent /\ run'.input = run.input
            /\ run.intent = "prompt" /\ phase' = phase
         \/ /\ run'.stage = "begin" /\ run'.intent = run.intent /\ run'.input = run.input
            /\ run.intent = "message" /\ phase = "idle" /\ phase' = "turn"
         \/ run'.stage = "settling" /\ run'.intent = run.intent /\ phase' = phase
  <2>1. run \in RunType /\ run.stage = "starting"
    BY <1>1 DEF Start, At, Types
  <2>2. CASE run' = NoRun /\ phase' = phase
    BY <2>1, <2>2 DEF NoRun, RunType, Stage
  <2>3. CASE To("begin") /\ run.intent = "prompt" /\ phase' = phase
    BY <2>1, <2>3 DEF To, RunType, Stage
  <2>4. CASE run.intent = "message" /\ phase = "idle" /\ phase' = "turn" /\ To("begin")
    BY <2>1, <2>4 DEF To, RunType, Stage
  <2>5. CASE run' = [run EXCEPT !.stage = "settling", !.input = 0] /\ phase' = phase
    BY <2>1, <2>5 DEF RunType, Stage
  <2> QED
    BY <2>2, <2>3, <2>4, <2>5 DEF Start
<1>6. Kept
  BY <1>2, <1>3, StepKeeps
<1>7. Types'
  BY <1>1, <1>2, <1>4, <1>5, <1>6 DEF Types, Kept
<1>8. InHand'
  BY <1>1, <1>5, <1>6 DEF InHand, Kept
<1>9. PhaseHeld'
  BY <1>1, <1>2, <1>5, <1>6 DEF PhaseHeld, Free, Looping, Kept
<1>10. ActiveFits'
  BY <1>1, <1>2, <1>5 DEF ActiveFits, Working, Looping
<1> QED
  BY <1>6, <1>7, <1>8, <1>9, <1>10 DEF RuntimeInv, Kept

\* Recovery closes a record, or is done.
LEMMA RecoverInd ==
    ASSUME RuntimeInv, Recover
    PROVE  RuntimeInv'
<1>1. Types /\ InHand /\ PhaseHeld /\ ActiveFits /\ ActiveOpen /\ NothingElseOpen /\ Recorded
  BY DEF RuntimeInv
<1>2. /\ phase' = phase /\ run' = run /\ manual' = manual /\ q' = q /\ given' = given
      /\ active' = active /\ executing' = executing /\ count' = count
  BY DEF Recover
<1>3. /\ count' \in CountType /\ count'.faults >= count.faults
      /\ count'.compactions >= count.compactions
  BY <1>1, <1>2 DEF Types, CountType
<1>4. run.stage = "begin" /\ ~recovered /\ active.op = 0
  BY <1>1 DEF Recover, At, ActiveFits
<1>5. \/ session' = session /\ recovered' = TRUE /\ Open = {}
      \/ /\ recovered' = recovered /\ session' \in SessionType
         /\ \E i \in Open : RecoverNext(i) /\ ClosedOne(i)
  BY <1>1, ClosedStep DEF Recover, Types, Open, Journal
<1>6. /\ session' \in SessionType /\ Journal' = Journal
      /\ \A j \in Journal : session'.journal[j].of = session.journal[j].of
  BY <1>1, <1>5 DEF ClosedOne, Types, Journal
<1>7. (Excused => Excused') /\ (Retried => Retried')
  BY <1>1, <1>3, <1>6, ExcusedStays
<1>8. Types'
  BY <1>1, <1>2, <1>5, <1>6 DEF Types
<1>9. InHand'
  BY <1>1, <1>2, <1>4 DEF InHand
<1>10. PhaseHeld'
  BY <1>1, <1>2, <1>7 DEF PhaseHeld, Free
<1>11. ActiveFits'
  BY <1>1, <1>2, <1>4 DEF ActiveFits
<1>12. ActiveOpen'
  BY <1>1, <1>2, <1>4 DEF ActiveFits, ActiveOpen
<1>13. NothingElseOpen'
  BY <1>4, <1>5 DEF NothingElseOpen, Open
<1>14. Recorded'
  <2>1. CASE session' = session
    BY <1>1, <1>2, <2>1 DEF Recorded, Journal
  <2>2. CASE session' # session
    <3>1. PICK i \in Open : RecoverNext(i) /\ ClosedOne(i)
      BY <1>5, <2>2
    <3>2. i \in Journal /\ session.journal[i].closes = 0 /\ session'.journal[i].closes = 1
      BY <3>1 DEF Open, Journal, ClosedOne
    <3>3. ASSUME NEW j \in Journal, j # i, session.journal[j].closes = 0, session.journal[i].level = "op"
          PROVE  session.journal[j].level = "op"
      BY <3>1, <3>3 DEF RecoverNext, Open, Journal
    <3>4. \A j \in Journal : session.journal[j].closes \in Nat
      BY <1>1, ItemsTyped DEF Types
    <3> QED
      BY <1>1, <1>2, <3>1, <3>2, <3>3 DEF ClosedOne, Recorded
  <2> QED
    BY <2>1, <2>2
<1> QED
  BY <1>8, <1>9, <1>10, <1>11, <1>12, <1>13, <1>14 DEF RuntimeInv

\* An operation is recorded.
LEMMA BeginOperationInd ==
    ASSUME RuntimeInv, BeginOperation
    PROVE  RuntimeInv'
<1>1. Types /\ InHand /\ PhaseHeld /\ ActiveFits /\ ActiveOpen /\ NothingElseOpen /\ Recorded
  BY DEF RuntimeInv
<1>2. /\ phase' = phase /\ manual' = manual /\ q' = q /\ given' = given
      /\ executing' = executing /\ recovered' = recovered /\ count' = count
  BY DEF BeginOperation
<1>3. /\ count' \in CountType /\ count'.faults >= count.faults
      /\ count'.compactions >= count.compactions
  BY <1>1, <1>2 DEF Types, CountType
<1>4. /\ run.stage = "begin" /\ recovered /\ active.op = 0
      /\ run' \in RunType /\ run'.stage = "work" /\ run'.intent = run.intent
      /\ run'.input = run.input /\ run'.first = run.first /\ run'.from = run.from
  BY <1>1 DEF BeginOperation, At, To, Types, RunType, Stage
<1>5. session' \in SessionType /\ StartedOne("op", Place(session), run.intent)
  BY <1>1, StartedStep, PlaceTyped DEF BeginOperation, Types
<1>6. /\ active' \in ActiveType /\ active'.op = Place(session) /\ active'.turn = active.turn
      /\ active'.tools = active.tools /\ active'.swept = active.swept
  BY <1>1, PlaceTyped DEF BeginOperation, Types, ActiveType
<1>7. (Excused => Excused') /\ (Retried => Retried') /\ (run.intent = "retry" => Retried')
  BY <1>1, <1>3, <1>5, ExcusedStays DEF StartedOne, Retried
<1>8. Types'
  BY <1>1, <1>2, <1>4, <1>5, <1>6 DEF Types, StartedOne
<1>9. InHand'
  BY <1>1, <1>4, <1>7 DEF InHand
<1>10. PhaseHeld'
  BY <1>1, <1>2, <1>4, <1>7 DEF PhaseHeld, Free, Looping
<1>11. ActiveFits'
  BY <1>1, <1>2, <1>4, <1>5, <1>6 DEF ActiveFits, Working, StartedOne
<1>12. ActiveOpen'
  BY <1>1, <1>4, <1>5, <1>6 DEF ActiveFits, ActiveOpen, StartedOne
<1>13. NothingElseOpen'
  BY <1>1, <1>4, <1>5, <1>6 DEF NothingElseOpen, ActiveFits, Open, StartedOne, Journal
<1>14. Recorded'
  BY <1>1, <1>2, <1>5 DEF Recorded, StartedOne
<1> QED
  BY <1>8, <1>9, <1>10, <1>11, <1>12, <1>13, <1>14 DEF RuntimeInv

\* The operation takes the phase, or finds the harness busy.
LEMMA WorkInd ==
    ASSUME RuntimeInv, Work
    PROVE  RuntimeInv'
<1>1. Types /\ InHand /\ PhaseHeld /\ ActiveFits /\ ActiveOpen /\ NothingElseOpen /\ Recorded
  BY DEF RuntimeInv
<1>2. /\ manual' = manual /\ session' = session /\ active' = active /\ executing' = executing
      /\ recovered' = recovered /\ count' = count
  BY DEF Work
<1>3. /\ count' \in CountType /\ count'.faults >= count.faults
      /\ count'.compactions >= count.compactions
  BY <1>1, <1>2 DEF Types, CountType
<1>4. given' \subseteq Msg /\ q' \in QueueType /\ (~Busy => q'.pending # <<>>)
  <2>1. run.input \in Msg /\ q.nextTurn \in Seq(Msg) /\ q \in QueueType /\ given \subseteq Msg
    BY <1>1 DEF Work, At, InHand, Types, QueueType
  <2>2. q.nextTurn \o <<run.input>> \in Seq(Msg) /\ q.nextTurn \o <<run.input>> # <<>>
    BY <2>1
  <2>3. Refused => given' \subseteq Msg
    BY <2>1 DEF Refused
  <2>4. [q EXCEPT !.pending = q.nextTurn \o <<run.input>>, !.nextTurn = <<>>] \in QueueType
    <3> DEFINE p == q.nextTurn \o <<run.input>>
    <3> DEFINE e == <<>>
    <3>1. p \in Seq(Msg) /\ e \in Seq(Msg)
      BY <2>2
    <3> HIDE DEF p, e
    <3>2. [q EXCEPT !.pending = p, !.nextTurn = e] \in QueueType
      BY <2>1, <3>1 DEF QueueType
    <3> QED
      BY <3>2 DEF p, e
  <2> QED
    BY <2>1, <2>2, <2>3, <2>4 DEF Work, QueueType
<1>5. /\ run.stage = "work" /\ run.intent # "retry" /\ run' \in RunType /\ run'.intent = run.intent
      /\ \/ Busy /\ run'.stage = "interrupting" /\ phase' = phase
         \/ ~Busy /\ run'.stage = "prepared" /\ phase' = "turn"
  <2>1. run \in RunType /\ run.stage = "work" /\ run.intent # "retry"
    BY <1>1 DEF Work, At, Types
  <2>2. CASE Busy
    BY <2>1, <2>2 DEF Work, RunType, Stage
  <2>3. CASE ~Busy
    BY <2>1, <2>3 DEF Work, RunType, Stage
  <2> QED
    BY <2>2, <2>3
<1>6. Kept
  BY <1>2, <1>3, StepKeeps
<1>7. Types'
  BY <1>1, <1>2, <1>4, <1>5, <1>6 DEF Types, Kept
<1>8. InHand'
  BY <1>1, <1>4, <1>5 DEF InHand
<1>9. PhaseHeld'
  BY <1>1, <1>2, <1>5, <1>6 DEF PhaseHeld, Free, Looping, Kept, Busy, InHand, RunType
<1>10. ActiveFits'
  BY <1>1, <1>2, <1>5 DEF ActiveFits, Working, Looping
<1> QED
  BY <1>6, <1>7, <1>8, <1>9, <1>10 DEF RuntimeInv, Kept

\* The loop starts.
LEMMA PreparedInd ==
    ASSUME RuntimeInv, Prepared
    PROVE  RuntimeInv'
<1>1. Types /\ InHand /\ PhaseHeld /\ ActiveFits /\ ActiveOpen /\ NothingElseOpen /\ Recorded
  BY DEF RuntimeInv
<1>2. /\ phase' = phase /\ manual' = manual /\ q' = q /\ given' = given /\ session' = session
      /\ active' = active /\ executing' = executing /\ recovered' = recovered
      /\ count' = count
  BY DEF Prepared
<1>3. /\ count' \in CountType /\ count'.faults >= count.faults
      /\ count'.compactions >= count.compactions
  BY <1>1, <1>2 DEF Types, CountType
<1>4. /\ run.stage = "prepared"
      /\ run' \in RunType /\ run'.stage = "turn" /\ run'.intent = run.intent
      /\ run'.input = run.input /\ run'.first = TRUE /\ run'.from = run.from
  BY <1>1 DEF Prepared, At, To, Types, RunType, Stage
<1>5. Kept
  BY <1>1, <1>2, <1>3, <1>4, StepKeeps DEF Types
<1>6. Types'
  BY <1>1, <1>2, <1>4, <1>5 DEF Types, Kept
<1>7. InHand'
  BY <1>1, <1>4, <1>5 DEF InHand, Kept
<1>8. PhaseHeld'
  BY <1>1, <1>2, <1>4, <1>5 DEF PhaseHeld, Looping, Kept
<1>9. ActiveFits'
  BY <1>1, <1>2, <1>4 DEF ActiveFits, Working, Looping
<1> QED
  BY <1>5, <1>6, <1>7, <1>8, <1>9 DEF RuntimeInv, Kept

\* The queue update fails before the loop.
LEMMA PreparedQueueFailsInd ==
    ASSUME RuntimeInv, PreparedQueueFails
    PROVE  RuntimeInv'
<1>1. Types /\ InHand /\ PhaseHeld /\ ActiveFits /\ ActiveOpen /\ NothingElseOpen /\ Recorded
  BY DEF RuntimeInv
<1>2. /\ manual' = manual /\ session' = session /\ active' = active /\ executing' = executing
      /\ recovered' = recovered
  BY DEF PreparedQueueFails
<1>3. /\ count' \in CountType /\ count'.faults >= count.faults /\ count'.compactions >= count.compactions
      /\ count'.faults = count.faults /\ count'.compactions = count.compactions
  BY <1>1 DEF PreparedQueueFails, Types, CountType
<1>4. q.pending \in Seq(Msg) /\ q.pending # <<>> /\ q \in QueueType /\ given \subseteq Msg
  BY <1>1 DEF PreparedQueueFails, At, InHand, Types, QueueType
<1>5. given' \subseteq Msg
  BY <1>4 DEF PreparedQueueFails, Last
<1>6. q' \in QueueType
  <2>1. Front(q.pending) \in Seq(Msg) /\ q.nextTurn \in Seq(Msg)
    BY <1>4 DEF Front, QueueType
  <2> DEFINE p == Front(q.pending) \o q.nextTurn
  <2> DEFINE e == <<>>
  <2>2. p \in Seq(Msg) /\ e \in Seq(Msg)
    BY <2>1
  <2>3. q' = [q EXCEPT !.nextTurn = p, !.pending = e]
    BY DEF PreparedQueueFails
  <2> HIDE DEF p, e
  <2> QED
    BY <1>4, <2>2, <2>3 DEF QueueType
<1>7. /\ run.stage = "prepared" /\ run' \in RunType /\ run'.stage = "interrupting" /\ run'.intent = run.intent
      /\ phase' = IF run.intent = "prompt" THEN "idle" ELSE phase
  BY <1>1 DEF PreparedQueueFails, Throw, At, Types, RunType, Stage
<1>8. Kept
  BY <1>2, <1>3, StepKeeps
<1>9. Types'
  BY <1>1, <1>2, <1>3, <1>5, <1>6, <1>7, <1>8 DEF Types, Kept
<1>10. InHand'
  BY <1>1, <1>7, <1>8 DEF InHand, Kept
<1>11. PhaseHeld'
  BY <1>1, <1>2, <1>3, <1>7, <1>8 DEF PhaseHeld, Free, Looping, Kept
<1>12. ActiveFits'
  BY <1>1, <1>2, <1>7 DEF ActiveFits, Working, Looping
<1> QED
  BY <1>8, <1>9, <1>10, <1>11, <1>12 DEF RuntimeInv, Kept

\* The hook fails before the loop.
LEMMA PreparedHookFailsInd ==
    ASSUME RuntimeInv, PreparedHookFails
    PROVE  RuntimeInv'
<1>1. Types /\ InHand /\ PhaseHeld /\ ActiveFits /\ ActiveOpen /\ NothingElseOpen /\ Recorded
  BY DEF RuntimeInv
<1>2. /\ manual' = manual /\ session' = session /\ active' = active /\ executing' = executing
      /\ recovered' = recovered
  BY DEF PreparedHookFails
<1>3. /\ count' \in CountType /\ count'.faults >= count.faults /\ count'.compactions >= count.compactions
      /\ count'.faults > 0 /\ count'.compactions = count.compactions
  BY <1>1 DEF PreparedHookFails, Types, CountType
<1>4. q.pending \in Seq(Msg) /\ q.pending # <<>> /\ q \in QueueType /\ given \subseteq Msg
  BY <1>1 DEF PreparedHookFails, At, InHand, Types, QueueType
<1>5. given' \subseteq Msg
  BY <1>4 DEF PreparedHookFails, Last
<1>6. q' \in QueueType
  BY <1>4, QueueClear DEF PreparedHookFails
<1>7. /\ run.stage = "prepared" /\ run' \in RunType /\ run'.stage = "interrupting" /\ run'.intent = run.intent
      /\ phase' = IF run.intent = "prompt" THEN "idle" ELSE phase
  BY <1>1 DEF PreparedHookFails, Throw, At, Types, RunType, Stage
<1>8. Kept
  BY <1>2, <1>3, StepKeeps
<1>9. Types'
  BY <1>1, <1>2, <1>3, <1>5, <1>6, <1>7, <1>8 DEF Types, Kept
<1>10. InHand'
  BY <1>1, <1>7, <1>8 DEF InHand, Kept
<1>11. PhaseHeld'
  BY <1>1, <1>2, <1>3, <1>7, <1>8 DEF PhaseHeld, Free, Looping, Kept
<1>12. ActiveFits'
  BY <1>1, <1>2, <1>7 DEF ActiveFits, Working, Looping
<1> QED
  BY <1>8, <1>9, <1>10, <1>11, <1>12 DEF RuntimeInv, Kept

\* A retry goes on, or is refused.
LEMMA WorkRetryInd ==
    ASSUME RuntimeInv, WorkRetry
    PROVE  RuntimeInv'
<1>1. Types /\ InHand /\ PhaseHeld /\ ActiveFits /\ ActiveOpen /\ NothingElseOpen /\ Recorded
  BY DEF RuntimeInv
<1>2. /\ manual' = manual /\ q' = q /\ given' = given /\ session' = session
      /\ active' = active /\ executing' = executing /\ recovered' = recovered
      /\ count' = count
  BY DEF WorkRetry
<1>3. /\ count' \in CountType /\ count'.faults >= count.faults
      /\ count'.compactions >= count.compactions
  BY <1>1, <1>2 DEF Types, CountType
<1>4. /\ run.stage = "work" /\ run.intent = "retry" /\ run' \in RunType /\ run'.intent = run.intent
      /\ run'.stage \in {"turn", "interrupting"} /\ phase' = phase
  BY <1>1 DEF WorkRetry, Throw, At, Types, RunType, Stage
<1>5. Kept
  BY <1>1, <1>2, <1>3, <1>4, StepKeeps DEF Types
<1>6. Types'
  BY <1>1, <1>2, <1>4, <1>5 DEF Types, Kept
<1>7. InHand'
  BY <1>1, <1>4, <1>5 DEF InHand, Kept
<1>8. PhaseHeld'
  BY <1>1, <1>2, <1>3, <1>4, <1>5 DEF PhaseHeld, Kept, InHand, Excused, CountType
<1>9. ActiveFits'
  BY <1>1, <1>2, <1>4 DEF ActiveFits, Working, Looping
<1> QED
  BY <1>5, <1>6, <1>7, <1>8, <1>9 DEF RuntimeInv, Kept

\* A turn is recorded.
LEMMA TurnStartInd ==
    ASSUME RuntimeInv, TurnStart
    PROVE  RuntimeInv'
<1>1. Types /\ InHand /\ PhaseHeld /\ ActiveFits /\ ActiveOpen /\ NothingElseOpen /\ Recorded
  BY DEF RuntimeInv
<1>2. /\ phase' = phase /\ manual' = manual /\ q' = q /\ given' = given
      /\ executing' = executing /\ recovered' = recovered /\ count' = count
  BY DEF TurnStart
<1>3. /\ count' \in CountType /\ count'.faults >= count.faults
      /\ count'.compactions >= count.compactions
  BY <1>1, <1>2 DEF Types, CountType
<1>4. /\ run.stage = "turn"
      /\ run' \in RunType /\ run'.stage = "inject" /\ run'.intent = run.intent
      /\ run'.input = run.input /\ run'.first = run.first /\ run'.from = run.from
  BY <1>1 DEF TurnStart, At, To, Types, RunType, Stage
<1>5. active.op \in Nat /\ active.op # 0
  BY <1>1, <1>4 DEF Types, ActiveType, ActiveFits, Working, Looping
<1>6. session' \in SessionType /\ StartedOne("turn", active.op, run.intent)
  BY <1>1, StartedStep DEF TurnStart, Types, Started, ActiveType
<1>7. /\ active' \in ActiveType /\ active'.op = active.op /\ active'.turn = Place(session)
      /\ active'.tools = active.tools /\ active'.swept = active.swept
  BY <1>1, PlaceTyped DEF TurnStart, Types, ActiveType
<1>8. (Excused => Excused') /\ (Retried => Retried')
  BY <1>1, <1>3, <1>6, ExcusedStays DEF StartedOne, ClosedOne
<1>9. Types'
  BY <1>1, <1>2, <1>4, <1>6, <1>7 DEF Types, StartedOne
<1>10. InHand'
  BY <1>1, <1>4, <1>8 DEF InHand
<1>11. PhaseHeld'
  BY <1>1, <1>2, <1>4, <1>8 DEF PhaseHeld, Looping
<1>12. ActiveFits'
  BY <1>1, <1>2, <1>4, <1>7 DEF ActiveFits, Working, Looping
<1>13. ActiveOpen'
  BY <1>1, <1>6, <1>7 DEF ActiveOpen, StartedOne
<1>14. NothingElseOpen'
  <2>1. SUFFICES ASSUME recovered, NEW i \in Open'
                 PROVE  i = active'.turn \/ i = active'.op \/ i \in active'.tools \ active'.swept
    BY <1>2 DEF NothingElseOpen
  <2>2. active.turn = 0 /\ 0 \notin Journal
    BY <1>1, <1>4, PlaceTyped DEF ActiveFits, Types
  <2>3. i = Place(session) \/ (i \in Journal /\ i \in Open)
    BY <2>1, <1>6 DEF Open, Journal, StartedOne
  <2> QED
    BY <1>1, <1>7, <2>1, <2>2, <2>3 DEF NothingElseOpen
<1>15. Recorded'
  BY <1>1, <1>2, <1>5, <1>6 DEF Recorded, ActiveOpen, StartedOne
<1> QED
  BY <1>9, <1>10, <1>11, <1>12, <1>13, <1>14, <1>15 DEF RuntimeInv

\* A pending message is appended.
LEMMA InjectInd ==
    ASSUME RuntimeInv, Inject
    PROVE  RuntimeInv'
<1>1. Types /\ InHand /\ PhaseHeld /\ ActiveFits /\ ActiveOpen /\ NothingElseOpen /\ Recorded
  BY DEF RuntimeInv
<1>2. /\ phase' = phase /\ manual' = manual /\ given' = given /\ active' = active
      /\ executing' = executing /\ recovered' = recovered /\ count' = count
  BY DEF Inject
<1>3. /\ count' \in CountType /\ count'.faults >= count.faults
      /\ count'.compactions >= count.compactions
  BY <1>1, <1>2 DEF Types, CountType
<1>4. q' \in QueueType /\ session' \in SessionType /\ session'.journal = session.journal
  <2>1. q \in QueueType /\ session \in SessionType /\ q.pending \in Seq(Msg)
    BY <1>1 DEF Types, QueueType
  <2>2. CASE q.pending = <<>>
    BY <2>1, <2>2 DEF Inject
  <2>3. CASE q.pending # <<>>
    <3>1. <<Head(q.pending)>> \in Seq(Msg) /\ Tail(q.pending) \in Seq(Msg)
      BY <2>1, <2>3
    <3> QED
      BY <2>1, <2>3, <3>1, AppendedUserTyped DEF Inject, QueueType
  <2> QED
    BY <2>2, <2>3
<1>5. /\ run.stage = "inject" /\ run' \in RunType /\ run'.intent = run.intent /\ run'.first = run.first
      /\ \/ run'.stage = "inject"
         \/ run'.stage = "poll" /\ run.first
         \/ run'.stage = "stream"
  BY <1>1 DEF Inject, At, To, Types, RunType, Stage
<1>6. Kept
  BY <1>2, <1>3, <1>4, StepKeeps
<1>7. Types'
  BY <1>1, <1>2, <1>4, <1>5, <1>6 DEF Types, Kept
<1>8. InHand'
  BY <1>1, <1>5, <1>6 DEF InHand, Kept
<1>9. PhaseHeld'
  BY <1>1, <1>2, <1>5, <1>6 DEF PhaseHeld, Looping, Kept
<1>10. ActiveFits'
  BY <1>1, <1>2, <1>5 DEF ActiveFits, Working, Looping
<1> QED
  BY <1>6, <1>7, <1>8, <1>9, <1>10 DEF RuntimeInv, Kept

\* The queues are polled.
LEMMA PollInd ==
    ASSUME RuntimeInv, Poll
    PROVE  RuntimeInv'
<1>1. Types /\ InHand /\ PhaseHeld /\ ActiveFits /\ ActiveOpen /\ NothingElseOpen /\ Recorded
  BY DEF RuntimeInv
<1>2. /\ phase' = phase /\ manual' = manual /\ given' = given /\ session' = session
      /\ active' = active /\ executing' = executing /\ recovered' = recovered
      /\ count' = count
  BY DEF Poll
<1>3. /\ count' \in CountType /\ count'.faults >= count.faults
      /\ count'.compactions >= count.compactions
  BY <1>1, <1>2 DEF Types, CountType
<1>4. q' \in QueueType
  <2>1. q \in QueueType
    BY <1>1 DEF Types
  <2>2. CASE Drain("steer")
    BY <2>1, <2>2, DrainTyped
  <2>3. CASE Drain("followUp")
    BY <2>1, <2>3, DrainTyped
  <2> QED
    BY <2>1, <2>2, <2>3 DEF Poll
<1>5. /\ run.stage = "poll" /\ run' \in RunType /\ run'.intent = run.intent
      /\ \/ run'.stage = "drained" /\ run'.first = run.first /\ run'.from \in {"steer", "followUp"}
         \/ run'.stage = "stream"
         \/ run'.stage = "turn" /\ ~run.first
         \/ run'.stage = "agentEnd" /\ ~run.first
  <2>1. run \in RunType /\ run.stage = "poll"
    BY <1>1 DEF Poll, At, Types
  <2>2. CASE \E name \in {"steer", "followUp"} :
               run' = [run EXCEPT !.stage = "drained", !.from = name, !.detached = FALSE]
    BY <2>1, <2>2 DEF RunType, Stage
  <2>3. CASE run' = [run EXCEPT !.stage = IF run.first THEN "stream" ELSE "turn", !.first = FALSE]
    BY <2>1, <2>3 DEF RunType, Stage
  <2>4. CASE ~run.first /\ run' = [run EXCEPT !.stage = "agentEnd"]
    BY <2>1, <2>4 DEF RunType, Stage
  <2> QED
    BY <2>2, <2>3, <2>4 DEF Poll, Drain, To
<1>6. Kept
  BY <1>2, <1>3, StepKeeps
<1>7. Types'
  BY <1>1, <1>2, <1>4, <1>5, <1>6 DEF Types, Kept
<1>8. InHand'
  BY <1>1, <1>5, <1>6 DEF InHand, Kept
<1>9. PhaseHeld'
  BY <1>1, <1>2, <1>5, <1>6 DEF PhaseHeld, Looping, Kept
<1>10. ActiveFits'
  BY <1>1, <1>2, <1>5 DEF ActiveFits, Working, Looping
<1> QED
  BY <1>6, <1>7, <1>8, <1>9, <1>10 DEF RuntimeInv, Kept

\* The drained messages are pending.
LEMMA DrainedInd ==
    ASSUME RuntimeInv, Drained
    PROVE  RuntimeInv'
<1>1. Types /\ InHand /\ PhaseHeld /\ ActiveFits /\ ActiveOpen /\ NothingElseOpen /\ Recorded
  BY DEF RuntimeInv
<1>2. /\ phase' = phase /\ manual' = manual /\ q' = q /\ given' = given /\ session' = session
      /\ active' = active /\ executing' = executing /\ recovered' = recovered
      /\ count' = count
  BY DEF Drained
<1>3. /\ count' \in CountType /\ count'.faults >= count.faults
      /\ count'.compactions >= count.compactions
  BY <1>1, <1>2 DEF Types, CountType
<1>4. /\ run.stage = "drained" /\ run' \in RunType /\ run'.intent = run.intent
      /\ run'.stage = IF run.first THEN "inject" ELSE "turn"
  BY <1>1 DEF Drained, At, To, Types, RunType, Stage
<1>5. Kept
  BY <1>1, <1>2, <1>3, <1>4, StepKeeps DEF Types
<1>6. Types'
  BY <1>1, <1>2, <1>4, <1>5 DEF Types, Kept
<1>7. InHand'
  BY <1>1, <1>4, <1>5 DEF InHand, Kept
<1>8. PhaseHeld'
  BY <1>1, <1>2, <1>4, <1>5 DEF PhaseHeld, Looping, Kept
<1>9. ActiveFits'
  BY <1>1, <1>2, <1>4 DEF ActiveFits, Working, Looping
<1> QED
  BY <1>5, <1>6, <1>7, <1>8, <1>9 DEF RuntimeInv, Kept

\* The queue update of a drain fails.
LEMMA DrainFailsInd ==
    ASSUME RuntimeInv, DrainFails
    PROVE  RuntimeInv'
<1>1. Types /\ InHand /\ PhaseHeld /\ ActiveFits /\ ActiveOpen /\ NothingElseOpen /\ Recorded
  BY DEF RuntimeInv
<1>2. /\ phase' = phase /\ manual' = manual /\ given' = given /\ session' = session
      /\ active' = active /\ executing' = executing /\ recovered' = recovered
  BY DEF DrainFails
<1>3. /\ count' \in CountType /\ count'.faults >= count.faults /\ count'.compactions >= count.compactions
      /\ count'.faults = count.faults /\ count'.compactions = count.compactions
  BY <1>1 DEF DrainFails, Types, CountType
<1>4. /\ run.stage = "drained"
      /\ run' \in RunType /\ run'.stage = "failing" /\ run'.intent = run.intent
      /\ run'.input = run.input /\ run'.first = run.first /\ run'.from = run.from
  BY <1>1 DEF DrainFails, At, To, Types, RunType, Stage
<1>5. q' \in QueueType
  <2>1. q \in QueueType /\ run.from \in {"steer", "followUp"}
    BY <1>1, <1>4 DEF Types, InHand
  <2> QED
    BY <2>1, RestoredTyped DEF DrainFails
<1>6. Kept
  BY <1>2, <1>3, StepKeeps
<1>7. Types'
  BY <1>1, <1>2, <1>3, <1>4, <1>5, <1>6 DEF Types, Kept
<1>8. InHand'
  BY <1>1, <1>4, <1>6 DEF InHand, Kept
<1>9. PhaseHeld'
  BY <1>1, <1>2, <1>3, <1>4, <1>6 DEF PhaseHeld, Looping, Kept
<1>10. ActiveFits'
  BY <1>1, <1>2, <1>4 DEF ActiveFits, Working, Looping
<1> QED
  BY <1>6, <1>7, <1>8, <1>9, <1>10 DEF RuntimeInv, Kept

\* A response without tool calls.
LEMMA RespondInd ==
    ASSUME RuntimeInv, NEW resp \in {"stop", "error", "overflow", "aborted"}, Respond(resp)
    PROVE  RuntimeInv'
<1>1. Types /\ InHand /\ PhaseHeld /\ ActiveFits /\ ActiveOpen /\ NothingElseOpen /\ Recorded
  BY DEF RuntimeInv
<1>2. /\ phase' = phase /\ manual' = manual /\ q' = q /\ given' = given /\ active' = active
      /\ executing' = executing /\ recovered' = recovered /\ count' = count
  BY DEF Respond
<1>3. /\ count' \in CountType /\ count'.faults >= count.faults
      /\ count'.compactions >= count.compactions
  BY <1>1, <1>2 DEF Types, CountType
<1>4. /\ run.stage = "stream"
      /\ run' \in RunType /\ run'.stage = "turnEnd" /\ run'.intent = run.intent
      /\ run'.input = run.input /\ run'.first = run.first /\ run'.from = run.from
  BY <1>1 DEF Respond, At, To, Types, RunType, Stage
<1>5. session' \in SessionType /\ session'.journal = session.journal
  BY <1>1, AppendedTyped DEF Respond, Types, Role
<1>6. Kept
  BY <1>2, <1>3, <1>5, StepKeeps
<1>7. Types'
  BY <1>1, <1>2, <1>4, <1>5, <1>6 DEF Types, Kept
<1>8. InHand'
  BY <1>1, <1>4, <1>6 DEF InHand, Kept
<1>9. PhaseHeld'
  BY <1>1, <1>2, <1>4, <1>6 DEF PhaseHeld, Looping, Kept
<1>10. ActiveFits'
  BY <1>1, <1>2, <1>4 DEF ActiveFits, Working, Looping
<1> QED
  BY <1>6, <1>7, <1>8, <1>9, <1>10 DEF RuntimeInv, Kept

\* A response that calls tools.
LEMMA RespondToolsInd ==
    ASSUME RuntimeInv, NEW k \in 1..2, RespondTools(k)
    PROVE  RuntimeInv'
<1>1. Types /\ InHand /\ PhaseHeld /\ ActiveFits /\ ActiveOpen /\ NothingElseOpen /\ Recorded
  BY DEF RuntimeInv
<1>2. /\ phase' = phase /\ manual' = manual /\ q' = q /\ given' = given
      /\ recovered' = recovered
  BY DEF RespondTools
<1>3. /\ count' \in CountType /\ count'.faults >= count.faults /\ count'.compactions >= count.compactions
      /\ count'.faults = count.faults /\ count'.compactions = count.compactions
  BY <1>1 DEF RespondTools, Types, CountType
<1>4. /\ run.stage = "stream"
      /\ run' \in RunType /\ run'.stage = "tools" /\ run'.intent = run.intent
      /\ run'.input = run.input /\ run'.first = run.first /\ run'.from = run.from
  BY <1>1 DEF RespondTools, At, To, Types, RunType, Stage
<1>5. active.op \in Nat /\ active.op # 0 /\ active.tools = {} /\ active.swept = {}
  BY <1>1, <1>4 DEF Types, ActiveType, ActiveFits, Working, Looping
<1>6. /\ session' \in SessionType /\ Journal' = Journal \cup Place(session)..(Place(session) + k - 1)
      /\ Journal \cap (Place(session)..(Place(session) + k - 1)) = {}
      /\ Place(session) \in Nat /\ Place(session) # 0
      /\ \A j \in Journal : session'.journal[j] = session.journal[j] /\ session.journal[j].closes \in Nat
      /\ \A j \in Place(session)..(Place(session) + k - 1) :
            session'.journal[j] = [level |-> "tool", op |-> active.op, of |-> run.intent, closes |-> 0]
  <2> DEFINE x == Item("tool", active.op)
  <2> DEFINE s == Appended(session, "assistant")
  <2>1. /\ x \in ItemType
        /\ x = [level |-> "tool", op |-> active.op, of |-> run.intent, closes |-> 0]
    BY <1>1, <1>5 DEF Item, ItemType, Types, RunType
  <2>2. s \in SessionType /\ s.journal = session.journal
    BY <1>1, AppendedTyped DEF Types, Role
  <2>3. session' = [s EXCEPT !.journal = s.journal \o [i \in 1..k |-> x]]
    BY DEF RespondTools
  <2> HIDE DEF x, s
  <2>4. session.journal \in Seq(ItemType) /\ [i \in 1..k |-> x] \in Seq(ItemType) /\ k \in Nat
    BY <1>1, <2>1 DEF Types, SessionType
  <2>5. session.journal \o [i \in 1..k |-> x] \in Seq(ItemType)
    BY <2>4
  <2>6. session' \in SessionType /\ session'.journal = session.journal \o [i \in 1..k |-> x]
    BY <2>2, <2>3, <2>5 DEF SessionType
  <2>7. Len(session.journal) \in Nat /\ Place(session) = Len(session.journal) + 1
    BY <2>4 DEF Place
  <2>8. Journal = 1..Len(session.journal) /\ Journal' = 1..(Len(session.journal) + k)
    BY <2>4, <2>6 DEF Journal
  <2>9. \A j \in Journal : session'.journal[j] = session.journal[j]
    BY <2>4, <2>6, <2>8
  <2>10. \A j \in Place(session)..(Place(session) + k - 1) : session'.journal[j] = x
    BY <2>4, <2>6, <2>7
  <2>11. \A j \in Journal : session.journal[j].closes \in Nat
    BY <1>1, ItemsTyped DEF Types
  <2> QED
    BY <2>1, <2>6, <2>7, <2>8, <2>11
<1>7. /\ active' \in ActiveType /\ active'.op = active.op /\ active'.turn = active.turn
      /\ active'.tools = Place(session)..(Place(session) + k - 1) /\ active'.swept = active.swept
      /\ executing' = executing \cup Place(session)..(Place(session) + k - 1)
  BY <1>1, <1>6 DEF RespondTools, Types, ActiveType
<1>8. (Excused => Excused') /\ (Retried => Retried')
  BY <1>1, <1>3, <1>6, ExcusedStays DEF StartedOne, ClosedOne
<1>9. Types'
  BY <1>1, <1>2, <1>3, <1>4, <1>6, <1>7 DEF Types
<1>10. InHand'
  BY <1>1, <1>4, <1>8 DEF InHand
<1>11. PhaseHeld'
  BY <1>1, <1>2, <1>3, <1>4, <1>8 DEF PhaseHeld, Looping
<1>12. ActiveFits'
  BY <1>1, <1>2, <1>4, <1>7 DEF ActiveFits, Working, Looping
<1>13. ActiveOpen'
  BY <1>1, <1>6, <1>7 DEF ActiveOpen
<1>14. NothingElseOpen'
  BY <1>1, <1>2, <1>5, <1>6, <1>7 DEF NothingElseOpen, Open, Journal
<1>15. Recorded'
  <2> DEFINE New == Place(session)..(Place(session) + k - 1)
  <2>1. /\ Journal' = Journal \cup New
        /\ \A j \in Journal : session'.journal[j] = session.journal[j] /\ session.journal[j].closes \in Nat
        /\ \A j \in New : /\ session'.journal[j].level = "tool" /\ session'.journal[j].op = active.op
                         /\ session'.journal[j].closes = 0
    BY <1>6
  <2> HIDE DEF New
  <2>2. /\ count'.faults = count.faults /\ active.op \in Journal
        /\ session.journal[active.op].closes = 0
    BY <1>1, <1>3, <1>5 DEF ActiveOpen
  <2>3. ASSUME NEW i \in Journal
        PROVE  /\ session.journal[i].level = "op" => session.journal[i].op = i
               /\ session.journal[i].closes
                    <= (IF session.journal[i].level = "tool" /\ count.faults > 0 THEN 2 ELSE 1)
               /\ session.journal[i].level = "op" /\ session.journal[i].closes > 0 =>
                    /\ i # active.op
                    /\ \A j \in Journal : session.journal[j].op = i => session.journal[j].closes > 0
    BY <1>1, <2>2, <2>3 DEF Recorded
  <2>4. 0 <= (IF count.faults > 0 THEN 2 ELSE 1)
    OBVIOUS
  <2> QED
    BY <2>1, <2>2, <2>3, <2>4 DEF Recorded
<1> QED
  BY <1>9, <1>10, <1>11, <1>12, <1>13, <1>14, <1>15 DEF RuntimeInv

\* A tool ends.
LEMMA ToolEndsInd ==
    ASSUME RuntimeInv, NEW t \in executing, ToolEnds(t)
    PROVE  RuntimeInv'
<1>1. Types /\ InHand /\ PhaseHeld /\ ActiveFits /\ ActiveOpen /\ NothingElseOpen /\ Recorded
  BY DEF RuntimeInv
<1>2. /\ phase' = phase /\ run' = run /\ manual' = manual /\ q' = q /\ given' = given
      /\ recovered' = recovered /\ count' = count
  BY DEF ToolEnds
<1>3. /\ count' \in CountType /\ count'.faults >= count.faults
      /\ count'.compactions >= count.compactions
  BY <1>1, <1>2 DEF Types, CountType
<1>4. /\ executing' = executing \ {t} /\ session \in SessionType /\ active \in ActiveType
      /\ t \in Journal
  BY <1>1 DEF ToolEnds, Types
<1>5. \/ session' = session /\ active' = active
      \/ /\ active.op # 0 /\ t \in active.tools /\ session' \in SessionType /\ ClosedOne(t)
         /\ active' \in ActiveType /\ active'.op = active.op /\ active'.turn = active.turn
         /\ active'.tools = active.tools \ {t} /\ active'.swept = active.swept
  BY <1>4, ClosedStep DEF ToolEnds, ActiveType
<1>6. /\ session' \in SessionType /\ Journal' = Journal
      /\ \A j \in Journal : session'.journal[j].of = session.journal[j].of
  BY <1>4, <1>5 DEF ClosedOne, Journal
<1>7. (Excused => Excused') /\ (Retried => Retried')
  BY <1>1, <1>3, <1>6, ExcusedStays
<1>8. Types'
  BY <1>1, <1>2, <1>4, <1>5, <1>6 DEF Types
<1>9. InHand'
  BY <1>1, <1>2, <1>7 DEF InHand
<1>10. PhaseHeld'
  BY <1>1, <1>2, <1>7 DEF PhaseHeld, Free
<1>11. ActiveFits'
  BY <1>1, <1>2, <1>5 DEF ActiveFits
<1>12. ActiveOpen'
  BY <1>1, <1>5, <1>6 DEF ActiveOpen, ClosedOne
<1>13. NothingElseOpen'
  BY <1>1, <1>2, <1>5 DEF NothingElseOpen, Open, Journal, ClosedOne
<1>14. Recorded'
  BY <1>1, <1>2, <1>5, <1>6 DEF Recorded, ActiveOpen, ActiveFits, ClosedOne
<1> QED
  BY <1>8, <1>9, <1>10, <1>11, <1>12, <1>13, <1>14 DEF RuntimeInv

\* The batch of tools ends.
LEMMA BatchEndsInd ==
    ASSUME RuntimeInv, BatchEnds
    PROVE  RuntimeInv'
<1>1. Types /\ InHand /\ PhaseHeld /\ ActiveFits /\ ActiveOpen /\ NothingElseOpen /\ Recorded
  BY DEF RuntimeInv
<1>2. /\ phase' = phase /\ manual' = manual /\ q' = q /\ given' = given /\ active' = active
      /\ executing' = executing /\ recovered' = recovered /\ count' = count
  BY DEF BatchEnds
<1>3. /\ count' \in CountType /\ count'.faults >= count.faults
      /\ count'.compactions >= count.compactions
  BY <1>1, <1>2 DEF Types, CountType
<1>4. /\ run.stage = "tools" /\ active.tools = {}
      /\ run' \in RunType /\ run'.stage = "turnEnd" /\ run'.intent = run.intent
      /\ run'.input = run.input /\ run'.first = run.first /\ run'.from = run.from
  BY <1>1 DEF BatchEnds, At, To, Types, RunType, Stage
<1>5. session' \in SessionType /\ session'.journal = session.journal
  BY <1>1, AppendedTyped DEF BatchEnds, Types, Role
<1>6. Kept
  BY <1>2, <1>3, <1>5, StepKeeps
<1>7. Types'
  BY <1>1, <1>2, <1>4, <1>5, <1>6 DEF Types, Kept
<1>8. InHand'
  BY <1>1, <1>4, <1>6 DEF InHand, Kept
<1>9. PhaseHeld'
  BY <1>1, <1>2, <1>4, <1>6 DEF PhaseHeld, Looping, Kept
<1>10. ActiveFits'
  BY <1>1, <1>2, <1>4 DEF ActiveFits, Working, Looping
<1> QED
  BY <1>6, <1>7, <1>8, <1>9, <1>10 DEF RuntimeInv, Kept

\* A turn ends.
LEMMA TurnEndInd ==
    ASSUME RuntimeInv, TurnEnd
    PROVE  RuntimeInv'
<1>1. Types /\ InHand /\ PhaseHeld /\ ActiveFits /\ ActiveOpen /\ NothingElseOpen /\ Recorded
  BY DEF RuntimeInv
<1>2. /\ phase' = phase /\ manual' = manual /\ given' = given /\ executing' = executing
      /\ recovered' = recovered /\ count' = count
  BY DEF TurnEnd
<1>3. /\ count' \in CountType /\ count'.faults >= count.faults
      /\ count'.compactions >= count.compactions
  BY <1>1, <1>2 DEF Types, CountType
<1>4. q' \in QueueType
  BY <1>1, QueueClear DEF TurnEnd, Types
<1>5. /\ run.stage = "turnEnd" /\ run' \in RunType /\ run'.intent = run.intent
      /\ run'.stage \in {"agentEnd", "poll"}
  BY <1>1 DEF TurnEnd, At, To, Types, RunType, Stage
<1>6. /\ active' \in ActiveType /\ active'.op = active.op /\ active'.turn = 0
      /\ active'.tools = active.tools /\ active'.swept = active.swept
  BY <1>1 DEF TurnEnd, Types, ActiveType
<1>7. /\ session' \in SessionType
      /\ \/ active.turn = 0 /\ session'.journal = session.journal /\ Journal' = Journal
         \/ active.turn # 0 /\ ClosedOne(active.turn)
  <2> DEFINE s == Flushed(session)
  <2>1. s \in SessionType /\ s.journal = session.journal /\ session' = TurnClosed(s)
    BY <1>1, AppendedTyped, FlushedTyped DEF TurnEnd, Types, Role
  <2>2. session \in SessionType /\ (active.turn # 0 => active.turn \in Journal)
    BY <1>1 DEF Types, ActiveOpen
  <2> HIDE DEF s
  <2>3. CASE active.turn = 0
    <3>1. session' = s
      BY <2>1, <2>3 DEF TurnClosed
    <3>2. Journal' = Journal
      BY <2>1, <3>1 DEF Journal
    <3> QED
      BY <2>1, <2>3, <3>1, <3>2
  <2>4. CASE active.turn # 0
    BY <2>1, <2>2, <2>4, ClosedStep DEF TurnClosed
  <2> QED
    BY <2>3, <2>4
<1>8. Journal' = Journal /\ \A j \in Journal : session'.journal[j].of = session.journal[j].of
  BY <1>7 DEF ClosedOne
<1>9. (Excused => Excused') /\ (Retried => Retried')
  BY <1>1, <1>3, <1>8, ExcusedStays
<1>10. Types'
  BY <1>1, <1>2, <1>4, <1>5, <1>6, <1>7, <1>8 DEF Types
<1>11. InHand'
  BY <1>1, <1>5, <1>9 DEF InHand
<1>12. PhaseHeld'
  BY <1>1, <1>2, <1>5, <1>9 DEF PhaseHeld, Looping
<1>13. ActiveFits'
  BY <1>1, <1>2, <1>5, <1>6 DEF ActiveFits, Working, Looping
<1>14. ActiveOpen'
  BY <1>1, <1>6, <1>7 DEF ActiveOpen, ClosedOne
<1>15. NothingElseOpen'
  BY <1>1, <1>2, <1>6, <1>7 DEF NothingElseOpen, Open, Journal, ClosedOne
<1>16. Recorded'
  BY <1>1, <1>2, <1>7 DEF Recorded, ActiveOpen, ClosedOne
<1> QED
  BY <1>10, <1>11, <1>12, <1>13, <1>14, <1>15, <1>16 DEF RuntimeInv

\* The agent ends.
LEMMA AgentEndInd ==
    ASSUME RuntimeInv, AgentEnd
    PROVE  RuntimeInv'
<1>1. Types /\ InHand /\ PhaseHeld /\ ActiveFits /\ ActiveOpen /\ NothingElseOpen /\ Recorded
  BY DEF RuntimeInv
<1>2. /\ manual' = manual /\ given' = given /\ active' = active /\ executing' = executing
      /\ recovered' = recovered /\ count' = count
  BY DEF AgentEnd
<1>3. /\ count' \in CountType /\ count'.faults >= count.faults
      /\ count'.compactions >= count.compactions
  BY <1>1, <1>2 DEF Types, CountType
<1>4. q' \in QueueType
  BY <1>1, QueueClear DEF AgentEnd, Types
<1>5. session' \in SessionType /\ session'.journal = session.journal
  BY <1>1, FlushedTyped DEF AgentEnd, Types
<1>6. /\ run.stage = "agentEnd" /\ phase' = "idle"
      /\ run' \in RunType /\ run'.stage = "ended" /\ run'.intent = run.intent
      /\ run'.input = run.input /\ run'.first = run.first /\ run'.from = run.from
  BY <1>1 DEF AgentEnd, At, To, Types, RunType, Stage
<1>7. Kept
  BY <1>2, <1>3, <1>5, StepKeeps
<1>8. Types'
  BY <1>1, <1>2, <1>4, <1>5, <1>6, <1>7 DEF Types, Kept
<1>9. InHand'
  BY <1>1, <1>6, <1>7 DEF InHand, Kept
<1>10. PhaseHeld'
  BY <1>1, <1>2, <1>6, <1>7 DEF PhaseHeld, Free, Looping, Kept
<1>11. ActiveFits'
  BY <1>1, <1>2, <1>6 DEF ActiveFits, Working
<1> QED
  BY <1>7, <1>8, <1>9, <1>10, <1>11 DEF RuntimeInv, Kept

\* A listener of the loop throws.
LEMMA ListenerThrowsInd ==
    ASSUME RuntimeInv, ListenerThrows
    PROVE  RuntimeInv'
<1>1. Types /\ InHand /\ PhaseHeld /\ ActiveFits /\ ActiveOpen /\ NothingElseOpen /\ Recorded
  BY DEF RuntimeInv
<1>2. /\ phase' = phase /\ manual' = manual /\ given' = given /\ session' = session
      /\ active' = active /\ executing' = executing /\ recovered' = recovered
  BY DEF ListenerThrows
<1>3. /\ count' \in CountType /\ count'.faults >= count.faults /\ count'.compactions >= count.compactions
      /\ count'.faults > 0 /\ count'.compactions = count.compactions
  BY <1>1 DEF ListenerThrows, Types, CountType
<1>4. q' \in QueueType
  BY <1>1, QueueClear DEF ListenerThrows, Types
<1>5. /\ run.stage \in {"turn", "inject", "stream", "tools", "turnEnd", "agentEnd", "ended"}
      /\ run' \in RunType /\ run'.stage = "failing" /\ run'.intent = run.intent
      /\ run'.input = run.input /\ run'.first = run.first /\ run'.from = run.from
  BY <1>1 DEF ListenerThrows, At, To, Types, RunType, Stage
<1>6. Kept
  BY <1>2, <1>3, StepKeeps
<1>7. Types'
  BY <1>1, <1>2, <1>3, <1>4, <1>5, <1>6 DEF Types, Kept
<1>8. InHand'
  BY <1>1, <1>5, <1>6 DEF InHand, Kept
<1>9. PhaseHeld'
  BY <1>1, <1>2, <1>3, <1>5 DEF PhaseHeld, Looping, Excused
<1>10. ActiveFits'
  BY <1>1, <1>2, <1>3, <1>5 DEF ActiveFits, Working, Looping
<1> QED
  BY <1>6, <1>7, <1>8, <1>9, <1>10 DEF RuntimeInv, Kept

\* A failed run appends a message and ends.
LEMMA EmitRunFailureInd ==
    ASSUME RuntimeInv, EmitRunFailure
    PROVE  RuntimeInv'
<1>1. Types /\ InHand /\ PhaseHeld /\ ActiveFits /\ ActiveOpen /\ NothingElseOpen /\ Recorded
  BY DEF RuntimeInv
<1>2. /\ manual' = manual /\ given' = given /\ executing' = executing
      /\ recovered' = recovered /\ count' = count
  BY DEF EmitRunFailure
<1>3. /\ count' \in CountType /\ count'.faults >= count.faults
      /\ count'.compactions >= count.compactions
  BY <1>1, <1>2 DEF Types, CountType
<1>4. q' \in QueueType
  BY <1>1, QueueClear DEF EmitRunFailure, Types
<1>5. /\ run.stage = "failing" /\ run' \in RunType /\ run'.intent = run.intent
      /\ run'.stage \in {"ended"} /\ phase' = "idle"
  BY <1>1 DEF EmitRunFailure, At, To, Types, RunType, Stage
<1>6. /\ active' \in ActiveType /\ active'.op = active.op /\ active'.turn = 0
      /\ active'.tools = active.tools /\ active'.swept = active.swept
  BY <1>1 DEF EmitRunFailure, Types, ActiveType
<1>7. /\ session' \in SessionType
      /\ \/ active.turn = 0 /\ session'.journal = session.journal /\ Journal' = Journal
         \/ active.turn # 0 /\ ClosedOne(active.turn)
  <2> DEFINE s == Flushed(Appended(session, IF run.aborted THEN "assistant" ELSE "error"))
  <2>1. s \in SessionType /\ s.journal = session.journal /\ session' = TurnClosed(s)
    BY <1>1, AppendedTyped, FlushedTyped DEF EmitRunFailure, Types, Role
  <2>2. session \in SessionType /\ (active.turn # 0 => active.turn \in Journal)
    BY <1>1 DEF Types, ActiveOpen
  <2> HIDE DEF s
  <2>3. CASE active.turn = 0
    <3>1. session' = s
      BY <2>1, <2>3 DEF TurnClosed
    <3>2. Journal' = Journal
      BY <2>1, <3>1 DEF Journal
    <3> QED
      BY <2>1, <2>3, <3>1, <3>2
  <2>4. CASE active.turn # 0
    BY <2>1, <2>2, <2>4, ClosedStep DEF TurnClosed
  <2> QED
    BY <2>3, <2>4
<1>8. Journal' = Journal /\ \A j \in Journal : session'.journal[j].of = session.journal[j].of
  BY <1>7 DEF ClosedOne
<1>9. (Excused => Excused') /\ (Retried => Retried')
  BY <1>1, <1>3, <1>8, ExcusedStays
<1>10. Types'
  BY <1>1, <1>2, <1>4, <1>5, <1>6, <1>7, <1>8 DEF Types
<1>11. InHand'
  BY <1>1, <1>5, <1>9 DEF InHand
<1>12. PhaseHeld'
  BY <1>1, <1>2, <1>5, <1>9 DEF PhaseHeld, Free, Looping
<1>13. ActiveFits'
  BY <1>1, <1>2, <1>5, <1>6 DEF ActiveFits, Working
<1>14. ActiveOpen'
  BY <1>1, <1>6, <1>7 DEF ActiveOpen, ClosedOne
<1>15. NothingElseOpen'
  BY <1>1, <1>2, <1>6, <1>7 DEF NothingElseOpen, Open, Journal, ClosedOne
<1>16. Recorded'
  BY <1>1, <1>2, <1>7 DEF Recorded, ActiveOpen, ClosedOne
<1> QED
  BY <1>10, <1>11, <1>12, <1>13, <1>14, <1>15, <1>16 DEF RuntimeInv

\* The failure message fails too.
LEMMA FailureThrowsInd ==
    ASSUME RuntimeInv, FailureThrows
    PROVE  RuntimeInv'
<1>1. Types /\ InHand /\ PhaseHeld /\ ActiveFits /\ ActiveOpen /\ NothingElseOpen /\ Recorded
  BY DEF RuntimeInv
<1>2. /\ manual' = manual /\ given' = given /\ active' = active /\ executing' = executing
      /\ recovered' = recovered
  BY DEF FailureThrows
<1>3. /\ count' \in CountType /\ count'.faults >= count.faults /\ count'.compactions >= count.compactions
      /\ count'.compactions = count.compactions /\ (count'.faults = count.faults \/ count'.faults > 0)
      /\ run.intent # "retry" => count'.faults > 0
  BY <1>1 DEF FailureThrows, Types, CountType
<1>4. q' \in QueueType
  BY <1>1, QueueClear DEF FailureThrows, Types
<1>5. session' \in SessionType /\ session'.journal = session.journal
  BY <1>1, FlushedTyped DEF FailureThrows, Types
<1>6. /\ run.stage = "failing" /\ run' \in RunType /\ run'.stage = "interrupting" /\ run'.intent = run.intent
      /\ phase' = IF run.intent = "prompt" THEN "idle" ELSE phase
  BY <1>1 DEF FailureThrows, Throw, At, Types, RunType, Stage
<1>7. Kept
  BY <1>2, <1>3, <1>5, StepKeeps
<1>8. Types'
  BY <1>1, <1>2, <1>3, <1>4, <1>5, <1>6, <1>7 DEF Types, Kept
<1>9. InHand'
  BY <1>1, <1>6, <1>7 DEF InHand, Kept
<1>10. PhaseHeld'
  BY <1>1, <1>2, <1>3, <1>6, <1>7 DEF PhaseHeld, Free, Looping, Kept
<1>11. ActiveFits'
  BY <1>1, <1>2, <1>3, <1>6 DEF ActiveFits, Working
<1> QED
  BY <1>7, <1>8, <1>9, <1>10, <1>11 DEF RuntimeInv, Kept

\* The operation's call ends.
LEMMA ExecuteEndsInd ==
    ASSUME RuntimeInv, ExecuteEnds
    PROVE  RuntimeInv'
<1>1. Types /\ InHand /\ PhaseHeld /\ ActiveFits /\ ActiveOpen /\ NothingElseOpen /\ Recorded
  BY DEF RuntimeInv
<1>2. /\ phase' = phase /\ manual' = manual /\ given' = given /\ active' = active
      /\ executing' = executing /\ recovered' = recovered /\ count' = count
  BY DEF ExecuteEnds
<1>3. /\ count' \in CountType /\ count'.faults >= count.faults
      /\ count'.compactions >= count.compactions
  BY <1>1, <1>2 DEF Types, CountType
<1>4. q' \in QueueType
  BY <1>1, QueueClear DEF ExecuteEnds, Types
<1>5. session' \in SessionType /\ session'.journal = session.journal
  BY <1>1, FlushedTyped DEF ExecuteEnds, Types
<1>6. /\ run.stage = "ended"
      /\ run' \in RunType /\ run'.stage = "closing" /\ run'.intent = run.intent
      /\ run'.input = run.input /\ run'.first = run.first /\ run'.from = run.from
  BY <1>1 DEF ExecuteEnds, At, To, Types, RunType, Stage
<1>7. Kept
  BY <1>2, <1>3, <1>5, StepKeeps
<1>8. Types'
  BY <1>1, <1>2, <1>4, <1>5, <1>6, <1>7 DEF Types, Kept
<1>9. InHand'
  BY <1>1, <1>6, <1>7 DEF InHand, Kept
<1>10. PhaseHeld'
  BY <1>1, <1>2, <1>6, <1>7 DEF PhaseHeld, Free, Looping, Kept
<1>11. ActiveFits'
  BY <1>1, <1>2, <1>6 DEF ActiveFits, Working
<1> QED
  BY <1>7, <1>8, <1>9, <1>10, <1>11 DEF RuntimeInv, Kept

\* An open tool is closed with its operation.
LEMMA FinishOpenToolInd ==
    ASSUME RuntimeInv, FinishOpenTool
    PROVE  RuntimeInv'
<1>1. Types /\ InHand /\ PhaseHeld /\ ActiveFits /\ ActiveOpen /\ NothingElseOpen /\ Recorded
  BY DEF RuntimeInv
<1>2. /\ phase' = phase /\ run' = run /\ manual' = manual /\ q' = q /\ given' = given
      /\ executing' = executing /\ recovered' = recovered /\ count' = count
  BY DEF FinishOpenTool
<1>3. /\ count' \in CountType /\ count'.faults >= count.faults
      /\ count'.compactions >= count.compactions
  BY <1>1, <1>2 DEF Types, CountType
<1>4. run.stage \in {"closing", "interrupting"}
  BY DEF FinishOpenTool, Closing
<1>5. \E t \in active.tools \ active.swept :
         /\ session' \in SessionType /\ ClosedOne(t)
         /\ active' \in ActiveType /\ active'.op = active.op /\ active'.turn = active.turn
         /\ active'.tools = active.tools /\ active'.swept = active.swept \cup {t}
  <2>1. PICK t \in active.tools \ active.swept :
            session' = Closed(session, t) /\ active' = [active EXCEPT !.swept = @ \cup {t}]
    BY DEF FinishOpenTool
  <2>2. session \in SessionType /\ active \in ActiveType /\ t \in Journal
    BY <1>1 DEF Types, ActiveOpen
  <2>3. t \in Nat
    BY <2>2 DEF ActiveType
  <2>4. session' \in SessionType /\ ClosedOne(t)
    BY <2>1, <2>2, ClosedStep
  <2> QED
    BY <2>1, <2>2, <2>3, <2>4 DEF ActiveType
<1>6. /\ session' \in SessionType /\ active' \in ActiveType /\ Journal' = Journal
      /\ \A j \in Journal : session'.journal[j].of = session.journal[j].of
  BY <1>5 DEF ClosedOne
<1>7. (Excused => Excused') /\ (Retried => Retried')
  BY <1>1, <1>3, <1>6, ExcusedStays
<1>8. Types'
  BY <1>1, <1>2, <1>6 DEF Types
<1>9. InHand'
  BY <1>1, <1>2, <1>7 DEF InHand
<1>10. PhaseHeld'
  BY <1>1, <1>2, <1>7 DEF PhaseHeld, Free
<1>11. ActiveFits'
  BY <1>1, <1>2, <1>4, <1>5 DEF ActiveFits
<1>12. ActiveOpen'
  BY <1>1, <1>5 DEF ActiveOpen, ClosedOne
<1>13. NothingElseOpen'
  BY <1>1, <1>2, <1>5 DEF NothingElseOpen, Open, Journal, ClosedOne
<1>14. Recorded'
  BY <1>1, <1>2, <1>5 DEF Recorded, ActiveOpen, ClosedOne
<1> QED
  BY <1>8, <1>9, <1>10, <1>11, <1>12, <1>13, <1>14 DEF RuntimeInv

\* An open turn is closed with its operation.
LEMMA FinishOpenTurnInd ==
    ASSUME RuntimeInv, FinishOpenTurn
    PROVE  RuntimeInv'
<1>1. Types /\ InHand /\ PhaseHeld /\ ActiveFits /\ ActiveOpen /\ NothingElseOpen /\ Recorded
  BY DEF RuntimeInv
<1>2. /\ phase' = phase /\ run' = run /\ manual' = manual /\ q' = q /\ given' = given
      /\ executing' = executing /\ recovered' = recovered /\ count' = count
  BY DEF FinishOpenTurn
<1>3. /\ count' \in CountType /\ count'.faults >= count.faults
      /\ count'.compactions >= count.compactions
  BY <1>1, <1>2 DEF Types, CountType
<1>4. /\ run.stage \in {"closing", "interrupting"} /\ active.turn # 0
      /\ active.tools \subseteq active.swept
  BY DEF FinishOpenTurn, Closing
<1>5. session' \in SessionType /\ ClosedOne(active.turn)
  BY <1>1, <1>4, ClosedStep DEF FinishOpenTurn, Types, ActiveOpen
<1>6. /\ active' \in ActiveType /\ active'.op = active.op /\ active'.turn = 0 /\ active'.tools = {}
      /\ active'.swept = {}
  BY <1>1 DEF FinishOpenTurn, Types, ActiveType
<1>7. Journal' = Journal /\ \A j \in Journal : session'.journal[j].of = session.journal[j].of
  BY <1>5 DEF ClosedOne
<1>8. (Excused => Excused') /\ (Retried => Retried')
  BY <1>1, <1>3, <1>7, ExcusedStays
<1>9. Types'
  BY <1>1, <1>2, <1>5, <1>6, <1>7 DEF Types
<1>10. InHand'
  BY <1>1, <1>2, <1>8 DEF InHand
<1>11. PhaseHeld'
  BY <1>1, <1>2, <1>8 DEF PhaseHeld, Free
<1>12. ActiveFits'
  BY <1>1, <1>2, <1>6 DEF ActiveFits
<1>13. ActiveOpen'
  BY <1>1, <1>5, <1>6 DEF ActiveOpen, ClosedOne
<1>14. NothingElseOpen'
  BY <1>1, <1>2, <1>4, <1>5, <1>6 DEF NothingElseOpen, Open, Journal, ClosedOne
<1>15. Recorded'
  BY <1>1, <1>2, <1>4, <1>5 DEF Recorded, ActiveOpen, ClosedOne
<1> QED
  BY <1>9, <1>10, <1>11, <1>12, <1>13, <1>14, <1>15 DEF RuntimeInv

\* The operation's end is recorded.
LEMMA FinishOperationInd ==
    ASSUME RuntimeInv, FinishOperation
    PROVE  RuntimeInv'
<1>1. Types /\ InHand /\ PhaseHeld /\ ActiveFits /\ ActiveOpen /\ NothingElseOpen /\ Recorded
  BY DEF RuntimeInv
<1>2. /\ manual' = manual /\ q' = q /\ given' = given /\ executing' = executing
      /\ recovered' = recovered /\ count' = count
  BY DEF FinishOperation
<1>3. /\ count' \in CountType /\ count'.faults >= count.faults
      /\ count'.compactions >= count.compactions
  BY <1>1, <1>2 DEF Types, CountType
<1>4. active.turn = 0 /\ active.tools \subseteq active.swept
  BY DEF FinishOperation
<1>5. /\ run' \in RunType /\ run'.intent = run.intent
      /\ \/ run.stage = "closing" /\ run'.stage = "decide" /\ phase' = phase
         \/ /\ run.stage = "interrupting" /\ run'.stage = "settling"
            /\ phase' = IF run.intent = "prompt" THEN phase ELSE "idle"
  BY <1>1 DEF FinishOperation, Closing, At, To, Types, RunType, Stage, PhaseReset
<1>6. active.op # 0 /\ session' \in SessionType /\ ClosedOne(active.op) /\ recovered
  BY <1>1, <1>5, ClosedStep DEF FinishOperation, Types, ActiveOpen, ActiveFits, Working
<1>7. /\ active' \in ActiveType /\ active'.op = 0 /\ active'.turn = 0 /\ active'.tools = {}
      /\ active'.swept = {}
  BY DEF FinishOperation, NoActive, ActiveType
<1>8. Journal' = Journal /\ \A j \in Journal : session'.journal[j].of = session.journal[j].of
  BY <1>6 DEF ClosedOne
<1>9. (Excused => Excused') /\ (Retried => Retried')
  BY <1>1, <1>3, <1>8, ExcusedStays
<1>10. Types'
  BY <1>1, <1>2, <1>5, <1>6, <1>7, <1>8 DEF Types
<1>11. InHand'
  BY <1>1, <1>5, <1>9 DEF InHand
<1>12. PhaseHeld'
  BY <1>1, <1>2, <1>5, <1>9 DEF PhaseHeld, Free, Looping, InHand, Excused, RunType
<1>13. ActiveFits'
  BY <1>5, <1>7 DEF ActiveFits, Working, Looping
<1>14. ActiveOpen'
  BY <1>7 DEF ActiveOpen
<1>15. NothingElseOpen'
  BY <1>1, <1>4, <1>6, <1>7 DEF NothingElseOpen, Open, Journal, ClosedOne
<1>16. Recorded'
  <2>1. \A j \in Journal : j # active.op => session.journal[j].closes # 0
    BY <1>1, <1>4, <1>6, PlaceTyped DEF NothingElseOpen, Open, Journal, Types
  <2> QED
    BY <1>1, <1>2, <1>6, <2>1 DEF Recorded, ActiveOpen, ClosedOne
<1> QED
  BY <1>10, <1>11, <1>12, <1>13, <1>14, <1>15, <1>16 DEF RuntimeInv

\* What follows a response.
LEMMA DecideInd ==
    ASSUME RuntimeInv, Decide
    PROVE  RuntimeInv'
<1>1. Types /\ InHand /\ PhaseHeld /\ ActiveFits /\ ActiveOpen /\ NothingElseOpen /\ Recorded
  BY DEF RuntimeInv
<1>2. /\ phase' = phase /\ manual' = manual /\ q' = q /\ given' = given /\ session' = session
      /\ active' = active /\ executing' = executing /\ recovered' = recovered
      /\ count' = count
  BY DEF Decide
<1>3. /\ count' \in CountType /\ count'.faults >= count.faults
      /\ count'.compactions >= count.compactions
  BY <1>1, <1>2 DEF Types, CountType
<1>4. /\ run.stage = "decide" /\ run' \in RunType /\ run'.intent = run.intent
      /\ run'.stage \in {"sleep", "retrying", "settling", "threshold"}
  <2>1. run \in RunType /\ run.stage = "decide"
    BY <1>1 DEF Decide, At, Types
  <2>2. CASE run' = [run EXCEPT !.stage = "sleep", !.retries = @ + 1]
    <3> DEFINE n == run.retries + 1
    <3>1. n \in Nat /\ run' = [run EXCEPT !.stage = "sleep", !.retries = n]
      BY <2>1, <2>2 DEF RunType
    <3> HIDE DEF n
    <3> QED
      BY <2>1, <3>1 DEF RunType, Stage
  <2>3. CASE CallRetry(TRUE)
    BY <2>1, <2>3 DEF CallRetry, RunType, Stage
  <2>4. CASE To("threshold")
    BY <2>1, <2>4 DEF To, RunType, Stage
  <2> QED
    BY <2>2, <2>3, <2>4 DEF Decide
<1>5. Kept
  BY <1>1, <1>2, <1>3, <1>4, StepKeeps DEF Types
<1>6. Types'
  BY <1>1, <1>2, <1>4, <1>5 DEF Types, Kept
<1>7. InHand'
  BY <1>1, <1>4, <1>5 DEF InHand, Kept
<1>8. PhaseHeld'
  BY <1>1, <1>2, <1>4, <1>5 DEF PhaseHeld, Free, Looping, Kept
<1>9. ActiveFits'
  BY <1>1, <1>2, <1>4 DEF ActiveFits, Working, Looping
<1> QED
  BY <1>5, <1>6, <1>7, <1>8, <1>9 DEF RuntimeInv, Kept

\* The delay of a retry is over.
LEMMA WakeInd ==
    ASSUME RuntimeInv, Wake
    PROVE  RuntimeInv'
<1>1. Types /\ InHand /\ PhaseHeld /\ ActiveFits /\ ActiveOpen /\ NothingElseOpen /\ Recorded
  BY DEF RuntimeInv
<1>2. /\ phase' = phase /\ manual' = manual /\ q' = q /\ given' = given /\ session' = session
      /\ active' = active /\ executing' = executing /\ recovered' = recovered
      /\ count' = count
  BY DEF Wake
<1>3. /\ count' \in CountType /\ count'.faults >= count.faults
      /\ count'.compactions >= count.compactions
  BY <1>1, <1>2 DEF Types, CountType
<1>4. /\ run.stage = "sleep" /\ run' \in RunType /\ run'.intent = run.intent
      /\ run'.stage \in {"retrying", "settling", "threshold"}
  BY <1>1 DEF Wake, CallRetry, At, To, Types, RunType, Stage
<1>5. Kept
  BY <1>1, <1>2, <1>3, <1>4, StepKeeps DEF Types
<1>6. Types'
  BY <1>1, <1>2, <1>4, <1>5 DEF Types, Kept
<1>7. InHand'
  BY <1>1, <1>4, <1>5 DEF InHand, Kept
<1>8. PhaseHeld'
  BY <1>1, <1>2, <1>4, <1>5 DEF PhaseHeld, Free, Looping, Kept
<1>9. ActiveFits'
  BY <1>1, <1>2, <1>4 DEF ActiveFits, Working, Looping
<1> QED
  BY <1>5, <1>6, <1>7, <1>8, <1>9 DEF RuntimeInv, Kept

\* A retry takes the error off the branch.
LEMMA RetryFromParentInd ==
    ASSUME RuntimeInv, RetryFromParent
    PROVE  RuntimeInv'
<1>1. Types /\ InHand /\ PhaseHeld /\ ActiveFits /\ ActiveOpen /\ NothingElseOpen /\ Recorded
  BY DEF RuntimeInv
<1>2. /\ manual' = manual /\ q' = q /\ given' = given /\ active' = active
      /\ executing' = executing /\ recovered' = recovered /\ count' = count
  BY DEF RetryFromParent
<1>3. /\ count' \in CountType /\ count'.faults >= count.faults
      /\ count'.compactions >= count.compactions
  BY <1>1, <1>2 DEF Types, CountType
<1>4. session' \in SessionType /\ session'.journal = session.journal
  BY <1>1 DEF RetryFromParent, Types, SessionType
<1>5. /\ run.stage = "retrying" /\ run' \in RunType /\ run'.intent = run.intent
      /\ \/ run'.stage \in {"settling", "leafSet"} /\ phase' = phase
         \/ run'.stage = "compacting" /\ phase = "idle" /\ phase' = "compaction"
  BY <1>1 DEF RetryFromParent, At, To, Types, RunType, Stage
<1>6. Kept
  BY <1>2, <1>3, <1>4, StepKeeps
<1>7. Types'
  BY <1>1, <1>2, <1>4, <1>5, <1>6 DEF Types, Kept
<1>8. InHand'
  BY <1>1, <1>5, <1>6 DEF InHand, Kept
<1>9. PhaseHeld'
  BY <1>1, <1>2, <1>5, <1>6 DEF PhaseHeld, Free, Looping, Kept
<1>10. ActiveFits'
  BY <1>1, <1>2, <1>5 DEF ActiveFits, Working, Looping
<1> QED
  BY <1>6, <1>7, <1>8, <1>9, <1>10 DEF RuntimeInv, Kept

\* A retry takes the phase.
LEMMA RetryStartsInd ==
    ASSUME RuntimeInv, RetryStarts
    PROVE  RuntimeInv'
<1>1. Types /\ InHand /\ PhaseHeld /\ ActiveFits /\ ActiveOpen /\ NothingElseOpen /\ Recorded
  BY DEF RuntimeInv
<1>2. /\ manual' = manual /\ q' = q /\ given' = given /\ session' = session
      /\ active' = active /\ executing' = executing /\ recovered' = recovered
      /\ count' = count
  BY DEF RetryStarts
<1>3. /\ count' \in CountType /\ count'.faults >= count.faults
      /\ count'.compactions >= count.compactions
  BY <1>1, <1>2 DEF Types, CountType
<1>4. /\ run.stage = "leafSet" /\ phase' = "retry"
      /\ run' \in RunType /\ run'.stage = "begin" /\ run'.intent = "retry"
      /\ run'.input = run.input /\ run'.first = run.first /\ run'.from = run.from
  BY <1>1 DEF RetryStarts, At, To, Types, RunType, Stage
<1>5. Kept
  BY <1>1, <1>2, <1>3, <1>4, StepKeeps DEF Types
<1>6. Types'
  BY <1>1, <1>2, <1>4, <1>5 DEF Types, Kept
<1>7. InHand'
  BY <1>4 DEF InHand
<1>8. PhaseHeld'
  BY <1>1, <1>2, <1>4 DEF PhaseHeld, Looping
<1>9. ActiveFits'
  BY <1>1, <1>2, <1>4 DEF ActiveFits, Working, Looping
<1> QED
  BY <1>5, <1>6, <1>7, <1>8, <1>9 DEF RuntimeInv, Kept

\* The threshold compaction, if it is due.
LEMMA ThresholdInd ==
    ASSUME RuntimeInv, Threshold
    PROVE  RuntimeInv'
<1>1. Types /\ InHand /\ PhaseHeld /\ ActiveFits /\ ActiveOpen /\ NothingElseOpen /\ Recorded
  BY DEF RuntimeInv
<1>2. /\ manual' = manual /\ q' = q /\ given' = given /\ session' = session
      /\ active' = active /\ executing' = executing /\ recovered' = recovered
      /\ count' = count
  BY DEF Threshold
<1>3. /\ count' \in CountType /\ count'.faults >= count.faults
      /\ count'.compactions >= count.compactions
  BY <1>1, <1>2 DEF Types, CountType
<1>4. /\ run.stage = "threshold" /\ run' \in RunType /\ run'.intent = run.intent
      /\ \/ run'.stage = "settling" /\ phase' = phase
         \/ run'.stage = "compacting" /\ phase = "idle" /\ phase' = "compaction"
  BY <1>1 DEF Threshold, At, To, Types, RunType, Stage
<1>5. Kept
  BY <1>1, <1>2, <1>3, <1>4, StepKeeps DEF Types
<1>6. Types'
  BY <1>1, <1>2, <1>4, <1>5 DEF Types, Kept
<1>7. InHand'
  BY <1>1, <1>4, <1>5 DEF InHand, Kept
<1>8. PhaseHeld'
  BY <1>1, <1>2, <1>4, <1>5 DEF PhaseHeld, Free, Looping, Kept
<1>9. ActiveFits'
  BY <1>1, <1>2, <1>4 DEF ActiveFits, Working, Looping
<1> QED
  BY <1>5, <1>6, <1>7, <1>8, <1>9 DEF RuntimeInv, Kept

\* A compaction of the run ends.
LEMMA CompactEndsInd ==
    ASSUME RuntimeInv, CompactEnds
    PROVE  RuntimeInv'
<1>1. Types /\ InHand /\ PhaseHeld /\ ActiveFits /\ ActiveOpen /\ NothingElseOpen /\ Recorded
  BY DEF RuntimeInv
<1>2. /\ manual' = manual /\ q' = q /\ given' = given /\ session' = session
      /\ active' = active /\ executing' = executing /\ recovered' = recovered
      /\ count' = count
  BY DEF CompactEnds
<1>3. /\ count' \in CountType /\ count'.faults >= count.faults
      /\ count'.compactions >= count.compactions
  BY <1>1, <1>2 DEF Types, CountType
<1>4. /\ run.stage = "compacting" /\ run' \in RunType /\ run'.intent = run.intent
      /\ run'.stage \in {"leafSet", "settling"} /\ phase' = "idle"
  BY <1>1 DEF CompactEnds, At, To, Types, RunType, Stage
<1>5. Kept
  BY <1>1, <1>2, <1>3, <1>4, StepKeeps DEF Types
<1>6. Types'
  BY <1>1, <1>2, <1>4, <1>5 DEF Types, Kept
<1>7. InHand'
  BY <1>1, <1>4, <1>5 DEF InHand, Kept
<1>8. PhaseHeld'
  BY <1>1, <1>2, <1>4, <1>5 DEF PhaseHeld, Free, Looping, Kept
<1>9. ActiveFits'
  BY <1>1, <1>2, <1>4 DEF ActiveFits, Working, Looping
<1> QED
  BY <1>5, <1>6, <1>7, <1>8, <1>9 DEF RuntimeInv, Kept

\* The run is over.
LEMMA SettleInd ==
    ASSUME RuntimeInv, Settle
    PROVE  RuntimeInv'
<1>1. Types /\ InHand /\ PhaseHeld /\ ActiveFits /\ ActiveOpen /\ NothingElseOpen /\ Recorded
  BY DEF RuntimeInv
<1>2. /\ phase' = phase /\ manual' = manual /\ q' = q /\ given' = given /\ session' = session
      /\ active' = active /\ executing' = executing /\ recovered' = recovered
      /\ count' = count
  BY DEF Settle
<1>3. /\ count' \in CountType /\ count'.faults >= count.faults
      /\ count'.compactions >= count.compactions
  BY <1>1, <1>2 DEF Types, CountType
<1>4. run.stage = "settling" /\ run' \in RunType /\ run'.stage = "none" /\ run'.intent = "none"
  BY DEF Settle, At, NoRun, RunType, Stage
<1>5. Kept
  BY <1>1, <1>2, <1>3, <1>4, StepKeeps DEF Types
<1>6. Types'
  BY <1>1, <1>2, <1>4, <1>5 DEF Types, Kept
<1>7. InHand'
  BY <1>4 DEF InHand
<1>8. PhaseHeld'
  BY <1>1, <1>2, <1>4, <1>5 DEF PhaseHeld, Free, Looping, Kept
<1>9. ActiveFits'
  BY <1>1, <1>2, <1>4 DEF ActiveFits, Working, Looping
<1> QED
  BY <1>5, <1>6, <1>7, <1>8, <1>9 DEF RuntimeInv, Kept

\* The user compacts.
LEMMA ManualCompactInd ==
    ASSUME RuntimeInv, ManualCompact
    PROVE  RuntimeInv'
<1>1. Types /\ InHand /\ PhaseHeld /\ ActiveFits /\ ActiveOpen /\ NothingElseOpen /\ Recorded
  BY DEF RuntimeInv
<1>2. /\ run' = run /\ q' = q /\ given' = given /\ session' = session /\ active' = active
      /\ executing' = executing /\ recovered' = recovered
  BY DEF ManualCompact
<1>3. /\ count' \in CountType /\ count'.faults >= count.faults /\ count'.compactions >= count.compactions
      /\ count'.compactions > 0 /\ count'.faults = count.faults
  BY <1>1 DEF ManualCompact, Types, CountType
<1>4. phase = "idle" /\ ~manual /\ phase' = "compaction" /\ manual'
  BY DEF ManualCompact
<1>5. manual' \in BOOLEAN
  BY DEF ManualCompact
<1>6. Kept
  BY <1>2, <1>3, StepKeeps
<1>7. Types'
  BY <1>1, <1>2, <1>3, <1>4, <1>6 DEF Types, Kept
<1>8. InHand'
  BY <1>1, <1>2, <1>6 DEF InHand, Kept
<1>9. PhaseHeld'
  BY <1>1, <1>2, <1>3, <1>4, <1>6 DEF PhaseHeld, Free, Kept, Excused
<1>10. ActiveFits'
  BY <1>1, <1>2, <1>3 DEF ActiveFits
<1> QED
  BY <1>6, <1>7, <1>8, <1>9, <1>10 DEF RuntimeInv, Kept

\* The user's compaction ends.
LEMMA ManualCompactEndsInd ==
    ASSUME RuntimeInv, ManualCompactEnds
    PROVE  RuntimeInv'
<1>1. Types /\ InHand /\ PhaseHeld /\ ActiveFits /\ ActiveOpen /\ NothingElseOpen /\ Recorded
  BY DEF RuntimeInv
<1>2. /\ run' = run /\ q' = q /\ given' = given /\ session' = session /\ active' = active
      /\ executing' = executing /\ recovered' = recovered /\ count' = count
  BY DEF ManualCompactEnds
<1>3. /\ count' \in CountType /\ count'.faults >= count.faults
      /\ count'.compactions >= count.compactions
  BY <1>1, <1>2 DEF Types, CountType
<1>4. manual /\ phase' = "idle" /\ manual' = FALSE
  BY DEF ManualCompactEnds
<1>5. Kept
  BY <1>1, <1>2, <1>3, <1>4, StepKeeps DEF Types
<1>6. Types'
  BY <1>1, <1>2, <1>4, <1>5 DEF Types, Kept
<1>7. InHand'
  BY <1>1, <1>2, <1>5 DEF InHand, Kept
<1>8. PhaseHeld'
  BY <1>1, <1>2, <1>4, <1>5 DEF PhaseHeld, Free, Kept
<1>9. ActiveFits'
  BY <1>1, <1>2 DEF ActiveFits
<1> QED
  BY <1>5, <1>6, <1>7, <1>8, <1>9 DEF RuntimeInv, Kept

\* The process dies.
LEMMA CrashInd ==
    ASSUME RuntimeInv, Crash
    PROVE  RuntimeInv'
<1>1. Types /\ InHand /\ PhaseHeld /\ ActiveFits /\ ActiveOpen /\ NothingElseOpen /\ Recorded
  BY DEF RuntimeInv
<1>2. given' = given /\ session' = session
  BY DEF Crash
<1>3. /\ count' \in CountType /\ count'.faults >= count.faults /\ count'.compactions >= count.compactions
      /\ count'.faults = count.faults /\ count'.compactions = count.compactions
  BY <1>1 DEF Crash, Types, CountType
<1>4. /\ run' \in RunType /\ run'.stage = "none" /\ run'.intent = "none" /\ phase' = "idle"
      /\ manual' = FALSE /\ recovered' = FALSE /\ executing' = {}
  BY DEF Crash, NoRun, RunType, Stage
<1>5. q' \in QueueType
  BY DEF Crash, NoQueues, QueueType
<1>6. /\ active' \in ActiveType /\ active'.op = 0 /\ active'.turn = 0 /\ active'.tools = {}
      /\ active'.swept = {}
  BY DEF Crash, NoActive, ActiveType
<1>7. Journal' = Journal /\ session'.journal = session.journal
  BY <1>2 DEF Journal
<1>8. (Excused => Excused') /\ (Retried => Retried')
  BY <1>1, <1>3, <1>7, ExcusedStays DEF StartedOne, ClosedOne
<1>9. Types'
  BY <1>1, <1>2, <1>3, <1>4, <1>5, <1>6 DEF Types
<1>10. InHand'
  BY <1>4 DEF InHand
<1>11. PhaseHeld'
  BY <1>4 DEF PhaseHeld, Free, Looping
<1>12. ActiveFits'
  BY <1>4, <1>6 DEF ActiveFits, Working, Looping
<1>13. ActiveOpen'
  BY <1>6 DEF ActiveOpen
<1>14. NothingElseOpen'
  BY <1>4 DEF NothingElseOpen
<1>15. Recorded'
  BY <1>1, <1>3, <1>7 DEF Recorded
<1> QED
  BY <1>9, <1>10, <1>11, <1>12, <1>13, <1>14, <1>15 DEF RuntimeInv
-----------------------------------------------------------------------------
(* The invariant. *)

\* It holds at first: an empty journal, nothing under way.
LEMMA InitRuntimeInv == Init => RuntimeInv
<1> SUFFICES ASSUME Init PROVE RuntimeInv
  OBVIOUS
<1>1. /\ phase = "idle" /\ manual = FALSE /\ given = {} /\ executing = {} /\ recovered = FALSE
      /\ run.stage = "none" /\ run.intent = "none" /\ session.journal = <<>>
      /\ active.op = 0 /\ active.turn = 0 /\ active.tools = {} /\ active.swept = {}
  BY DEF Init, NoRun, NoActive
<1>2. Journal = {}
  BY <1>1 DEF Journal
<1>3. run \in RunType /\ active \in ActiveType /\ count \in CountType
  BY DEF Init, NoRun, RunType, Stage, NoActive, ActiveType, CountType
<1>4. q \in QueueType
  BY DEF Init, NoQueues, QueueType
<1>5. session \in SessionType
  BY DEF Init, SessionType, Role
<1>6. Types /\ InHand /\ PhaseHeld
  BY <1>1, <1>3, <1>4, <1>5 DEF Types, InHand, PhaseHeld, Free, Looping
<1>7. ActiveFits /\ ActiveOpen /\ NothingElseOpen /\ Recorded
  BY <1>1, <1>2 DEF ActiveFits, Working, Looping, ActiveOpen, NothingElseOpen, Recorded
<1> QED
  BY <1>6, <1>7 DEF RuntimeInv

\* A step that changes nothing keeps it.
LEMMA StutterRuntimeInv == RuntimeInv /\ UNCHANGED vars => RuntimeInv'
BY DEF RuntimeInv, vars, Types, InHand, Retried, PhaseHeld, Excused, Free, ActiveFits,
   ActiveOpen, NothingElseOpen, Open, Recorded, Journal

\* So does every action.
LEMMA NextRuntimeInv == RuntimeInv /\ [Next]_vars => RuntimeInv'
<1> SUFFICES ASSUME RuntimeInv, [Next]_vars PROVE RuntimeInv'
  OBVIOUS
<1>1. CASE UNCHANGED vars
  BY <1>1, StutterRuntimeInv
<1>2. CASE \E m \in Msg : Prompt(m) \/ SendUserMessage(m) \/ NextTurnMessage(m) \/ AppendMessage(m)
  BY <1>2, PromptInd, SendUserMessageInd, NextTurnMessageInd, AppendMessageInd
<1>3. CASE \E abort \in BOOLEAN : ClearQueues(abort)
  BY <1>3, ClearQueuesInd
<1>4. CASE \E n \in 1..2 : RespondTools(n)
  BY <1>4, RespondToolsInd
<1>5. CASE \/ PreparedQueueFails \/ PreparedHookFails \/ DrainFails \/ ListenerThrows
           \/ ManualCompact \/ Crash
  BY <1>5, PreparedQueueFailsInd, PreparedHookFailsInd, DrainFailsInd, ListenerThrowsInd,
     ManualCompactInd, CrashInd
<1>6. CASE \/ Resend \/ Start \/ Recover \/ BeginOperation \/ Work \/ Prepared \/ WorkRetry
           \/ TurnStart \/ Inject \/ Poll \/ Drained
  BY <1>6, ResendInd, StartInd, RecoverInd, BeginOperationInd, WorkInd, PreparedInd,
     WorkRetryInd, TurnStartInd, InjectInd, PollInd, DrainedInd
<1>7. CASE \/ \E resp \in {"stop", "error", "overflow", "aborted"} : Respond(resp)
           \/ \E t \in executing : ToolEnds(t)
  BY <1>7, RespondInd, ToolEndsInd
<1>8. CASE \/ BatchEnds \/ TurnEnd \/ AgentEnd \/ EmitRunFailure \/ FailureThrows \/ ExecuteEnds
           \/ FinishOpenTool \/ FinishOpenTurn \/ FinishOperation
  BY <1>8, BatchEndsInd, TurnEndInd, AgentEndInd, EmitRunFailureInd, FailureThrowsInd,
     ExecuteEndsInd, FinishOpenToolInd, FinishOpenTurnInd, FinishOperationInd
<1>9. CASE \/ Decide \/ Wake \/ RetryFromParent \/ RetryStarts \/ Threshold \/ CompactEnds \/ Settle
           \/ ManualCompactEnds
  BY <1>9, DecideInd, WakeInd, RetryFromParentInd, RetryStartsInd, ThresholdInd,
     CompactEndsInd, SettleInd, ManualCompactEndsInd
<1> QED
  BY <1>1, <1>2, <1>3, <1>4, <1>5, <1>6, <1>7, <1>8, <1>9 DEF Next, Internal

\* The invariant of the harness: its types, what the phase and the journal's
\* active records are where the run stands, and that the journal's records
\* are closed in order.
THEOREM RuntimeInvHolds == Spec => []RuntimeInv
BY InitRuntimeInv, NextRuntimeInv, PTL DEF Spec

-----------------------------------------------------------------------------
(* What it means for the journal and for the exclusion. *)

\* The journal's invariant says all that JournalExact promises.
LEMMA InvGivesJournalExact == RuntimeInv => JournalExact
<1> SUFFICES ASSUME RuntimeInv PROVE JournalExact
  OBVIOUS
<1>1. Types /\ ActiveFits /\ ActiveOpen /\ NothingElseOpen /\ Recorded
  BY DEF RuntimeInv
<1>2. TypeOK
  <2>1. \A name \in DOMAIN q : q[name] \in Seq(Msg)
    BY <1>1 DEF Types, QueueType
  <2> QED
    BY <1>1, <2>1 DEF Types, ActiveOpen, TypeOK, Journal
<1>3. session \in SessionType /\ 0 \notin Journal
  BY <1>1, PlaceTyped DEF Types
<1>4. ASSUME NEW i \in Journal
      PROVE  LET item == session.journal[i] IN
             /\ item.closes <= IF item.level = "tool" /\ count.faults > 0 THEN 2 ELSE 1
             /\ item.level = "op" /\ item.closes > 0 =>
                  \A j \in Journal : session.journal[j].op = i => j \notin Open
             /\ recovered /\ i \in Open => item.op = active.op
  <2>1. session.journal[i].closes
            <= IF session.journal[i].level = "tool" /\ count.faults > 0 THEN 2 ELSE 1
    BY <1>1 DEF Recorded
  <2>2. session.journal[i].level = "op" /\ session.journal[i].closes > 0 =>
            \A j \in Journal : session.journal[j].op = i => j \notin Open
    BY <1>1 DEF Recorded, Open
  <2>3. ASSUME recovered, i \in Open PROVE session.journal[i].op = active.op
    <3>1. CASE i = active.op
      BY <1>1, <1>3, <3>1 DEF Recorded, ActiveOpen
    <3>2. CASE i = active.turn
      BY <1>1, <1>3, <3>2 DEF ActiveOpen
    <3>3. CASE i \in active.tools
      BY <1>1, <3>3 DEF ActiveOpen
    <3> QED
      BY <1>1, <2>3, <3>1, <3>2, <3>3 DEF NothingElseOpen
  <2> QED
    BY <2>1, <2>2, <2>3
<1> QED
  BY <1>2, <1>4 DEF JournalExact, Journal

\* While the loop runs the phase says so, or a way out was taken.
LEMMA InvGivesHarnessExclusive == RuntimeInv => HarnessExclusive
BY DEF RuntimeInv, PhaseHeld, Excused, Retried, Journal, HarnessExclusive, Looping

\* The journal is exact (recode-harness-journal.ts: starts, terminal records
\* and recoverUnfinishedWork), for any numbers of messages, tools, events,
\* retries and crashes.
THEOREM JournalExactHolds == Spec => []JournalExact
BY RuntimeInvHolds, InvGivesJournalExact, PTL

\* Operations exclude each other but for the ways out that the property names
\* (agent-harness.ts: the checks of phase and where it is set), for any
\* numbers of messages, tools, events and retries.
THEOREM HarnessExclusiveHolds == Spec => []HarnessExclusive
BY RuntimeInvHolds, InvGivesHarnessExclusive, PTL

-----------------------------------------------------------------------------
(* How often a message is in a sequence. *)

\* The positions of m in s.
Positions(m, s) == {i \in DOMAIN s : s[i] = m}

\* There are finitely many.
LEMMA TimesNat ==
    ASSUME NEW s \in Seq(Msg), NEW m
    PROVE  /\ IsFiniteSet(Positions(m, s)) /\ Times(m, s) \in Nat
           /\ Times(m, s) = Cardinality(Positions(m, s))
<1>1. DOMAIN s = 1..Len(s) /\ Len(s) \in Nat
  BY LenProperties
<1>2. IsFiniteSet(1..Len(s))
  BY <1>1, FS_Interval
<1>3. Positions(m, s) \in SUBSET (1..Len(s))
  BY <1>1 DEF Positions
<1>4. IsFiniteSet(Positions(m, s))
  BY <1>2, <1>3, FS_Subset
<1> QED
  BY <1>4, FS_CardinalityType DEF Times, Positions

\* None in an empty sequence, and one or none in a sequence of one.
LEMMA TimesFew ==
    ASSUME NEW m, NEW x \in Msg
    PROVE  Times(m, <<>>) = 0 /\ Times(m, <<x>>) = IF x = m THEN 1 ELSE 0
<1>1. Positions(m, <<>>) = {}
  BY DEF Positions
<1>2. Positions(m, <<x>>) = IF x = m THEN {1} ELSE {}
  BY DEF Positions
<1>3. Times(m, <<>>) = 0
  BY <1>1, FS_EmptySet DEF Times, Positions
<1>4. Times(m, <<x>>) = Cardinality(Positions(m, <<x>>))
  BY DEF Times, Positions
<1>5. Cardinality({1}) = 1 /\ Cardinality({}) = 0
  BY FS_Singleton, FS_EmptySet
<1> QED
  BY <1>2, <1>3, <1>4, <1>5

\* In two sequences joined, as often as in both: the positions in the second
\* one are shifted.
LEMMA TimesConcat ==
    ASSUME NEW m, NEW s \in Seq(Msg), NEW t \in Seq(Msg)
    PROVE  Times(m, s \o t) = Times(m, s) + Times(m, t)
<1> DEFINE A == Positions(m, s)
<1> DEFINE B == Positions(m, t)
<1> DEFINE C == Positions(m, s \o t) \ A
<1>1. /\ IsFiniteSet(A) /\ IsFiniteSet(B) /\ Times(m, s) = Cardinality(A)
      /\ Times(m, t) = Cardinality(B)
  BY TimesNat
<1>2. /\ s \o t \in Seq(Msg) /\ Len(s \o t) = Len(s) + Len(t)
      /\ \A i \in 1..(Len(s) + Len(t)) : (s \o t)[i] = IF i <= Len(s) THEN s[i] ELSE t[i - Len(s)]
  BY ConcatProperties
<1>3. IsFiniteSet(Positions(m, s \o t)) /\ Times(m, s \o t) = Cardinality(Positions(m, s \o t))
  BY <1>2, TimesNat
<1>4. /\ DOMAIN s = 1..Len(s) /\ DOMAIN t = 1..Len(t) /\ DOMAIN (s \o t) = 1..(Len(s) + Len(t))
      /\ Len(s) \in Nat /\ Len(t) \in Nat
  BY <1>2, LenProperties
<1>5. A \subseteq Positions(m, s \o t)
  BY <1>2, <1>4 DEF Positions
<1>6. C = {i \in (Len(s) + 1)..(Len(s) + Len(t)) : t[i - Len(s)] = m}
  BY <1>2, <1>4 DEF Positions
<1>7. Cardinality(C) = Cardinality(B) /\ IsFiniteSet(C)
  <2> DEFINE f == [i \in B |-> i + Len(s)]
  <2>1. f \in [B -> C]
    BY <1>4, <1>6 DEF Positions
  <2>2. \A i, j \in B : f[i] = f[j] => i = j
    BY <1>4 DEF Positions
  <2>3. \A k \in C : \E i \in B : f[i] = k
    <3> SUFFICES ASSUME NEW k \in C PROVE \E i \in B : f[i] = k
      OBVIOUS
    <3>1. k - Len(s) \in B /\ (k - Len(s)) + Len(s) = k
      BY <1>4, <1>6 DEF Positions
    <3> QED
      BY <3>1
  <2> HIDE DEF f
  <2>4. f \in Bijection(B, C)
    BY <2>1, <2>2, <2>3, Fun_IsBij
  <2>5. ExistsBijection(B, C)
    BY <2>4 DEF ExistsBijection
  <2> QED
    BY <1>1, <2>5, FS_Bijection
<1>8. A \cap C = {} /\ A \cup C = Positions(m, s \o t)
  BY <1>5
<1> HIDE DEF A, B, C
<1>9. Cardinality(A \cup C) = Cardinality(A) + Cardinality(C) - Cardinality({})
  BY <1>1, <1>7, <1>8, FS_Union
<1>10. Cardinality({}) = 0 /\ Cardinality(A) \in Nat /\ Cardinality(C) \in Nat
  BY <1>1, <1>7, FS_EmptySet, FS_CardinalityType
<1>11. Times(m, s \o t) = Cardinality(A) + Cardinality(C)
  <2>1. Cardinality(A \cup C) = Cardinality(A) + Cardinality(C)
    BY <1>9, <1>10
  <2> QED
    BY <1>3, <1>8, <2>1
<1> QED
  BY <1>1, <1>7, <1>11

\* In the two parts of a sequence, as often as in the whole.
LEMMA TimesSplit ==
    ASSUME NEW m, NEW s \in Seq(Msg), NEW n \in 0..Len(s)
    PROVE  /\ SubSeq(s, 1, n) \in Seq(Msg) /\ SubSeq(s, n + 1, Len(s)) \in Seq(Msg)
           /\ Times(m, s) = Times(m, SubSeq(s, 1, n)) + Times(m, SubSeq(s, n + 1, Len(s)))
<1>1. Len(s) \in Nat
  BY LenProperties
<1>2. SubSeq(s, 1, n) \in Seq(Msg) /\ SubSeq(s, n + 1, Len(s)) \in Seq(Msg)
  BY <1>1, SubSeqProperties
<1>3. SubSeq(s, 1, n) \o SubSeq(s, n + 1, Len(s)) = s
  <2>1. SubSeq(s, 1, Len(s)) = s
    BY SubSeqFull
  <2>2. SubSeq(s, 1, n) \o SubSeq(s, n + 1, Len(s)) = SubSeq(s, 1, Len(s))
    <3>1. 1 \in 1..Len(s) + 1 /\ n \in (1 - 1)..Len(s) /\ Len(s) \in n..Len(s)
      BY <1>1
    <3> QED
      BY <3>1, ConcatAdjacentSubSeq
  <2> QED
    BY <2>1, <2>2
<1>4. Times(m, SubSeq(s, 1, n) \o SubSeq(s, n + 1, Len(s)))
        = Times(m, SubSeq(s, 1, n)) + Times(m, SubSeq(s, n + 1, Len(s)))
  BY <1>2, TimesConcat
<1> QED
  BY <1>2, <1>3, <1>4

\* A message more at the end.
LEMMA TimesAppend ==
    ASSUME NEW m, NEW s \in Seq(Msg), NEW x \in Msg
    PROVE  /\ Append(s, x) \in Seq(Msg) /\ s \o <<x>> \in Seq(Msg)
           /\ Times(m, Append(s, x)) = Times(m, s) + (IF x = m THEN 1 ELSE 0)
           /\ Times(m, s \o <<x>>) = Times(m, s) + (IF x = m THEN 1 ELSE 0)
<1>1. <<x>> \in Seq(Msg) /\ Append(s, x) = s \o <<x>>
  BY AppendIsConcat
<1>2. Times(m, s \o <<x>>) = Times(m, s) + Times(m, <<x>>)
  BY <1>1, TimesConcat
<1> QED
  BY <1>1, <1>2, TimesFew, ConcatProperties

\* A message less at the front, or at the end.
LEMMA TimesEnds ==
    ASSUME NEW m, NEW s \in Seq(Msg), s # <<>>
    PROVE  /\ Head(s) \in Msg /\ Tail(s) \in Seq(Msg)
           /\ Times(m, s) = (IF Head(s) = m THEN 1 ELSE 0) + Times(m, Tail(s))
           /\ Last(s) \in Msg /\ Front(s) \in Seq(Msg)
           /\ Times(m, s) = Times(m, Front(s)) + (IF Last(s) = m THEN 1 ELSE 0)
<1>1. Len(s) \in Nat \ {0}
  BY EmptySeq
<1>2. Head(s) \in Msg /\ Tail(s) \in Seq(Msg) /\ Tail(s) = SubSeq(s, 2, Len(s))
  BY HeadTailProperties, TailIsSubSeq
<1>3. SubSeq(s, 1, 1) = <<Head(s)>>
  <2>1. SubSeq(s, 1, 1) = <<s[1]>> \o SubSeq(s, 2, 1)
    BY <1>1, SubSeqRecursiveFirst
  <2>2. SubSeq(s, 2, 1) = <<>>
    BY SubSeqEmpty
  <2>3. Head(s) = s[1] /\ <<s[1]>> \in Seq(Msg)
    BY <1>1, <1>2
  <2> QED
    BY <2>1, <2>2, <2>3, ConcatEmptySeq
<1>4. Times(m, s) = Times(m, <<Head(s)>>) + Times(m, Tail(s))
  <2>1. 1 \in 0..Len(s)
    BY <1>1
  <2>2. Times(m, s) = Times(m, SubSeq(s, 1, 1)) + Times(m, SubSeq(s, 1 + 1, Len(s)))
    BY <2>1, TimesSplit
  <2>3. SubSeq(s, 1 + 1, Len(s)) = Tail(s)
    BY <1>2
  <2> QED
    BY <1>3, <2>2, <2>3
<1>5. Last(s) \in Msg /\ Front(s) = SubSeq(s, 1, Len(s) - 1)
  BY <1>1, ElementOfSeq DEF Last, Front
<1>6. SubSeq(s, Len(s), Len(s)) = <<Last(s)>>
  <2>1. SubSeq(s, Len(s), Len(s)) = <<s[Len(s)]>> \o SubSeq(s, Len(s) + 1, Len(s))
    BY <1>1, SubSeqRecursiveFirst
  <2>2. SubSeq(s, Len(s) + 1, Len(s)) = <<>>
    BY <1>1, SubSeqEmpty
  <2>3. Last(s) = s[Len(s)] /\ <<s[Len(s)]>> \in Seq(Msg)
    BY <1>1, <1>5 DEF Last
  <2> QED
    BY <2>1, <2>2, <2>3, ConcatEmptySeq
<1>7. Len(s) - 1 \in 0..Len(s) /\ (Len(s) - 1) + 1 = Len(s)
  BY <1>1
<1>8. Front(s) \in Seq(Msg) /\ Times(m, s) = Times(m, Front(s)) + Times(m, <<Last(s)>>)
  BY <1>5, <1>6, <1>7, TimesSplit
<1> QED
  BY <1>2, <1>4, <1>5, <1>8, TimesFew

\* A message is in a sequence if it is there at least once.
LEMMA TimesIn ==
    ASSUME NEW m, NEW s \in Seq(Msg)
    PROVE  m \in ToSet(s) <=> Times(m, s) > 0
<1>1. m \in ToSet(s) <=> Positions(m, s) # {}
  BY DEF ToSet, Positions
<1> QED
  BY <1>1, TimesNat, FS_EmptySet

-----------------------------------------------------------------------------
(* Where a message can be. *)

\* What may lose one.
Lossy == \/ count.crashes + count.faults > 0
         \/ count.drainFaults > 0 /\ count.aborts > 0

\* A message that did not come in is nowhere.  One that did is in one place,
\* or it was lost.
EachOnce ==
    \A m \in Msg :
      /\ kind[m] = "none" => Held(m) = 0
      /\ Held(m) <= 1
      /\ kind[m] # "none" /\ Held(m) = 0 => Lossy

\* A run holds its message until the operation takes it, messages are pending
\* only where the loop will append them, and only an abort replaces a queue.
HeldWhere ==
    /\ (run.stage \notin {"starting", "begin", "work"} \/ run.intent = "retry") => run.input = 0
    /\ q.pending # <<>> => run.stage \in {"prepared", "turn", "inject", "drained"}
    /\ run.detached => count.aborts > 0

MessageKinds == kind \in [Msg -> {"none", "prompt", "send", "nextTurn", "append"}]

MessagesInv == MessageKinds /\ HeldWhere /\ EachOnce

\* A message is counted by natural numbers.
LEMMA HeldNat ==
    ASSUME Types, NEW m \in Msg
    PROVE  /\ q.steer \in Seq(Msg) /\ q.followUp \in Seq(Msg) /\ q.nextTurn \in Seq(Msg)
           /\ q.pending \in Seq(Msg) /\ q.writes \in Seq(Msg) /\ q.waiting \in Seq(Msg)
           /\ session.messages \in Seq(Msg)
           /\ Times(m, q.steer) \in Nat /\ Times(m, q.followUp) \in Nat /\ Times(m, q.nextTurn) \in Nat
           /\ Times(m, q.pending) \in Nat /\ Times(m, q.writes) \in Nat /\ Times(m, q.waiting) \in Nat
           /\ Times(m, session.messages) \in Nat
           /\ Held(m) \in Nat
<1>1. /\ q.steer \in Seq(Msg) /\ q.followUp \in Seq(Msg) /\ q.nextTurn \in Seq(Msg)
      /\ q.pending \in Seq(Msg) /\ q.writes \in Seq(Msg) /\ q.waiting \in Seq(Msg)
      /\ session.messages \in Seq(Msg)
  BY DEF Types, QueueType, SessionType
<1>2. /\ Times(m, q.steer) \in Nat /\ Times(m, q.followUp) \in Nat /\ Times(m, q.nextTurn) \in Nat
      /\ Times(m, q.pending) \in Nat /\ Times(m, q.writes) \in Nat /\ Times(m, q.waiting) \in Nat
      /\ Times(m, session.messages) \in Nat
  BY <1>1, TimesNat
<1>3. (IF run.input = m THEN 1 ELSE 0) \in Nat /\ (IF m \in given THEN 1 ELSE 0) \in Nat
  OBVIOUS
<1> HIDE DEF Times
<1>4. Held(m) \in Nat
  BY <1>2, <1>3 DEF Held
<1> QED
  BY <1>1, <1>2, <1>4

\* The counts of its places are.
NatCounts(m) ==
    /\ Times(m, q.steer) \in Nat /\ Times(m, q.followUp) \in Nat /\ Times(m, q.nextTurn) \in Nat
    /\ Times(m, q.pending) \in Nat /\ Times(m, q.writes) \in Nat /\ Times(m, q.waiting) \in Nat
    /\ Times(m, session.messages) \in Nat

\* In the next state too.
LEMMA HeldNatNext == Types' => \A m \in Msg : Held(m)' \in Nat
<1> SUFFICES ASSUME Types', NEW m \in Msg PROVE Held(m)' \in Nat
  OBVIOUS
<1>1. /\ q'.steer \in Seq(Msg) /\ q'.followUp \in Seq(Msg) /\ q'.nextTurn \in Seq(Msg)
      /\ q'.pending \in Seq(Msg) /\ q'.writes \in Seq(Msg) /\ q'.waiting \in Seq(Msg)
      /\ session'.messages \in Seq(Msg)
  BY DEF Types, QueueType, SessionType
<1>2. /\ Times(m, q'.steer) \in Nat /\ Times(m, q'.followUp) \in Nat /\ Times(m, q'.nextTurn) \in Nat
      /\ Times(m, q'.pending) \in Nat /\ Times(m, q'.writes) \in Nat /\ Times(m, q'.waiting) \in Nat
      /\ Times(m, session'.messages) \in Nat
  BY <1>1, TimesNat
<1>3. (IF run'.input = m THEN 1 ELSE 0) \in Nat /\ (IF m \in given' THEN 1 ELSE 0) \in Nat
  OBVIOUS
<1> HIDE DEF Times
<1> QED
  BY <1>2, <1>3 DEF Held

\* If every message is held as often as before, or may be lost, each is still
\* in one place.
LEMMA MovesKeep ==
    ASSUME Types, Types', EachOnce, kind' = kind, Lossy => Lossy',
           \A m \in Msg : Held(m)' = Held(m) \/ (Held(m)' <= Held(m) /\ Lossy')
    PROVE  EachOnce'
<1>1. \A m \in Msg : Held(m) \in Nat
  BY HeldNat
<1>2. \A m \in Msg : Held(m)' \in Nat
  BY HeldNatNext
<1> QED
  BY <1>1, <1>2 DEF EachOnce

\* So it is when a new message is held once and no other moves.
LEMMA NewKeeps ==
    ASSUME Types, MessageKinds, EachOnce, NEW n \in Fresh, count' = count,
           NEW x \in {"prompt", "send", "nextTurn", "append"}, kind' = [kind EXCEPT ![n] = x],
           Held(n)' = Held(n) + 1, \A m \in Msg : m # n => Held(m)' = Held(m)
    PROVE  EachOnce' /\ MessageKinds'
<1>1. n \in Msg /\ kind[n] = "none" /\ Held(n) = 0 /\ Held(n)' = 1
  BY HeldNat DEF Fresh, EachOnce
<1>2. /\ MessageKinds' /\ kind'[n] # "none" /\ \A m \in Msg : m # n => kind'[m] = kind[m]
      /\ Lossy => Lossy'
  BY <1>1 DEF MessageKinds, Lossy
<1> QED
  BY <1>1, <1>2 DEF EachOnce

\* Nothing a message can be in changes.
Quiet == /\ q' = q /\ given' = given /\ kind' = kind /\ run'.input = run.input
         /\ session'.messages = session.messages /\ (Lossy => Lossy')

\* Then each is where it was.
LEMMA QuietKeeps ==
    ASSUME Types, Types', MessageKinds, EachOnce, Quiet
    PROVE  EachOnce' /\ MessageKinds'
<1>1. \A m \in Msg : Held(m)' = Held(m)
  BY DEF Quiet, Held
<1> QED
  BY <1>1, MovesKeep DEF Quiet, MessageKinds

\* The deferred writes are appended to the session and cleared.
Flushing == /\ q' = [q EXCEPT !.writes = <<>>]
            /\ session'.messages = IF q.writes = <<>> THEN session.messages
                                                      ELSE session.messages \o q.writes
            /\ given' = given /\ kind' = kind /\ run'.input = run.input /\ (Lossy => Lossy')

\* Each of them is once in the session instead.
LEMMA FlushingKeeps ==
    ASSUME Types, Types', MessageKinds, EachOnce, Flushing
    PROVE  EachOnce' /\ MessageKinds'
<1>1. ASSUME NEW m \in Msg PROVE Held(m)' = Held(m)
  <2>1. /\ q.writes \in Seq(Msg) /\ session.messages \in Seq(Msg) /\ Times(m, q.writes) \in Nat
        /\ Times(m, session.messages) \in Nat
    BY HeldNat
  <2>2. Times(m, <<>>) = 0
    BY <1>1, TimesFew
  <2>3. /\ q'.steer = q.steer /\ q'.followUp = q.followUp /\ q'.nextTurn = q.nextTurn
        /\ q'.pending = q.pending /\ q'.waiting = q.waiting /\ q'.writes = <<>>
    BY DEF Flushing, Types, QueueType
  <2>4. Times(m, session'.messages) = Times(m, session.messages) + Times(m, q.writes)
    <3>1. Times(m, session.messages \o q.writes) = Times(m, session.messages) + Times(m, q.writes)
      BY <2>1, TimesConcat
    <3> QED
      BY <2>1, <2>2, <3>1 DEF Flushing
  <2> HIDE DEF Times
  <2> QED
    BY <2>1, <2>2, <2>3, <2>4, HeldNat DEF Flushing, Held
<1> QED
  BY <1>1, MovesKeep DEF Flushing, MessageKinds

\* Most actions move no message.
LEMMA QuietActions ==
    ASSUME RuntimeInv, RuntimeInv', MessagesInv,
           \/ Recover \/ BeginOperation \/ Prepared \/ WorkRetry \/ TurnStart \/ Drained
           \/ (\E resp \in {"stop", "error", "overflow", "aborted"} : Respond(resp))
           \/ (\E n \in 1..2 : RespondTools(n)) \/ (\E t \in executing : ToolEnds(t))
           \/ BatchEnds \/ FinishOpenTool \/ FinishOpenTurn \/ FinishOperation \/ Decide
           \/ Wake \/ RetryFromParent \/ RetryStarts \/ Threshold \/ CompactEnds \/ Settle
           \/ ManualCompact \/ ManualCompactEnds
    PROVE  MessagesInv'
<1>1. /\ Types /\ Types' /\ MessageKinds /\ HeldWhere /\ EachOnce
      /\ run \in RunType /\ run' \in RunType /\ session \in SessionType /\ count \in CountType
  BY DEF RuntimeInv, Types, MessagesInv
<1>2. SUFFICES Quiet /\ HeldWhere'
  BY <1>1, QuietKeeps DEF MessagesInv
<1>3. CASE Recover
  <2>1. session'.messages = session.messages
    BY <1>1, <1>3 DEF Recover, SessionType, Closed
  <2>2. count' = count
    BY <1>3 DEF Recover
  <2> QED
    BY <1>1, <1>3, <2>1, <2>2 DEF Recover, At, To, RunType, HeldWhere, Lossy, Quiet
<1>4. CASE BeginOperation
  <2>1. session'.messages = session.messages
    BY <1>1, <1>4 DEF BeginOperation, SessionType
  <2>2. count' = count
    BY <1>4 DEF BeginOperation
  <2> QED
    BY <1>1, <1>4, <2>1, <2>2 DEF BeginOperation, At, To, RunType, HeldWhere, Lossy, Quiet
<1>5. CASE Prepared
  <2>1. session'.messages = session.messages
    BY <1>1, <1>5 DEF Prepared, SessionType
  <2>2. count' = count
    BY <1>5 DEF Prepared
  <2> QED
    BY <1>1, <1>5, <2>1, <2>2 DEF Prepared, At, To, RunType, HeldWhere, Lossy, Quiet
<1>6. CASE WorkRetry
  <2>1. session'.messages = session.messages
    BY <1>1, <1>6 DEF WorkRetry, SessionType
  <2>2. count' = count
    BY <1>6 DEF WorkRetry
  <2> QED
    BY <1>1, <1>6, <2>1, <2>2 DEF WorkRetry, Throw, At, To, RunType, HeldWhere, Lossy, Quiet
<1>7. CASE TurnStart
  <2>1. session'.messages = session.messages
    BY <1>1, <1>7 DEF TurnStart, SessionType, Started
  <2>2. count' = count
    BY <1>7 DEF TurnStart
  <2> QED
    BY <1>1, <1>7, <2>1, <2>2 DEF TurnStart, At, To, RunType, HeldWhere, Lossy, Quiet
<1>8. CASE Drained
  <2>1. session'.messages = session.messages
    BY <1>1, <1>8 DEF Drained, SessionType
  <2>2. count' = count
    BY <1>8 DEF Drained
  <2> QED
    BY <1>1, <1>8, <2>1, <2>2 DEF Drained, At, To, RunType, HeldWhere, Lossy, Quiet
<1>9. CASE \E resp \in {"stop", "error", "overflow", "aborted"} : Respond(resp)
  <2>1. session'.messages = session.messages
    BY <1>1, <1>9 DEF Respond, SessionType, Appended
  <2>2. count' = count
    BY <1>9 DEF Respond
  <2> QED
    BY <1>1, <1>9, <2>1, <2>2 DEF Respond, At, To, RunType, HeldWhere, Lossy, Quiet
<1>10. CASE \E n \in 1..2 : RespondTools(n)
  <2>1. session'.messages = session.messages
    BY <1>1, <1>10 DEF RespondTools, SessionType, Appended
  <2>2. Lossy => Lossy'
    BY <1>1, <1>10 DEF RespondTools, CountType, Lossy
  <2> QED
    BY <1>1, <1>10, <2>1, <2>2 DEF RespondTools, At, To, RunType, HeldWhere, Lossy, Quiet, CountType
<1>11. CASE \E t \in executing : ToolEnds(t)
  <2>1. session'.messages = session.messages
    BY <1>1, <1>11 DEF ToolEnds, SessionType, Closed
  <2>2. count' = count
    BY <1>11 DEF ToolEnds
  <2> QED
    BY <1>1, <1>11, <2>1, <2>2 DEF ToolEnds, At, To, RunType, HeldWhere, Lossy, Quiet
<1>12. CASE BatchEnds
  <2>1. session'.messages = session.messages
    BY <1>1, <1>12 DEF BatchEnds, SessionType, Appended
  <2>2. count' = count
    BY <1>12 DEF BatchEnds
  <2> QED
    BY <1>1, <1>12, <2>1, <2>2 DEF BatchEnds, At, To, RunType, HeldWhere, Lossy, Quiet
<1>13. CASE FinishOpenTool
  <2>1. session'.messages = session.messages
    BY <1>1, <1>13 DEF FinishOpenTool, SessionType, Closed
  <2>2. count' = count
    BY <1>13 DEF FinishOpenTool
  <2> QED
    BY <1>1, <1>13, <2>1, <2>2 DEF FinishOpenTool, At, To, RunType, HeldWhere, Lossy, Quiet, Closing
<1>14. CASE FinishOpenTurn
  <2>1. session'.messages = session.messages
    BY <1>1, <1>14 DEF FinishOpenTurn, SessionType, Closed
  <2>2. count' = count
    BY <1>14 DEF FinishOpenTurn
  <2> QED
    BY <1>1, <1>14, <2>1, <2>2 DEF FinishOpenTurn, At, To, RunType, HeldWhere, Lossy, Quiet, Closing
<1>15. CASE FinishOperation
  <2>1. session'.messages = session.messages
    BY <1>1, <1>15 DEF FinishOperation, SessionType, Closed
  <2>2. count' = count
    BY <1>15 DEF FinishOperation
  <2> QED
    BY <1>1, <1>15, <2>1, <2>2 DEF FinishOperation, At, To, RunType, HeldWhere, Lossy, Quiet, Closing
<1>16. CASE Decide
  <2>1. session'.messages = session.messages
    BY <1>1, <1>16 DEF Decide, SessionType
  <2>2. count' = count
    BY <1>16 DEF Decide
  <2> QED
    BY <1>1, <1>16, <2>1, <2>2 DEF Decide, CallRetry, At, To, RunType, HeldWhere, Lossy, Quiet
<1>17. CASE Wake
  <2>1. session'.messages = session.messages
    BY <1>1, <1>17 DEF Wake, SessionType
  <2>2. count' = count
    BY <1>17 DEF Wake
  <2> QED
    BY <1>1, <1>17, <2>1, <2>2 DEF Wake, CallRetry, At, To, RunType, HeldWhere, Lossy, Quiet
<1>18. CASE RetryFromParent
  <2>1. session'.messages = session.messages
    BY <1>1, <1>18 DEF RetryFromParent, SessionType
  <2>2. count' = count
    BY <1>18 DEF RetryFromParent
  <2> QED
    BY <1>1, <1>18, <2>1, <2>2 DEF RetryFromParent, At, To, RunType, HeldWhere, Lossy, Quiet
<1>19. CASE RetryStarts
  <2>1. session'.messages = session.messages
    BY <1>1, <1>19 DEF RetryStarts, SessionType
  <2>2. count' = count
    BY <1>19 DEF RetryStarts
  <2> QED
    BY <1>1, <1>19, <2>1, <2>2 DEF RetryStarts, At, To, RunType, HeldWhere, Lossy, Quiet
<1>20. CASE Threshold
  <2>1. session'.messages = session.messages
    BY <1>1, <1>20 DEF Threshold, SessionType
  <2>2. count' = count
    BY <1>20 DEF Threshold
  <2> QED
    BY <1>1, <1>20, <2>1, <2>2 DEF Threshold, At, To, RunType, HeldWhere, Lossy, Quiet
<1>21. CASE CompactEnds
  <2>1. session'.messages = session.messages
    BY <1>1, <1>21 DEF CompactEnds, SessionType
  <2>2. count' = count
    BY <1>21 DEF CompactEnds
  <2> QED
    BY <1>1, <1>21, <2>1, <2>2 DEF CompactEnds, At, To, RunType, HeldWhere, Lossy, Quiet
<1>22. CASE Settle
  <2>1. session'.messages = session.messages
    BY <1>1, <1>22 DEF Settle, SessionType
  <2>2. count' = count
    BY <1>22 DEF Settle
  <2> QED
    BY <1>1, <1>22, <2>1, <2>2 DEF Settle, NoRun, At, To, RunType, HeldWhere, Lossy, Quiet
<1>23. CASE ManualCompact
  <2>1. session'.messages = session.messages
    BY <1>1, <1>23 DEF ManualCompact, SessionType
  <2>2. Lossy => Lossy'
    BY <1>1, <1>23 DEF ManualCompact, CountType, Lossy
  <2> QED
    BY <1>1, <1>23, <2>1, <2>2 DEF ManualCompact, At, To, RunType, HeldWhere, Lossy, Quiet, CountType
<1>24. CASE ManualCompactEnds
  <2>1. session'.messages = session.messages
    BY <1>1, <1>24 DEF ManualCompactEnds, SessionType
  <2>2. count' = count
    BY <1>24 DEF ManualCompactEnds
  <2> QED
    BY <1>1, <1>24, <2>1, <2>2 DEF ManualCompactEnds, At, To, RunType, HeldWhere, Lossy, Quiet
<1> QED
  BY <1>3, <1>4, <1>5, <1>6, <1>7, <1>8, <1>9, <1>10, <1>11, <1>12, <1>13, <1>14, <1>15, <1>16, <1>17, <1>18, <1>19, <1>20, <1>21, <1>22, <1>23, <1>24

\* Five append the deferred writes.
LEMMA FlushActions ==
    ASSUME RuntimeInv, RuntimeInv', MessagesInv,
           TurnEnd \/ AgentEnd \/ EmitRunFailure \/ FailureThrows \/ ExecuteEnds
    PROVE  MessagesInv'
<1>1. /\ Types /\ Types' /\ MessageKinds /\ HeldWhere /\ EachOnce
      /\ run \in RunType /\ session \in SessionType /\ count \in CountType
      /\ q \in QueueType /\ q.writes \in Seq(Msg)
  BY DEF RuntimeInv, Types, MessagesInv, QueueType
<1>2. SUFFICES Flushing /\ HeldWhere'
  BY <1>1, FlushingKeeps DEF MessagesInv
<1>3. q' = [q EXCEPT !.writes = <<>>]
  BY DEF TurnEnd, AgentEnd, EmitRunFailure, FailureThrows, ExecuteEnds
<1>4. q'.pending = q.pending
  BY <1>1, <1>3 DEF QueueType
<1>5. \A s \in SessionType : TurnClosed(s).messages = s.messages
  BY DEF TurnClosed, Closed, SessionType
<1>6. \A s \in SessionType :
        Flushed(s).messages = IF q.writes = <<>> THEN s.messages ELSE s.messages \o q.writes
  BY DEF Flushed, AppendedUser, Appended, SessionType
<1>7. \A s \in SessionType : Flushed(s) \in SessionType
  BY <1>1, FlushedTyped DEF Types
<1>8. CASE TurnEnd
  <2>1. session'.messages = Flushed(session).messages
    BY <1>1, <1>5, <1>7, <1>8 DEF TurnEnd
  <2> QED
    BY <1>1, <1>3, <1>4, <1>6, <1>8, <2>1 DEF TurnEnd, At, To, RunType, HeldWhere, Lossy, Flushing
<1>9. CASE AgentEnd
  BY <1>1, <1>3, <1>4, <1>6, <1>9 DEF AgentEnd, At, To, RunType, HeldWhere, Lossy, Flushing
<1>10. CASE EmitRunFailure
  <2> DEFINE s == Appended(session, IF run.aborted THEN "assistant" ELSE "error")
  <2>1. s \in SessionType /\ s.messages = session.messages
    BY <1>1 DEF Appended, SessionType, Role
  <2>2. session' = TurnClosed(Flushed(s))
    BY <1>10 DEF EmitRunFailure
  <2> HIDE DEF s
  <2>3. session'.messages = IF q.writes = <<>> THEN session.messages ELSE session.messages \o q.writes
    BY <1>5, <1>6, <1>7, <2>1, <2>2
  <2> QED
    BY <1>1, <1>3, <1>4, <1>10, <2>3 DEF EmitRunFailure, At, RunType, HeldWhere, Lossy, Flushing
<1>11. CASE FailureThrows
  <2>1. count'.aborts = count.aborts /\ (Lossy => Lossy')
    BY <1>1, <1>11 DEF FailureThrows, CountType, Lossy
  <2> QED
    BY <1>1, <1>3, <1>4, <1>6, <1>11, <2>1 DEF FailureThrows, Throw, At, RunType, HeldWhere, Flushing
<1>12. CASE ExecuteEnds
  BY <1>1, <1>3, <1>4, <1>6, <1>12 DEF ExecuteEnds, At, RunType, HeldWhere, Lossy, Flushing
<1> QED
  BY <1>8, <1>9, <1>10, <1>11, <1>12

\* A message is put at the end of a queue.
PutAtEnd(n) ==
    /\ \E name \in {"steer", "followUp", "nextTurn", "writes", "waiting"} :
         q' = [q EXCEPT ![name] = Append(@, n)]
    /\ given' = given /\ session'.messages = session.messages /\ run'.input = run.input

\* It is held once more.
LEMMA AppendHeld ==
    ASSUME Types, NEW n \in Msg, PutAtEnd(n)
    PROVE  /\ q'.pending = q.pending
           /\ \A m \in Msg : Held(m)' = Held(m) + IF n = m THEN 1 ELSE 0
<1>1. q \in QueueType
  BY DEF Types
<1>2. q'.pending = q.pending
  BY <1>1 DEF QueueType, PutAtEnd
<1>3. ASSUME NEW m \in Msg PROVE Held(m)' = Held(m) + IF n = m THEN 1 ELSE 0
  <2>1. /\ NatCounts(m) /\ q.steer \in Seq(Msg) /\ q.followUp \in Seq(Msg)
        /\ q.nextTurn \in Seq(Msg) /\ q.writes \in Seq(Msg) /\ q.waiting \in Seq(Msg)
    BY HeldNat DEF NatCounts
  <2>2. PICK name \in {"steer", "followUp", "nextTurn", "writes", "waiting"} :
          q' = [q EXCEPT ![name] = Append(@, n)]
    BY DEF PutAtEnd
  <2>3. NatCounts(m)
    BY <2>1
  <2>4. \A s \in Seq(Msg) : Times(m, Append(s, n)) = Times(m, s) + IF n = m THEN 1 ELSE 0
    BY TimesAppend
  <2>5. /\ Times(m, session'.messages) = Times(m, session.messages)
        /\ run'.input = run.input /\ given' = given
    BY DEF PutAtEnd
  <2>6. CASE name = "steer"
    <3>1. /\ q'.steer = Append(q.steer, n)
          /\ q'.followUp = q.followUp /\ q'.nextTurn = q.nextTurn
          /\ q'.pending = q.pending /\ q'.writes = q.writes /\ q'.waiting = q.waiting
      BY <1>1, <2>2, <2>6 DEF QueueType
    <3>2. Times(m, q'.steer) = Times(m, q.steer) + IF n = m THEN 1 ELSE 0
      BY <2>1, <2>4, <3>1
    <3>3. /\ Times(m, q'.followUp) = Times(m, q.followUp) /\ Times(m, q'.nextTurn) = Times(m, q.nextTurn)
          /\ Times(m, q'.pending) = Times(m, q.pending) /\ Times(m, q'.writes) = Times(m, q.writes)
          /\ Times(m, q'.waiting) = Times(m, q.waiting)
      BY <3>1
    <3> HIDE DEF Times
    <3> QED
      BY <2>5, <2>3, <3>2, <3>3 DEF Held, NatCounts
  <2>7. CASE name = "followUp"
    <3>1. /\ q'.followUp = Append(q.followUp, n)
          /\ q'.steer = q.steer /\ q'.nextTurn = q.nextTurn
          /\ q'.pending = q.pending /\ q'.writes = q.writes /\ q'.waiting = q.waiting
      BY <1>1, <2>2, <2>7 DEF QueueType
    <3>2. Times(m, q'.followUp) = Times(m, q.followUp) + IF n = m THEN 1 ELSE 0
      BY <2>1, <2>4, <3>1
    <3>3. /\ Times(m, q'.steer) = Times(m, q.steer) /\ Times(m, q'.nextTurn) = Times(m, q.nextTurn)
          /\ Times(m, q'.pending) = Times(m, q.pending) /\ Times(m, q'.writes) = Times(m, q.writes)
          /\ Times(m, q'.waiting) = Times(m, q.waiting)
      BY <3>1
    <3> HIDE DEF Times
    <3> QED
      BY <2>5, <2>3, <3>2, <3>3 DEF Held, NatCounts
  <2>8. CASE name = "nextTurn"
    <3>1. /\ q'.nextTurn = Append(q.nextTurn, n)
          /\ q'.steer = q.steer /\ q'.followUp = q.followUp
          /\ q'.pending = q.pending /\ q'.writes = q.writes /\ q'.waiting = q.waiting
      BY <1>1, <2>2, <2>8 DEF QueueType
    <3>2. Times(m, q'.nextTurn) = Times(m, q.nextTurn) + IF n = m THEN 1 ELSE 0
      BY <2>1, <2>4, <3>1
    <3>3. /\ Times(m, q'.steer) = Times(m, q.steer) /\ Times(m, q'.followUp) = Times(m, q.followUp)
          /\ Times(m, q'.pending) = Times(m, q.pending) /\ Times(m, q'.writes) = Times(m, q.writes)
          /\ Times(m, q'.waiting) = Times(m, q.waiting)
      BY <3>1
    <3> HIDE DEF Times
    <3> QED
      BY <2>5, <2>3, <3>2, <3>3 DEF Held, NatCounts
  <2>9. CASE name = "writes"
    <3>1. /\ q'.writes = Append(q.writes, n)
          /\ q'.steer = q.steer /\ q'.followUp = q.followUp /\ q'.nextTurn = q.nextTurn
          /\ q'.pending = q.pending /\ q'.waiting = q.waiting
      BY <1>1, <2>2, <2>9 DEF QueueType
    <3>2. Times(m, q'.writes) = Times(m, q.writes) + IF n = m THEN 1 ELSE 0
      BY <2>1, <2>4, <3>1
    <3>3. /\ Times(m, q'.steer) = Times(m, q.steer) /\ Times(m, q'.followUp) = Times(m, q.followUp)
          /\ Times(m, q'.nextTurn) = Times(m, q.nextTurn) /\ Times(m, q'.pending) = Times(m, q.pending)
          /\ Times(m, q'.waiting) = Times(m, q.waiting)
      BY <3>1
    <3> HIDE DEF Times
    <3> QED
      BY <2>5, <2>3, <3>2, <3>3 DEF Held, NatCounts
  <2>10. CASE name = "waiting"
    <3>1. /\ q'.waiting = Append(q.waiting, n)
          /\ q'.steer = q.steer /\ q'.followUp = q.followUp /\ q'.nextTurn = q.nextTurn
          /\ q'.pending = q.pending /\ q'.writes = q.writes
      BY <1>1, <2>2, <2>10 DEF QueueType
    <3>2. Times(m, q'.waiting) = Times(m, q.waiting) + IF n = m THEN 1 ELSE 0
      BY <2>1, <2>4, <3>1
    <3>3. /\ Times(m, q'.steer) = Times(m, q.steer) /\ Times(m, q'.followUp) = Times(m, q.followUp)
          /\ Times(m, q'.nextTurn) = Times(m, q.nextTurn) /\ Times(m, q'.pending) = Times(m, q.pending)
          /\ Times(m, q'.writes) = Times(m, q.writes)
      BY <3>1
    <3> HIDE DEF Times
    <3> QED
      BY <2>5, <2>3, <3>2, <3>3 DEF Held, NatCounts
  <2> QED
    BY <2>6, <2>7, <2>8, <2>9, <2>10, <2>2
<1> QED
  BY <1>2, <1>3

\* A new message is put in one place.
LEMMA NewMessages ==
    ASSUME RuntimeInv, RuntimeInv', MessagesInv, NEW n \in Msg,
           Prompt(n) \/ SendUserMessage(n) \/ NextTurnMessage(n) \/ AppendMessage(n)
    PROVE  MessagesInv'
<1>1. /\ Types /\ Types' /\ MessageKinds /\ HeldWhere /\ EachOnce
      /\ run \in RunType /\ session \in SessionType /\ q \in QueueType
  BY DEF RuntimeInv, Types, MessagesInv
<1>2. n \in Fresh /\ count' = count /\ given' = given
  BY DEF Prompt, SendUserMessage, NextTurnMessage, AppendMessage
<1>3. \E x \in {"prompt", "send", "nextTurn", "append"} : kind' = [kind EXCEPT ![n] = x]
  BY DEF Prompt, SendUserMessage, NextTurnMessage, AppendMessage
<1>4. SUFFICES /\ HeldWhere'
               /\ \A m \in Msg : Held(m)' = Held(m) + IF n = m THEN 1 ELSE 0
  <2>1. (\A m \in Msg : Held(m)' = Held(m) + IF n = m THEN 1 ELSE 0) =>
          /\ Held(n)' = Held(n) + 1
          /\ \A m \in Msg : m # n => Held(m)' = Held(m)
    BY HeldNat, <1>1
  <2> QED
    BY <1>1, <1>2, <1>3, <2>1, NewKeeps DEF MessagesInv
<1>5. CASE StartRun(n, "prompt") \/ StartRun(n, "message")
  <2>1. q' = q /\ session' = session
    BY <1>5 DEF Prompt, SendUserMessage, NextTurnMessage, AppendMessage, StartRun, At, NoRun
  <2>2. run.input = 0 /\ run'.input = n /\ run'.stage = "starting" /\ run'.intent # "retry" /\ ~run'.detached
    BY <1>1, <1>5 DEF StartRun, At, NoRun, HeldWhere
  <2>3. run.stage = "none"
    BY <1>5 DEF StartRun, At
  <2>4. HeldWhere'
    BY <1>1, <2>1, <2>2, <2>3 DEF HeldWhere
  <2>5. ASSUME NEW m \in Msg PROVE Held(m)' = Held(m) + IF n = m THEN 1 ELSE 0
    <3>1. NatCounts(m) /\ m # 0
      BY <1>1, <2>5, HeldNat DEF NatCounts, Msg
    <3> HIDE DEF Times
    <3> QED
      BY <1>2, <2>1, <2>2, <3>1 DEF Held, NatCounts
  <2> QED
    BY <2>4, <2>5
<1>6. CASE \E name \in {"steer", "followUp", "nextTurn", "writes", "waiting"} :
             q' = [q EXCEPT ![name] = Append(@, n)] /\ session' = session /\ run' = run
  <2>1. PutAtEnd(n) /\ run' = run
    BY <1>2, <1>6 DEF PutAtEnd
  <2>2. q'.pending = q.pending /\ \A m \in Msg : Held(m)' = Held(m) + IF n = m THEN 1 ELSE 0
    BY <1>1, <2>1, AppendHeld
  <2> QED
    BY <1>1, <1>2, <2>1, <2>2 DEF HeldWhere
<1>7. CASE AppendMessage(n) /\ phase = "idle"
  <2>1. q' = q /\ run' = run /\ session'.messages = session.messages \o <<n>>
    BY <1>1, <1>7 DEF AppendMessage, AppendedUser, Appended, SessionType
  <2>2. ASSUME NEW m \in Msg PROVE Held(m)' = Held(m) + IF n = m THEN 1 ELSE 0
    <3>1. NatCounts(m) /\ session.messages \in Seq(Msg)
      BY <1>1, <2>2, HeldNat DEF NatCounts
    <3>2. Times(m, session'.messages) = Times(m, session.messages) + IF n = m THEN 1 ELSE 0
      BY <2>1, <3>1, TimesAppend
    <3>3. /\ Times(m, q'.steer) = Times(m, q.steer) /\ Times(m, q'.followUp) = Times(m, q.followUp)
          /\ Times(m, q'.nextTurn) = Times(m, q.nextTurn) /\ Times(m, q'.pending) = Times(m, q.pending)
          /\ Times(m, q'.writes) = Times(m, q.writes) /\ Times(m, q'.waiting) = Times(m, q.waiting)
          /\ run'.input = run.input
      BY <2>1
    <3> HIDE DEF Times
    <3> QED
      BY <1>2, <3>1, <3>2, <3>3 DEF Held, NatCounts
  <2> QED
    BY <1>1, <1>2, <2>1, <2>2 DEF HeldWhere
<1>8. \/ StartRun(n, "prompt") \/ StartRun(n, "message")
      \/ AppendMessage(n) /\ phase = "idle"
      \/ \E name \in {"steer", "followUp", "nextTurn", "writes", "waiting"} :
           q' = [q EXCEPT ![name] = Append(@, n)] /\ session' = session /\ run' = run
  <2>1. CASE Prompt(n)
    BY <2>1 DEF Prompt
  <2>2. CASE SendUserMessage(n)
    BY <2>2 DEF SendUserMessage
  <2>3. CASE NextTurnMessage(n)
    BY <2>3 DEF NextTurnMessage
  <2>4. CASE AppendMessage(n)
    BY <2>4 DEF AppendMessage
  <2> QED
    BY <2>1, <2>2, <2>3, <2>4
<1> QED
  BY <1>5, <1>6, <1>7, <1>8

\* A send that waited is taken up by a run.
LEMMA ResendKeeps ==
    ASSUME RuntimeInv, RuntimeInv', MessagesInv, Resend
    PROVE  MessagesInv'
<1>1. /\ Types /\ Types' /\ MessageKinds /\ HeldWhere /\ EachOnce /\ q \in QueueType
      /\ q.waiting \in Seq(Msg) /\ q.waiting # <<>>
  BY DEF RuntimeInv, Types, MessagesInv, QueueType, Resend
<1>2. /\ q'.waiting = Tail(q.waiting) /\ q'.steer = q.steer /\ q'.followUp = q.followUp
      /\ q'.nextTurn = q.nextTurn /\ q'.pending = q.pending /\ q'.writes = q.writes
  BY <1>1 DEF Resend, QueueType
<1>3. /\ run.stage = "none" /\ run'.stage = "starting" /\ run'.intent = "message" /\ ~run'.detached
      /\ run'.input = Head(q.waiting) /\ session' = session /\ given' = given /\ kind' = kind
      /\ count' = count
  BY DEF Resend, StartRun, At, NoRun
<1>4. run.input = 0 /\ 0 \notin Msg
  BY <1>1, <1>3 DEF HeldWhere, Msg
<1>5. ASSUME NEW m \in Msg PROVE Held(m)' = Held(m)
  <2>1. Times(m, q.waiting) = (IF Head(q.waiting) = m THEN 1 ELSE 0) + Times(m, q'.waiting)
    BY <1>1, <1>2, TimesEnds
  <2>2. Times(m, q'.waiting) \in Nat
    BY <1>1, <1>2, TimesEnds, TimesNat
  <2>3. NatCounts(m)
    BY <1>1, HeldNat DEF NatCounts
  <2>4. run.input # m
    BY <1>4
  <2> HIDE DEF Times
  <2> QED
    BY <1>2, <1>3, <2>1, <2>2, <2>3, <2>4 DEF Held, NatCounts
<1>6. HeldWhere'
  BY <1>1, <1>2, <1>3 DEF HeldWhere
<1> QED
  BY <1>1, <1>3, <1>5, <1>6, MovesKeep DEF MessagesInv, MessageKinds, Lossy

\* A run that does not begin hands its message back.
LEMMA StartKeeps ==
    ASSUME RuntimeInv, RuntimeInv', MessagesInv, Start
    PROVE  MessagesInv'
<1>1. /\ Types /\ Types' /\ MessageKinds /\ HeldWhere /\ EachOnce /\ run \in RunType /\ InHand
      /\ q' = q /\ session' = session /\ kind' = kind /\ count' = count /\ run.stage = "starting"
  BY DEF RuntimeInv, Types, MessagesInv, Start, At
<1>2. /\ \/ /\ run'.input = run.input /\ given' = given /\ run'.intent = run.intent
            /\ run'.stage = "begin"
         \/ run'.input = 0 /\ Refused /\ run'.stage \in {"none", "settling"}
      /\ run'.detached => run.detached
  <2>1. CASE run' = NoRun /\ Refused
    BY <2>1 DEF NoRun
  <2>2. CASE To("begin") /\ given' = given
    BY <1>1, <2>2 DEF To, RunType
  <2>3. CASE run' = [run EXCEPT !.stage = "settling", !.input = 0] /\ Refused
    BY <1>1, <2>3 DEF RunType
  <2> QED
    BY <2>1, <2>2, <2>3 DEF Start
<1>3. HeldWhere'
  BY <1>1, <1>2 DEF HeldWhere
<1>4. ASSUME NEW m \in Msg PROVE Held(m)' = Held(m)
  <2>1. run.input = m => m \notin given
    <3>1. Held(m) <= 1
      BY <1>1 DEF EachOnce
    <3>2. NatCounts(m)
      BY <1>1, HeldNat DEF NatCounts
    <3> HIDE DEF Times
    <3> QED
      BY <3>1, <3>2 DEF Held, NatCounts
  <2>2. m # 0
    BY DEF Msg
  <2> HIDE DEF Times
  <2> QED
    BY <1>1, <1>2, <2>1, <2>2, HeldNat DEF Held, Refused
<1> QED
  BY <1>1, <1>3, <1>4, MovesKeep DEF MessagesInv, MessageKinds, Lossy

\* Cleared queues are handed back.
LEMMA ClearQueuesKeeps ==
    ASSUME RuntimeInv, RuntimeInv', MessagesInv, NEW abort \in BOOLEAN, ClearQueues(abort)
    PROVE  MessagesInv'
<1>1. /\ Types /\ Types' /\ MessageKinds /\ HeldWhere /\ EachOnce /\ run \in RunType /\ count \in CountType
      /\ q \in QueueType
  BY DEF RuntimeInv, Types, MessagesInv
<1>2. /\ q'.steer = <<>> /\ q'.followUp = <<>> /\ q'.nextTurn = q.nextTurn
      /\ q'.pending = q.pending /\ q'.writes = q.writes /\ q'.waiting = q.waiting
  BY <1>1 DEF ClearQueues, QueueType
<1>3. /\ session' = session /\ kind' = kind /\ given' = given \cup ToSet(q.steer) \cup ToSet(q.followUp)
  BY DEF ClearQueues
<1>4. run'.input = run.input /\ run'.stage = run.stage /\ run'.intent = run.intent
  BY <1>1 DEF ClearQueues, RunType
<1>5. count'.aborts > 0 /\ (Lossy => Lossy')
  BY <1>1 DEF ClearQueues, CountType, Lossy
<1>6. HeldWhere'
  BY <1>1, <1>2, <1>4, <1>5 DEF HeldWhere
<1>7. ASSUME NEW m \in Msg PROVE Held(m)' = Held(m)
  <2>1. Held(m) <= 1
    BY <1>1 DEF EachOnce
  <2>2. /\ m \in ToSet(q.steer) <=> Times(m, q.steer) > 0
        /\ m \in ToSet(q.followUp) <=> Times(m, q.followUp) > 0
    BY <1>1, HeldNat, TimesIn
  <2>3. Times(m, <<>>) = 0
    BY <1>7, TimesFew
  <2>4. NatCounts(m)
    BY <1>1, HeldNat DEF NatCounts
  <2>5. m \in given' <=> m \in given \/ Times(m, q.steer) > 0 \/ Times(m, q.followUp) > 0
    BY <1>3, <2>2
  <2> HIDE DEF Times
  <2>6. Times(m, q'.steer) = 0 /\ Times(m, q'.followUp) = 0
    BY <1>2, <2>3
  <2> DEFINE a == Times(m, q.steer)
  <2> DEFINE b == Times(m, q.followUp)
  <2> DEFINE g == IF m \in given THEN 1 ELSE 0
  <2>7. a + b + g <= 1 /\ a \in Nat /\ b \in Nat /\ g \in {0, 1}
    BY <2>1, <2>4 DEF Held, NatCounts
  <2>8. (IF m \in given' THEN 1 ELSE 0) = a + b + g
    <3>1. m \in given' <=> g = 1 \/ a > 0 \/ b > 0
      BY <2>5
    <3> HIDE DEF a, b, g
    <3> QED
      BY <2>7, <3>1
  <2>9. /\ Times(m, q'.nextTurn) = Times(m, q.nextTurn) /\ Times(m, q'.pending) = Times(m, q.pending)
        /\ Times(m, q'.writes) = Times(m, q.writes) /\ Times(m, q'.waiting) = Times(m, q.waiting)
        /\ Times(m, session'.messages) = Times(m, session.messages) /\ run'.input = run.input
    BY <1>2, <1>3, <1>4
  <2> QED
    BY <2>4, <2>6, <2>8, <2>9 DEF Held, NatCounts
<1> QED
  BY <1>1, <1>3, <1>5, <1>6, <1>7, MovesKeep DEF MessagesInv, MessageKinds

\* An operation takes the message of its run and the next-turn messages, or
\* hands the message back.
LEMMA WorkKeeps ==
    ASSUME RuntimeInv, RuntimeInv', MessagesInv, Work
    PROVE  MessagesInv'
<1>1. /\ Types /\ Types' /\ MessageKinds /\ HeldWhere /\ EachOnce /\ run \in RunType /\ q \in QueueType
      /\ run.stage = "work" /\ run.input \in Msg /\ q.nextTurn \in Seq(Msg)
  BY DEF RuntimeInv, Types, MessagesInv, InHand, Work, At, QueueType
<1>2. session' = session /\ kind' = kind /\ count' = count /\ q.pending = <<>>
  BY <1>1 DEF Work, HeldWhere
<1>3. run'.input = 0 /\ run'.stage \in {"interrupting", "prepared"} /\ run'.detached = run.detached
  BY <1>1 DEF Work, RunType
<1>4. \/ q' = q /\ Refused
      \/ /\ q'.pending = q.nextTurn \o <<run.input>> /\ q'.nextTurn = <<>> /\ given' = given
         /\ q'.steer = q.steer /\ q'.followUp = q.followUp /\ q'.writes = q.writes
         /\ q'.waiting = q.waiting /\ run'.stage = "prepared"
  <2>1. CASE Busy
    BY <2>1 DEF Work
  <2>2. CASE ~Busy
    BY <1>1, <2>2 DEF Work, QueueType, RunType
  <2> QED
    BY <2>1, <2>2
<1>5. HeldWhere'
  BY <1>1, <1>2, <1>3, <1>4 DEF HeldWhere
<1>6. ASSUME NEW m \in Msg PROVE Held(m)' = Held(m)
  <2>1. Held(m) <= 1 /\ m # 0
    BY <1>1 DEF EachOnce, Msg
  <2>2. /\ Times(m, <<>>) = 0
        /\ Times(m, q.nextTurn \o <<run.input>>) = Times(m, q.nextTurn) + IF run.input = m THEN 1 ELSE 0
    BY <1>1, TimesFew, TimesAppend
  <2>3. NatCounts(m)
    BY <1>1, HeldNat DEF NatCounts
  <2>4. Times(m, q.pending) = 0
    BY <1>2, <2>2
  <2> HIDE DEF Times
  <2>5. run.input = m => m \notin given
    BY <2>1, <2>3 DEF Held, NatCounts
  <2>6. CASE q' = q /\ Refused
    BY <1>2, <1>3, <2>1, <2>3, <2>5, <2>6 DEF Held, NatCounts, Refused
  <2>7. CASE ~(q' = q /\ Refused)
    <3>1. /\ Times(m, q'.pending) = Times(m, q.nextTurn) + IF run.input = m THEN 1 ELSE 0
          /\ Times(m, q'.nextTurn) = 0
      BY <1>4, <2>2, <2>7
    <3>2. run'.input # m
      BY <1>3, <2>1
    <3> QED
      BY <1>2, <1>4, <2>3, <2>4, <2>7, <3>1, <3>2 DEF Held, NatCounts
  <2> QED
    BY <2>6, <2>7
<1> QED
  BY <1>1, <1>2, <1>5, <1>6, MovesKeep DEF MessagesInv, MessageKinds, Lossy

\* The next-turn messages go back to their queue, and the run's own message
\* to its caller.
LEMMA PreparedQueueFailsKeeps ==
    ASSUME RuntimeInv, RuntimeInv', MessagesInv, PreparedQueueFails
    PROVE  MessagesInv'
<1>1. /\ Types /\ Types' /\ MessageKinds /\ HeldWhere /\ EachOnce /\ run \in RunType /\ q \in QueueType
      /\ count \in CountType /\ q.pending \in Seq(Msg) /\ q.nextTurn \in Seq(Msg) /\ q.pending # <<>>
  BY DEF RuntimeInv, Types, MessagesInv, InHand, PreparedQueueFails, At, QueueType
<1>2. /\ q'.nextTurn = Front(q.pending) \o q.nextTurn /\ q'.pending = <<>> /\ q'.steer = q.steer
      /\ q'.followUp = q.followUp /\ q'.writes = q.writes /\ q'.waiting = q.waiting
  BY <1>1 DEF PreparedQueueFails, QueueType
<1>3. /\ session' = session /\ kind' = kind /\ given' = given \cup {Last(q.pending)}
      /\ run.stage = "prepared" /\ run.input = 0
  BY <1>1 DEF PreparedQueueFails, HeldWhere, At
<1>4. run'.input = 0 /\ run'.stage = "interrupting" /\ run'.detached = run.detached
  BY <1>1 DEF PreparedQueueFails, Throw, RunType
<1>5. count'.aborts = count.aborts /\ (Lossy => Lossy')
  BY <1>1 DEF PreparedQueueFails, CountType, Lossy
<1>6. HeldWhere'
  BY <1>1, <1>2, <1>4, <1>5 DEF HeldWhere
<1>7. ASSUME NEW m \in Msg PROVE Held(m)' = Held(m)
  <2>1. m # 0
    BY DEF Msg
  <2>2. Held(m) <= 1 /\ m # 0 /\ NatCounts(m) /\ Times(m, <<>>) = 0
    BY <1>1, <1>7, <2>1, HeldNat, TimesFew DEF EachOnce, NatCounts
  <2> DEFINE t == Times(m, Front(q.pending))
  <2> DEFINE l == IF Last(q.pending) = m THEN 1 ELSE 0
  <2>3. Front(q.pending) \in Seq(Msg) /\ t \in Nat /\ Times(m, q.pending) = t + l
    BY <1>1, TimesEnds, TimesNat
  <2>4. Times(m, q'.nextTurn) = t + Times(m, q.nextTurn) /\ Times(m, q'.pending) = 0
    BY <1>1, <1>2, <2>2, <2>3, TimesConcat
  <2> HIDE DEF Times, t
  <2>5. (IF m \in given' THEN 1 ELSE 0) = l + IF m \in given THEN 1 ELSE 0
    <3>1. l = 1 => m \notin given
      BY <2>2, <2>3 DEF Held, NatCounts
    <3> QED
      BY <1>3, <3>1
  <2>6. l \in {0, 1}
    OBVIOUS
  <2> HIDE DEF l
  <2>7. run.input # m /\ run'.input # m
    BY <1>3, <1>4, <2>2
  <2>8. /\ Times(m, q'.steer) = Times(m, q.steer) /\ Times(m, q'.followUp) = Times(m, q.followUp)
        /\ Times(m, q'.writes) = Times(m, q.writes) /\ Times(m, q'.waiting) = Times(m, q.waiting)
        /\ Times(m, session'.messages) = Times(m, session.messages)
    BY <1>2, <1>3
  <2>9. NatCounts(m) /\ t \in Nat /\ Times(m, q.pending) = t + l
    BY <2>2, <2>3
  <2> QED
    BY <2>4, <2>5, <2>7, <2>6, <2>8, <2>9 DEF Held, NatCounts
<1> QED
  BY <1>1, <1>3, <1>5, <1>6, <1>7, MovesKeep DEF MessagesInv, MessageKinds

\* A hook that throws loses the pending messages; the run's own one goes back
\* to its caller.
LEMMA PreparedHookFailsKeeps ==
    ASSUME RuntimeInv, RuntimeInv', MessagesInv, PreparedHookFails
    PROVE  MessagesInv'
<1>1. /\ Types /\ Types' /\ MessageKinds /\ HeldWhere /\ EachOnce /\ run \in RunType /\ q \in QueueType
      /\ count \in CountType /\ q.pending \in Seq(Msg) /\ q.pending # <<>>
  BY DEF RuntimeInv, Types, MessagesInv, InHand, PreparedHookFails, At, QueueType
<1>2. /\ q'.pending = <<>> /\ q'.steer = q.steer /\ q'.followUp = q.followUp
      /\ q'.nextTurn = q.nextTurn /\ q'.writes = q.writes /\ q'.waiting = q.waiting
  BY <1>1 DEF PreparedHookFails, QueueType
<1>3. /\ session' = session /\ kind' = kind /\ given' = given \cup {Last(q.pending)}
      /\ run.stage = "prepared" /\ run.input = 0
  BY <1>1 DEF PreparedHookFails, HeldWhere, At
<1>4. run'.input = 0 /\ run'.stage = "interrupting" /\ run'.detached = run.detached
  BY <1>1 DEF PreparedHookFails, Throw, RunType
<1>5. count'.aborts = count.aborts /\ Lossy'
  BY <1>1 DEF PreparedHookFails, CountType, Lossy
<1>6. HeldWhere'
  BY <1>1, <1>2, <1>4, <1>5 DEF HeldWhere
<1>7. ASSUME NEW m \in Msg PROVE Held(m)' <= Held(m)
  <2>1. m # 0
    BY DEF Msg
  <2>2. m # 0 /\ NatCounts(m) /\ Times(m, <<>>) = 0
    BY <1>1, <1>7, <2>1, HeldNat, TimesFew DEF NatCounts
  <2> DEFINE t == Times(m, Front(q.pending))
  <2> DEFINE l == IF Last(q.pending) = m THEN 1 ELSE 0
  <2>3. t \in Nat /\ Times(m, q.pending) = t + l
    BY <1>1, TimesEnds, TimesNat
  <2>4. Times(m, q'.pending) = 0
    BY <1>2, <2>2
  <2> HIDE DEF Times, t
  <2>5. (IF m \in given' THEN 1 ELSE 0) <= l + IF m \in given THEN 1 ELSE 0
    BY <1>3
  <2>6. l \in {0, 1}
    OBVIOUS
  <2> HIDE DEF l
  <2>7. run.input # m /\ run'.input # m
    BY <1>3, <1>4, <2>2
  <2> QED
    BY <1>2, <1>3, <2>2, <2>3, <2>4, <2>5, <2>7, <2>6 DEF Held, NatCounts
<1> QED
  BY <1>1, <1>3, <1>5, <1>6, <1>7, MovesKeep DEF MessagesInv, MessageKinds

\* A pending message is appended to the session.
LEMMA InjectKeeps ==
    ASSUME RuntimeInv, RuntimeInv', MessagesInv, Inject
    PROVE  MessagesInv'
<1>1. /\ Types /\ Types' /\ MessageKinds /\ HeldWhere /\ EachOnce /\ run \in RunType /\ q \in QueueType
      /\ session \in SessionType /\ q.pending \in Seq(Msg) /\ session.messages \in Seq(Msg)
  BY DEF RuntimeInv, Types, MessagesInv, QueueType, SessionType
<1>2. given' = given /\ kind' = kind /\ count' = count /\ run.stage = "inject" /\ run.input = 0
  BY <1>1 DEF Inject, HeldWhere, At
<1>3. CASE q.pending = <<>>
  <2>1. q' = q /\ session' = session /\ run'.input = run.input /\ run'.detached = run.detached
    BY <1>1, <1>3 DEF Inject, To, RunType
  <2>2. Quiet /\ HeldWhere'
    BY <1>1, <1>2, <1>3, <2>1 DEF Quiet, Lossy, HeldWhere
  <2> QED
    BY <1>1, <2>2, QuietKeeps DEF MessagesInv
<1>4. CASE q.pending # <<>>
  <2> DEFINE x == Head(q.pending)
  <2>1. x \in Msg /\ <<x>> \in Seq(Msg) /\ <<x>> # <<>>
    BY <1>1, <1>4, TimesEnds
  <2>2. session' = AppendedUser(session, <<x>>) /\ run' = run
    BY <1>4 DEF Inject
  <2>3. /\ q'.pending = Tail(q.pending) /\ q'.steer = q.steer /\ q'.followUp = q.followUp
        /\ q'.nextTurn = q.nextTurn /\ q'.writes = q.writes /\ q'.waiting = q.waiting
    BY <1>1, <1>4 DEF Inject, QueueType
  <2> HIDE DEF x
  <2>4. session'.messages = session.messages \o <<x>>
    BY <1>1, <2>1, <2>2 DEF AppendedUser, Appended, SessionType
  <2>5. HeldWhere'
    BY <1>1, <1>2, <2>2, <2>3 DEF HeldWhere
  <2>6. ASSUME NEW m \in Msg PROVE Held(m)' = Held(m)
    <3>1. /\ Times(m, q.pending) = (IF x = m THEN 1 ELSE 0) + Times(m, q'.pending)
          /\ Times(m, q'.pending) \in Nat
      <4>1. /\ Tail(q.pending) \in Seq(Msg)
            /\ Times(m, q.pending) = (IF x = m THEN 1 ELSE 0) + Times(m, Tail(q.pending))
        BY <1>1, <1>4, TimesEnds DEF x
      <4>2. Times(m, Tail(q.pending)) \in Nat
        BY <4>1, TimesNat
      <4> QED
        BY <2>3, <4>1, <4>2
    <3>2. Times(m, session'.messages) = Times(m, session.messages) + IF x = m THEN 1 ELSE 0
      BY <1>1, <2>1, <2>4, TimesAppend
    <3>3. NatCounts(m)
      BY <1>1, HeldNat DEF NatCounts
    <3> HIDE DEF Times
    <3> QED
      BY <1>2, <2>2, <2>3, <3>1, <3>2, <3>3 DEF Held, NatCounts
  <2> QED
    BY <1>1, <1>2, <2>5, <2>6, MovesKeep DEF MessagesInv, MessageKinds, Lossy
<1> QED
  BY <1>3, <1>4

\* Messages drained from a queue are pending.
LEMMA DrainKeeps ==
    ASSUME RuntimeInv, RuntimeInv', MessagesInv, At("poll"), NEW name \in {"steer", "followUp"},
           Drain(name), session' = session, given' = given, kind' = kind, count' = count
    PROVE  MessagesInv'
<1>1. /\ Types /\ Types' /\ MessageKinds /\ HeldWhere /\ EachOnce /\ run \in RunType /\ q \in QueueType
      /\ q.steer \in Seq(Msg) /\ q.followUp \in Seq(Msg)
  BY DEF RuntimeInv, Types, MessagesInv, QueueType
<1>2. PICK n \in {1, Len(q[name])} :
        q' = [q EXCEPT !.pending = SubSeq(q[name], 1, n),
                       ![name] = SubSeq(q[name], n + 1, Len(q[name]))]
  BY DEF Drain
<1>3. q[name] \in Seq(Msg) /\ q[name] # <<>> /\ n \in 0..Len(q[name])
  <2>1. q[name] \in Seq(Msg) /\ q[name] # <<>>
    BY <1>1 DEF Drain
  <2>2. Len(q[name]) \in Nat \ {0}
    BY <2>1, EmptySeq, LenProperties
  <2> QED
    BY <2>1, <2>2
<1>4. /\ run'.stage = "drained" /\ run'.input = run.input /\ ~run'.detached
      /\ run.stage = "poll" /\ run.input = 0 /\ q.pending = <<>>
  BY <1>1 DEF Drain, At, RunType, HeldWhere
<1>5. HeldWhere'
  BY <1>1, <1>4 DEF HeldWhere
<1>6. ASSUME NEW m \in Msg PROVE Held(m)' = Held(m)
  <2> DEFINE s == SubSeq(q[name], 1, n)
  <2> DEFINE t == SubSeq(q[name], n + 1, Len(q[name]))
  <2>1. s \in Seq(Msg) /\ t \in Seq(Msg) /\ Times(m, q[name]) = Times(m, s) + Times(m, t)
    BY <1>3, TimesSplit
  <2>2. Times(m, s) \in Nat /\ Times(m, t) \in Nat /\ Times(m, q.pending) = 0 /\ NatCounts(m)
    BY <1>1, <1>4, <1>6, <2>1, TimesNat, TimesFew, HeldNat DEF NatCounts
  <2>3. q' = [q EXCEPT !.pending = s, ![name] = t]
    BY <1>2
  <2> HIDE DEF s, t, Times
  <2>4. /\ q'.pending = s /\ q'.nextTurn = q.nextTurn /\ q'.writes = q.writes /\ q'.waiting = q.waiting
    BY <1>1, <2>3 DEF QueueType
  <2>5. CASE name = "steer"
    <3>1. q'.steer = t /\ q'.followUp = q.followUp
      BY <1>1, <2>3, <2>5 DEF QueueType
    <3> QED
      BY <1>4, <2>1, <2>2, <2>4, <2>5, <3>1 DEF Held, NatCounts
  <2>6. CASE name = "followUp"
    <3>1. q'.followUp = t /\ q'.steer = q.steer
      BY <1>1, <2>3, <2>6 DEF QueueType
    <3> QED
      BY <1>4, <2>1, <2>2, <2>4, <2>6, <3>1 DEF Held, NatCounts
  <2> QED
    BY <2>5, <2>6
<1> QED
  BY <1>1, <1>5, <1>6, MovesKeep DEF MessagesInv, MessageKinds, Lossy

\* The loop polls its queues.
LEMMA PollKeeps ==
    ASSUME RuntimeInv, RuntimeInv', MessagesInv, Poll
    PROVE  MessagesInv'
<1>1. /\ Types /\ Types' /\ MessageKinds /\ HeldWhere /\ EachOnce /\ run \in RunType /\ At("poll")
      /\ session' = session /\ given' = given /\ kind' = kind /\ count' = count
  BY DEF RuntimeInv, Types, MessagesInv, Poll
<1>2. CASE Drain("steer") \/ Drain("followUp")
  BY <1>1, <1>2, DrainKeeps
<1>3. CASE q' = q /\ ~(Drain("steer") \/ Drain("followUp"))
  <2>1. /\ run'.input = run.input /\ run'.stage \in {"stream", "turn", "agentEnd"}
        /\ run'.detached = run.detached
    BY <1>1, <1>3 DEF Poll, To, RunType
  <2>2. Quiet /\ HeldWhere'
    BY <1>1, <1>3, <2>1 DEF Quiet, Lossy, HeldWhere, At
  <2> QED
    BY <1>1, <2>2, QuietKeeps DEF MessagesInv
<1> QED
  BY <1>2, <1>3 DEF Poll

\* A drain that fails puts them back, unless the queue was replaced.
LEMMA DrainFailsKeeps ==
    ASSUME RuntimeInv, RuntimeInv', MessagesInv, DrainFails
    PROVE  MessagesInv'
<1>1. /\ Types /\ Types' /\ MessageKinds /\ HeldWhere /\ EachOnce /\ run \in RunType /\ q \in QueueType
      /\ count \in CountType /\ q.pending \in Seq(Msg) /\ q.steer \in Seq(Msg) /\ q.followUp \in Seq(Msg)
      /\ run.stage = "drained" /\ run.from \in {"steer", "followUp"} /\ run.input = 0
  BY DEF RuntimeInv, Types, MessagesInv, InHand, DrainFails, At, QueueType, HeldWhere
<1>2. /\ session' = session /\ kind' = kind /\ given' = given
      /\ q' = [q EXCEPT !.pending = <<>>, ![run.from] = IF run.detached THEN @ ELSE q.pending \o @]
  BY DEF DrainFails, Restored
<1>3. run'.input = 0 /\ run'.stage = "failing" /\ run'.detached = run.detached
  BY <1>1 DEF DrainFails, To, RunType
<1>4. /\ count'.aborts = count.aborts /\ (Lossy => Lossy') /\ count'.drainFaults > 0
      /\ run.detached => Lossy'
  BY <1>1 DEF DrainFails, CountType, Lossy, HeldWhere
<1>5. /\ q'.pending = <<>> /\ q'.nextTurn = q.nextTurn /\ q'.writes = q.writes
      /\ q'.waiting = q.waiting
  BY <1>1, <1>2 DEF QueueType
<1>6. HeldWhere'
  BY <1>1, <1>3, <1>4, <1>5 DEF HeldWhere
<1>7. ASSUME NEW m \in Msg PROVE Held(m)' = Held(m) \/ (Held(m)' <= Held(m) /\ Lossy')
  <2>1. run.input = 0
    BY <1>1
  <2>2. Times(m, q'.pending) = 0 /\ NatCounts(m)
    BY <1>1, <1>5, <1>7, TimesFew, HeldNat DEF NatCounts
  <2>3. /\ Times(m, q.pending \o q.steer) = Times(m, q.pending) + Times(m, q.steer)
        /\ Times(m, q.pending \o q.followUp) = Times(m, q.pending) + Times(m, q.followUp)
    BY <1>1, TimesConcat
  <2> HIDE DEF Times
  <2>4. /\ Times(m, q'.nextTurn) = Times(m, q.nextTurn) /\ Times(m, q'.writes) = Times(m, q.writes)
        /\ Times(m, q'.waiting) = Times(m, q.waiting)
        /\ Times(m, session'.messages) = Times(m, session.messages)
        /\ run'.input = run.input /\ given' = given
    BY <1>2, <1>3, <1>5, <2>1
  <2>5. CASE run.detached
    <3>1. q'.steer = q.steer /\ q'.followUp = q.followUp
      BY <1>1, <1>2, <2>5 DEF QueueType
    <3>2. Held(m)' <= Held(m)
      BY <2>2, <2>4, <3>1 DEF Held, NatCounts
    <3> QED
      BY <1>4, <2>5, <3>2
  <2>6. CASE ~run.detached /\ run.from = "steer"
    <3>1. q'.steer = q.pending \o q.steer /\ q'.followUp = q.followUp
      BY <1>1, <1>2, <2>6 DEF QueueType
    <3>2. Times(m, q'.steer) = Times(m, q.pending) + Times(m, q.steer)
      BY <2>3, <3>1
    <3> QED
      BY <2>2, <2>4, <3>1, <3>2 DEF Held, NatCounts
  <2>7. CASE ~run.detached /\ run.from = "followUp"
    <3>1. q'.followUp = q.pending \o q.followUp /\ q'.steer = q.steer
      BY <1>1, <1>2, <2>7 DEF QueueType
    <3>2. Times(m, q'.followUp) = Times(m, q.pending) + Times(m, q.followUp)
      BY <2>3, <3>1
    <3> QED
      BY <2>2, <2>4, <3>1, <3>2 DEF Held, NatCounts
  <2> QED
    BY <1>1, <2>5, <2>6, <2>7
<1> QED
  BY <1>1, <1>2, <1>4, <1>6, <1>7, MovesKeep DEF MessagesInv, MessageKinds

\* A listener that throws loses what is pending, a crash all but the session
\* and what was handed back.
LEMMA LosingActions ==
    ASSUME RuntimeInv, RuntimeInv', MessagesInv, ListenerThrows \/ Crash
    PROVE  MessagesInv'
<1>1. /\ Types /\ Types' /\ MessageKinds /\ HeldWhere /\ EachOnce /\ run \in RunType /\ q \in QueueType
      /\ count \in CountType
  BY DEF RuntimeInv, Types, MessagesInv
<1>2. session'.messages = session.messages /\ kind' = kind /\ given' = given
  BY DEF ListenerThrows, Crash
<1>3. count'.aborts = count.aborts /\ Lossy'
  BY <1>1 DEF ListenerThrows, Crash, CountType, Lossy
<1>4. /\ run'.detached => run.detached
      /\ run'.stage \in {"none", "failing"} /\ run'.input = 0
  BY <1>1 DEF ListenerThrows, Crash, NoRun, To, RunType, HeldWhere
<1>5. \/ /\ q'.steer = q.steer /\ q'.followUp = q.followUp /\ q'.nextTurn = q.nextTurn
         /\ q'.writes = q.writes /\ q'.waiting = q.waiting /\ q'.pending = <<>>
      \/ /\ q'.steer = <<>> /\ q'.followUp = <<>> /\ q'.nextTurn = <<>>
         /\ q'.writes = <<>> /\ q'.waiting = <<>> /\ q'.pending = <<>>
  BY <1>1 DEF ListenerThrows, Crash, NoQueues, QueueType
<1>6. HeldWhere'
  BY <1>1, <1>3, <1>4, <1>5 DEF HeldWhere
<1>7. ASSUME NEW m \in Msg PROVE Held(m)' <= Held(m)
  <2>1. m # 0
    BY DEF Msg
  <2>2. Times(m, <<>>) = 0 /\ m # 0
    BY <1>7, <2>1, TimesFew
  <2>3. NatCounts(m)
    BY <1>1, HeldNat DEF NatCounts
  <2> HIDE DEF Times
  <2>4. /\ Times(m, q'.steer) <= Times(m, q.steer) /\ Times(m, q'.followUp) <= Times(m, q.followUp)
        /\ Times(m, q'.nextTurn) <= Times(m, q.nextTurn) /\ Times(m, q'.pending) <= Times(m, q.pending)
        /\ Times(m, q'.writes) <= Times(m, q.writes) /\ Times(m, q'.waiting) <= Times(m, q.waiting)
    BY <1>5, <2>2, <2>3 DEF NatCounts
  <2>5. NatCounts(m)'
    BY <1>2, <1>5, <2>2, <2>3 DEF NatCounts
  <2>6. /\ Times(m, session'.messages) = Times(m, session.messages)
        /\ run'.input # m /\ given' = given
    BY <1>2, <1>4, <2>1
  <2> QED
    BY <2>4, <2>5, <2>3, <2>6 DEF Held, NatCounts
<1> QED
  BY <1>1, <1>2, <1>3, <1>6, <1>7, MovesKeep DEF MessagesInv, MessageKinds

\* At first no message came in.
LEMMA InitMessagesInv == Init => MessagesInv
<1> SUFFICES ASSUME Init PROVE MessagesInv
  OBVIOUS
<1>1. /\ run.input = 0 /\ run.stage = "none" /\ run.intent = "none" /\ ~run.detached /\ given = {}
      /\ q.steer = <<>> /\ q.followUp = <<>> /\ q.nextTurn = <<>> /\ q.pending = <<>>
      /\ q.writes = <<>> /\ q.waiting = <<>> /\ session.messages = <<>>
      /\ kind = [m \in Msg |-> "none"]
  BY DEF Init, NoRun, NoQueues
<1>2. ASSUME NEW m \in Msg PROVE Held(m) = 0
  <2>1. Times(m, <<>>) = 0
    BY <1>2, TimesFew
  <2>2. m # 0
    BY DEF Msg
  <2> HIDE DEF Times
  <2> QED
    BY <1>1, <2>1, <2>2 DEF Held
<1> QED
  BY <1>1, <1>2 DEF MessagesInv, MessageKinds, HeldWhere, EachOnce

\* Every step keeps it.
LEMMA NextMessagesInv == RuntimeInv /\ RuntimeInv' /\ MessagesInv /\ [Next]_vars => MessagesInv'
<1> SUFFICES ASSUME RuntimeInv, RuntimeInv', MessagesInv, [Next]_vars PROVE MessagesInv'
  OBVIOUS
<1>1. CASE UNCHANGED vars
  <2>1. Quiet /\ HeldWhere'
    BY <1>1 DEF vars, Quiet, Lossy, MessagesInv, HeldWhere
  <2> QED
    BY <2>1, QuietKeeps DEF RuntimeInv, MessagesInv
<1>2. CASE \E m \in Msg : Prompt(m) \/ SendUserMessage(m) \/ NextTurnMessage(m) \/ AppendMessage(m)
  BY <1>2, NewMessages
<1>3. CASE \E abort \in BOOLEAN : ClearQueues(abort)
  BY <1>3, ClearQueuesKeeps
<1>4. CASE PreparedQueueFails \/ PreparedHookFails \/ DrainFails \/ ListenerThrows \/ Crash
  BY <1>4, PreparedQueueFailsKeeps, PreparedHookFailsKeeps, DrainFailsKeeps, LosingActions
<1>5. CASE Resend \/ Start \/ Work \/ Inject \/ Poll
  BY <1>5, ResendKeeps, StartKeeps, WorkKeeps, InjectKeeps, PollKeeps
<1>6. CASE TurnEnd \/ AgentEnd \/ EmitRunFailure \/ FailureThrows \/ ExecuteEnds
  BY <1>6, FlushActions
<1>7. CASE \/ Recover \/ BeginOperation \/ Prepared \/ WorkRetry \/ TurnStart \/ Drained
           \/ (\E resp \in {"stop", "error", "overflow", "aborted"} : Respond(resp))
           \/ (\E n \in 1..2 : RespondTools(n)) \/ (\E t \in executing : ToolEnds(t))
           \/ BatchEnds \/ FinishOpenTool \/ FinishOpenTurn \/ FinishOperation
           \/ Decide \/ Wake \/ RetryFromParent \/ RetryStarts \/ Threshold \/ CompactEnds
           \/ Settle \/ ManualCompact \/ ManualCompactEnds
  BY <1>7, QuietActions
<1> QED
  BY <1>1, <1>2, <1>3, <1>4, <1>5, <1>6, <1>7 DEF Next, Internal

\* The messages' invariant implies the property.
LEMMA InvGivesMessagesKept == MessagesInv => HarnessMessagesKept
BY DEF MessagesInv, EachOnce, Lossy, HarnessMessagesKept

\* No message the harness took is held twice or lost, but for a crash, a
\* listener that throws or a drain that fails after an abort
\* (agent-harness.ts: the queues, drainQueuedMessages, abort and the deferred
\* writes), for any numbers of messages, tools, events and retries.
THEOREM HarnessMessagesKeptHolds == Spec => []HarnessMessagesKept
BY RuntimeInvHolds, InitMessagesInv, NextMessagesInv, InvGivesMessagesKept, PTL DEF Spec


-----------------------------------------------------------------------------
(* SESSION FILES *)

\* The entries and lines there can be, and what a file can hold.
EntryOf == [id : Nat \ {0}, kind : Kinds, parent : Nat, ref : Int, old : BOOLEAN]
Line == EntryOf \cup {Header, OldHeader}

\* What a file can hold: a header comes first, if there is one.
Content == {c \in [exists : BOOLEAN, lines : Seq(Line), malformed : BOOLEAN, tail : {"clean", "torn", "open"}] :
               \A i \in 2..Len(c.lines) : c.lines[i] \in EntryOf}

\* Entries are numbered in the order they were made, each after its parent
\* and, if it is a leaf entry, after the entry it goes back to; an old entry
\* has no parent.
Numbered(es, n) ==
    /\ \A i, j \in 1..Len(es) : i < j => es[i].id < es[j].id
    /\ \A i \in 1..Len(es) :
          /\ es[i].id <= n
          /\ es[i].parent < es[i].id
          /\ es[i].kind = "leaf" => es[i].ref \in 0..(es[i].id - 1)
          /\ es[i].old => es[i].parent = None

\* How many lines are whole.
WholeLen(c) == IF c.tail = "open" THEN Len(c.lines) - 1 ELSE Len(c.lines)

\* The whole lines of c begin with a header and the entries es.
SafeIn(c, es) ==
    es # <<>> => /\ c.lines[1].kind = "session"
                 /\ Len(es) + 1 <= WholeLen(c)
                 /\ \A i \in 1..Len(es) : c.lines[i + 1] = es[i]

\* The lines of c are a header and the entries es.
Holds(c, es) ==
    /\ Len(c.lines) = Len(es) + 1
    /\ c.lines[1].kind = "session"
    /\ \A i \in 1..Len(es) : c.lines[i + 1] = es[i]

\* The leaf entries go back to entries that are there, and none is old.
Plain(es) ==
    /\ Undefined \notin Keys(es)
    /\ \A i \in 1..Len(es) : es[i].kind = "leaf" => es[i].ref \in Keys(es) \cup {None}

\* Each parent is found before its children.
Connected(es) ==
    Plain(es) => \A i \in 1..Len(es) :
                    es[i].parent # None => \E j \in 1..(i - 1) : Key(es[j]) = es[i].parent

\* A file that holds entries with numbers up to n.  What a broken file held before
\* is whole, and other files end in a whole line.
FileOk(c, n, isBroken, before) ==
    /\ c \in Content /\ before \in Seq(EntryOf)
    /\ Numbered(EntriesOf(c), n)
    /\ IF isBroken THEN SafeIn(c, before) ELSE c.tail = "clean"

\* File names are handed out once.  While no write has failed, no file is broken
\* and the entries of each form a tree.
DiskInv ==
    /\ made \in Nat /\ files \in 0..MaxFiles /\ faults \in Nat /\ broken \subseteq File
    /\ disk \in [File -> Content] /\ kept \in [File -> Seq(EntryOf)]
    /\ \A f \in File : FileOk(disk[f], made, f \in broken, kept[f])
    /\ \A f \in File : f > files => disk[f] = Absent /\ f \notin broken
    /\ faults = 0 => broken = {} /\ \A f \in File : Connected(EntriesOf(disk[f]))

\* A session is in its file, or has neither a file nor an answer yet.
Synced ==
    up /\ file \notin broken =>
        IF flushed THEN Holds(disk[file], entries)
        ELSE ~HasAssistant(entries) /\ ~disk[file].exists

\* The open session's file has been handed out, and its entries form a tree, with
\* the leaf in it, if no write has failed.
MemoryInv ==
    /\ up \in BOOLEAN /\ flushed \in BOOLEAN
    /\ entries \in Seq(EntryOf) /\ Numbered(entries, made)
    /\ leaf \in {Undefined} \cup 0..made
    /\ up => file \in 1..files
    /\ Synced
    /\ up /\ faults = 0 => Connected(entries) /\ (Plain(entries) => leaf \in Keys(entries) \cup {None})

\* The inductive invariant.
SessionInv == DiskInv /\ MemoryInv

-----------------------------------------------------------------------------
(* Lines and entries. *)

\* s is a prefix of t.
Starts(s, t) == Len(s) <= Len(t) /\ \A i \in 1..Len(s) : s[i] = t[i]

\* What the kinds of lines are.
LEMMA LineKinds ==
    /\ Header \in Line /\ OldHeader \in Line /\ Header.kind = "session" /\ OldHeader.kind = "session"
    /\ \A l \in Line : l \in EntryOf \/ l.kind = "session"
    /\ \A e \in EntryOf : e \in Line /\ e.kind # "session" /\ e.kind \in Kinds
    /\ ~Header.old /\ OldHeader.old
  BY DEF Line, EntryOf, Header, OldHeader, Entry, Kinds, None

\* A sequence of entries is one of lines.
LEMMA EntriesAreLines ==
    ASSUME NEW es \in Seq(EntryOf)
    PROVE  es \in Seq(Line)
  <1>1. EntryOf \subseteq Line
    BY LineKinds
  <1> QED
    BY <1>1, SeqMonotonic

\* When a file is a session, and the entries it then holds.
LEMMA EntriesAre ==
    ASSUME NEW c \in Content
    PROVE  /\ EntriesOf(c) \in Seq(EntryOf)
           /\ IsSession(c) <=> Len(c.lines) > 0 /\ c.lines[1].kind = "session"
           /\ IsSession(c) => Holds(c, EntriesOf(c))
           /\ ~IsSession(c) => EntriesOf(c) = <<>>
  <1> DEFINE ls == c.lines
  <1>1. ls \in Seq(Line) /\ \A i \in 2..Len(ls) : ls[i] \in EntryOf
    BY DEF Content
  <1>2. IsSession(c) <=> ls # <<>> /\ Head(ls).kind = "session"
    BY DEF IsSession, Load
  <1>3. EntriesOf(c) = IF IsSession(c) THEN Tail(ls) ELSE <<>>
    BY <1>2 DEF EntriesOf, IsSession, Load
  <1>4. Len(ls) \in Nat /\ (ls # <<>> <=> Len(ls) > 0)
    BY <1>1, EmptySeq, LenProperties
  <1>5. ls # <<>> => Head(ls) = ls[1]
    BY <1>1
  <1>6. IsSession(c) <=> Len(ls) > 0 /\ ls[1].kind = "session"
    BY <1>2, <1>4, <1>5
  <1>7. ASSUME IsSession(c)
        PROVE  Tail(ls) \in Seq(EntryOf) /\ Holds(c, Tail(ls))
    <2>1. ls # <<>> /\ Len(ls) > 0
      BY <1>4, <1>6, <1>7
    <2>2. /\ Tail(ls) \in Seq(Line) /\ Len(Tail(ls)) = Len(ls) - 1
          /\ \A i \in 1..Len(Tail(ls)) : Tail(ls)[i] = ls[i + 1]
      BY <1>1, <2>1, HeadTailProperties
    <2> DEFINE t == Tail(ls)
    <2>3. t \in Seq(Line) /\ Len(t) = Len(ls) - 1 /\ \A i \in 1..Len(t) : t[i] = ls[i + 1]
      BY <2>2
    <2> HIDE DEF t
    <2>4. Len(t) \in Nat /\ \A i \in 1..Len(t) : i + 1 \in 2..Len(ls)
      BY <1>4, <2>1, <2>3
    <2>5. \A i \in 1..Len(t) : t[i] \in EntryOf
      BY <1>1, <2>3, <2>4
    <2>6. t \in [1..Len(t) -> EntryOf]
      BY <2>3, <2>5, LenProperties
    <2>7. t \in Seq(EntryOf)
      BY <2>4, <2>6, SeqDef
    <2>8. Len(ls) = Len(t) + 1
      BY <1>4, <2>3, <2>4
    <2>9. Holds(c, t)
      BY <1>6, <1>7, <2>3, <2>8 DEF Holds
    <2> QED
      BY <2>7, <2>9 DEF t
  <1>8. <<>> \in Seq(EntryOf)
    OBVIOUS
  <1> QED
    BY <1>3, <1>6, <1>7, <1>8

\* The entries of a file are the ones it is said to hold.
LEMMA HeldEntries ==
    ASSUME NEW c \in Content, NEW es \in Seq(EntryOf), Holds(c, es)
    PROVE  IsSession(c) /\ EntriesOf(c) = es
  <1>1. Len(es) \in Nat /\ Len(c.lines) = Len(es) + 1 /\ c.lines[1].kind = "session"
    BY LenProperties DEF Holds
  <1>2. IsSession(c) /\ EntriesOf(c) \in Seq(EntryOf) /\ Holds(c, EntriesOf(c))
    BY <1>1, EntriesAre
  <1> DEFINE s == EntriesOf(c)
  <1>3. s \in Seq(EntryOf) /\ Holds(c, s)
    BY <1>2
  <1> HIDE DEF s
  <1>4. Len(s) \in Nat /\ Len(s) = Len(es)
    <2>1. Len(s) \in Nat /\ Len(c.lines) = Len(s) + 1
      BY <1>3, LenProperties DEF Holds
    <2> QED
      BY <1>1, <2>1
  <1>5. \A i \in 1..Len(s) : s[i] = es[i]
    BY <1>3, <1>4 DEF Holds
  <1>6. s = es
    BY <1>3, <1>4, <1>5, SeqEqual
  <1> QED
    BY <1>2, <1>6 DEF s

\* A prefix of numbered entries is numbered.
LEMMA PrefixNumbered ==
    ASSUME NEW s \in Seq(EntryOf), NEW t \in Seq(EntryOf), Starts(s, t), NEW n, Numbered(t, n)
    PROVE  Numbered(s, n)
  <1>1. Len(s) \in Nat /\ Len(t) \in Nat /\ Len(s) <= Len(t)
    BY LenProperties DEF Starts
  <1>2. \A i \in 1..Len(s) : i \in 1..Len(t) /\ s[i] = t[i]
    BY <1>1 DEF Starts
  <1> QED
    BY <1>2 DEF Numbered

\* Numbers stay below a higher bound.
LEMMA NumberedBelow ==
    ASSUME NEW es \in Seq(EntryOf), NEW n \in Nat, NEW m \in Nat, n <= m, Numbered(es, n)
    PROVE  Numbered(es, m)
  <1>1. \A i \in 1..Len(es) : es[i] \in EntryOf /\ es[i].id <= n
    BY ElementOfSeq DEF Numbered
  <1>2. \A i \in 1..Len(es) : es[i].id <= m
    BY <1>1 DEF EntryOf
  <1> QED
    BY <1>2 DEF Numbered

\* What an entry at the end leaves of a sequence.
LEMMA AtEnd ==
    ASSUME NEW es \in Seq(EntryOf), NEW e \in EntryOf
    PROVE  /\ Append(es, e) \in Seq(EntryOf)
           /\ Len(es) \in Nat /\ Len(Append(es, e)) = Len(es) + 1
           /\ \A i \in 1..Len(es) : Append(es, e)[i] = es[i]
           /\ Append(es, e)[Len(es) + 1] = e
           /\ Last(Append(es, e)) = e
           /\ Starts(es, Append(es, e))
  <1>1. /\ Append(es, e) \in Seq(EntryOf) /\ Len(es) \in Nat /\ Len(Append(es, e)) = Len(es) + 1
        /\ \A i \in 1..Len(es) : Append(es, e)[i] = es[i]
        /\ Append(es, e)[Len(es) + 1] = e
    BY LenProperties, AppendProperties
  <1>2. Last(Append(es, e)) = e
    BY <1>1 DEF Last
  <1> QED
    BY <1>1, <1>2 DEF Starts

\* A new entry behind numbered ones.
LEMMA AppendNumbered ==
    ASSUME NEW es \in Seq(EntryOf), NEW n \in Nat, Numbered(es, n), NEW e \in EntryOf, e.id = n + 1,
           e.parent < e.id, e.kind = "leaf" => e.ref \in 0..(e.id - 1), e.old => e.parent = None
    PROVE  Numbered(Append(es, e), n + 1)
  <1> DEFINE s == Append(es, e)
  <1>1. /\ Len(es) \in Nat /\ Len(s) = Len(es) + 1 /\ s[Len(es) + 1] = e
        /\ \A i \in 1..Len(es) : s[i] = es[i]
    BY AtEnd
  <1> HIDE DEF s
  <1>2. \A i \in 1..Len(es) : es[i].id \in Nat /\ es[i].id <= n
    <2>1. \A i \in 1..Len(es) : es[i] \in EntryOf /\ es[i].id <= n
      BY ElementOfSeq DEF Numbered
    <2> QED
      BY <2>1 DEF EntryOf
  <1>3. \A i \in 1..Len(s) : i \in 1..Len(es) \/ i = Len(es) + 1
    BY <1>1
  <1>4. ASSUME NEW i \in 1..Len(s)
        PROVE  /\ s[i].id <= n + 1
               /\ s[i].parent < s[i].id
               /\ s[i].kind = "leaf" => s[i].ref \in 0..(s[i].id - 1)
               /\ s[i].old => s[i].parent = None
    <2>1. CASE i \in 1..Len(es)
      BY <2>1, <1>1, <1>2 DEF Numbered
    <2>2. CASE i = Len(es) + 1
      BY <2>2, <1>1
    <2> QED
      BY <1>3, <2>1, <2>2
  <1>5. ASSUME NEW i \in 1..Len(s), NEW j \in 1..Len(s), i < j
        PROVE  s[i].id < s[j].id
    <2>1. i \in 1..Len(es)
      BY <1>1, <1>5
    <2>2. CASE j \in 1..Len(es)
      BY <2>1, <2>2, <1>1, <1>5 DEF Numbered
    <2>3. CASE j = Len(es) + 1
      BY <2>1, <2>3, <1>1, <1>2
    <2> QED
      BY <1>3, <2>2, <2>3
  <1> QED
    BY <1>4, <1>5 DEF Numbered, s

-----------------------------------------------------------------------------
(* Writes. *)

\* The whole lines of a file.
LEMMA WholeAre ==
    ASSUME NEW c \in Content, NEW w, w = WholeLines(c)
    PROVE  /\ w \in Seq(Line) /\ Len(w) \in Nat /\ Len(c.lines) \in Nat
           /\ Len(w) <= Len(c.lines)
           /\ WholeLen(c) <= Len(w)
           /\ \A i \in 1..Len(w) : w[i] = c.lines[i]
           /\ \A i \in 2..Len(w) : w[i] \in EntryOf
  <1>1. c.lines \in Seq(Line) /\ \A i \in 2..Len(c.lines) : c.lines[i] \in EntryOf
    BY DEF Content
  <1> DEFINE ls == c.lines
  <1>2. ls \in Seq(Line) /\ Len(ls) \in Nat /\ \A i \in 2..Len(ls) : ls[i] \in EntryOf
    BY <1>1, LenProperties
  <1>3. w = IF c.tail = "open" THEN SubSeq(ls, 1, Len(ls) - 1) ELSE ls
    BY DEF WholeLines, Front
  <1>4. WholeLen(c) = IF c.tail = "open" THEN Len(ls) - 1 ELSE Len(ls)
    BY DEF WholeLen
  <1> HIDE DEF ls
  <1>5. CASE c.tail = "open"
    <2>1. w = SubSeq(ls, 1, Len(ls) - 1)
      BY <1>3, <1>5
    <2>2. 1 \in Int /\ Len(ls) - 1 \in Int /\ \A i \in 1..(Len(ls) - 1) : ls[i] \in Line
      BY <1>2, ElementOfSeq
    <2>3. /\ w \in Seq(Line) /\ Len(w) = IF 1 <= Len(ls) - 1 THEN Len(ls) - 1 - 1 + 1 ELSE 0
          /\ \A i \in 1..(Len(ls) - 1 - 1 + 1) : w[i] = ls[1 + i - 1]
      BY <2>1, <2>2, SubSeqProperties
    <2>4. Len(w) \in Nat /\ Len(w) <= Len(ls) /\ Len(ls) - 1 <= Len(w)
      BY <1>2, <2>3
    <2>5. \A i \in 1..Len(w) : i \in 1..(Len(ls) - 1 - 1 + 1) /\ 1 + i - 1 = i /\ i <= Len(ls)
      BY <1>2, <2>3
    <2>6. \A i \in 1..Len(w) : w[i] = ls[i]
      BY <2>3, <2>5
    <2>7. \A i \in 2..Len(w) : i \in 1..Len(w) /\ i \in 2..Len(ls)
      BY <1>2, <2>4
    <2>8. \A i \in 2..Len(w) : w[i] \in EntryOf
      BY <1>2, <2>6, <2>7
    <2> QED
      BY <1>2, <1>4, <1>5, <2>3, <2>4, <2>6, <2>8 DEF ls
  <1>6. CASE c.tail # "open"
    BY <1>2, <1>3, <1>4, <1>6 DEF ls
  <1> QED
    BY <1>5, <1>6

\* A file whose lines begin like those of another has a prefix of its entries,
\* or of them and one more.
LEMMA LinesStart ==
    ASSUME NEW c \in Content, NEW d \in Content, NEW es \in Seq(EntryOf), Starts(EntriesOf(c), es),
           Len(d.lines) <= Len(es) + 1,
           \A i \in 1..Len(d.lines) : i <= Len(c.lines) => d.lines[i] = c.lines[i],
           Len(c.lines) = 0 => Len(d.lines) = 0 \/ d.lines[1].kind # "session",
           \A i \in 1..Len(d.lines) : i > Len(c.lines) /\ i > 1 /\ IsSession(c) => d.lines[i] = es[i - 1]
    PROVE  Starts(EntriesOf(d), es)
  <1> DEFINE s == EntriesOf(d)
             t == EntriesOf(c)
  <1>1. /\ s \in Seq(EntryOf) /\ t \in Seq(EntryOf)
        /\ IsSession(d) <=> Len(d.lines) > 0 /\ d.lines[1].kind = "session"
        /\ IsSession(c) <=> Len(c.lines) > 0 /\ c.lines[1].kind = "session"
        /\ IsSession(d) => Holds(d, s)
        /\ IsSession(c) => Holds(c, t)
        /\ ~IsSession(d) => s = <<>>
    BY EntriesAre
  <1>2. Len(c.lines) \in Nat /\ Len(d.lines) \in Nat /\ Len(es) \in Nat
    BY LenProperties DEF Content
  <1>3. Starts(t, es)
    OBVIOUS
  <1> HIDE DEF s, t
  <1>4. Len(s) \in Nat /\ Len(t) \in Nat
    BY <1>1, LenProperties
  <1>5. CASE ~IsSession(d)
    BY <1>5, <1>1, <1>2 DEF Starts, s
  <1>6. CASE IsSession(d)
    <2>1. Holds(d, s) /\ Len(d.lines) > 0 /\ d.lines[1].kind = "session"
      BY <1>1, <1>6
    <2>2. Len(c.lines) > 0 /\ 1 \in 1..Len(d.lines) /\ 1 <= Len(c.lines)
      BY <1>2, <2>1
    <2>3. IsSession(c) /\ Holds(c, t)
      BY <1>1, <2>1, <2>2
    <2>4. Len(s) + 1 = Len(d.lines) /\ Len(t) + 1 = Len(c.lines)
      BY <2>1, <2>3 DEF Holds
    <2>5. Len(s) <= Len(es)
      BY <1>2, <1>4, <2>4
    <2>6. ASSUME NEW i \in 1..Len(s)
          PROVE  s[i] = es[i]
      <3>1. s[i] = d.lines[i + 1] /\ i + 1 \in 1..Len(d.lines) /\ i + 1 > 1 /\ i + 1 - 1 = i
        BY <1>4, <2>1, <2>4 DEF Holds
      <3>2. CASE i <= Len(t)
        <4>1. i \in 1..Len(t) /\ i + 1 <= Len(c.lines)
          BY <3>2, <1>4, <2>4
        <4>2. d.lines[i + 1] = c.lines[i + 1] /\ c.lines[i + 1] = t[i]
          BY <4>1, <3>1, <2>3 DEF Holds
        <4>3. t[i] = es[i]
          BY <4>1, <1>3 DEF Starts
        <4> QED
          BY <3>1, <4>2, <4>3
      <3>3. CASE i > Len(t)
        <4>1. i + 1 > Len(c.lines)
          BY <3>3, <1>4, <2>4
        <4> QED
          BY <4>1, <3>1, <2>3
      <3> QED
        BY <3>2, <3>3, <1>4
    <2> QED
      BY <2>5, <2>6 DEF Starts, s
  <1> QED
    BY <1>5, <1>6

\* A line is written, whole or in part: the lines that were whole are kept.
LEMMA LineOutcome ==
    ASSUME NEW c \in Content, NEW l \in EntryOf, NEW d, d \in {WriteLine(c, l)} \cup CutLine(c, l)
    PROVE  /\ d \in Content
           /\ Len(c.lines) \in Nat /\ Len(d.lines) \in Nat /\ WholeLen(c) <= WholeLen(d)
           /\ Len(d.lines) <= Len(c.lines) + 1
           /\ \A i \in 1..Len(d.lines) : d.lines[i] = IF i <= Len(c.lines) THEN c.lines[i] ELSE l
           /\ d.exists = c.exists
           /\ c.tail = "clean" /\ d = WriteLine(c, l) => d.tail = "clean" /\ Len(d.lines) = Len(c.lines) + 1
           /\ d = WriteLine(c, l) => d.tail = "clean"
  <1> DEFINE w == WholeLines(c)
             ls == c.lines
             a == Append(c.lines, l)
  <1>1. /\ w \in Seq(Line) /\ Len(w) \in Nat /\ Len(ls) \in Nat /\ Len(w) <= Len(ls) /\ WholeLen(c) <= Len(w)
        /\ \A i \in 1..Len(w) : w[i] = ls[i]
        /\ \A i \in 2..Len(w) : w[i] \in EntryOf
    BY WholeAre
  <1>2. ls \in Seq(Line) /\ \A i \in 2..Len(ls) : ls[i] \in EntryOf
    BY DEF Content
  <1>3. l \in Line
    BY LineKinds
  <1>4. /\ a \in Seq(Line) /\ Len(a) = Len(ls) + 1 /\ a[Len(ls) + 1] = l
        /\ \A i \in 1..Len(ls) : a[i] = ls[i]
    BY <1>2, <1>3, AppendProperties
  <1> HIDE DEF w, a, ls
  <1>5. /\ \A i \in 2..Len(a) : a[i] \in EntryOf
        /\ \A i \in 1..Len(a) : a[i] = IF i <= Len(ls) THEN ls[i] ELSE l
    <2>1. \A i \in 1..Len(a) : i \in 1..Len(ls) \/ (i = Len(ls) + 1 /\ ~(i <= Len(ls)))
      BY <1>1, <1>4
    <2>2. \A i \in 1..Len(a) : a[i] = IF i <= Len(ls) THEN ls[i] ELSE l
      BY <2>1, <1>1, <1>4
    <2>3. \A i \in 2..Len(a) : i \in 1..Len(a) /\ (i <= Len(ls) => i \in 2..Len(ls))
      BY <1>1, <1>4
    <2> QED
      BY <2>2, <2>3, <1>2
  <1>6. \A i \in 1..Len(w) : i <= Len(ls)
    BY <1>1
  <1>7. \A i \in 1..Len(ls) : i <= Len(ls)
    BY <1>1
  <1>8. /\ c.exists \in BOOLEAN /\ c.malformed \in BOOLEAN /\ c.tail \in {"clean", "torn", "open"}
        /\ c = [exists |-> c.exists, lines |-> ls, malformed |-> c.malformed, tail |-> c.tail]
    BY DEF Content, ls
  <1>9. WholeLen(c) = IF c.tail = "open" THEN Len(ls) - 1 ELSE Len(ls)
    BY DEF WholeLen, ls
  <1>10. CASE d = c
    <2>1. d.lines = ls /\ d.exists = c.exists /\ WholeLen(d) = WholeLen(c)
      BY <1>10 DEF ls
    <2>2. d # WriteLine(c, l)
      <3>1. CASE c.tail = "clean"
        <4>1. WriteLine(c, l).lines = a
          BY <3>1, <1>8 DEF WriteLine, a
        <4> QED
          BY <4>1, <2>1, <1>1, <1>4
      <3>2. CASE c.tail # "clean"
        <4>1. WriteLine(c, l).tail = "clean"
          BY <3>2, <1>8 DEF WriteLine
        <4> QED
          BY <4>1, <3>2, <1>10
      <3> QED
        BY <3>1, <3>2
    <2>3. WholeLen(c) <= WholeLen(c)
      BY <1>1, <1>9
    <2> QED
      BY <1>10, <2>1, <2>2, <2>3, <1>1, <1>7 DEF ls
  <1>11. CASE /\ d \in {WriteLine(c, l), [c EXCEPT !.tail = "open", !.lines = a]} /\ c.tail = "clean"
    <2>1. WriteLine(c, l) = [c EXCEPT !.lines = a]
      BY <1>11 DEF WriteLine, a
    <2>2. /\ d.lines = a /\ d.exists = c.exists /\ d.malformed = c.malformed /\ d.tail \in {"clean", "open"}
          /\ d = [exists |-> d.exists, lines |-> a, malformed |-> d.malformed, tail |-> d.tail]
          /\ d = WriteLine(c, l) => d.tail = "clean"
      BY <1>8, <1>11, <2>1
    <2>3. d \in Content
      BY <2>2, <1>4, <1>5, <1>8 DEF Content
    <2>4. WholeLen(d) = IF d.tail = "open" THEN Len(a) - 1 ELSE Len(a)
      BY <2>2 DEF WholeLen
    <2>5. WholeLen(c) <= WholeLen(d)
      BY <2>4, <1>1, <1>4, <1>9, <1>11
    <2>6. Len(a) \in Nat
      BY <1>1, <1>4
    <2> QED
      BY <2>2, <2>3, <2>5, <2>6, <1>1, <1>4, <1>5 DEF ls
  <1>12. CASE /\ d \in {[c EXCEPT !.tail = "torn", !.lines = w],
                        [c EXCEPT !.tail = "clean", !.malformed = TRUE, !.lines = w]}
              /\ d = WriteLine(c, l) => c.tail # "clean" /\ d.tail = "clean"
    <2>1. /\ d.lines = w /\ d.exists = c.exists /\ d.malformed \in BOOLEAN /\ d.tail \in {"clean", "torn"}
          /\ d = [exists |-> d.exists, lines |-> w, malformed |-> d.malformed, tail |-> d.tail]
      BY <1>8, <1>12
    <2>2. d \in Content
      BY <2>1, <1>1, <1>8 DEF Content
    <2>3. WholeLen(d) = Len(w)
      BY <2>1 DEF WholeLen
    <2>4. Len(w) <= Len(ls) + 1
      BY <1>1
    <2> QED
      BY <1>12, <2>1, <2>2, <2>3, <2>4, <1>1, <1>6 DEF ls
  <1>13. d \in {WriteLine(c, l), c, [c EXCEPT !.tail = "torn", !.lines = w]}
            \/ (d = [c EXCEPT !.tail = "open", !.lines = a] /\ c.tail = "clean")
    BY DEF CutLine, w, a
  <1>14. CASE d = WriteLine(c, l) /\ c.tail # "clean"
    <2>1. d = [c EXCEPT !.tail = "clean", !.malformed = TRUE, !.lines = w]
      BY <1>14 DEF WriteLine, w
    <2>2. d.tail = "clean"
      BY <2>1, <1>8
    <2> QED
      BY <1>12, <1>14, <2>1, <2>2
  <1>15. CASE d = [c EXCEPT !.tail = "torn", !.lines = w]
    <2>1. d.tail = "torn"
      BY <1>15, <1>8
    <2>2. WriteLine(c, l).tail = "clean"
      BY <1>8 DEF WriteLine
    <2> QED
      BY <1>12, <1>15, <2>1, <2>2
  <1> QED
    BY <1>10, <1>11, <1>13, <1>14, <1>15

\* So what was safe stays so, and the entries are those there were and perhaps
\* the new one.
LEMMA LineKeeps ==
    ASSUME NEW c \in Content, NEW l \in EntryOf, NEW d, d \in {WriteLine(c, l)} \cup CutLine(c, l)
    PROVE  /\ d \in Content
           /\ Starts(EntriesOf(d), Append(EntriesOf(c), l))
           /\ \A es \in Seq(EntryOf) : SafeIn(c, es) => SafeIn(d, es)
           /\ c.tail = "clean" => SafeIn(d, EntriesOf(c))
  <1>1. /\ d \in Content
        /\ Len(c.lines) \in Nat /\ Len(d.lines) \in Nat /\ WholeLen(c) <= WholeLen(d)
        /\ Len(d.lines) <= Len(c.lines) + 1
        /\ \A i \in 1..Len(d.lines) : d.lines[i] = IF i <= Len(c.lines) THEN c.lines[i] ELSE l
    BY LineOutcome
  <1>2. /\ WholeLen(c) = IF c.tail = "open" THEN Len(c.lines) - 1 ELSE Len(c.lines)
        /\ WholeLen(d) = IF d.tail = "open" THEN Len(d.lines) - 1 ELSE Len(d.lines)
    BY DEF WholeLen
  <1>3. WholeLen(c) \in Int /\ WholeLen(d) \in Int /\ WholeLen(c) <= Len(c.lines) /\ WholeLen(d) <= Len(d.lines)
    BY <1>1, <1>2
  <1> DEFINE t == EntriesOf(c)
  <1>4. /\ t \in Seq(EntryOf) /\ (IsSession(c) => Holds(c, t)) /\ (~IsSession(c) => t = <<>>)
        /\ IsSession(c) <=> Len(c.lines) > 0 /\ c.lines[1].kind = "session"
    BY EntriesAre
  <1> HIDE DEF t
  <1>5. ASSUME NEW es \in Seq(EntryOf), SafeIn(c, es)
        PROVE  SafeIn(d, es)
    <2> SUFFICES ASSUME es # <<>>
                 PROVE  /\ d.lines[1].kind = "session"
                        /\ Len(es) + 1 <= WholeLen(d)
                        /\ \A i \in 1..Len(es) : d.lines[i + 1] = es[i]
      BY DEF SafeIn
    <2>1. /\ c.lines[1].kind = "session" /\ Len(es) + 1 <= WholeLen(c)
          /\ \A i \in 1..Len(es) : c.lines[i + 1] = es[i]
      BY <1>5 DEF SafeIn
    <2>2. Len(es) \in Nat /\ Len(es) + 1 <= Len(c.lines) /\ Len(es) + 1 <= Len(d.lines)
      BY <1>1, <1>3, <2>1, LenProperties
    <2>3. Len(es) + 1 <= WholeLen(d)
      BY <1>1, <1>3, <2>1, <2>2
    <2>4. 1 \in 1..Len(d.lines) /\ 1 <= Len(c.lines)
      BY <1>1, <2>2
    <2>5. \A i \in 1..Len(es) : i + 1 \in 1..Len(d.lines) /\ i + 1 <= Len(c.lines)
      BY <1>1, <2>2
    <2> QED
      BY <1>1, <2>1, <2>3, <2>4, <2>5
  <1>6. ASSUME c.tail = "clean"
        PROVE  SafeIn(c, t)
    <2> SUFFICES ASSUME t # <<>>
                 PROVE  /\ c.lines[1].kind = "session" /\ Len(t) + 1 <= WholeLen(c)
                        /\ \A i \in 1..Len(t) : c.lines[i + 1] = t[i]
      BY DEF SafeIn
    <2>1. Holds(c, t)
      BY <1>4
    <2>2. WholeLen(c) = Len(c.lines)
      BY <1>2, <1>6
    <2> QED
      BY <1>1, <2>1, <2>2 DEF Holds
  <1> DEFINE u == Append(t, l)
  <1>7. /\ u \in Seq(EntryOf) /\ Len(t) \in Nat /\ Len(u) = Len(t) + 1 /\ Starts(t, u) /\ u[Len(t) + 1] = l
    BY <1>4, AtEnd
  <1> HIDE DEF u
  <1>8. Starts(EntriesOf(d), u)
    <2>1. \A i \in 1..Len(d.lines) : i <= Len(c.lines) => d.lines[i] = c.lines[i]
      BY <1>1
    <2>2. Len(c.lines) = 0 => Len(d.lines) = 0 \/ d.lines[1].kind # "session"
      <3> SUFFICES ASSUME Len(c.lines) = 0, Len(d.lines) # 0
                   PROVE  d.lines[1].kind # "session"
        OBVIOUS
      <3>1. 1 \in 1..Len(d.lines) /\ ~(1 <= Len(c.lines))
        BY <1>1
      <3> QED
        BY <1>1, <3>1, LineKinds
    <2>3. CASE IsSession(c)
      <3>1. Len(c.lines) = Len(t) + 1
        BY <2>3, <1>4 DEF Holds
      <3>2. Len(d.lines) <= Len(u) + 1
        BY <1>1, <1>7, <3>1
      <3>3. ASSUME NEW i \in 1..Len(d.lines), i > Len(c.lines)
            PROVE  d.lines[i] = u[i - 1]
        <4>1. i - 1 = Len(t) + 1 /\ ~(i <= Len(c.lines))
          BY <1>1, <1>7, <3>1, <3>3
        <4> QED
          BY <1>1, <1>7, <4>1
      <3> QED
        BY <1>1, <1>7, <2>1, <2>2, <3>2, <3>3, LinesStart DEF t
    <2>4. CASE ~IsSession(c)
      <3>1. ~IsSession(d)
        <4>1. IsSession(d) <=> Len(d.lines) > 0 /\ d.lines[1].kind = "session"
          BY <1>1, EntriesAre
        <4> SUFFICES ASSUME Len(d.lines) > 0, d.lines[1].kind = "session"
                     PROVE  FALSE
          BY <4>1
        <4>2. 1 \in 1..Len(d.lines)
          BY <1>1
        <4>3. CASE Len(c.lines) = 0
          BY <4>3, <2>2
        <4>4. CASE Len(c.lines) > 0
          <5>1. d.lines[1] = c.lines[1]
            BY <4>2, <4>4, <1>1, <2>1
          <5> QED
            BY <5>1, <4>4, <1>4, <2>4
        <4> QED
          BY <4>3, <4>4, <1>1
      <3>2. EntriesOf(d) = <<>>
        BY <1>1, <3>1, EntriesAre
      <3> QED
        BY <3>2, <1>7 DEF Starts
    <2> QED
      BY <2>3, <2>4
  <1> QED
    BY <1>1, <1>4, <1>5, <1>6, <1>8 DEF t, u

\* A single line.
LEMMA OneLine ==
    ASSUME NEW c \in Content, NEW l \in EntryOf
    PROVE  WriteLines(c, <<l>>) = WriteLine(c, l) /\ \A d : d \in CutShort(c, <<l>>) <=> d \in CutLine(c, l)
  <1> DEFINE d == WriteLine(c, l)
  <1>1. d \in Content
    BY LineOutcome
  <1>2. Head(<<l>>) = l /\ Tail(<<l>>) = <<>> /\ <<l>> # <<>> /\ Len(<<l>>) = 1 /\ <<l>>[1] = l
    OBVIOUS
  <1>3. WriteLines(c, <<l>>) = [d EXCEPT !.lines = @ \o <<>>]
    BY <1>2 DEF WriteLines
  <1> HIDE DEF d
  <1>4. d.lines \o <<>> = d.lines
    <2>1. d.lines \in Seq(Line)
      BY <1>1 DEF Content
    <2> QED
      BY <2>1, ConcatEmptySeq
  <1>5. d = [exists |-> d.exists, lines |-> d.lines, malformed |-> d.malformed, tail |-> d.tail]
    BY <1>1 DEF Content
  <1>6. WriteLines(c, <<l>>) = d
    BY <1>3, <1>4, <1>5
  <1>7. \A x : x \in CutShort(c, <<l>>) <=>
                \E i \in 1..1 : x \in CutLine(WriteLines(c, SubSeq(<<l>>, 1, i - 1)), <<l>>[i])
    BY <1>2 DEF CutShort
  <1>8. SubSeq(<<l>>, 1, 1 - 1) = <<>>
    BY SubSeqEmpty
  <1>9. WriteLines(c, SubSeq(<<l>>, 1, 1 - 1)) = c
    BY <1>8 DEF WriteLines
  <1>10. \A x : x \in CutShort(c, <<l>>) <=> x \in CutLine(WriteLines(c, SubSeq(<<l>>, 1, 1 - 1)), <<l>>[1])
    <2>1. 1..1 = {1}
      OBVIOUS
    <2> QED
      BY <1>7, <2>1
  <1> QED
    BY <1>2, <1>6, <1>9, <1>10 DEF d

\* A session in its file stays there with its next entry.
LEMMA HeldAppend ==
    ASSUME NEW c \in Content, c.tail = "clean", NEW es \in Seq(EntryOf), Holds(c, es), NEW l \in EntryOf
    PROVE  /\ WriteLine(c, l) \in Content /\ WriteLine(c, l).tail = "clean"
           /\ Holds(WriteLine(c, l), Append(es, l))
  <1> DEFINE d == WriteLine(c, l)
             u == Append(es, l)
  <1>1. /\ d \in Content /\ d.tail = "clean" /\ Len(d.lines) = Len(c.lines) + 1 /\ Len(c.lines) \in Nat
        /\ \A i \in 1..Len(d.lines) : d.lines[i] = IF i <= Len(c.lines) THEN c.lines[i] ELSE l
    BY LineOutcome
  <1>2. /\ u \in Seq(EntryOf) /\ Len(es) \in Nat /\ Len(u) = Len(es) + 1 /\ u[Len(es) + 1] = l
        /\ \A i \in 1..Len(es) : u[i] = es[i]
    BY AtEnd
  <1> HIDE DEF d, u
  <1>3. /\ Len(c.lines) = Len(es) + 1 /\ c.lines[1].kind = "session"
        /\ \A i \in 1..Len(es) : c.lines[i + 1] = es[i]
    BY DEF Holds
  <1>4. 1 \in 1..Len(d.lines) /\ 1 <= Len(c.lines)
    BY <1>1, <1>2, <1>3
  <1>5. ASSUME NEW i \in 1..Len(u)
        PROVE  d.lines[i + 1] = u[i]
    <2>1. CASE i \in 1..Len(es)
      <3>1. i + 1 \in 1..Len(d.lines) /\ i + 1 <= Len(c.lines)
        BY <2>1, <1>1, <1>2, <1>3
      <3> QED
        BY <2>1, <3>1, <1>1, <1>2, <1>3
    <2>2. CASE i = Len(es) + 1
      <3>1. i + 1 \in 1..Len(d.lines) /\ ~(i + 1 <= Len(c.lines))
        BY <2>2, <1>1, <1>2, <1>3
      <3> QED
        BY <2>2, <3>1, <1>1, <1>2
    <2> QED
      BY <2>1, <2>2, <1>2
  <1>6. Holds(d, u)
    <2>1. Len(d.lines) = Len(u) + 1
      BY <1>1, <1>2, <1>3
    <2>2. d.lines[1].kind = "session"
      BY <1>1, <1>3, <1>4
    <2> QED
      BY <2>1, <2>2, <1>5 DEF Holds
  <1> QED
    BY <1>1, <1>6 DEF d, u

\* A file gets other lines.
LEMMA OtherLines ==
    ASSUME NEW ls, NEW c, c = [exists |-> TRUE, lines |-> ls, malformed |-> FALSE, tail |-> "clean"], NEW n
    PROVE  [c EXCEPT !.lines = n] = [exists |-> TRUE, lines |-> n, malformed |-> FALSE, tail |-> "clean"]
  <1>1. ASSUME NEW d, d = [c EXCEPT !.lines = n]
        PROVE  d = [exists |-> TRUE, lines |-> n, malformed |-> FALSE, tail |-> "clean"]
    BY <1>1
  <1> QED
    BY <1>1, Zenon

\* A file comes into being.
LEMMA NowExists ==
    ASSUME NEW ls, NEW c, c = [exists |-> FALSE, lines |-> ls, malformed |-> FALSE, tail |-> "clean"]
    PROVE  [c EXCEPT !.exists = TRUE] = [exists |-> TRUE, lines |-> ls, malformed |-> FALSE, tail |-> "clean"]
  <1>1. ASSUME NEW d, d = [c EXCEPT !.exists = TRUE]
        PROVE  d = [exists |-> TRUE, lines |-> ls, malformed |-> FALSE, tail |-> "clean"]
    BY <1>1
  <1> QED
    BY <1>1, Zenon

\* No file, and a file of size zero.
LEMMA EmptyContent ==
    /\ Empty \in Content /\ Absent \in Content /\ Empty.lines = <<>> /\ Empty.tail = "clean" /\ Empty.exists
    /\ ~Absent.exists /\ Absent.tail = "clean" /\ EntriesOf(Empty) = <<>> /\ EntriesOf(Absent) = <<>>
    /\ Absent.lines = <<>>
    /\ Empty = [exists |-> TRUE, lines |-> <<>>, malformed |-> FALSE, tail |-> "clean"]
  <1>1. <<>> \in Seq(Line) /\ Len(<<>>) = 0
    OBVIOUS
  <1>2. /\ Empty = [exists |-> TRUE, lines |-> <<>>, malformed |-> FALSE, tail |-> "clean"]
        /\ Absent = [exists |-> FALSE, lines |-> <<>>, malformed |-> FALSE, tail |-> "clean"]
    <2> DEFINE none == <<>>
    <2>1. Absent = [exists |-> FALSE, lines |-> none, malformed |-> FALSE, tail |-> "clean"]
      BY DEF Absent
    <2> HIDE DEF none
    <2> DEFINE c == Absent
    <2>2. [c EXCEPT !.exists = TRUE] = [exists |-> TRUE, lines |-> none, malformed |-> FALSE, tail |-> "clean"]
      <3>1. c = [exists |-> FALSE, lines |-> none, malformed |-> FALSE, tail |-> "clean"]
        BY <2>1
      <3> HIDE DEF c
      <3> QED
        BY <3>1, NowExists
    <2> QED
      BY <2>1, <2>2 DEF Empty, none
  <1>3. \A i \in 2..0 : FALSE
    OBVIOUS
  <1>4. Empty \in Content /\ Absent \in Content
    BY <1>1, <1>2, <1>3 DEF Content
  <1>5. ~IsSession(Empty) /\ ~IsSession(Absent)
    BY <1>2 DEF IsSession, Load
  <1> QED
    BY <1>2, <1>4, <1>5 DEF EntriesOf

\* The first lines of a new file.
LEMMA FirstLine ==
    ASSUME NEW l, NEW s
    PROVE  [WriteLine(Empty, l) EXCEPT !.lines = @ \o s]
              = [exists |-> TRUE, lines |-> <<l>> \o s, malformed |-> FALSE, tail |-> "clean"]
  <1> DEFINE a == <<l>>
             c == WriteLine(Empty, l)
             b == c.lines \o s
  <1>1. Append(<<>>, l) = a
    OBVIOUS
  <1>2. c = [Empty EXCEPT !.lines = Append(<<>>, l)]
    BY EmptyContent DEF WriteLine
  <1> HIDE DEF a
  <1>3. c = [exists |-> TRUE, lines |-> a, malformed |-> FALSE, tail |-> "clean"]
    BY <1>1, <1>2, EmptyContent
  <1> HIDE DEF c
  <1>4. b = a \o s
    BY <1>3
  <1> HIDE DEF b
  <1>5. [c EXCEPT !.lines = b] = [exists |-> TRUE, lines |-> b, malformed |-> FALSE, tail |-> "clean"]
    BY <1>3, OtherLines
  <1>6. [c EXCEPT !.lines = b] = [exists |-> TRUE, lines |-> a \o s, malformed |-> FALSE, tail |-> "clean"]
    BY <1>4, <1>5
  <1> QED
    BY <1>6 DEF a, b, c

\* The lines of a file written in full.
LEMMA CreatedLines ==
    ASSUME NEW es \in Seq(EntryOf)
    PROVE  /\ Created(es) \in Seq(Line) /\ Len(es) \in Nat /\ Len(Created(es)) = Len(es) + 1
           /\ Created(es)[1] = Header
           /\ \A i \in 1..Len(es) : Created(es)[i + 1] = es[i]
           /\ \A i \in 2..Len(Created(es)) : Created(es)[i] \in EntryOf
  <1> DEFINE h == <<Header>>
             s == h \o es
  <1>1. h \in Seq(Line) /\ es \in Seq(Line) /\ Len(h) = 1 /\ h[1] = Header
    BY LineKinds, EntriesAreLines
  <1>2. Len(es) \in Nat
    BY LenProperties
  <1> HIDE DEF h
  <1>3. /\ s \in Seq(Line) /\ Len(s) = 1 + Len(es)
        /\ \A i \in 1..(1 + Len(es)) : s[i] = IF i <= 1 THEN h[i] ELSE es[i - 1]
    <2>1. /\ s \in Seq(Line) /\ Len(s) = Len(h) + Len(es)
          /\ \A i \in 1..(Len(h) + Len(es)) : s[i] = IF i <= Len(h) THEN h[i] ELSE es[i - Len(h)]
      BY <1>1, ConcatProperties
    <2> QED
      BY <1>1, <2>1
  <1>4. Created(es) = s
    BY DEF Created, h
  <1> HIDE DEF s
  <1>5. s[1] = Header
    BY <1>1, <1>2, <1>3
  <1>6. ASSUME NEW i \in 1..Len(es)
        PROVE  s[i + 1] = es[i]
    <2>1. i + 1 \in 1..(1 + Len(es)) /\ ~(i + 1 <= 1) /\ i + 1 - 1 = i
      BY <1>2
    <2> QED
      BY <2>1, <1>3
  <1>7. ASSUME NEW i \in 2..Len(s)
        PROVE  s[i] \in EntryOf
    <2>1. i - 1 \in 1..Len(es) /\ (i - 1) + 1 = i
      BY <1>2, <1>3
    <2>2. s[i] = es[i - 1]
      BY <2>1, <1>6
    <2> QED
      BY <2>1, <2>2, ElementOfSeq
  <1> QED
    BY <1>2, <1>3, <1>4, <1>5, <1>6, <1>7

\* A file written in full holds its session.
LEMMA CreatedHeld ==
    ASSUME NEW es \in Seq(EntryOf), NEW d, d = WriteLines(Empty, Created(es))
    PROVE  d \in Content /\ Holds(d, es) /\ d.tail = "clean" /\ d.exists
  <1> DEFINE s == Created(es)
  <1>1. /\ s \in Seq(Line) /\ Len(es) \in Nat /\ Len(s) = Len(es) + 1
        /\ s[1] = Header
        /\ \A i \in 1..Len(es) : s[i + 1] = es[i]
        /\ \A i \in 2..Len(s) : s[i] \in EntryOf
    BY CreatedLines
  <1>2. d = IF s = <<>> THEN Empty ELSE [WriteLine(Empty, Head(s)) EXCEPT !.lines = @ \o Tail(s)]
    BY DEF WriteLines
  <1> HIDE DEF s
  <1>3. s # <<>>
    <2>1. Len(s) # 0
      BY <1>1
    <2> QED
      BY <2>1
  <1>4. Head(s) = s[1]
    BY <1>1, <1>3
  <1>6. <<Header>> \o Tail(s) = s
    <2>1. 1 \in 1..Len(s) /\ Len(s) \in 1..Len(s)
      BY <1>1
    <2>2. SubSeq(s, 1, Len(s)) = <<s[1]>> \o SubSeq(s, 1 + 1, Len(s))
      BY <1>1, <2>1, SubSeqRecursiveFirst
    <2>3. SubSeq(s, 1, Len(s)) = s
      BY <1>1, SubSeqFull
    <2>4. Tail(s) = SubSeq(s, 2, Len(s))
      BY <1>1, <1>3, TailIsSubSeq
    <2> QED
      BY <1>1, <2>2, <2>3, <2>4
  <1>7. d = [WriteLine(Empty, Header) EXCEPT !.lines = @ \o Tail(s)]
    BY <1>1, <1>2, <1>3, <1>4
  <1> DEFINE t == Tail(s)
  <1>8. d = [exists |-> TRUE, lines |-> s, malformed |-> FALSE, tail |-> "clean"]
    <2>1. <<Header>> \o t = s /\ d = [WriteLine(Empty, Header) EXCEPT !.lines = @ \o t]
      BY <1>6, <1>7
    <2> HIDE DEF t
    <2>2. [WriteLine(Empty, Header) EXCEPT !.lines = @ \o t]
             = [exists |-> TRUE, lines |-> <<Header>> \o t, malformed |-> FALSE, tail |-> "clean"]
      BY FirstLine
    <2> QED
      BY <2>1, <2>2, Zenon
  <1>9. d.lines = s
    BY <1>8
  <1>10. d \in Content
    BY <1>1, <1>8 DEF Content
  <1>11. Holds(d, es)
    BY <1>1, <1>9, LineKinds DEF Holds
  <1> QED
    BY <1>8, <1>10, <1>11

\* A file whose writing was cut short holds the first of its entries.
LEMMA CreatedCut ==
    ASSUME NEW es \in Seq(EntryOf), NEW d, d \in CutShort(Empty, Created(es))
    PROVE  d \in Content /\ Starts(EntriesOf(d), es)
  <1> DEFINE s == Created(es)
  <1>1. /\ s \in Seq(Line) /\ Len(es) \in Nat /\ Len(s) = Len(es) + 1
        /\ s[1] = Header
        /\ \A i \in 1..Len(es) : s[i + 1] = es[i]
        /\ \A i \in 2..Len(s) : s[i] \in EntryOf
    BY CreatedLines
  <1>2. PICK k \in 1..Len(s) : d \in CutLine(WriteLines(Empty, SubSeq(s, 1, k - 1)), s[k])
    BY DEF CutShort
  <1> DEFINE p == SubSeq(s, 1, k - 1)
             c == WriteLines(Empty, p)
  <1> HIDE DEF s
  <1>3. /\ p \in Seq(Line) /\ Len(p) = k - 1 /\ \A i \in 1..(k - 1) : p[i] = s[i]
    <2>1. 1 \in Int /\ k - 1 \in Int /\ \A i \in 1..(k - 1) : s[i] \in Line
      BY <1>1, ElementOfSeq
    <2>2. /\ SubSeq(s, 1, k - 1) \in Seq(Line)
          /\ Len(SubSeq(s, 1, k - 1)) = IF 1 <= k - 1 THEN k - 1 - 1 + 1 ELSE 0
          /\ \A i \in 1..(k - 1 - 1 + 1) : SubSeq(s, 1, k - 1)[i] = s[1 + i - 1]
      BY <2>1, SubSeqProperties
    <2>3. k - 1 - 1 + 1 = k - 1 /\ (~(1 <= k - 1) => k - 1 = 0) /\ \A i \in 1..(k - 1) : 1 + i - 1 = i
      OBVIOUS
    <2> QED
      BY <2>2, <2>3
  <1>4. c = IF p = <<>> THEN Empty ELSE [WriteLine(Empty, Head(p)) EXCEPT !.lines = @ \o Tail(p)]
    BY DEF WriteLines
  <1> HIDE DEF p
  <1>5. c = [exists |-> TRUE, lines |-> p, malformed |-> FALSE, tail |-> "clean"]
    <2>1. CASE p = <<>>
      BY <1>4, <2>1, EmptyContent
    <2>2. CASE p # <<>>
      <3>1. Head(p) = p[1] /\ Len(p) > 0
        BY <1>3, <2>2, EmptySeq
      <3>3. <<p[1]>> \o Tail(p) = p
        <4>1. Len(p) \in Nat /\ 1 \in 1..Len(p) /\ Len(p) \in 1..Len(p)
          BY <1>3, <3>1
        <4>2. SubSeq(p, 1, Len(p)) = <<p[1]>> \o SubSeq(p, 1 + 1, Len(p))
          BY <1>3, <4>1, SubSeqRecursiveFirst
        <4>3. SubSeq(p, 1, Len(p)) = p /\ Tail(p) = SubSeq(p, 2, Len(p))
          BY <1>3, <2>2, SubSeqFull, TailIsSubSeq
        <4> QED
          BY <4>2, <4>3
      <3>4. c = [WriteLine(Empty, p[1]) EXCEPT !.lines = @ \o Tail(p)]
        BY <1>4, <2>2, <3>1
      <3> DEFINE t == Tail(p)
                 l == p[1]
      <3>5. <<l>> \o t = p /\ c = [WriteLine(Empty, l) EXCEPT !.lines = @ \o t]
        BY <3>3, <3>4
      <3> HIDE DEF t, l
      <3>6. [WriteLine(Empty, l) EXCEPT !.lines = @ \o t]
               = [exists |-> TRUE, lines |-> <<l>> \o t, malformed |-> FALSE, tail |-> "clean"]
        BY FirstLine
      <3> QED
        BY <3>5, <3>6, Zenon
    <2> QED
      BY <2>1, <2>2
  <1>6. d \in CutLine(c, s[k])
    BY <1>2 DEF p
  <1> HIDE DEF c
  <1> DEFINE a == Append(p, s[k])
  <1>7. s[k] \in Line /\ Len(p) \in Nat /\ k \in 1..Len(s) /\ k = Len(p) + 1
    BY <1>1, <1>3, ElementOfSeq
  <1>8. /\ a \in Seq(Line) /\ Len(a) = Len(p) + 1 /\ a[Len(p) + 1] = s[k]
        /\ \A i \in 1..Len(p) : a[i] = p[i]
    BY <1>3, <1>7, AppendProperties
  <1> HIDE DEF a
  <1>9. d \in {c, [c EXCEPT !.tail = "torn"], [c EXCEPT !.tail = "open", !.lines = a]}
    <2>1. WholeLines(c) = p /\ c.lines = p
      BY <1>5 DEF WholeLines
    <2>2. [c EXCEPT !.tail = "torn", !.lines = WholeLines(c)] = [c EXCEPT !.tail = "torn"]
      BY <1>5, <2>1
    <2> QED
      BY <1>6, <2>1, <2>2 DEF CutLine, a
  <1>10. /\ d.lines \in {p, a}
         /\ d.tail \in {"clean", "torn", "open"}
         /\ d = [exists |-> TRUE, lines |-> d.lines, malformed |-> FALSE, tail |-> d.tail]
    <2>1. CASE d = c
      BY <1>5, <2>1
    <2>2. CASE d = [c EXCEPT !.tail = "torn"]
      BY <1>5, <2>2
    <2>3. CASE d = [c EXCEPT !.tail = "open", !.lines = a]
      BY <1>5, <2>3
    <2> QED
      BY <1>9, <2>1, <2>2, <2>3
  <1> DEFINE ls == d.lines
  <1>11. ls \in {p, a}
    BY <1>10
  <1>12. /\ ls \in Seq(Line) /\ Len(ls) \in Nat /\ Len(ls) <= Len(s)
         /\ \A i \in 1..Len(ls) : ls[i] = s[i]
    <2> HIDE DEF ls
    <2>1. CASE ls = p
      <3>1. Len(p) <= Len(s) /\ \A i \in 1..Len(p) : p[i] = s[i]
        BY <1>1, <1>3, <1>7
      <3> QED
        BY <2>1, <3>1, <1>3, <1>7
    <2>2. CASE ls = a
      <3>1. \A i \in 1..Len(a) : i \in 1..Len(p) \/ i = k
        BY <1>7, <1>8
      <3>2. Len(a) \in Nat /\ Len(a) <= Len(s)
        BY <1>1, <1>7, <1>8
      <3>3. \A i \in 1..Len(p) : a[i] = s[i]
        BY <1>3, <1>7, <1>8
      <3>4. a[k] = s[k]
        BY <1>7, <1>8
      <3>5. \A i \in 1..Len(a) : a[i] = s[i]
        BY <3>1, <3>3, <3>4
      <3> QED
        BY <2>2, <3>2, <3>5, <1>8
    <2> QED
      BY <2>1, <2>2, <1>11
  <1>13. \A i \in 2..Len(ls) : i \in 1..Len(ls) /\ i \in 2..Len(s)
    BY <1>1, <1>12
  <1>14. d \in Content
    <2> DEFINE end == d.tail
    <2>1. \A i \in 2..Len(ls) : ls[i] \in EntryOf
      BY <1>1, <1>12, <1>13
    <2>2. d = [exists |-> TRUE, lines |-> ls, malformed |-> FALSE, tail |-> end] /\ end \in {"clean", "torn", "open"}
      BY <1>10
    <2> HIDE DEF ls, end
    <2> QED
      BY <2>1, <2>2, <1>12 DEF Content
  <1> DEFINE t == EntriesOf(d)
  <1>15. /\ t \in Seq(EntryOf) /\ (IsSession(d) => Holds(d, t)) /\ (~IsSession(d) => t = <<>>)
    BY <1>14, EntriesAre
  <1> HIDE DEF t
  <1>16. CASE IsSession(d)
    <2>1. Len(t) \in Nat /\ Len(ls) = Len(t) + 1 /\ \A i \in 1..Len(t) : ls[i + 1] = t[i]
      BY <1>15, <1>16, LenProperties DEF Holds
    <2>2. \A i \in 1..Len(t) : i + 1 \in 1..Len(ls) /\ i \in 1..Len(es)
      BY <1>1, <1>12, <2>1
    <2>3. Len(t) <= Len(es)
      BY <1>1, <1>12, <2>1
    <2> QED
      BY <1>1, <1>12, <1>14, <2>1, <2>2, <2>3 DEF Starts, t
  <1>17. CASE ~IsSession(d)
    BY <1>1, <1>14, <1>15, <1>17 DEF Starts, t
  <1> QED
    BY <1>16, <1>17

-----------------------------------------------------------------------------
(* Branches. *)

\* The least of some numbers.
LEMMA LeastOf ==
    ASSUME NEW T, T \subseteq Nat, T # {}
    PROVE  \E x \in T : \A y \in T : x <= y
  <1> DEFINE upTo(x) == 1..x
             F == {upTo(x) : x \in T}
  <1>1. F \subseteq FiniteSubsetsOf(Nat) /\ F # {}
    <2>1. ASSUME NEW x \in T
          PROVE  upTo(x) \in FiniteSubsetsOf(Nat)
      <3>1. x \in Nat
        OBVIOUS
      <3>2. IsFiniteSet(1..x)
        BY <3>1, FS_Interval
      <3>3. 1..x \subseteq Nat
        BY <3>1
      <3> QED
        BY <3>2, <3>3 DEF FiniteSubsetsOf
    <2> QED
      BY <2>1
  <1>2. IsWellFoundedOn(StrictSubsetOrdering(Nat), FiniteSubsetsOf(Nat))
    BY FS_StrictSubsetOrderingWellFounded
  <1>3. \E s \in F : \A r \in F : ~ (<<r, s>> \in StrictSubsetOrdering(Nat))
    <2> HIDE DEF F
    <2> QED
      BY <1>1, <1>2, WFMin
  <1>4. PICK x \in T : \A y \in T : ~ (<<upTo(y), upTo(x)>> \in StrictSubsetOrdering(Nat))
    BY <1>3
  <1>5. ASSUME NEW y \in T, ~(x <= y)
        PROVE  FALSE
    <2>1. x \in Nat /\ y \in Nat /\ y < x
      BY <1>5
    <2>2. upTo(y) \subseteq upTo(x) /\ x \in upTo(x) /\ x \notin upTo(y) /\ upTo(x) \subseteq Nat /\ upTo(y) \subseteq Nat
      BY <2>1
    <2> HIDE DEF upTo
    <2>3. <<upTo(y), upTo(x)>> \in StrictSubsetOrdering(Nat)
      BY <2>2 DEF StrictSubsetOrdering
    <2> QED
      BY <1>4, <2>3
  <1> QED
    BY <1>5

\* The last of some positions.
LEMMA MaxIn ==
    ASSUME NEW n \in Nat, NEW I, I \subseteq 1..n, I # {}
    PROVE  Max(I) \in I
  <1> DEFINE T == {n - i : i \in I}
  <1>1. T \subseteq Nat /\ T # {}
    <2>1. \A i \in I : n - i \in Nat
      OBVIOUS
    <2> QED
      BY <2>1
  <1>2. \E x \in T : \A y \in T : x <= y
    <2> HIDE DEF T
    <2> QED
      BY <1>1, LeastOf
  <1>3. PICK i \in I : \A j \in I : n - i <= n - j
    BY <1>2
  <1>4. \A j \in I : i >= j
    <2>1. \A j \in I : j \in Int /\ i \in Int
      OBVIOUS
    <2> QED
      BY <1>3, <2>1
  <1> QED
    BY <1>4 DEF Max

\* The entries of a key.
LEMMA AtKey ==
    ASSUME NEW es \in Seq(EntryOf), NEW k \in Keys(es)
    PROVE  ById(es)[k] \in 1..Len(es) /\ es[ById(es)[k]] \in EntryOf /\ Key(es[ById(es)[k]]) = k
  <1> DEFINE I == {i \in 1..Len(es) : Key(es[i]) = k}
  <1>1. Len(es) \in Nat /\ DOMAIN es = 1..Len(es)
    BY LenProperties
  <1>2. I # {} /\ I \subseteq 1..Len(es)
    BY <1>1 DEF Keys
  <1>3. ById(es)[k] = IF I # {} THEN Max(I) ELSE 0
    BY DEF ById, SelectLastInSeq
  <1> DEFINE n == Len(es)
  <1>4. Max(I) \in I
    <2>1. n \in Nat /\ I \subseteq 1..n
      BY <1>1, <1>2
    <2> HIDE DEF I, n
    <2> QED
      BY <2>1, <1>2, MaxIn
  <1>5. ById(es)[k] \in 1..Len(es) /\ Key(es[ById(es)[k]]) = k
    BY <1>2, <1>3, <1>4
  <1> QED
    BY <1>5, ElementOfSeq

\* The entry of a key, and what BranchOf does at it.
Found(es, x) == es[ById(es)[x]]

\* One step of the recursion of BranchOf.
StepOf(es, kinds, path, x) ==
    LET before == IF Found(es, x).parent \in Keys(es) THEN path[Found(es, x).parent] ELSE <<>>
    IN  IF Found(es, x).kind \in kinds THEN Append(before, Found(es, x)) ELSE before

\* The recursive function of BranchOf, by its equation.
IsPath(es, kinds, path) == path = [x \in Keys(es) |-> StepOf(es, kinds, path, x)]

\* BranchOf applies a function that satisfies the equation.
LEMMA BranchIs ==
    ASSUME NEW es, NEW k, NEW kinds
    PROVE  BranchOf(es, k, kinds) = IF k \in Keys(es) THEN (CHOOSE path : IsPath(es, kinds, path))[k] ELSE <<>>
  BY DEF BranchOf, IsPath, StepOf, Found

\* What a key can be.
LEMMA KeyTyped ==
    ASSUME NEW e \in EntryOf
    PROVE  /\ e.id \in Nat \ {0} /\ e.parent \in Nat /\ e.old \in BOOLEAN
           /\ Key(e) \in (Nat \ {0}) \cup {Undefined}
           /\ e.old <=> Key(e) = Undefined
           /\ ~e.old => Key(e) = e.id
  BY DEF EntryOf, Key, Undefined

\* What the keys of entries can be.
LEMMA KeysTyped ==
    ASSUME NEW es \in Seq(EntryOf)
    PROVE  /\ \A k \in Keys(es) : k \in (Nat \ {0}) \cup {Undefined} /\ \E i \in 1..Len(es) : k = Key(es[i])
           /\ \A i \in 1..Len(es) : Key(es[i]) \in Keys(es)
           /\ None \notin Keys(es)
  <1>1. DOMAIN es = 1..Len(es)
    BY LenProperties
  <1>2. \A i \in 1..Len(es) : es[i] \in EntryOf
    BY ElementOfSeq
  <1>3. \A k \in Keys(es) : \E i \in 1..Len(es) : k = Key(es[i])
    BY <1>1 DEF Keys
  <1>4. \A k \in Keys(es) : k \in (Nat \ {0}) \cup {Undefined}
    BY <1>2, <1>3, KeyTyped
  <1>5. \A i \in 1..Len(es) : Key(es[i]) \in Keys(es)
    BY <1>1 DEF Keys
  <1>6. None \notin (Nat \ {0}) \cup {Undefined}
    BY DEF None, Undefined
  <1> QED
    BY <1>3, <1>4, <1>5, <1>6

\* A parent that is found was made before its child.
LEMMA ParentBefore ==
    ASSUME NEW es \in Seq(EntryOf), NEW n \in Nat, Numbered(es, n), NEW x \in Keys(es)
    PROVE  /\ Found(es, x) \in EntryOf /\ Key(Found(es, x)) = x
           /\ \E j \in 1..Len(es) : Found(es, x) = es[j]
           /\ Found(es, x).id <= n
           /\ x \in Nat => x = Found(es, x).id
           /\ Found(es, x).parent \in Keys(es) => x \in Nat /\ Found(es, x).parent < x /\ ~Found(es, x).old
  <1> DEFINE e == Found(es, x)
  <1>1. PICK j \in 1..Len(es) : j = ById(es)[x] /\ es[j] \in EntryOf /\ Key(es[j]) = x
    BY AtKey
  <1>2. e = es[j]
    BY <1>1 DEF Found
  <1>3. e.id <= n /\ e.parent < e.id /\ (e.old => e.parent = None)
    BY <1>2 DEF Numbered
  <1>4. /\ e.id \in Nat \ {0} /\ e.parent \in Nat /\ e.old \in BOOLEAN
        /\ e.old <=> x = Undefined
        /\ ~e.old => x = e.id
    BY <1>1, <1>2, KeyTyped
  <1>5. x \in Nat => ~e.old
    BY <1>4 DEF Undefined
  <1>6. e.parent \in Keys(es) => ~e.old
    BY <1>3, KeysTyped
  <1> QED
    BY <1>1, <1>2, <1>3, <1>4, <1>5, <1>6

\* BranchOf looks at the path to the parent only.
LEMMA StepSame ==
    ASSUME NEW es, NEW kinds, NEW p, NEW other, NEW x,
           Found(es, x).parent \in Keys(es) => p[Found(es, x).parent] = other[Found(es, x).parent]
    PROVE  StepOf(es, kinds, p, x) = StepOf(es, kinds, other, x)
  BY DEF StepOf

\* The paths to all entries exist: those to the keys up to m do, for each m.
LEMMA PathExists ==
    ASSUME NEW es \in Seq(EntryOf), NEW n \in Nat, Numbered(es, n), NEW kinds
    PROVE  \E path : IsPath(es, kinds, path)
  <1> DEFINE K(m) == {x \in Keys(es) : x <= m}
             above(x) == Found(es, x).parent
             step(p, x) == StepOf(es, kinds, p, x)
             sol(p, m) == p = [x \in K(m) |-> step(p, x)]
             T == {m \in Nat : ~ \E p : sol(p, m)}
  <1>1. /\ \A x \in Keys(es) : x \in Nat \/ x = -1
        /\ \A x \in Keys(es) : above(x) \in Keys(es) => x \in Nat /\ above(x) \in Nat /\ above(x) < x
    <2>1. \A x \in Keys(es) : x \in Nat \/ x = -1
      BY KeysTyped DEF Undefined
    <2>2. \A x \in Keys(es) : above(x) \in Keys(es) => x \in Nat /\ above(x) \in Nat /\ above(x) < x
      <3>1. ASSUME NEW x \in Keys(es), above(x) \in Keys(es)
            PROVE  x \in Nat /\ above(x) \in Nat /\ above(x) < x
        <4>1. Found(es, x) \in EntryOf /\ x \in Nat /\ above(x) < x
          BY <3>1, ParentBefore
        <4> QED
          BY <4>1, KeyTyped
      <3> QED
        BY <3>1
    <2> QED
      BY <2>1, <2>2
  <1>2. \A p, other, x : (above(x) \in Keys(es) => p[above(x)] = other[above(x)]) => step(p, x) = step(other, x)
    BY StepSame
  <1>3. \A x \in Keys(es) : x <= n
    <2>1. ASSUME NEW x \in Keys(es)
          PROVE  x <= n
      <3>1. Found(es, x) \in EntryOf /\ Found(es, x).id <= n /\ (x \in Nat => x = Found(es, x).id)
        BY ParentBefore
      <3> QED
        BY <3>1, <1>1
    <2> QED
      BY <2>1
  <1> HIDE DEF above, step
  <1>4. T = {}
    <2>1. SUFFICES ASSUME T # {}
                   PROVE  FALSE
      OBVIOUS
    <2>2. PICK m \in T : \A k \in T : m <= k
      <3>1. T \subseteq Nat
        OBVIOUS
      <3> HIDE DEF T
      <3> QED
        BY <2>1, <3>1, LeastOf
    <2>3. m \in Nat /\ ~ \E p : sol(p, m)
      OBVIOUS
    <2>4. PICK p : \A x \in K(m) : above(x) \in Keys(es) => above(x) \in K(m) /\ p[above(x)] = step(p, above(x))
      <3>1. CASE m = 0
        <4>1. \A x \in K(m) : above(x) \notin Keys(es)
          BY <3>1, <1>1
        <4> QED
          BY <4>1
      <3>2. CASE m # 0
        <4>1. m - 1 \in Nat /\ ~(m <= m - 1)
          BY <2>3, <3>2
        <4>2. m - 1 \notin T
          BY <4>1, <2>2
        <4>3. PICK p : sol(p, m - 1)
          BY <4>1, <4>2
        <4>4. \A x \in K(m) : above(x) \in Keys(es) => above(x) \in K(m) /\ above(x) \in K(m - 1)
          BY <1>1, <2>3
        <4>5. \A y \in K(m - 1) : p[y] = step(p, y)
          <5> DEFINE s(y) == step(p, y)
          <5>1. p = [y \in K(m - 1) |-> s(y)]
            BY <4>3
          <5> HIDE DEF s
          <5>2. \A y \in K(m - 1) : p[y] = s(y)
            BY <5>1
          <5> QED
            BY <5>2 DEF s
        <4> QED
          BY <4>4, <4>5
      <3> QED
        BY <3>1, <3>2
    <2> DEFINE other == [x \in K(m) |-> step(p, x)]
    <2>5. \A x \in K(m) : other[x] = step(p, x)
      OBVIOUS
    <2>6. \A x \in K(m) : step(p, x) = step(other, x)
      <3>1. \A x \in K(m) : above(x) \in Keys(es) => p[above(x)] = other[above(x)]
        BY <2>4, <2>5
      <3> HIDE DEF other
      <3> QED
        BY <3>1, <1>2
    <2>7. sol(other, m)
      <3>1. other = [x \in K(m) |-> step(p, x)]
        OBVIOUS
      <3> HIDE DEF other, K
      <3> QED
        BY <2>6, <3>1
    <2> QED
      BY <2>3, <2>7
  <1>5. PICK p : sol(p, n)
    BY <1>4
  <1>6. K(n) = Keys(es)
    BY <1>3
  <1> QED
    BY <1>5, <1>6 DEF IsPath, step

\* A path of entries of es: made one after the other, up to number top, and an
\* old one only at its root.
GoodPath(es, s, top) ==
    /\ s \in Seq(EntryOf)
    /\ \A i \in 1..Len(s) : s[i].id <= top /\ \E j \in 1..Len(es) : s[i] = es[j]
    /\ \A i, j \in 1..Len(s) : i < j => s[i].id < s[j].id
    /\ \A i \in 1..Len(s) : s[i].old => i = 1

\* The path before the root.
LEMMA NoPath ==
    ASSUME NEW es, NEW top
    PROVE  GoodPath(es, <<>>, top)
  <1>1. <<>> \in Seq(EntryOf) /\ Len(<<>>) = 0 /\ 1..0 = {}
    OBVIOUS
  <1> QED
    BY <1>1 DEF GoodPath

\* A path up to a number is one up to a higher number.
LEMMA PathHigher ==
    ASSUME NEW es, NEW s, NEW top \in Nat, NEW n \in Nat, top <= n, GoodPath(es, s, top)
    PROVE  GoodPath(es, s, n)
  <1>1. \A i \in 1..Len(s) : s[i] \in EntryOf /\ s[i].id <= top
    BY ElementOfSeq DEF GoodPath
  <1>2. \A i \in 1..Len(s) : s[i].id <= n
    BY <1>1, KeyTyped
  <1> QED
    BY <1>2 DEF GoodPath

\* A path goes on with an entry made later.
LEMMA PathAppend ==
    ASSUME NEW es, NEW s, NEW top \in Nat, GoodPath(es, s, top), NEW e \in EntryOf,
           \E j \in 1..Len(es) : e = es[j], top < e.id \/ s = <<>>, e.old => s = <<>>
    PROVE  GoodPath(es, Append(s, e), e.id)
  <1> DEFINE t == Append(s, e)
  <1>1. s \in Seq(EntryOf)
    BY DEF GoodPath
  <1>2. /\ t \in Seq(EntryOf) /\ Len(s) \in Nat /\ Len(t) = Len(s) + 1
        /\ \A i \in 1..Len(s) : t[i] = s[i]
        /\ t[Len(s) + 1] = e
    BY <1>1, AtEnd
  <1> HIDE DEF t
  <1>3. \A i \in 1..Len(t) : i \in 1..Len(s) \/ i = Len(s) + 1
    BY <1>2
  <1>4. \A i \in 1..Len(s) : s[i].id \in Nat /\ s[i].id <= top
    BY <1>1, ElementOfSeq, KeyTyped DEF GoodPath
  <1>5. e.id \in Nat /\ (s = <<>> => Len(s) = 0)
    BY KeyTyped
  <1>6. \A i \in 1..Len(s) : s[i].id < e.id
    <2>1. CASE top < e.id
      BY <2>1, <1>4, <1>5
    <2>2. CASE s = <<>>
      BY <2>2, <1>5
    <2> QED
      BY <2>1, <2>2
  <1>7. \A i \in 1..Len(s) : s[i].id <= e.id
    BY <1>4, <1>5, <1>6
  <1>8. \A i \in 1..Len(t) : t[i].id <= e.id /\ \E j \in 1..Len(es) : t[i] = es[j]
    <2>1. e.id <= e.id
      BY <1>5
    <2>2. \A i \in 1..Len(s) : t[i].id <= e.id /\ \E j \in 1..Len(es) : t[i] = es[j]
      BY <1>2, <1>7 DEF GoodPath
    <2> QED
      BY <1>2, <1>3, <2>1, <2>2
  <1>9. ASSUME NEW i \in 1..Len(t), NEW j \in 1..Len(t), i < j
        PROVE  t[i].id < t[j].id
    <2>1. i \in 1..Len(s)
      BY <1>2, <1>9
    <2>2. CASE j \in 1..Len(s)
      BY <2>1, <2>2, <1>2, <1>9 DEF GoodPath
    <2>3. CASE j = Len(s) + 1
      BY <2>1, <2>3, <1>2, <1>6
    <2> QED
      BY <1>3, <2>2, <2>3
  <1>10. ASSUME NEW i \in 1..Len(t), t[i].old
         PROVE  i = 1
    <2>1. CASE i \in 1..Len(s)
      BY <2>1, <1>2, <1>10 DEF GoodPath
    <2>2. CASE i = Len(s) + 1
      BY <2>2, <1>2, <1>5, <1>10
    <2> QED
      BY <1>3, <2>1, <2>2
  <1> QED
    BY <1>2, <1>8, <1>9, <1>10 DEF GoodPath, t

\* The path to each entry, from those to the entries before it.
LEMMA PathGood ==
    ASSUME NEW es \in Seq(EntryOf), NEW n \in Nat, Numbered(es, n), NEW kinds, NEW path, IsPath(es, kinds, path),
           NEW x \in Keys(es)
    PROVE  GoodPath(es, path[x], Found(es, x).id)
  <1> DEFINE num(y) == Found(es, y).id
             above(y) == Found(es, y).parent
             good(y) == GoodPath(es, path[y], num(y))
             T == {num(y) : y \in {z \in Keys(es) : ~good(z)}}
  <1>1. \A y \in Keys(es) : /\ Found(es, y) \in EntryOf /\ num(y) \in Nat
                            /\ \E j \in 1..Len(es) : Found(es, y) = es[j]
                            /\ y \in Nat => y = num(y)
                            /\ above(y) \in Keys(es) => /\ above(y) \in Nat /\ num(above(y)) \in Nat
                                                     /\ num(above(y)) < num(y) /\ ~Found(es, y).old
    <2>1. ASSUME NEW y \in Keys(es)
          PROVE  /\ Found(es, y) \in EntryOf /\ num(y) \in Nat
                 /\ \E j \in 1..Len(es) : Found(es, y) = es[j]
                 /\ y \in Nat => y = num(y)
      BY ParentBefore, KeyTyped
    <2>2. ASSUME NEW y \in Keys(es), above(y) \in Keys(es)
          PROVE  above(y) \in Nat /\ num(above(y)) \in Nat /\ num(above(y)) < num(y) /\ ~Found(es, y).old
      <3>1. y \in Nat /\ above(y) < y /\ ~Found(es, y).old
        BY <2>2, ParentBefore
      <3>2. above(y) \in Nat
        BY <2>1, KeyTyped
      <3>3. above(y) = num(above(y)) /\ y = num(y)
        BY <2>1, <2>2, <3>1, <3>2
      <3> HIDE DEF num, above
      <3> QED
        BY <3>1, <3>2, <3>3
    <2> QED
      BY <2>1, <2>2
  <1>2. ASSUME NEW y \in Keys(es), above(y) \in Keys(es) => good(above(y))
        PROVE  good(y)
    <2> DEFINE e == Found(es, y)
               s == IF above(y) \in Keys(es) THEN path[above(y)] ELSE <<>>
               top == IF above(y) \in Keys(es) THEN num(above(y)) ELSE 0
    <2>1. path[y] = IF e.kind \in kinds THEN Append(s, e) ELSE s
      <3> DEFINE step(z) == StepOf(es, kinds, path, z)
      <3>1. path = [z \in Keys(es) |-> step(z)]
        BY DEF IsPath
      <3> HIDE DEF step
      <3>2. path[y] = step(y)
        BY <3>1
      <3> QED
        BY <3>2 DEF step, StepOf
    <2>2. GoodPath(es, s, top) /\ top \in Nat /\ top <= num(y) /\ (top < e.id \/ s = <<>>)
      <3>1. CASE above(y) \in Keys(es)
        BY <3>1, <1>1, <1>2
      <3>2. CASE above(y) \notin Keys(es)
        BY <3>2, <1>1, NoPath
      <3> QED
        BY <3>1, <3>2
    <2>3. e.old => s = <<>>
      BY <1>1
    <2>4. e \in EntryOf /\ (\E j \in 1..Len(es) : e = es[j]) /\ e.id = num(y) /\ num(y) \in Nat
      BY <1>1
    <2> HIDE DEF e, s, top, num, above
    <2>5. CASE e.kind \in kinds
      <3>1. GoodPath(es, Append(s, e), e.id)
        BY <2>2, <2>3, <2>4, PathAppend
      <3> QED
        BY <2>1, <2>4, <2>5, <3>1
    <2>6. CASE e.kind \notin kinds
      <3>1. GoodPath(es, s, num(y))
        BY <2>2, <2>4, PathHigher
      <3> QED
        BY <2>1, <2>6, <3>1
    <2> QED
      BY <2>5, <2>6
  <1> HIDE DEF good
  <1>3. T = {}
    <2>1. SUFFICES ASSUME T # {}
                   PROVE  FALSE
      OBVIOUS
    <2>2. T \subseteq Nat
      BY <1>1
    <2>3. PICK m \in T : \A k \in T : m <= k
      <3> HIDE DEF T
      <3> QED
        BY <2>1, <2>2, LeastOf
    <2>4. PICK y \in Keys(es) : ~good(y) /\ m = num(y)
      OBVIOUS
    <2>5. above(y) \in Keys(es) /\ ~good(above(y))
      BY <1>2, <2>4
    <2>6. num(above(y)) \in T
      BY <2>5
    <2>7. num(y) <= num(above(y)) /\ num(above(y)) < num(y) /\ num(y) \in Nat /\ num(above(y)) \in Nat
      BY <1>1, <2>3, <2>4, <2>5, <2>6
    <2> HIDE DEF num, above
    <2> QED
      BY <2>7
  <1> QED
    BY <1>3 DEF good

\* So is every branch.
LEMMA BranchGood ==
    ASSUME NEW es \in Seq(EntryOf), NEW n \in Nat, Numbered(es, n), NEW k, NEW kinds
    PROVE  /\ GoodPath(es, BranchOf(es, k, kinds), n)
           /\ BranchOf(es, k, kinds) # <<>> => k \in Keys(es)
  <1> DEFINE path == CHOOSE p : IsPath(es, kinds, p)
  <1>1. IsPath(es, kinds, path)
    BY PathExists
  <1>2. BranchOf(es, k, kinds) = IF k \in Keys(es) THEN path[k] ELSE <<>>
    BY BranchIs
  <1> HIDE DEF path
  <1>3. ASSUME k \in Keys(es)
        PROVE  GoodPath(es, path[k], n)
    <2>1. GoodPath(es, path[k], Found(es, k).id)
      BY <1>1, <1>3, PathGood
    <2>2. Found(es, k).id \in Nat /\ Found(es, k).id <= n
      BY <1>3, ParentBefore, KeyTyped
    <2> QED
      BY <2>1, <2>2, PathHigher
  <1> QED
    BY <1>2, <1>3, NoPath

-----------------------------------------------------------------------------
(* Sequences in which each entry is the child of the one before. *)

\* Each entry has the one before as parent.
Chain(es) == \A i \in 1..Len(es) : es[i].parent = IF i = 1 THEN None ELSE es[i - 1].id

\* Made one after the other up to number n, leaf entries after what they go
\* back to, and an old one only at the root.
Ordered(es, n) ==
    /\ \A i \in 1..Len(es) : /\ es[i].id <= n
                             /\ es[i].kind = "leaf" => es[i].ref \in 0..(es[i].id - 1)
                             /\ es[i].old => i = 1
    /\ \A i, j \in 1..Len(es) : i < j => es[i].id < es[j].id

\* A chain in order is numbered as the invariant asks.
LEMMA ChainNumbered ==
    ASSUME NEW es \in Seq(EntryOf), NEW n, Chain(es), Ordered(es, n)
    PROVE  Numbered(es, n)
  <1>1. Len(es) \in Nat /\ \A i \in 1..Len(es) : es[i].id \in Nat \ {0}
    BY LenProperties, ElementOfSeq, KeyTyped
  <1>2. ASSUME NEW i \in 1..Len(es)
        PROVE  es[i].parent < es[i].id /\ (es[i].old => es[i].parent = None)
    <2>1. CASE i = 1
      BY <2>1, <1>1 DEF Chain, None
    <2>2. CASE i # 1
      <3>1. i - 1 \in 1..Len(es) /\ i - 1 < i
        BY <1>1, <2>2
      <3> QED
        BY <3>1, <2>2 DEF Chain, Ordered
    <2> QED
      BY <2>1, <2>2
  <1> QED
    BY <1>2 DEF Numbered, Ordered

\* In a chain, if none is old, each parent is found.
LEMMA ChainConnected ==
    ASSUME NEW es \in Seq(EntryOf), Chain(es)
    PROVE  Connected(es)
  <1> SUFFICES ASSUME Plain(es), NEW i \in 1..Len(es), es[i].parent # None
               PROVE  \E j \in 1..(i - 1) : Key(es[j]) = es[i].parent
    BY DEF Connected
  <1>1. Len(es) \in Nat
    BY LenProperties
  <1>2. i # 1 /\ es[i].parent = es[i - 1].id
    BY DEF Chain
  <1>3. i - 1 \in 1..Len(es) /\ i - 1 \in 1..(i - 1)
    BY <1>1, <1>2
  <1>4. Key(es[i - 1]) # Undefined /\ es[i - 1] \in EntryOf
    BY <1>3, KeysTyped, ElementOfSeq DEF Plain
  <1>5. Key(es[i - 1]) = es[i - 1].id
    BY <1>4, KeyTyped
  <1> QED
    BY <1>2, <1>3, <1>5

\* Where the leaf is after reading entries.
LEMMA IndexedTyped ==
    ASSUME NEW es \in Seq(EntryOf), NEW n \in Nat, Numbered(es, n)
    PROVE  /\ IndexedLeaf(es) \in {Undefined} \cup 0..n
           /\ Plain(es) => IndexedLeaf(es) \in Keys(es) \cup {None}
  <1>1. Len(es) \in Nat
    BY LenProperties
  <1>2. CASE es = <<>>
    BY <1>2 DEF IndexedLeaf, None
  <1>3. CASE es # <<>>
    <2> DEFINE m == Len(es)
               e == es[m]
    <2>1. m \in 1..Len(es) /\ IndexedLeaf(es) = IF e.kind = "leaf" THEN e.ref ELSE Key(e)
      <3>1. Len(es) # 0
        BY <1>3, EmptySeq
      <3> QED
        BY <1>1, <1>3, <3>1 DEF IndexedLeaf, LeafAfter, Last
    <2>2. e \in EntryOf /\ Key(e) \in Keys(es) /\ e.id <= n /\ (e.kind = "leaf" => e.ref \in 0..(e.id - 1))
      BY <2>1, ElementOfSeq, KeysTyped DEF Numbered
    <2>3. Plain(es) /\ e.kind = "leaf" => e.ref \in Keys(es) \cup {None}
      BY <2>1 DEF Plain
    <2> HIDE DEF e
    <2>4. CASE e.kind = "leaf"
      <3>1. e.ref \in 0..n
        BY <2>2, <2>4, KeyTyped
      <3> QED
        BY <2>1, <2>3, <2>4, <3>1
    <2>5. CASE e.kind # "leaf"
      <3>1. Key(e) = Undefined \/ Key(e) \in 0..n
        BY <2>2, KeyTyped
      <3> QED
        BY <2>1, <2>2, <2>5, <3>1
    <2> QED
      BY <2>4, <2>5
  <1> QED
    BY <1>2, <1>3

\* Each entry of s with the one before as parent, and perhaps no longer old.
Relinked(s, t) ==
    /\ Len(t) = Len(s)
    /\ \A i \in 1..Len(s) :
          /\ t[i] \in EntryOf
          /\ t[i].id = s[i].id /\ t[i].kind = s[i].kind /\ t[i].ref = s[i].ref
          /\ t[i].old => s[i].old
          /\ t[i].parent = IF i = 1 THEN None ELSE s[i - 1].id

\* Entries in order, relinked, are a chain in order.
LEMMA RelinkedChain ==
    ASSUME NEW s \in Seq(EntryOf), NEW t \in Seq(EntryOf), Relinked(s, t), NEW n,
           \A i \in 1..Len(s) : s[i].id <= n /\ (s[i].kind = "leaf" => s[i].ref \in 0..(s[i].id - 1)),
           \A i, j \in 1..Len(s) : i < j => s[i].id < s[j].id,
           \A i \in 1..Len(s) : t[i].old => i = 1
    PROVE  Chain(t) /\ Ordered(t, n)
  <1>1. Len(s) \in Nat /\ Len(t) = Len(s)
    BY LenProperties DEF Relinked
  <1>2. \A i \in 1..Len(s) : i # 1 => i - 1 \in 1..Len(s)
    BY <1>1
  <1>3. Chain(t)
    BY <1>1, <1>2 DEF Chain, Relinked
  <1>4. Ordered(t, n)
    BY <1>1 DEF Ordered, Relinked
  <1> QED
    BY <1>3, <1>4

\* An entry with another parent.
LEMMA OtherParent ==
    ASSUME NEW e \in EntryOf, NEW p \in Nat
    PROVE  /\ [e EXCEPT !.parent = p] \in EntryOf
           /\ [e EXCEPT !.parent = p].id = e.id /\ [e EXCEPT !.parent = p].kind = e.kind
           /\ [e EXCEPT !.parent = p].ref = e.ref /\ [e EXCEPT !.parent = p].old = e.old
           /\ [e EXCEPT !.parent = p].parent = p
  BY DEF EntryOf

\* A migrated entry.
LEMMA NoLongerOld ==
    ASSUME NEW e \in EntryOf, NEW p \in Nat
    PROVE  /\ [e EXCEPT !.old = FALSE, !.parent = p] \in EntryOf
           /\ [e EXCEPT !.old = FALSE, !.parent = p].id = e.id
           /\ [e EXCEPT !.old = FALSE, !.parent = p].kind = e.kind
           /\ [e EXCEPT !.old = FALSE, !.parent = p].ref = e.ref
           /\ ~[e EXCEPT !.old = FALSE, !.parent = p].old
           /\ [e EXCEPT !.old = FALSE, !.parent = p].parent = p
  BY DEF EntryOf

\* Number of the entry before the i-th, if any.
Before1(s, i) == IF i = 1 THEN None ELSE s[i - 1].id

\* It can be a parent.
LEMMA Before1Nat ==
    ASSUME NEW s \in Seq(EntryOf), NEW i \in 1..Len(s)
    PROVE  Before1(s, i) \in Nat
  <1>1. CASE i = 1
    BY <1>1 DEF Before1, None
  <1>2. CASE i # 1
    <2>1. i - 1 \in 1..Len(s)
      BY <1>2, LenProperties
    <2>2. s[i - 1] \in EntryOf
      BY <2>1, ElementOfSeq
    <2> QED
      BY <1>2, <2>2, KeyTyped DEF Before1
  <1> QED
    BY <1>1, <1>2

\* A function from 1..n is a sequence.
LEMMA MadeSeq ==
    ASSUME NEW n \in Nat, NEW S, NEW t, t \in [1..n -> S]
    PROVE  t \in Seq(S) /\ Len(t) = n
  <1>1. t \in Seq(S)
    BY SeqDef
  <1>2. DOMAIN t = 1..n /\ DOMAIN t = 1..Len(t) /\ Len(t) \in Nat
    BY <1>1, LenProperties
  <1> DEFINE m == Len(t)
  <1>3. 1..n = 1..m /\ m \in Nat
    BY <1>2
  <1> HIDE DEF m
  <1>4. m = n
    <2>1. CASE m < n
      <3>1. n \in 1..n /\ n \notin 1..m
        BY <2>1, <1>3
      <3> QED
        BY <3>1, <1>3
    <2>2. CASE n < m
      <3>1. m \in 1..m /\ m \notin 1..n
        BY <2>2, <1>3
      <3> QED
        BY <3>1, <1>3
    <2> QED
      BY <2>1, <2>2, <1>3
  <1> QED
    BY <1>1, <1>4 DEF m

\* migrateToCurrentVersion relinks the entries and leaves none old.
LEMMA MigrateRelinks ==
    ASSUME NEW s \in Seq(EntryOf)
    PROVE  Migrate(s) \in Seq(EntryOf) /\ Relinked(s, Migrate(s)) /\ \A i \in 1..Len(s) : ~Migrate(s)[i].old
  <1> DEFINE t == Migrate(s)
             new(i) == [s[i] EXCEPT !.old = FALSE, !.parent = Before1(s, i)]
  <1>1. DOMAIN s = 1..Len(s) /\ Len(s) \in Nat
    BY LenProperties
  <1>2. t = [i \in 1..Len(s) |-> new(i)]
    BY <1>1 DEF Migrate, Before1
  <1>3. ASSUME NEW i \in 1..Len(s)
        PROVE  /\ new(i) \in EntryOf /\ ~new(i).old
               /\ new(i).id = s[i].id /\ new(i).kind = s[i].kind /\ new(i).ref = s[i].ref
               /\ new(i).parent = Before1(s, i)
    <2>1. s[i] \in EntryOf /\ Before1(s, i) \in Nat
      BY ElementOfSeq, Before1Nat
    <2> QED
      BY <2>1, NoLongerOld
  <1> HIDE DEF t, new
  <1>4. t \in [1..Len(s) -> EntryOf] /\ \A i \in 1..Len(s) : t[i] = new(i)
    BY <1>2, <1>3
  <1>5. t \in Seq(EntryOf) /\ Len(t) = Len(s)
    BY <1>1, <1>4, MadeSeq
  <1> QED
    BY <1>3, <1>4, <1>5 DEF Relinked, Before1, t

\* createBranchedSession relinks the path.
LEMMA RechainedRelinks ==
    ASSUME NEW s \in Seq(EntryOf)
    PROVE  Rechained(s) \in Seq(EntryOf) /\ Relinked(s, Rechained(s))
  <1> DEFINE t == Rechained(s)
             new(i) == [s[i] EXCEPT !.parent = Before1(s, i)]
  <1>1. DOMAIN s = 1..Len(s) /\ Len(s) \in Nat
    BY LenProperties
  <1>2. t = [i \in 1..Len(s) |-> new(i)]
    BY <1>1 DEF Rechained, Before1
  <1>3. ASSUME NEW i \in 1..Len(s)
        PROVE  /\ new(i) \in EntryOf /\ (new(i).old => s[i].old)
               /\ new(i).id = s[i].id /\ new(i).kind = s[i].kind /\ new(i).ref = s[i].ref
               /\ new(i).parent = Before1(s, i)
    <2>1. s[i] \in EntryOf /\ Before1(s, i) \in Nat
      BY ElementOfSeq, Before1Nat
    <2> QED
      BY <2>1, OtherParent
  <1> HIDE DEF t, new
  <1>4. t \in [1..Len(s) -> EntryOf] /\ \A i \in 1..Len(s) : t[i] = new(i)
    BY <1>2, <1>3
  <1>5. t \in Seq(EntryOf) /\ Len(t) = Len(s)
    BY <1>1, <1>4, MadeSeq
  <1> QED
    BY <1>3, <1>4, <1>5 DEF Relinked, Before1, t

\* A migrated session.
LEMMA MigrateGood ==
    ASSUME NEW s \in Seq(EntryOf), NEW n \in Nat, Numbered(s, n)
    PROVE  Migrate(s) \in Seq(EntryOf) /\ Numbered(Migrate(s), n) /\ Connected(Migrate(s))
  <1> DEFINE t == Migrate(s)
  <1>1. t \in Seq(EntryOf) /\ Relinked(s, t) /\ \A i \in 1..Len(s) : ~t[i].old
    BY MigrateRelinks
  <1> HIDE DEF t
  <1>2. Chain(t) /\ Ordered(t, n)
    BY <1>1, RelinkedChain DEF Numbered
  <1> QED
    BY <1>1, <1>2, ChainNumbered, ChainConnected DEF t

\* There are finitely many keys.
LEMMA KeysFinite ==
    ASSUME NEW es \in Seq(EntryOf)
    PROVE  IsFiniteSet(Keys(es)) /\ Keys(es) \subseteq Int
  <1> DEFINE K == Keys(es)
             n == Len(es)
             g == [i \in 1..n |-> Key(es[i])]
  <1>1. n \in Nat /\ K \subseteq Int /\ (\A k \in K : \E i \in 1..n : k = Key(es[i])) /\ \A i \in 1..n : Key(es[i]) \in K
    <2>1. K \subseteq Int
      BY KeysTyped DEF Undefined
    <2> QED
      BY <2>1, KeysTyped, LenProperties
  <1> HIDE DEF K, n
  <1>2. g \in [1..n -> K] /\ \A k \in K : \E i \in 1..n : g[i] = k
    BY <1>1
  <1>3. g \in Surjection(1..n, K)
    BY <1>2 DEF Surjection
  <1>4. IsFiniteSet(1..n)
    BY <1>1, FS_Interval
  <1>5. IsFiniteSet(K)
    BY <1>3, <1>4, FS_Surjection
  <1> QED
    BY <1>1, <1>5 DEF K

\* Labels made one after the other behind the entries s.
LabelsBehind(s, ls) ==
    /\ ls \in Seq(EntryOf) /\ Len(ls) \in Nat
    /\ \A i \in 1..Len(ls) :
          /\ ls[i].id = made + i /\ ls[i].kind = "label" /\ ~ls[i].old
          /\ ls[i].parent = IF i > 1 THEN made + i - 1 ELSE IF s = <<>> THEN None ELSE Last(s).id

\* The labels added again, for any order SetToSeq gives them.
LEMMA LabelsMade ==
    ASSUME made \in Nat, NEW s \in Seq(EntryOf), NEW targets, IsFiniteSet(targets), targets \subseteq Int,
           NEW ls, ls = RecreatedLabels(s, targets)
    PROVE  LabelsBehind(s, ls)
  <1> DEFINE n == Cardinality(targets)
             ts == SetToSeq(targets)
             F == [1..n -> targets]
             root == IF s = <<>> THEN None ELSE Last(s).id
  <1>1. n \in Nat /\ ts \in F
    <2>1. n \in Nat /\ ExistsBijection(1..n, targets)
      BY FS_CardinalityType
    <2>2. PICK h : h \in F /\ IsInjective(h)
      BY <2>1 DEF ExistsBijection, Bijection, Injection
    <2>3. ts = CHOOSE g \in F : IsInjective(g)
      BY DEF SetToSeq
    <2> HIDE DEF F, ts
    <2>4. ts \in F
      BY <2>2, <2>3
    <2> QED
      BY <2>1, <2>4
  <1>2. root \in Nat
    <2>1. CASE s = <<>>
      BY <2>1 DEF None
    <2>2. CASE s # <<>>
      <3>1. Len(s) \in 1..Len(s)
        BY <2>2, EmptySeq
      <3>2. s[Len(s)] \in EntryOf
        BY <3>1, ElementOfSeq
      <3> QED
        BY <2>2, <3>2, KeyTyped DEF Last
    <2> QED
      BY <2>1, <2>2
  <1> DEFINE new(i) == Entry(made + i, "label", IF i > 1 THEN made + i - 1 ELSE root, ts[i])
  <1>3. ls = [i \in DOMAIN ts |-> new(i)]
    BY DEF RecreatedLabels
  <1> HIDE DEF root, ts, n
  <1>4. DOMAIN ts = 1..n /\ \A i \in 1..n : ts[i] \in Int
    BY <1>1
  <1>5. ASSUME NEW i \in 1..n
        PROVE  /\ new(i) \in EntryOf
               /\ new(i).id = made + i /\ new(i).kind = "label" /\ ~new(i).old
               /\ new(i).parent = IF i > 1 THEN made + i - 1 ELSE root
    <2> DEFINE id == made + i
               before == IF i > 1 THEN made + i - 1 ELSE root
               t == ts[i]
    <2>1. id \in Nat \ {0} /\ before \in Nat /\ t \in Int /\ new(i) = Entry(id, "label", before, t)
      BY <1>1, <1>2, <1>4
    <2> HIDE DEF id, before, t, new
    <2>2. new(i) \in EntryOf /\ new(i).id = id /\ new(i).kind = "label" /\ ~new(i).old /\ new(i).parent = before
      BY <2>1 DEF Entry, EntryOf, Kinds
    <2> QED
      BY <2>2 DEF id, before
  <1> HIDE DEF new
  <1>6. ls \in [1..n -> EntryOf] /\ \A i \in 1..n : ls[i] = new(i)
    BY <1>3, <1>4, <1>5
  <1>7. ls \in Seq(EntryOf) /\ Len(ls) = n
    BY <1>1, <1>6, MadeSeq
  <1> QED
    BY <1>1, <1>5, <1>6, <1>7 DEF root, LabelsBehind

\* A fork: the path to an entry, one entry the child of the other, and its labels.
LEMMA NewBranch ==
    ASSUME made \in Nat, NEW es \in Seq(EntryOf), Numbered(es, made), NEW k, NEW kinds, NEW targets,
           NEW path, path = Rechained(BranchOf(es, k, kinds)), targets \subseteq Keys(path),
           NEW labels, labels = RecreatedLabels(path, targets), NEW new, new = path \o labels
    PROVE  /\ new \in Seq(EntryOf) /\ Len(labels) \in Nat
           /\ Numbered(new, made + Len(labels)) /\ Connected(new)
  <1> DEFINE s == BranchOf(es, k, kinds)
  <1>1. GoodPath(es, s, made)
    BY BranchGood
  <1>2. path = Rechained(s)
    OBVIOUS
  <1> HIDE DEF s
  <1>3. s \in Seq(EntryOf) /\ path \in Seq(EntryOf) /\ Relinked(s, path)
    BY <1>1, <1>2, RechainedRelinks DEF GoodPath
  <1>4. Chain(path) /\ Ordered(path, made)
    <2>1. \A i \in 1..Len(s) : s[i].id <= made /\ (s[i].kind = "leaf" => s[i].ref \in 0..(s[i].id - 1))
      BY <1>1 DEF GoodPath, Numbered
    <2>2. \A i, j \in 1..Len(s) : i < j => s[i].id < s[j].id
      BY <1>1 DEF GoodPath
    <2>3. \A i \in 1..Len(s) : path[i].old => i = 1
      BY <1>1, <1>3 DEF GoodPath, Relinked
    <2> QED
      BY <1>3, <2>1, <2>2, <2>3, RelinkedChain
  <1>5. /\ labels \in Seq(EntryOf) /\ Len(labels) \in Nat
        /\ \A i \in 1..Len(labels) :
              /\ labels[i].id = made + i /\ labels[i].kind = "label" /\ ~labels[i].old
              /\ labels[i].parent = IF i > 1 THEN made + i - 1 ELSE IF path = <<>> THEN None ELSE Last(path).id
    <2>1. IsFiniteSet(targets) /\ targets \subseteq Int
      BY <1>3, KeysFinite, FS_Subset
    <2>2. LabelsBehind(path, labels)
      BY <1>3, <2>1, LabelsMade
    <2> QED
      BY <2>2 DEF LabelsBehind
  <1> DEFINE p == Len(path)
             l == Len(labels)
  <1>6. p \in Nat /\ l \in Nat
    BY <1>3, <1>5, LenProperties
  <1>7. new \in Seq(EntryOf) /\ Len(new) = p + l
        /\ \A i \in 1..(p + l) : new[i] = IF i <= p THEN path[i] ELSE labels[i - p]
    BY <1>3, <1>5, ConcatProperties
  <1>8. \A i \in 1..p : path[i].id \in Nat /\ path[i].id <= made
    BY <1>3, <1>4, ElementOfSeq, KeyTyped DEF Ordered
  <1>9. path = <<>> <=> p = 0
    BY <1>3, EmptySeq
  <1>10. Last(path) = path[p]
    BY DEF Last
  <1> HIDE DEF p, l
  <1>11. \A i \in 1..(p + l) : \/ i \in 1..p /\ new[i] = path[i]
                               \/ i - p \in 1..l /\ i > p /\ new[i] = labels[i - p]
    <2>1. \A i \in 1..(p + l) : (i \in 1..p /\ i <= p) \/ (i - p \in 1..l /\ i > p /\ ~(i <= p))
      BY <1>6
    <2> QED
      BY <1>7, <2>1
  <1>12. Chain(new)
    <2> SUFFICES ASSUME NEW i \in 1..(p + l)
                 PROVE  new[i].parent = IF i = 1 THEN None ELSE new[i - 1].id
      BY <1>7 DEF Chain
    <2>1. CASE i \in 1..p /\ new[i] = path[i]
      <3>1. path[i].parent = IF i = 1 THEN None ELSE path[i - 1].id
        BY <1>4, <2>1 DEF Chain, p
      <3>2. i # 1 => i - 1 \in 1..(p + l) /\ i - 1 <= p
        BY <1>6, <2>1
      <3> QED
        BY <1>7, <2>1, <3>1, <3>2
    <2>2. CASE i - p \in 1..l /\ i > p /\ new[i] = labels[i - p]
      <3> DEFINE j == i - p
      <3>1. new[i].parent = IF j > 1 THEN made + j - 1 ELSE IF path = <<>> THEN None ELSE path[p].id
        BY <1>5, <1>10, <2>2 DEF l
      <3>2. CASE j > 1
        <4>1. j - 1 \in 1..l /\ i - 1 \in 1..(p + l) /\ ~(i - 1 <= p) /\ i - 1 - p = j - 1 /\ i # 1
          BY <1>6, <2>2, <3>2
        <4>2. new[i - 1] = labels[j - 1]
          BY <1>7, <4>1
        <4>3. labels[j - 1].id = made + (j - 1)
          BY <1>5, <4>1 DEF l
        <4>4. made + (j - 1) = made + j - 1
          BY <2>2
        <4> QED
          BY <3>1, <3>2, <4>1, <4>2, <4>3, <4>4
      <3>3. CASE j = 1 /\ p = 0
        <4>1. i = 1
          BY <1>6, <3>3
        <4> QED
          BY <1>9, <3>1, <3>3, <4>1
      <3>4. CASE j = 1 /\ p # 0
        <4>1. i - 1 = p /\ i # 1 /\ i - 1 \in 1..(p + l) /\ i - 1 <= p
          BY <1>6, <3>4
        <4>2. new[i - 1] = path[p]
          BY <1>7, <4>1
        <4> QED
          BY <1>9, <3>1, <3>4, <4>1, <4>2
      <3>5. j \in 1..l
        BY <2>2
      <3>6. j > 1 \/ j = 1
        BY <1>6, <3>5
      <3> QED
        BY <3>2, <3>3, <3>4, <3>6
    <2> QED
      BY <1>11, <2>1, <2>2
  <1>13. Ordered(new, made + l)
    <2>1. ASSUME NEW i \in 1..(p + l)
          PROVE  /\ new[i].id <= made + l
                 /\ new[i].kind = "leaf" => new[i].ref \in 0..(new[i].id - 1)
                 /\ new[i].old => i = 1
      <3>1. CASE i \in 1..p /\ new[i] = path[i]
        <4>1. /\ path[i].kind = "leaf" => path[i].ref \in 0..(path[i].id - 1)
              /\ path[i].old => i = 1
          BY <1>4, <3>1 DEF Ordered, p
        <4>2. path[i].id <= made + l
          BY <1>6, <1>8, <3>1
        <4> QED
          BY <3>1, <4>1, <4>2
      <3>2. CASE i - p \in 1..l /\ i > p /\ new[i] = labels[i - p]
        <4>1. new[i].id = made + (i - p) /\ new[i].kind = "label" /\ ~new[i].old
          BY <1>5, <3>2 DEF l
        <4>2. made + (i - p) <= made + l
          BY <1>6, <3>2
        <4> QED
          BY <4>1, <4>2
      <3> QED
        BY <1>11, <3>1, <3>2
    <2>2. ASSUME NEW i \in 1..(p + l), NEW j \in 1..(p + l), i < j
          PROVE  new[i].id < new[j].id
      <3>1. CASE i \in 1..p /\ new[i] = path[i] /\ j \in 1..p /\ new[j] = path[j]
        BY <1>4, <2>2, <3>1 DEF Ordered, p
      <3>2. CASE i \in 1..p /\ new[i] = path[i] /\ j - p \in 1..l /\ new[j] = labels[j - p]
        <4>1. new[j].id = made + (j - p)
          BY <1>5, <3>2 DEF l
        <4>2. path[i].id < made + (j - p)
          BY <1>6, <1>8, <3>2
        <4> QED
          BY <3>2, <4>1, <4>2
      <3>3. CASE i - p \in 1..l /\ new[i] = labels[i - p] /\ j - p \in 1..l /\ new[j] = labels[j - p]
        <4>1. new[i].id = made + (i - p) /\ new[j].id = made + (j - p)
          BY <1>5, <3>3 DEF l
        <4>2. made + (i - p) < made + (j - p)
          BY <1>6, <2>2
        <4> QED
          BY <4>1, <4>2
      <3>4. ~(i > p /\ j \in 1..p)
        BY <1>6, <2>2
      <3> QED
        BY <1>11, <3>1, <3>2, <3>3, <3>4
    <2> QED
      BY <1>7, <2>1, <2>2 DEF Ordered
  <1> QED
    BY <1>6, <1>7, <1>12, <1>13, ChainNumbered, ChainConnected DEF l

-----------------------------------------------------------------------------
(* What writing does to the files. *)

\* One file changes.
LEMMA FileStep ==
    ASSUME DiskInv, NEW f \in File, NEW d, NEW k, NEW b \in BOOLEAN,
           made' \in Nat, made <= made', files' \in 0..MaxFiles, files <= files', f <= files',
           faults' \in Nat, faults <= faults',
           disk' = [disk EXCEPT ![f] = d], kept' = [kept EXCEPT ![f] = k],
           broken' = IF b THEN broken \cup {f} ELSE broken \ {f},
           FileOk(d, made', b, k), faults' = 0 => ~b /\ Connected(EntriesOf(d))
    PROVE  DiskInv'
  <1>1. /\ made \in Nat /\ files \in 0..MaxFiles /\ faults \in Nat /\ broken \subseteq File
        /\ disk \in [File -> Content] /\ kept \in [File -> Seq(EntryOf)]
        /\ \A g \in File : FileOk(disk[g], made, g \in broken, kept[g])
        /\ \A g \in File : g > files => disk[g] = Absent /\ g \notin broken
        /\ faults = 0 => broken = {} /\ \A g \in File : Connected(EntriesOf(disk[g]))
    BY DEF DiskInv
  <1>2. d \in Content /\ k \in Seq(EntryOf)
    BY DEF FileOk
  <1>3. disk' \in [File -> Content] /\ kept' \in [File -> Seq(EntryOf)] /\ broken' \subseteq File
    BY <1>1, <1>2
  <1>4. disk'[f] = d /\ kept'[f] = k /\ (f \in broken' <=> b)
    BY <1>1
  <1>5. \A g \in File : g # f => disk'[g] = disk[g] /\ kept'[g] = kept[g] /\ (g \in broken' <=> g \in broken)
    BY <1>1
  <1>6. ASSUME NEW g \in File
        PROVE  FileOk(disk'[g], made', g \in broken', kept'[g])
    <2>1. CASE g = f
      <3>1. CASE b
        BY <2>1, <3>1, <1>4 DEF FileOk
      <3>2. CASE ~b
        BY <2>1, <3>2, <1>4 DEF FileOk
      <3> QED
        BY <3>1, <3>2
    <2>2. CASE g # f
      <3>1. /\ disk[g] \in Content /\ kept[g] \in Seq(EntryOf) /\ Numbered(EntriesOf(disk[g]), made)
            /\ g \in broken => SafeIn(disk[g], kept[g])
            /\ g \notin broken => disk[g].tail = "clean"
        BY <1>1 DEF FileOk
      <3>2. EntriesOf(disk[g]) \in Seq(EntryOf)
        BY <3>1, EntriesAre
      <3>3. Numbered(EntriesOf(disk[g]), made')
        BY <1>1, <3>1, <3>2, NumberedBelow
      <3> QED
        BY <2>2, <3>1, <3>3, <1>5 DEF FileOk
    <2> QED
      BY <2>1, <2>2
  <1>7. ASSUME NEW g \in File, g > files'
        PROVE  disk'[g] = Absent /\ g \notin broken'
    <2>1. g > files /\ g # f
      <3>1. g \in Nat /\ f \in Nat /\ files \in Nat /\ files' \in Nat
        BY <1>1 DEF File
      <3> QED
        BY <1>7, <3>1
    <2> QED
      BY <2>1, <1>1, <1>5
  <1>8. ASSUME faults' = 0
        PROVE  broken' = {} /\ \A g \in File : Connected(EntriesOf(disk'[g]))
    <2>1. faults = 0
      BY <1>1, <1>8
    <2>2. broken' = {}
      BY <1>1, <1>8, <2>1
    <2>3. \A g \in File : Connected(EntriesOf(disk'[g]))
      BY <1>1, <1>4, <1>5, <1>8, <2>1
    <2> QED
      BY <2>2, <2>3
  <1> QED
    BY <1>3, <1>6, <1>7, <1>8 DEF DiskInv

\* No file changes.
LEMMA FilesStay ==
    ASSUME DiskInv, made' \in Nat, made <= made', files' \in 0..MaxFiles, files <= files', UNCHANGED <<disk, ghosts>>
    PROVE  DiskInv'
  <1>1. /\ made \in Nat /\ files \in 0..MaxFiles /\ faults \in Nat /\ broken \subseteq File
        /\ disk \in [File -> Content] /\ kept \in [File -> Seq(EntryOf)]
        /\ \A g \in File : FileOk(disk[g], made, g \in broken, kept[g])
        /\ \A g \in File : g > files => disk[g] = Absent /\ g \notin broken
        /\ faults = 0 => broken = {} /\ \A g \in File : Connected(EntriesOf(disk[g]))
    BY DEF DiskInv
  <1>2. disk' = disk /\ kept' = kept /\ broken' = broken /\ faults' = faults
    BY DEF ghosts
  <1>3. ASSUME NEW g \in File
        PROVE  FileOk(disk'[g], made', g \in broken', kept'[g])
    <2>1. /\ disk[g] \in Content /\ kept[g] \in Seq(EntryOf) /\ Numbered(EntriesOf(disk[g]), made)
          /\ g \in broken => SafeIn(disk[g], kept[g])
          /\ g \notin broken => disk[g].tail = "clean"
      BY <1>1 DEF FileOk
    <2>2. Numbered(EntriesOf(disk[g]), made')
      BY <1>1, <2>1, EntriesAre, NumberedBelow
    <2> QED
      BY <2>1, <2>2, <1>2 DEF FileOk
  <1>4. \A g \in File : g > files' => g > files
    <2>1. files \in Nat /\ files' \in Nat /\ \A g \in File : g \in Nat
      BY <1>1 DEF File
    <2> QED
      BY <2>1
  <1> QED
    BY <1>1, <1>2, <1>3, <1>4 DEF DiskInv

\* What a write may make of file f: contents d that hold entries with numbers up
\* to n, the file broken or not, and k what it held before.
WriteTo(f, n, d, isBroken, k) ==
    /\ disk' = [disk EXCEPT ![f] = d] /\ kept' = [kept EXCEPT ![f] = k]
    /\ broken' = IF isBroken THEN broken \cup {f} ELSE broken \ {f}
    /\ FileOk(d, n, isBroken, k)

\* A session written in full.
LEMMA WrittenWhole ==
    ASSUME NEW f \in File, NEW es \in Seq(EntryOf), NEW n \in Nat, Numbered(es, n),
           Written(f, Empty, Created(es), TRUE)
    PROVE  /\ faults' = faults
           /\ \E d : WriteTo(f, n, d, FALSE, <<>>) /\ Holds(d, es) /\ EntriesOf(d) = es
  <1> DEFINE d == WriteLines(Empty, Created(es))
  <1>1. d \in Content /\ Holds(d, es) /\ d.tail = "clean" /\ d.exists
    BY CreatedHeld
  <1>2. /\ disk' = [disk EXCEPT ![f] = d] /\ kept' = [kept EXCEPT ![f] = <<>>] /\ broken' = broken \ {f}
        /\ faults' = faults
    BY DEF Written
  <1> HIDE DEF d
  <1>3. EntriesOf(d) = es
    BY <1>1, HeldEntries
  <1>4. <<>> \in Seq(EntryOf)
    OBVIOUS
  <1>5. FileOk(d, n, FALSE, <<>>)
    BY <1>1, <1>3, <1>4 DEF FileOk
  <1> QED
    BY <1>1, <1>2, <1>3, <1>5 DEF WriteTo

\* A session whose writing fails.
LEMMA WholeFails ==
    ASSUME DiskInv, NEW f \in File, NEW es \in Seq(EntryOf), NEW n \in Nat, made <= n, Numbered(es, n),
           WriteFails(f, Empty, Created(es), TRUE)
    PROVE  faults' = faults + 1 /\ \E d : WriteTo(f, n, d, TRUE, <<>>)
  <1>1. PICK d \in {disk[f]} \cup CutShort(Empty, Created(es)) : disk' = [disk EXCEPT ![f] = d]
    BY DEF WriteFails
  <1>2. faults' = faults + 1 /\ broken' = broken \cup {f} /\ kept' = [kept EXCEPT ![f] = <<>>]
    BY DEF WriteFails
  <1>3. d \in Content /\ Numbered(EntriesOf(d), n)
    <2>1. CASE d = disk[f]
      <3>1. made \in Nat /\ d \in Content /\ Numbered(EntriesOf(d), made)
        BY <2>1 DEF DiskInv, FileOk
      <3>2. EntriesOf(d) \in Seq(EntryOf)
        BY <3>1, EntriesAre
      <3> QED
        BY <3>1, <3>2, NumberedBelow
    <2>2. CASE d \in CutShort(Empty, Created(es))
      <3>1. d \in Content /\ Starts(EntriesOf(d), es)
        BY <2>2, CreatedCut
      <3>2. EntriesOf(d) \in Seq(EntryOf)
        BY <3>1, EntriesAre
      <3> QED
        BY <3>1, <3>2, PrefixNumbered
    <2> QED
      BY <2>1, <2>2
  <1>4. <<>> \in Seq(EntryOf) /\ SafeIn(d, <<>>)
    BY DEF SafeIn
  <1>5. FileOk(d, n, TRUE, <<>>)
    BY <1>3, <1>4 DEF FileOk
  <1> QED
    BY <1>1, <1>2, <1>5 DEF WriteTo

\* The next entry of a session is written.
LEMMA WrittenLine ==
    ASSUME DiskInv, NEW f \in File, NEW l \in EntryOf, NEW n \in Nat,
           Numbered(Append(EntriesOf(disk[f]), l), n), Written(f, disk[f], <<l>>, FALSE)
    PROVE  /\ faults' = faults
           /\ \E d : /\ f \in broken => WriteTo(f, n, d, TRUE, kept[f])
                     /\ f \notin broken => WriteTo(f, n, d, FALSE, kept[f])
                     /\ \A es \in Seq(EntryOf) :
                           f \notin broken /\ Holds(disk[f], es) => Holds(d, Append(es, l)) /\ d \in Content
  <1> DEFINE c == disk[f]
             d == WriteLine(c, l)
             k == kept[f]
  <1>1. c \in Content /\ k \in Seq(EntryOf) /\ (IF f \in broken THEN SafeIn(c, k) ELSE c.tail = "clean")
    BY DEF DiskInv, FileOk
  <1>2. /\ kept \in [File -> Seq(EntryOf)] /\ broken \subseteq File
    BY DEF DiskInv
  <1>3. WriteLines(c, <<l>>) = d
    BY <1>1, OneLine
  <1>4. disk' = [disk EXCEPT ![f] = d] /\ kept' = kept /\ broken' = broken /\ faults' = faults
    BY <1>3 DEF Written
  <1>5. /\ d \in Content /\ Starts(EntriesOf(d), Append(EntriesOf(c), l))
        /\ \A es \in Seq(EntryOf) : SafeIn(c, es) => SafeIn(d, es)
        /\ d.tail = "clean"
    BY <1>1, LineKeeps, LineOutcome
  <1>6. Numbered(EntriesOf(d), n)
    <2>1. EntriesOf(c) \in Seq(EntryOf) /\ EntriesOf(d) \in Seq(EntryOf)
      BY <1>1, <1>5, EntriesAre
    <2>2. Append(EntriesOf(c), l) \in Seq(EntryOf)
      BY <2>1, AtEnd
    <2> QED
      BY <1>5, <2>1, <2>2, PrefixNumbered
  <1>7. \A es \in Seq(EntryOf) : f \notin broken /\ Holds(c, es) => Holds(d, Append(es, l)) /\ d \in Content
    BY <1>1, HeldAppend
  <1> HIDE DEF d
  <1>8. kept' = [kept EXCEPT ![f] = k]
    BY <1>2, <1>4
  <1>9. CASE f \in broken
    <2>1. FileOk(d, n, TRUE, k) /\ broken' = broken \cup {f}
      BY <1>1, <1>4, <1>5, <1>6, <1>9 DEF FileOk
    <2>2. WriteTo(f, n, d, TRUE, k)
      BY <1>4, <1>8, <2>1 DEF WriteTo
    <2> QED
      BY <1>4, <1>7, <1>9, <2>2
  <1>10. CASE f \notin broken
    <2>1. FileOk(d, n, FALSE, k) /\ broken' = broken \ {f}
      BY <1>1, <1>2, <1>4, <1>5, <1>6, <1>10 DEF FileOk
    <2>2. WriteTo(f, n, d, FALSE, k)
      BY <1>4, <1>8, <2>1 DEF WriteTo
    <2> QED
      BY <1>4, <1>7, <1>10, <2>2
  <1> QED
    BY <1>9, <1>10

\* Writing the next entry of a session fails.
LEMMA LineFails ==
    ASSUME DiskInv, NEW f \in File, NEW l \in EntryOf, NEW n \in Nat, made <= n,
           Numbered(Append(EntriesOf(disk[f]), l), n), WriteFails(f, disk[f], <<l>>, FALSE)
    PROVE  faults' = faults + 1 /\ \E d, k : WriteTo(f, n, d, TRUE, k)
  <1> DEFINE c == disk[f]
             k == IF f \in broken THEN kept[f] ELSE EntriesOf(c)
  <1>1. c \in Content /\ kept[f] \in Seq(EntryOf) /\ (IF f \in broken THEN SafeIn(c, kept[f]) ELSE c.tail = "clean")
    BY DEF DiskInv, FileOk
  <1>2. kept \in [File -> Seq(EntryOf)] /\ broken \subseteq File
    BY DEF DiskInv
  <1>3. PICK d \in {c} \cup CutShort(c, <<l>>) : disk' = [disk EXCEPT ![f] = d]
    BY DEF WriteFails
  <1>4. faults' = faults + 1 /\ broken' = broken \cup {f} /\ kept' = [kept EXCEPT ![f] = k]
    BY DEF WriteFails
  <1>5. d \in CutLine(c, l)
    <2>1. c \in CutLine(c, l)
      BY DEF CutLine
    <2>2. \A x : x \in CutShort(c, <<l>>) <=> x \in CutLine(c, l)
      BY <1>1, OneLine
    <2> QED
      BY <2>1, <2>2
  <1>6. /\ d \in Content /\ Starts(EntriesOf(d), Append(EntriesOf(c), l))
        /\ \A es \in Seq(EntryOf) : SafeIn(c, es) => SafeIn(d, es)
        /\ c.tail = "clean" => SafeIn(d, EntriesOf(c))
    BY <1>1, <1>5, LineKeeps
  <1>7. EntriesOf(c) \in Seq(EntryOf) /\ EntriesOf(d) \in Seq(EntryOf)
    BY <1>1, <1>6, EntriesAre
  <1>8. Numbered(EntriesOf(d), n)
    <2>1. Append(EntriesOf(c), l) \in Seq(EntryOf)
      BY <1>7, AtEnd
    <2> QED
      BY <1>6, <1>7, <2>1, PrefixNumbered
  <1>9. k \in Seq(EntryOf) /\ SafeIn(d, k)
    BY <1>1, <1>6, <1>7
  <1> HIDE DEF k
  <1>10. FileOk(d, n, TRUE, k)
    BY <1>6, <1>8, <1>9 DEF FileOk
  <1>11. WriteTo(f, n, d, TRUE, k)
    BY <1>3, <1>4, <1>10 DEF WriteTo
  <1> QED
    BY <1>4, <1>11

\* Which file a write is to, and that the others stay.
Untouched(f) == \A g \in File : g # f => disk'[g] = disk[g] /\ (g \in broken' <=> g \in broken)

\* A write that leaves the file whole.
LEMMA GoodWrite ==
    ASSUME DiskInv, NEW f \in File, NEW n \in Nat, n = made', made <= n,
           files' \in 0..MaxFiles, files <= files', f <= files', NEW d, NEW k, WriteTo(f, n, d, FALSE, k),
           faults' = faults, faults = 0 => Connected(EntriesOf(d))
    PROVE  DiskInv' /\ disk'[f] = d /\ f \notin broken' /\ Untouched(f)
  <1>1. disk \in [File -> Content] /\ faults \in Nat
    BY DEF DiskInv
  <1>2. /\ disk' = [disk EXCEPT ![f] = d] /\ kept' = [kept EXCEPT ![f] = k] /\ broken' = broken \ {f}
        /\ FileOk(d, n, FALSE, k)
    BY DEF WriteTo
  <1>3. DiskInv'
    <2> DEFINE b == FALSE
    <2>1. b \in BOOLEAN /\ broken' = (IF b THEN broken \cup {f} ELSE broken \ {f}) /\ FileOk(d, made', b, k)
      BY <1>2
    <2>2. faults' = 0 => ~b /\ Connected(EntriesOf(d))
      OBVIOUS
    <2> HIDE DEF b
    <2>3. faults' \in Nat /\ faults <= faults' /\ made' \in Nat /\ made <= made'
      BY <1>1
    <2> QED
      BY <1>2, <2>1, <2>2, <2>3, FileStep
  <1> QED
    BY <1>1, <1>2, <1>3 DEF Untouched

\* A write that leaves the file broken.
LEMMA BadWrite ==
    ASSUME DiskInv, NEW f \in File, NEW n \in Nat, n = made', made <= n,
           files' \in 0..MaxFiles, files <= files', f <= files', NEW d, NEW k, WriteTo(f, n, d, TRUE, k),
           faults' \in {faults, faults + 1}, faults' # 0
    PROVE  DiskInv' /\ disk'[f] = d /\ f \in broken' /\ Untouched(f)
  <1>1. disk \in [File -> Content] /\ faults \in Nat
    BY DEF DiskInv
  <1>2. /\ disk' = [disk EXCEPT ![f] = d] /\ kept' = [kept EXCEPT ![f] = k] /\ broken' = broken \cup {f}
        /\ FileOk(d, n, TRUE, k)
    BY DEF WriteTo
  <1>3. DiskInv'
    <2> DEFINE b == TRUE
    <2>1. b \in BOOLEAN /\ broken' = (IF b THEN broken \cup {f} ELSE broken \ {f}) /\ FileOk(d, made', b, k)
      BY <1>2
    <2>2. faults' = 0 => ~b /\ Connected(EntriesOf(d))
      OBVIOUS
    <2> HIDE DEF b
    <2>3. faults' \in Nat /\ faults <= faults' /\ made' \in Nat /\ made <= made'
      BY <1>1
    <2> QED
      BY <1>2, <2>1, <2>2, <2>3, FileStep
  <1> QED
    BY <1>1, <1>2, <1>3 DEF Untouched

\* The open session stays as it is, with its file or while that is broken.
LEMMA MemoryStays ==
    ASSUME MemoryInv, UNCHANGED memory, made \in Nat, made' \in Nat, made <= made',
           files \in Nat, files' \in Nat, files <= files', faults' = 0 => faults = 0,
           up => \/ file \in broken'
                 \/ disk'[file] = disk[file] /\ (file \in broken' <=> file \in broken)
    PROVE  MemoryInv'
  <1>1. /\ up \in BOOLEAN /\ flushed \in BOOLEAN
        /\ entries \in Seq(EntryOf) /\ Numbered(entries, made)
        /\ leaf \in {Undefined} \cup 0..made
        /\ up => file \in 1..files
        /\ Synced
        /\ up /\ faults = 0 => Connected(entries) /\ (Plain(entries) => leaf \in Keys(entries) \cup {None})
    BY DEF MemoryInv
  <1>2. up' = up /\ file' = file /\ entries' = entries /\ leaf' = leaf /\ flushed' = flushed
    BY DEF memory
  <1>3. Numbered(entries, made')
    BY <1>1, NumberedBelow
  <1>4. leaf \in {Undefined} \cup 0..made'
    BY <1>1
  <1>5. up => file \in 1..files'
    BY <1>1
  <1>6. Synced'
    BY <1>1, <1>2 DEF Synced
  <1> QED
    BY <1>1, <1>2, <1>3, <1>4, <1>5, <1>6 DEF MemoryInv

\* A session is opened.
LEMMA ManagerOpens ==
    ASSUME NEW f, NEW es \in Seq(EntryOf), NEW n \in Nat, n = made', Numbered(es, n), faults' = 0 => Connected(es),
           f \in 1..files',
           \/ Manager(f, es, TRUE) /\ (f \notin broken' => Holds(disk'[f], es))
           \/ Manager(f, es, FALSE) /\ (f \notin broken' => ~HasAssistant(es) /\ ~disk'[f].exists)
    PROVE  MemoryInv'
  <1>1. up' = TRUE /\ file' = f /\ entries' = es /\ leaf' = IndexedLeaf(es) /\ flushed' \in BOOLEAN
    BY DEF Manager
  <1>2. Synced'
    BY DEF Synced, Manager
  <1>3. /\ IndexedLeaf(es) \in {Undefined} \cup 0..n
        /\ Plain(es) => IndexedLeaf(es) \in Keys(es) \cup {None}
    BY IndexedTyped
  <1> QED
    BY <1>1, <1>2, <1>3 DEF MemoryInv

\* Keys after an entry is appended.
LEMMA KeysAppend ==
    ASSUME NEW es \in Seq(EntryOf), NEW e \in EntryOf
    PROVE  Keys(Append(es, e)) = Keys(es) \cup {Key(e)}
  <1> DEFINE s == Append(es, e)
  <1>1. /\ s \in Seq(EntryOf) /\ Len(es) \in Nat /\ Len(s) = Len(es) + 1
        /\ \A i \in 1..Len(es) : s[i] = es[i]
        /\ s[Len(es) + 1] = e
    BY AtEnd
  <1> HIDE DEF s
  <1>2. DOMAIN s = 1..Len(s) /\ DOMAIN es = 1..Len(es)
    BY <1>1, LenProperties
  <1>3. \A i \in 1..Len(s) : i \in 1..Len(es) \/ i = Len(es) + 1
    BY <1>1
  <1>4. \A i \in 1..Len(es) : i \in 1..Len(s)
    BY <1>1
  <1>5. Len(es) + 1 \in 1..Len(s)
    BY <1>1
  <1>6. Keys(s) \subseteq Keys(es) \cup {Key(e)}
    BY <1>1, <1>2, <1>3 DEF Keys
  <1>7. Keys(es) \subseteq Keys(s)
    BY <1>1, <1>2, <1>4 DEF Keys
  <1>8. Key(e) \in Keys(s)
    BY <1>1, <1>2, <1>5 DEF Keys
  <1> QED
    BY <1>6, <1>7, <1>8 DEF s

\* The tree with one more entry.
LEMMA ConnectedAppend ==
    ASSUME NEW es \in Seq(EntryOf), NEW n \in Nat, Numbered(es, n), NEW e \in EntryOf, e.id = n + 1, ~e.old,
           Connected(es), NEW l, Plain(es) => l \in Keys(es) \cup {None}, e.parent \in {l, None} \cup Keys(es)
    PROVE  /\ Connected(Append(es, e))
           /\ Plain(Append(es, e)) => LeafAfter(e) \in Keys(Append(es, e)) \cup {None}
  <1> DEFINE s == Append(es, e)
  <1>1. /\ s \in Seq(EntryOf) /\ Len(es) \in Nat /\ Len(s) = Len(es) + 1
        /\ \A i \in 1..Len(es) : s[i] = es[i]
        /\ s[Len(es) + 1] = e
    BY AtEnd
  <1>2. Keys(s) = Keys(es) \cup {Key(e)} /\ Key(e) = n + 1
    BY KeysAppend, KeyTyped
  <1> HIDE DEF s
  <1>3. \A i \in 1..Len(s) : i \in 1..Len(es) \/ i = Len(es) + 1
    BY <1>1
  <1>4. \A i \in 1..Len(es) : i \in 1..Len(s)
    BY <1>1
  <1>5. Len(es) + 1 \in 1..Len(s)
    BY <1>1
  <1>6. ASSUME Plain(s)
        PROVE  Plain(es)
    <2>1. Undefined \notin Keys(es)
      BY <1>2, <1>6 DEF Plain
    <2>2. ASSUME NEW i \in 1..Len(es), es[i].kind = "leaf"
          PROVE  es[i].ref \in Keys(es) \cup {None}
      <3>1. es[i].ref \in Keys(es) \cup {n + 1, None}
        BY <1>1, <1>2, <1>4, <1>6, <2>2 DEF Plain
      <3>2. es[i].id \in Nat /\ es[i].id <= n /\ es[i].ref \in 0..(es[i].id - 1)
        BY <2>2, ElementOfSeq, KeyTyped DEF Numbered
      <3>3. es[i].ref # n + 1
        BY <3>2
      <3> QED
        BY <3>1, <3>3
    <2> QED
      BY <2>1, <2>2 DEF Plain
  <1>7. ASSUME Plain(s), NEW i \in 1..Len(s), s[i].parent # None
        PROVE  \E j \in 1..(i - 1) : Key(s[j]) = s[i].parent
    <2>1. CASE i \in 1..Len(es)
      <3>1. PICK j \in 1..(i - 1) : Key(es[j]) = es[i].parent
        BY <1>1, <1>6, <1>7, <2>1 DEF Connected
      <3>2. j \in 1..Len(es)
        BY <1>1, <2>1
      <3> QED
        BY <1>1, <2>1, <3>1, <3>2
    <2>2. CASE i = Len(es) + 1
      <3>1. e.parent \in Keys(es)
        BY <1>1, <1>6, <1>7, <2>2
      <3>2. PICK j \in 1..Len(es) : e.parent = Key(es[j])
        BY <3>1, KeysTyped
      <3>3. j \in 1..(i - 1)
        BY <1>1, <2>2
      <3> QED
        BY <1>1, <2>2, <3>2, <3>3
    <2> QED
      BY <1>3, <2>1, <2>2
  <1>8. ASSUME Plain(s)
        PROVE  LeafAfter(e) \in Keys(s) \cup {None}
    <2>1. CASE e.kind = "leaf"
      BY <1>1, <1>5, <1>8, <2>1 DEF Plain, LeafAfter
    <2>2. CASE e.kind # "leaf"
      BY <1>2, <2>2 DEF LeafAfter
    <2> QED
      BY <2>1, <2>2
  <1> QED
    BY <1>7, <1>8 DEF Connected, s

-----------------------------------------------------------------------------
(* Operations on an open session. *)

\* An entry that follows the leaf or another entry, written or not.
LEMMA AppendEntryKeeps ==
    ASSUME SessionInv, up, NEW e \in EntryOf, e.id = made + 1, ~e.old, e.parent \in {leaf, None} \cup Keys(entries),
           e.kind = "leaf" => e.ref \in 0..made, AppendEntry(e)
    PROVE  SessionInv'
  <1>1. /\ DiskInv /\ MemoryInv /\ Synced
        /\ entries \in Seq(EntryOf) /\ Numbered(entries, made)
        /\ leaf \in {Undefined} \cup 0..made /\ file \in 1..files
        /\ faults = 0 => Connected(entries) /\ (Plain(entries) => leaf \in Keys(entries) \cup {None})
    BY DEF SessionInv, MemoryInv
  <1>2. /\ made \in Nat /\ files \in 0..MaxFiles /\ MaxFiles \in Nat /\ faults \in Nat
        /\ faults = 0 => broken = {} /\ \A g \in File : Connected(EntriesOf(disk[g]))
        /\ \A g \in File : FileOk(disk[g], made, g \in broken, kept[g])
    BY <1>1, SessionFileAssumption DEF DiskInv
  <1>3. PICK f, es, n : f = file /\ es = Append(entries, e) /\ n = made + 1
    OBVIOUS
  <1>4. /\ f \in File /\ f <= files' /\ files' = files /\ files' \in 0..MaxFiles /\ files <= files'
        /\ n \in Nat /\ n = made' /\ made <= n /\ f \in 1..files'
    BY <1>1, <1>2, <1>3 DEF AppendEntry, File
  <1>5. up' = up /\ file' = f /\ entries' = es /\ leaf' = LeafAfter(e)
    BY <1>3 DEF AppendEntry
  <1>6. /\ e.parent < e.id /\ e.kind = "leaf" => e.ref \in 0..(e.id - 1)
        /\ e.parent < e.id
    <2>1. ASSUME e.parent \in Keys(entries)
          PROVE  e.parent <= made
      <3>1. Found(entries, e.parent).id <= made /\ (e.parent \in Nat => e.parent = Found(entries, e.parent).id)
        BY <1>1, <1>2, <2>1, ParentBefore
      <3>2. e.parent \in Nat
        BY KeyTyped
      <3> QED
        BY <3>1, <3>2
    <2>2. e.parent \in Nat
      BY KeyTyped
    <2>3. e.parent <= made
      BY <1>1, <1>2, <2>1, <2>2 DEF None, Undefined
    <2>4. e.id - 1 = made
      BY <1>2
    <2> QED
      BY <1>2, <2>2, <2>3, <2>4
  <1>7. es \in Seq(EntryOf) /\ Numbered(es, n)
    BY <1>1, <1>2, <1>3, <1>6, AtEnd, AppendNumbered
  <1>8. faults = 0 => Connected(es) /\ (Plain(es) => LeafAfter(e) \in Keys(es) \cup {None})
    BY <1>1, <1>2, <1>3, ConnectedAppend
  <1>9. LeafAfter(e) \in {Undefined} \cup 0..n
    <2>1. e.kind = "leaf" => e.ref \in 0..n
      BY <1>2, <1>3
    <2>2. Key(e) = n /\ n \in 0..n
      BY <1>2, <1>3, KeyTyped
    <2> QED
      BY <2>1, <2>2 DEF LeafAfter
  <1>10. ASSUME DiskInv', flushed' \in BOOLEAN, faults' = 0 => faults = 0, Synced'
         PROVE  SessionInv'
    BY <1>1, <1>4, <1>5, <1>7, <1>8, <1>9, <1>10 DEF SessionInv, MemoryInv
  <1>11. Persist(es)
    BY <1>3 DEF AppendEntry
  <1>12. flushed \in BOOLEAN /\ (f \notin broken => IF flushed THEN Holds(disk[f], entries)
                                                  ELSE ~HasAssistant(entries) /\ ~disk[f].exists)
    BY <1>1, <1>3 DEF MemoryInv, Synced
  <1>13. Last(es) = e
    BY <1>1, <1>3, AtEnd
  <1>14. CASE UNCHANGED <<flushed, disk, ghosts>> /\ ~flushed /\ (HasAssistant(es) => disk[f].exists)
    <2>1. DiskInv'
      BY <1>1, <1>4, <1>14, FilesStay
    <2>2. disk' = disk /\ broken' = broken /\ flushed' = flushed /\ faults' = faults
      BY <1>14 DEF ghosts
    <2>3. Synced'
      BY <1>5, <1>12, <1>14, <2>2 DEF Synced
    <2> QED
      BY <1>10, <1>12, <2>1, <2>2, <2>3
  <1>15. CASE flushed /\ flushed' = flushed /\ Written(f, disk[f], <<e>>, FALSE)
    <2>1. EntriesOf(disk[f]) \in Seq(EntryOf) /\ Numbered(EntriesOf(disk[f]), made)
      BY <1>2, <1>4, EntriesAre DEF FileOk
    <2>2. Numbered(Append(EntriesOf(disk[f]), e), n)
      BY <1>2, <1>3, <1>6, <2>1, AppendNumbered
    <2>3. PICK d : /\ f \in broken => WriteTo(f, n, d, TRUE, kept[f])
                   /\ f \notin broken => WriteTo(f, n, d, FALSE, kept[f])
                   /\ f \notin broken /\ Holds(disk[f], entries) => Holds(d, es) /\ d \in Content
      BY <1>1, <1>3, <1>4, <1>15, <2>2, WrittenLine
    <2>4. faults' = faults
      BY <1>1, <1>4, <1>15, <2>2, WrittenLine
    <2>5. CASE f \in broken
      <3>1. DiskInv' /\ f \in broken'
        BY <1>1, <1>2, <1>4, <2>3, <2>4, <2>5, BadWrite
      <3>2. Synced'
        BY <1>5, <3>1 DEF Synced
      <3> QED
        BY <1>10, <1>12, <1>15, <2>4, <3>1, <3>2
    <2>6. CASE f \notin broken
      <3>1. Holds(d, es) /\ EntriesOf(d) = es
        BY <1>7, <1>12, <1>15, <2>3, <2>6, HeldEntries
      <3>2. DiskInv' /\ disk'[f] = d
        BY <1>1, <1>4, <1>8, <2>3, <2>4, <2>6, <3>1, GoodWrite
      <3>3. Synced'
        BY <1>5, <1>15, <3>1, <3>2 DEF Synced
      <3> QED
        BY <1>10, <1>12, <1>15, <2>4, <3>2, <3>3
    <2> QED
      BY <2>5, <2>6
  <1>16. CASE flushed' = flushed /\ WriteFails(f, disk[f], <<e>>, FALSE)
    <2>1. EntriesOf(disk[f]) \in Seq(EntryOf) /\ Numbered(EntriesOf(disk[f]), made)
      BY <1>2, <1>4, EntriesAre DEF FileOk
    <2>2. Numbered(Append(EntriesOf(disk[f]), e), n)
      BY <1>2, <1>3, <1>6, <2>1, AppendNumbered
    <2>3. faults' = faults + 1 /\ \E d, k : WriteTo(f, n, d, TRUE, k)
      BY <1>1, <1>4, <1>16, <2>2, LineFails
    <2>4. faults' # 0 /\ faults' \in {faults, faults + 1}
      BY <1>2, <2>3
    <2>5. DiskInv' /\ f \in broken'
      BY <1>1, <1>4, <2>3, <2>4, BadWrite
    <2>6. Synced'
      BY <1>5, <2>5 DEF Synced
    <2> QED
      BY <1>10, <1>12, <1>16, <2>4, <2>5, <2>6
  <1>17. CASE Written(f, Empty, Created(es), TRUE) /\ flushed' = TRUE
    <2>1. faults' = faults /\ \E d : WriteTo(f, n, d, FALSE, <<>>) /\ Holds(d, es) /\ EntriesOf(d) = es
      BY <1>4, <1>7, <1>17, WrittenWhole
    <2>2. PICK d : WriteTo(f, n, d, FALSE, <<>>) /\ Holds(d, es) /\ EntriesOf(d) = es
      BY <2>1
    <2>3. DiskInv' /\ disk'[f] = d
      BY <1>1, <1>4, <1>8, <2>1, <2>2, GoodWrite
    <2>4. Synced'
      BY <1>5, <1>17, <2>2, <2>3 DEF Synced
    <2> QED
      BY <1>10, <1>17, <2>1, <2>3, <2>4
  <1>18. CASE WriteFails(f, Empty, Created(es), TRUE) /\ flushed' = flushed
    <2>1. faults' = faults + 1 /\ \E d : WriteTo(f, n, d, TRUE, <<>>)
      BY <1>1, <1>4, <1>7, <1>18, WholeFails
    <2>2. faults' # 0 /\ faults' \in {faults, faults + 1}
      BY <1>2, <2>1
    <2>3. DiskInv' /\ f \in broken'
      BY <1>1, <1>4, <2>1, <2>2, BadWrite
    <2>4. Synced'
      BY <1>5, <2>3 DEF Synced
    <2> QED
      BY <1>10, <1>12, <1>18, <2>2, <2>3, <2>4
  <1> QED
    BY <1>3, <1>11, <1>13, <1>14, <1>15, <1>16, <1>17, <1>18 DEF Persist

\* A new entry.
LEMMA NewEntry ==
    ASSUME SessionInv, NEW sort \in Kinds, NEW p \in Nat, NEW r \in Int, NEW e, e = Entry(made + 1, sort, p, r)
    PROVE  /\ e \in EntryOf /\ e.id = made + 1 /\ ~e.old
           /\ e.parent = p /\ e.kind = sort /\ e.ref = r
  <1> DEFINE id == made + 1
  <1>1. id \in Nat \ {0}
    BY DEF SessionInv, DiskInv
  <1>2. e = Entry(id, sort, p, r)
    OBVIOUS
  <1> HIDE DEF id
  <1>3. e \in EntryOf /\ e.id = id /\ ~e.old /\ e.parent = p /\ e.kind = sort /\ e.ref = r
    BY <1>1, <1>2 DEF Entry, EntryOf
  <1> QED
    BY <1>3 DEF id

\* Keys are numbers given out.
LEMMA KeyBelow ==
    ASSUME NEW es \in Seq(EntryOf), NEW n \in Nat, Numbered(es, n), NEW k \in Keys(es)
    PROVE  k \in {Undefined} \cup 0..n
  <1>1. Found(es, k).id <= n /\ (k \in Nat => k = Found(es, k).id)
    BY ParentBefore
  <1>2. k \in Nat \/ k = Undefined
    BY KeysTyped
  <1> QED
    BY <1>1, <1>2

\* The parent of a new entry is the leaf, or none.
LEMMA ParentIdIs ==
    ASSUME SessionInv
    PROVE  ParentId \in Nat /\ ParentId \in {leaf, None}
  <1>1. made \in Nat /\ leaf \in {Undefined} \cup 0..made
    BY DEF SessionInv, DiskInv, MemoryInv
  <1> QED
    BY <1>1 DEF ParentId, None

\* AppendEntryOf keeps the invariant.
LEMMA AppendEntryOfKeeps ==
    ASSUME SessionInv, NEW sort \in {"message", "assistant"}, AppendEntryOf(sort)
    PROVE  SessionInv'
  <1>1. PICK p, r : p = ParentId /\ r = None
    OBVIOUS
  <1>2. p \in Nat /\ p \in {leaf, None} /\ r \in Int /\ sort \in Kinds /\ sort # "leaf"
    BY <1>1, ParentIdIs DEF None, Kinds
  <1>3. PICK e : e = Entry(made + 1, sort, p, r)
    OBVIOUS
  <1>4. /\ e \in EntryOf /\ e.id = made + 1 /\ ~e.old
        /\ e.parent = p /\ e.kind = sort
    BY <1>2, <1>3, NewEntry
  <1>5. up /\ AppendEntry(e)
    BY <1>1, <1>3 DEF AppendEntryOf, CanAppend
  <1> QED
    BY <1>2, <1>4, <1>5, AppendEntryKeeps

\* AppendLabelChange keeps the invariant.
LEMMA AppendLabelChangeKeeps ==
    ASSUME SessionInv, NEW sort \in {"label", "unlabel"}, NEW t \in 1..MaxEntries, AppendLabelChange(sort, t)
    PROVE  SessionInv'
  <1>1. PICK p : p = ParentId
    OBVIOUS
  <1>2. p \in Nat /\ p \in {leaf, None} /\ t \in Int /\ sort \in Kinds /\ sort # "leaf"
    BY <1>1, ParentIdIs DEF Kinds
  <1>3. PICK e : e = Entry(made + 1, sort, p, t)
    OBVIOUS
  <1>4. /\ e \in EntryOf /\ e.id = made + 1 /\ ~e.old
        /\ e.parent = p /\ e.kind = sort
    BY <1>2, <1>3, NewEntry
  <1>5. up /\ AppendEntry(e)
    BY <1>1, <1>3 DEF AppendLabelChange, CanAppend
  <1> QED
    BY <1>2, <1>4, <1>5, AppendEntryKeeps

\* BranchWithSummary keeps the invariant.
LEMMA BranchWithSummaryKeeps ==
    ASSUME SessionInv, NEW from \in 0..MaxEntries, BranchWithSummary(from)
    PROVE  SessionInv'
  <1>1. from \in Nat /\ from \in {None} \cup Keys(entries) /\ None \in Int /\ "message" \in Kinds
    BY SessionFileAssumption DEF BranchWithSummary, None, Kinds
  <1>2. PICK e : e = Entry(made + 1, "message", from, None)
    OBVIOUS
  <1>3. /\ e \in EntryOf /\ e.id = made + 1 /\ ~e.old
        /\ e.parent = from /\ e.kind = "message"
    BY <1>1, <1>2, NewEntry
  <1>4. up /\ AppendEntry(e)
    BY <1>2 DEF BranchWithSummary, CanAppend
  <1> QED
    BY <1>1, <1>3, <1>4, AppendEntryKeeps

\* AppendCompaction keeps the invariant.
LEMMA AppendCompactionKeeps ==
    ASSUME SessionInv, AppendCompaction
    PROVE  SessionInv'
  <1> DEFINE path == Branch(entries, leaf)
  <1>1. made \in Nat /\ entries \in Seq(EntryOf) /\ Numbered(entries, made) /\ leaf \in {Undefined} \cup 0..made
    BY DEF SessionInv, DiskInv, MemoryInv
  <1>2. path \in Seq(EntryOf)
    BY <1>1, BranchGood DEF Branch, GoodPath
  <1>3. PICK i \in FirstKept(path) : AppendEntry(Entry(made + 1, "compaction", leaf, Key(path[i])))
    BY DEF AppendCompaction
  <1>4. i \in 1..Len(path)
    <2> HIDE DEF path
    <2>1. i \in DOMAIN path
      BY DEF FirstKept
    <2> QED
      BY <1>2, <2>1, LenProperties
  <1>5. PICK r : r = Key(path[i])
    OBVIOUS
  <1>6. r \in Int
    <2> HIDE DEF path
    <2>1. path[i] \in EntryOf
      BY <1>2, <1>4, ElementOfSeq
    <2> QED
      BY <1>5, <2>1, KeyTyped DEF Undefined
  <1>7. PICK p : p = leaf
    OBVIOUS
  <1>8. p \in Nat /\ up /\ "compaction" \in Kinds
    BY <1>1, <1>7 DEF AppendCompaction, CanAppend, Kinds
  <1>9. PICK e : e = Entry(made + 1, "compaction", p, r)
    OBVIOUS
  <1>10. /\ e \in EntryOf /\ e.id = made + 1 /\ ~e.old
         /\ e.parent = p /\ e.kind = "compaction"
    BY <1>6, <1>8, <1>9, NewEntry
  <1>11. AppendEntry(e)
    BY <1>3, <1>5, <1>7, <1>9
  <1> QED
    BY <1>7, <1>8, <1>10, <1>11, AppendEntryKeeps

\* SetLeafId keeps the invariant: the entry the leaf goes back to is on the path,
\* so it was made before.
LEMMA SetLeafIdKeeps ==
    ASSUME SessionInv, SetLeafId
    PROVE  SessionInv'
  <1> DEFINE path == Branch(entries, leaf)
             latest == SelectLastInSeq(path, LAMBDA e : e.kind \in {"message", "assistant"})
             I == {i \in 1..Len(path) : path[i].kind \in {"message", "assistant"}}
  <1>1. made \in Nat /\ entries \in Seq(EntryOf) /\ Numbered(entries, made) /\ leaf \in {Undefined} \cup 0..made
    BY DEF SessionInv, DiskInv, MemoryInv
  <1>2. GoodPath(entries, path, made) /\ path \in Seq(EntryOf)
    BY <1>1, BranchGood DEF Branch, GoodPath
  <1>3. latest = IF I # {} THEN Max(I) ELSE 0
    BY DEF SelectLastInSeq
  <1>4. latest # 0 /\ up /\ leaf # Undefined
    BY DEF SetLeafId, CanAppend
  <1>5. AppendEntry(Entry(made + 1, "leaf", leaf, path[latest].parent))
    BY DEF SetLeafId
  <1> HIDE DEF path, latest
  <1>6. latest \in 1..Len(path)
    <2> DEFINE n == Len(path)
    <2>1. I # {} /\ latest = Max(I) /\ I \subseteq 1..n /\ n \in Nat
      BY <1>2, <1>3, <1>4, LenProperties
    <2> HIDE DEF I, n
    <2>2. latest \in I
      BY <2>1, MaxIn
    <2> QED
      BY <2>2 DEF I
  <1>7. PICK x : x = path[latest]
    OBVIOUS
  <1>8. x \in EntryOf /\ x.id <= made /\ x.parent < x.id
    <2>1. x \in EntryOf /\ \E j \in 1..Len(entries) : x = entries[j]
      BY <1>2, <1>6, <1>7, ElementOfSeq DEF GoodPath
    <2> QED
      BY <1>1, <2>1 DEF Numbered
  <1>9. PICK p, r : p = leaf /\ r = x.parent
    OBVIOUS
  <1>10. p \in Nat /\ r \in Int /\ r \in 0..made /\ "leaf" \in Kinds
    <2>1. x.id \in Nat /\ x.parent \in Nat
      BY <1>8, KeyTyped
    <2> QED
      BY <1>1, <1>4, <1>8, <1>9, <2>1 DEF Kinds
  <1>11. PICK e : e = Entry(made + 1, "leaf", p, r)
    OBVIOUS
  <1>12. /\ e \in EntryOf /\ e.id = made + 1 /\ ~e.old
         /\ e.parent = p /\ e.ref = r
    BY <1>10, <1>11, NewEntry
  <1>13. AppendEntry(e)
    BY <1>5, <1>7, <1>9, <1>11
  <1> QED
    BY <1>4, <1>9, <1>10, <1>12, <1>13, AppendEntryKeeps

\* MoveLeaf keeps the invariant.
LEMMA MoveLeafKeeps ==
    ASSUME SessionInv, NEW to \in 0..MaxEntries, MoveLeaf(to)
    PROVE  SessionInv'
  <1>1. /\ DiskInv /\ made \in Nat /\ files \in 0..MaxFiles /\ MaxFiles \in Nat
        /\ up \in BOOLEAN /\ flushed \in BOOLEAN
        /\ entries \in Seq(EntryOf) /\ Numbered(entries, made)
        /\ up => file \in 1..files
        /\ Synced
        /\ up /\ faults = 0 => Connected(entries)
    BY SessionFileAssumption DEF SessionInv, DiskInv, MemoryInv
  <1>2. /\ to \in Keys(entries) \cup {None} /\ leaf' = to
        /\ UNCHANGED <<up, file, entries, flushed, disk, made, files, ghosts>>
    BY DEF MoveLeaf
  <1>3. broken' = broken /\ faults' = faults /\ UNCHANGED <<disk, ghosts>>
    BY <1>2 DEF ghosts
  <1>4. DiskInv'
    BY <1>1, <1>2, <1>3, FilesStay
  <1>5. to \in {Undefined} \cup 0..made
    BY <1>1, <1>2, KeyBelow DEF None
  <1>6. Synced'
    BY <1>1, <1>2, <1>3 DEF Synced
  <1> QED
    BY <1>1, <1>2, <1>3, <1>4, <1>5, <1>6 DEF SessionInv, MemoryInv

-----------------------------------------------------------------------------
(* Opening, forking and losing a session. *)

\* The parts of the invariant that the lemmas below use.
LEMMA InvParts ==
    ASSUME SessionInv
    PROVE  /\ DiskInv /\ MemoryInv
           /\ made \in Nat /\ files \in Nat /\ files \in 0..MaxFiles /\ MaxFiles \in Nat /\ faults \in Nat
           /\ faults = 0 => \A f \in File : Connected(EntriesOf(disk[f]))
           /\ \A f \in File : disk[f] \in Content /\ kept[f] \in Seq(EntryOf) /\ Numbered(EntriesOf(disk[f]), made)
           /\ \A f \in File : EntriesOf(disk[f]) \in Seq(EntryOf)
           /\ \A f \in File : f > files => disk[f] = Absent /\ f \notin broken
           /\ up => file \in File /\ file <= files /\ file \in 1..files
  <1>1. /\ DiskInv /\ MemoryInv
        /\ made \in Nat /\ files \in Nat /\ files \in 0..MaxFiles /\ MaxFiles \in Nat /\ faults \in Nat
        /\ faults = 0 => \A f \in File : Connected(EntriesOf(disk[f]))
        /\ \A f \in File : f > files => disk[f] = Absent /\ f \notin broken
    BY SessionFileAssumption DEF SessionInv, DiskInv
  <1>2. \A f \in File : disk[f] \in Content /\ kept[f] \in Seq(EntryOf) /\ Numbered(EntriesOf(disk[f]), made)
    BY <1>1 DEF DiskInv, FileOk
  <1>3. \A f \in File : EntriesOf(disk[f]) \in Seq(EntryOf)
    BY <1>2, EntriesAre
  <1>4. up => file \in 1..files
    BY <1>1 DEF MemoryInv
  <1>5. up => file \in File /\ file <= files
    BY <1>1, <1>4 DEF File
  <1> QED
    BY <1>1, <1>2, <1>3, <1>4, <1>5

\* A session without entries.
LEMMA NoEntries ==
    /\ <<>> \in Seq(EntryOf) /\ Connected(<<>>) /\ ~HasAssistant(<<>>)
    /\ \A n : Numbered(<<>>, n)
    /\ Created(<<>>) = <<Header>>
  <1>1. <<>> \in Seq(EntryOf) /\ Len(<<>>) = 0 /\ 1..0 = {} /\ DOMAIN <<>> = {}
    OBVIOUS
  <1>2. Created(<<>>) = <<Header>>
    <2>1. <<Header>> \o <<>> = <<Header>>
      OBVIOUS
    <2> QED
      BY <2>1 DEF Created
  <1> QED
    BY <1>1, <1>2 DEF Connected, HasAssistant, Numbered

\* A session is written in full and opened.
LEMMA OpensWritten ==
    ASSUME SessionInv, NEW f \in File, NEW es \in Seq(EntryOf), NEW n \in Nat, n = made', made <= n, Numbered(es, n),
           faults = 0 => Connected(es), files' \in 0..MaxFiles, files <= files', f <= files',
           Written(f, Empty, Created(es), TRUE), Manager(f, es, TRUE)
    PROVE  SessionInv'
  <1>1. DiskInv
    BY InvParts
  <1>2. faults' = faults /\ \E d : WriteTo(f, n, d, FALSE, <<>>) /\ Holds(d, es) /\ EntriesOf(d) = es
    BY WrittenWhole
  <1>3. PICK d : WriteTo(f, n, d, FALSE, <<>>) /\ Holds(d, es) /\ EntriesOf(d) = es
    BY <1>2
  <1>4. DiskInv' /\ disk'[f] = d
    BY <1>1, <1>2, <1>3, GoodWrite
  <1>5. f \in 1..files'
    BY SessionFileAssumption DEF File
  <1>6. MemoryInv'
    BY <1>2, <1>3, <1>4, <1>5, ManagerOpens
  <1> QED
    BY <1>4, <1>6 DEF SessionInv

\* Writing a session in full fails, and the open session stays.
LEMMA OpensBroken ==
    ASSUME SessionInv, NEW f \in File, NEW es \in Seq(EntryOf), NEW n \in Nat, n = made', made <= n, Numbered(es, n),
           files' \in 0..MaxFiles, files <= files', f <= files',
           WriteFails(f, Empty, Created(es), TRUE), UNCHANGED memory
    PROVE  SessionInv'
  <1>1. /\ DiskInv /\ MemoryInv /\ made \in Nat /\ files \in Nat /\ faults \in Nat
        /\ up => file \in File
    BY InvParts
  <1>2. faults' = faults + 1 /\ \E d : WriteTo(f, n, d, TRUE, <<>>)
    BY <1>1, WholeFails
  <1>3. faults' # 0 /\ faults' \in {faults, faults + 1}
    BY <1>1, <1>2
  <1>4. DiskInv' /\ f \in broken' /\ Untouched(f)
    BY <1>1, <1>2, <1>3, BadWrite
  <1>5. up => \/ file \in broken'
              \/ disk'[file] = disk[file] /\ (file \in broken' <=> file \in broken)
    BY <1>1, <1>4 DEF Untouched
  <1>6. MemoryInv'
    BY <1>1, <1>3, <1>5, MemoryStays
  <1> QED
    BY <1>4, <1>6 DEF SessionInv

\* A session that is not written yet is opened.
LEMMA OpensUnwritten ==
    ASSUME SessionInv, NEW f \in File, NEW es \in Seq(EntryOf), NEW n \in Nat, n = made', made <= n, Numbered(es, n),
           Connected(es), ~HasAssistant(es), ~disk[f].exists, files' \in 0..MaxFiles, files <= files', f <= files',
           UNCHANGED <<disk, ghosts>>, Manager(f, es, FALSE)
    PROVE  SessionInv'
  <1>1. DiskInv'
    BY InvParts, FilesStay
  <1>2. f \in 1..files'
    BY SessionFileAssumption DEF File
  <1>3. MemoryInv'
    BY <1>2, ManagerOpens
  <1> QED
    BY <1>1, <1>3 DEF SessionInv

\* The next file name is new.
LEMMA NewFile ==
    ASSUME SessionInv, files < MaxFiles
    PROVE  /\ files + 1 \in File /\ files + 1 \in 0..MaxFiles /\ files <= files + 1
           /\ ~disk[files + 1].exists
  <1>1. files \in Nat /\ MaxFiles \in Nat /\ \A f \in File : f > files => disk[f] = Absent
    BY InvParts
  <1>2. files + 1 \in File /\ files + 1 > files /\ files + 1 \in 0..MaxFiles /\ files <= files + 1
    BY <1>1 DEF File
  <1> QED
    BY <1>1, <1>2, EmptyContent

\* Exit keeps the invariant.
LEMMA ExitKeeps ==
    ASSUME SessionInv, Exit
    PROVE  SessionInv'
  <1>1. /\ up' = FALSE /\ entries' = <<>> /\ leaf' = None /\ flushed' = FALSE
        /\ made' = made /\ files' = files /\ UNCHANGED <<disk, ghosts>>
    BY DEF Exit
  <1>2. DiskInv /\ made \in Nat /\ files \in 0..MaxFiles /\ made <= made' /\ files <= files'
    BY <1>1, InvParts
  <1>3. DiskInv'
    BY <1>1, <1>2, FilesStay
  <1>4. leaf' \in {Undefined} \cup 0..made'
    BY <1>1, <1>2 DEF None
  <1> QED
    BY <1>1, <1>3, <1>4, NoEntries DEF SessionInv, MemoryInv, Synced

\* NewSession keeps the invariant.
LEMMA NewSessionKeeps ==
    ASSUME SessionInv, NewSession
    PROVE  SessionInv'
  <1>1. PICK f, n, es : f = files + 1 /\ n = made /\ es = <<>>
    OBVIOUS
  <1>2. files' = f /\ Manager(f, es, FALSE) /\ UNCHANGED <<disk, ghosts>> /\ made' = n
    BY <1>1 DEF NewSession
  <1>3. files < MaxFiles
    BY InvParts, SessionFileAssumption DEF NewSession
  <1>4. f \in File /\ f \in 0..MaxFiles /\ files <= f /\ ~disk[f].exists
    BY <1>1, <1>3, NewFile
  <1>5. n \in Nat /\ made <= n /\ f <= f
    BY <1>1, <1>4, InvParts
  <1> QED
    BY <1>1, <1>2, <1>4, <1>5, NoEntries, OpensUnwritten

\* Flush keeps the invariant.
LEMMA FlushKeeps ==
    ASSUME SessionInv, Flush
    PROVE  SessionInv'
  <1>1. /\ DiskInv /\ MemoryInv /\ made \in Nat /\ files \in 0..MaxFiles /\ files \in Nat /\ faults \in Nat
        /\ file \in File /\ file <= files
    BY InvParts DEF Flush
  <1>2. /\ entries \in Seq(EntryOf) /\ Numbered(entries, made) /\ (faults = 0 => Connected(entries))
        /\ up /\ UNCHANGED <<up, file, entries, leaf, made, files>>
    BY <1>1 DEF MemoryInv, Flush
  <1>3. PICK f, n, es : f = file /\ n = made /\ es = entries
    OBVIOUS
  <1>4. /\ f \in File /\ f <= files' /\ files' \in 0..MaxFiles /\ files <= files'
        /\ n \in Nat /\ n = made' /\ made <= n /\ es \in Seq(EntryOf) /\ Numbered(es, n)
    BY <1>1, <1>2, <1>3
  <1>5. CASE Written(f, Empty, Created(es), TRUE) /\ flushed' = TRUE
    <2>1. faults' = faults /\ \E d : WriteTo(f, n, d, FALSE, <<>>) /\ Holds(d, es) /\ EntriesOf(d) = es
      BY <1>4, <1>5, WrittenWhole
    <2>2. PICK d : WriteTo(f, n, d, FALSE, <<>>) /\ Holds(d, es) /\ EntriesOf(d) = es
      BY <2>1
    <2>3. DiskInv' /\ disk'[f] = d
      BY <1>1, <1>2, <1>3, <1>4, <2>1, <2>2, GoodWrite
    <2>4. Synced'
      BY <1>2, <1>3, <1>5, <2>2, <2>3 DEF Synced
    <2> QED
      BY <1>1, <1>2, <1>5, <2>1, <2>3, <2>4 DEF SessionInv, MemoryInv
  <1>6. CASE WriteFails(f, Empty, Created(es), TRUE) /\ UNCHANGED flushed
    <2>1. UNCHANGED memory
      BY <1>2, <1>6 DEF memory
    <2> QED
      BY <1>4, <1>6, <2>1, OpensBroken
  <1> QED
    BY <1>3, <1>5, <1>6 DEF Flush

\* A session read from its file.
LEMMA OpensRead ==
    ASSUME SessionInv, NEW f \in File, f <= files, UNCHANGED <<made, files>>,
           IsSession(disk[f]), Manager(f, EntriesOf(disk[f]), TRUE), UNCHANGED <<disk, faults>>,
           broken' = (IF disk[f].tail = "clean" THEN broken \ {f} ELSE broken),
           kept' = (IF disk[f].tail = "clean" THEN [kept EXCEPT ![f] = <<>>] ELSE kept)
    PROVE  SessionInv'
  <1>1. /\ DiskInv /\ made \in Nat /\ files \in Nat /\ files \in 0..MaxFiles /\ MaxFiles \in Nat
        /\ disk[f] \in Content /\ EntriesOf(disk[f]) \in Seq(EntryOf) /\ Numbered(EntriesOf(disk[f]), made)
        /\ faults = 0 => Connected(EntriesOf(disk[f]))
    BY InvParts
  <1>2. PICK c, es, n : c = disk[f] /\ es = EntriesOf(c) /\ n = made
    OBVIOUS
  <1>3. Holds(c, es)
    BY <1>1, <1>2, EntriesAre
  <1>4. f \in 1..files' /\ n \in Nat /\ n = made' /\ made <= n /\ files' \in 0..MaxFiles /\ files <= files' /\ f <= files'
    BY <1>1, <1>2 DEF File
  <1>5. disk \in [File -> Content] /\ disk'[f] = c
    BY <1>1, <1>2 DEF DiskInv
  <1>6. MemoryInv'
    BY <1>1, <1>2, <1>3, <1>4, <1>5, ManagerOpens
  <1>7. CASE c.tail = "clean"
    <2>1. disk' = [disk EXCEPT ![f] = c]
      BY <1>2, <1>5
    <2>2. FileOk(c, n, FALSE, <<>>)
      BY <1>1, <1>2, <1>7, NoEntries DEF FileOk
    <2>3. WriteTo(f, n, c, FALSE, <<>>)
      BY <1>2, <1>7, <2>1, <2>2 DEF WriteTo
    <2>4. DiskInv'
      BY <1>1, <1>2, <1>4, <2>3, GoodWrite
    <2> QED
      BY <1>6, <2>4 DEF SessionInv
  <1>8. CASE c.tail # "clean"
    <2>1. UNCHANGED <<disk, ghosts>>
      BY <1>2, <1>8 DEF ghosts
    <2>2. DiskInv'
      BY <1>1, <1>2, <1>4, <2>1, FilesStay
    <2> QED
      BY <1>6, <2>2 DEF SessionInv
  <1> QED
    BY <1>7, <1>8

\* OpenSession keeps the invariant.
LEMMA OpenSessionKeeps ==
    ASSUME SessionInv, NEW f \in File, OpenSession(f)
    PROVE  SessionInv'
  <1>1. /\ made \in Nat /\ files \in Nat /\ files \in 0..MaxFiles
        /\ EntriesOf(disk[f]) \in Seq(EntryOf) /\ Numbered(EntriesOf(disk[f]), made)
    BY InvParts
  <1>2. f <= files /\ UNCHANGED <<made, files>>
    BY DEF OpenSession, SetSessionFile
  <1>3. PICK n, none, es : n = made /\ none = <<>> /\ es = EntriesOf(disk[f])
    OBVIOUS
  <1>4. /\ n \in Nat /\ n = made' /\ made <= n /\ files' \in 0..MaxFiles /\ files <= files' /\ f <= files'
        /\ none \in Seq(EntryOf) /\ Numbered(none, n) /\ Connected(none) /\ ~HasAssistant(none)
        /\ Created(none) = <<Header>>
    BY <1>1, <1>2, <1>3, NoEntries
  <1>5. CASE ~disk[f].exists /\ Manager(f, none, FALSE) /\ UNCHANGED <<disk, ghosts>>
    BY <1>4, <1>5, OpensUnwritten
  <1>6. CASE Manager(f, none, TRUE) /\ Written(f, Empty, <<Header>>, TRUE)
    BY <1>4, <1>6, OpensWritten
  <1>7. CASE UNCHANGED memory /\ WriteFails(f, Empty, <<Header>>, TRUE)
    BY <1>4, <1>7, OpensBroken
  <1>8. PICK new : new = Migrate(es)
    OBVIOUS
  <1>9. new \in Seq(EntryOf) /\ Numbered(new, n) /\ Connected(new)
    BY <1>1, <1>3, <1>8, MigrateGood
  <1>10. CASE Manager(f, new, TRUE) /\ Written(f, Empty, Created(new), TRUE)
    BY <1>4, <1>9, <1>10, OpensWritten
  <1>11. CASE UNCHANGED memory /\ WriteFails(f, Empty, Created(new), TRUE)
    BY <1>4, <1>9, <1>11, OpensBroken
  <1>12. CASE /\ IsSession(disk[f]) /\ Manager(f, es, TRUE) /\ UNCHANGED <<disk, faults>>
              /\ broken' = IF disk[f].tail = "clean" THEN broken \ {f} ELSE broken
              /\ kept' = IF disk[f].tail = "clean" THEN [kept EXCEPT ![f] = <<>>] ELSE kept
    BY <1>2, <1>3, <1>12, OpensRead
  <1> QED
    BY <1>3, <1>5, <1>6, <1>7, <1>8, <1>10, <1>11, <1>12 DEF OpenSession, SetSessionFile

\* Fork keeps the invariant.
LEMMA ForkKeeps ==
    ASSUME SessionInv, NEW k \in 0..MaxEntries, Fork(k)
    PROVE  SessionInv'
  <1> DEFINE read == EntriesOf(disk[file])
             cut == Rechained(BranchOf(read, k, Kinds \ LabelKinds))
             again == RecreatedLabels(cut, Labels(read) \cap Keys(cut))
             whole == cut \o again
  <1>1. /\ up /\ files < MaxFiles /\ files' = files + 1 /\ made' = made + Len(again)
        /\ IF HasAssistant(whole)
           THEN \/ Written(files + 1, Empty, Created(whole), TRUE) /\ Manager(files + 1, whole, TRUE)
                \/ WriteFails(files + 1, Empty, Created(whole), TRUE) /\ UNCHANGED memory
           ELSE Manager(files + 1, whole, FALSE) /\ UNCHANGED <<disk, ghosts>>
    BY DEF Fork, CreateBranchedSession
  <1>2. made \in Nat /\ read \in Seq(EntryOf) /\ Numbered(read, made)
    BY <1>1, InvParts
  <1> HIDE DEF read
  <1>3. PICK path, targets, kinds : /\ path = cut /\ targets = Labels(read) \cap Keys(cut) /\ targets \subseteq Keys(path)
                                    /\ kinds = Kinds \ LabelKinds
    OBVIOUS
  <1>4. PICK labels : labels = RecreatedLabels(path, targets)
    OBVIOUS
  <1>5. PICK new : new = path \o labels
    OBVIOUS
  <1>6. path = Rechained(BranchOf(read, k, kinds)) /\ labels = again /\ new = whole
    BY <1>3, <1>4, <1>5
  <1>7. /\ new \in Seq(EntryOf) /\ Len(labels) \in Nat
        /\ Numbered(new, made + Len(labels)) /\ Connected(new)
    BY <1>2, <1>3, <1>4, <1>5, <1>6, NewBranch
  <1>8. PICK f, n : f = files + 1 /\ n = made + Len(labels)
    OBVIOUS
  <1> HIDE DEF cut, again, whole
  <1>9. /\ f \in File /\ files' = f /\ files' \in 0..MaxFiles /\ files <= files' /\ f <= files' /\ ~disk[f].exists
    <2>1. f \in File /\ f \in 0..MaxFiles /\ files <= f /\ ~disk[f].exists
      BY <1>1, <1>8, NewFile
    <2>2. files' = f /\ f <= f
      BY <1>1, <1>8, <2>1
    <2> QED
      BY <2>1, <2>2
  <1>10. n \in Nat /\ n = made' /\ made <= n /\ Numbered(new, n)
    BY <1>1, <1>2, <1>6, <1>7, <1>8
  <1>11. CASE Written(f, Empty, Created(new), TRUE) /\ Manager(f, new, TRUE)
    BY <1>7, <1>9, <1>10, <1>11, OpensWritten
  <1>12. CASE WriteFails(f, Empty, Created(new), TRUE) /\ UNCHANGED memory
    BY <1>7, <1>9, <1>10, <1>12, OpensBroken
  <1>13. CASE ~HasAssistant(new) /\ Manager(f, new, FALSE) /\ UNCHANGED <<disk, ghosts>>
    BY <1>7, <1>9, <1>10, <1>13, OpensUnwritten
  <1> QED
    BY <1>1, <1>6, <1>8, <1>11, <1>12, <1>13

\* ForkOfBlank keeps the invariant: only a broken file is blank while its session
\* is open and has an entry.
LEMMA ForkOfBlankKeeps ==
    ASSUME SessionInv, ForkOfBlank
    PROVE  SessionInv'
  <1>1. /\ DiskInv /\ MemoryInv /\ made \in Nat /\ files \in 0..MaxFiles /\ files \in Nat /\ faults \in Nat
        /\ up /\ file \in File /\ file <= files
        /\ \A f \in File : f \in broken => SafeIn(disk[f], kept[f])
        /\ broken \subseteq File
    <2>1. \A f \in File : FileOk(disk[f], made, f \in broken, kept[f])
      BY InvParts DEF DiskInv
    <2>2. \A f \in File : f \in broken => SafeIn(disk[f], kept[f])
      BY <2>1 DEF FileOk
    <2> QED
      BY <2>2, InvParts DEF ForkOfBlank, DiskInv
  <1>2. /\ disk[file].exists /\ disk[file].lines = <<>> /\ disk[file].tail = "clean"
        /\ Written(file, Empty, <<Header>>, FALSE) /\ UNCHANGED <<memory, made, files>>
    BY DEF ForkOfBlank, IsBlank
  <1>3. Len(disk[file].lines) = 0
    BY <1>2
  <1>4. file \in broken
    <2> SUFFICES ASSUME file \notin broken
                 PROVE  FALSE
      OBVIOUS
    <2>1. Holds(disk[file], entries) /\ entries \in Seq(EntryOf)
      BY <1>1, <1>2 DEF MemoryInv, Synced
    <2>2. Len(entries) \in Nat /\ 0 = Len(entries) + 1
      BY <1>3, <2>1, LenProperties DEF Holds
    <2> QED
      BY <2>2
  <1>5. PICK f, n, k : f = file /\ n = made /\ k = kept[file]
    OBVIOUS
  <1>6. k = <<>> /\ k \in Seq(EntryOf)
    <2>1. k \in Seq(EntryOf)
      BY <1>1, <1>5, InvParts
    <2>2. ASSUME k # <<>>
          PROVE  FALSE
      <3>1. Len(k) + 1 <= WholeLen(disk[file])
        BY <1>1, <1>4, <1>5, <2>2 DEF SafeIn
      <3>2. WholeLen(disk[file]) = 0
        BY <1>2, <1>3 DEF WholeLen
      <3>3. Len(k) \in Nat
        BY <2>1, LenProperties
      <3> QED
        BY <3>1, <3>2, <3>3
    <2> QED
      BY <2>1, <2>2
  <1> DEFINE d == WriteLines(Empty, <<Header>>)
  <1>7. d \in Content /\ EntriesOf(d) = <<>>
    <2>1. d = WriteLines(Empty, Created(<<>>)) /\ <<>> \in Seq(EntryOf)
      BY NoEntries
    <2>2. d \in Content /\ Holds(d, <<>>)
      BY <2>1, CreatedHeld
    <2> HIDE DEF d
    <2> QED
      BY <2>1, <2>2, HeldEntries
  <1>8. /\ disk' = [disk EXCEPT ![f] = d] /\ kept' = kept /\ broken' = broken /\ faults' = faults
    BY <1>2, <1>5 DEF Written
  <1> HIDE DEF d
  <1>9. SafeIn(d, k)
    BY <1>6 DEF SafeIn
  <1>10. FileOk(d, n, TRUE, k)
    BY <1>6, <1>7, <1>9, NoEntries DEF FileOk
  <1>11. kept' = [kept EXCEPT ![f] = k] /\ broken' = broken \cup {f}
    <2>1. kept \in [File -> Seq(EntryOf)]
      BY <1>1 DEF DiskInv
    <2>2. [kept EXCEPT ![f] = k] = kept
      BY <2>1, <1>5
    <2> QED
      BY <1>4, <1>5, <1>8, <2>2
  <1>12. WriteTo(f, n, d, TRUE, k)
    BY <1>8, <1>10, <1>11 DEF WriteTo
  <1>13. faults' # 0 /\ faults' \in {faults, faults + 1}
    BY <1>1, <1>4, <1>8 DEF DiskInv
  <1>14. f \in File /\ n \in Nat /\ n = made' /\ made <= n /\ files' \in 0..MaxFiles /\ files <= files' /\ f <= files'
    BY <1>1, <1>2, <1>5
  <1>15. DiskInv' /\ f \in broken'
    BY <1>1, <1>12, <1>13, <1>14, BadWrite
  <1>16. up => \/ file \in broken'
               \/ disk'[file] = disk[file] /\ (file \in broken' <=> file \in broken)
    BY <1>5, <1>15
  <1>17. faults' = 0 => faults = 0
    BY <1>13
  <1>18. MemoryInv'
    BY <1>1, <1>2, <1>16, <1>17, MemoryStays
  <1> QED
    BY <1>15, <1>18 DEF SessionInv

\* ForkFrom keeps the invariant.
LEMMA ForkFromKeeps ==
    ASSUME SessionInv, NEW g \in File, ForkFrom(g)
    PROVE  SessionInv'
  <1>1. /\ made \in Nat /\ EntriesOf(disk[g]) \in Seq(EntryOf) /\ Numbered(EntriesOf(disk[g]), made)
        /\ faults = 0 => Connected(EntriesOf(disk[g]))
    BY InvParts
  <1>2. PICK f, n, es : f = files + 1 /\ n = made /\ es = EntriesOf(disk[g])
    OBVIOUS
  <1>3. /\ files < MaxFiles /\ files' = f /\ made' = n
        /\ \/ Written(f, Empty, Created(es), TRUE) /\ Manager(f, es, TRUE)
           \/ WriteFails(f, Empty, Created(es), TRUE) /\ UNCHANGED memory
    BY <1>2 DEF ForkFrom
  <1>4. f \in File /\ f \in 0..MaxFiles /\ files <= f
    BY <1>2, <1>3, NewFile
  <1>5. n \in Nat /\ made <= n /\ f <= f
    BY <1>1, <1>2, <1>4 DEF File
  <1>6. CASE Written(f, Empty, Created(es), TRUE) /\ Manager(f, es, TRUE)
    BY <1>1, <1>2, <1>3, <1>4, <1>5, <1>6, OpensWritten
  <1>7. CASE WriteFails(f, Empty, Created(es), TRUE) /\ UNCHANGED memory
    BY <1>1, <1>2, <1>3, <1>4, <1>5, <1>7, OpensBroken
  <1> QED
    BY <1>3, <1>6, <1>7

-----------------------------------------------------------------------------
(* The invariant and what follows from it. *)

\* A version 1 file.
LEMMA OldFileGood ==
    FileOk(OldFile, 2, FALSE, <<>>) /\ Connected(EntriesOf(OldFile))
  <1>1. PICK a : a = [Entry(1, "message", None, None) EXCEPT !.old = TRUE]
    OBVIOUS
  <1>2. PICK b : b = [Entry(2, "assistant", None, None) EXCEPT !.old = TRUE]
    OBVIOUS
  <1>3. /\ a \in EntryOf /\ b \in EntryOf /\ a.id = 1 /\ b.id = 2 /\ a.parent = None /\ b.parent = None
        /\ a.kind # "leaf" /\ b.kind # "leaf" /\ a.old /\ b.old
    <2>1. a = [id |-> 1, kind |-> "message", parent |-> 0, ref |-> 0, old |-> TRUE]
      BY <1>1 DEF Entry, None
    <2>2. b = [id |-> 2, kind |-> "assistant", parent |-> 0, ref |-> 0, old |-> TRUE]
      BY <1>2 DEF Entry, None
    <2>3. a \in EntryOf /\ b \in EntryOf
      BY <2>1, <2>2 DEF EntryOf, Kinds
    <2> QED
      BY <2>1, <2>2, <2>3 DEF None
  <1> DEFINE es == <<a, b>>
             ls == <<OldHeader, a, b>>
             c == OldFile
  <1>4. c = [Empty EXCEPT !.lines = ls]
    BY <1>1, <1>2 DEF OldFile
  <1>5. c = [exists |-> TRUE, lines |-> ls, malformed |-> FALSE, tail |-> "clean"]
    <2> DEFINE e == Empty
               none == <<>>
    <2>1. e = [exists |-> TRUE, lines |-> none, malformed |-> FALSE, tail |-> "clean"]
      BY EmptyContent
    <2> HIDE DEF e, none, ls
    <2>2. [e EXCEPT !.lines = ls] = [exists |-> TRUE, lines |-> ls, malformed |-> FALSE, tail |-> "clean"]
      BY <2>1, OtherLines
    <2> QED
      BY <1>4, <2>2 DEF e
  <1>6. /\ es \in Seq(EntryOf) /\ Len(es) = 2 /\ es[1] = a /\ es[2] = b
        /\ Len(ls) = 3 /\ ls[1] = OldHeader /\ ls[2] = a /\ ls[3] = b
    BY <1>3
  <1>7. ls \in Seq(Line) /\ \A i \in 2..Len(ls) : ls[i] \in EntryOf
    <2>1. OldHeader \in Line /\ a \in Line /\ b \in Line
      BY <1>3, LineKinds
    <2>2. \A i \in 2..Len(ls) : i = 2 \/ i = 3
      BY <1>6
    <2> QED
      BY <1>3, <1>6, <2>1, <2>2
  <1> HIDE DEF ls, c
  <1>8. c \in Content /\ c.lines = ls /\ c.tail = "clean"
    BY <1>5, <1>7 DEF Content
  <1> HIDE DEF es
  <1>9. \A i \in 1..2 : i = 1 \/ i = 2
    OBVIOUS
  <1>10. Holds(c, es)
    <2>1. OldHeader.kind = "session"
      BY LineKinds
    <2> QED
      BY <1>6, <1>8, <1>9, <2>1 DEF Holds
  <1>11. EntriesOf(c) = es
    BY <1>6, <1>8, <1>10, HeldEntries
  <1>12. Numbered(es, 2)
    <2>1. \A i, j \in 1..2 : i < j => i = 1 /\ j = 2
      OBVIOUS
    <2> QED
      BY <1>3, <1>6, <1>9, <2>1 DEF Numbered, None
  <1>13. Connected(es)
    BY <1>3, <1>6, <1>9 DEF Connected
  <1> QED
    BY <1>8, <1>11, <1>12, <1>13, NoEntries DEF FileOk, c

\* The invariant holds at the start.
LEMMA SessionInvInit ==
    SessionInit => SessionInv
  <1> SUFFICES ASSUME SessionInit
               PROVE  SessionInv
    OBVIOUS
  <1>1. /\ up = FALSE /\ entries = <<>> /\ leaf = None /\ flushed = FALSE
        /\ faults = 0 /\ broken = {} /\ kept = [f \in File |-> <<>>]
    BY DEF SessionInit
  <1>2. MaxFiles \in Nat /\ 1 <= MaxFiles
    BY SessionFileAssumption
  <1>3. FileOk(Absent, 0, FALSE, <<>>) /\ FileOk(Absent, 2, FALSE, <<>>) /\ Connected(EntriesOf(Absent))
    BY EmptyContent, NoEntries DEF FileOk
  <1>4. /\ made \in {0, 2} /\ files \in {0, 1}
        /\ disk = [f \in File |-> disk[f]]
        /\ \A f \in File : FileOk(disk[f], made, FALSE, <<>>) /\ Connected(EntriesOf(disk[f]))
        /\ \A f \in File : f > files => disk[f] = Absent
    <2>1. CASE disk = [f \in File |-> Absent] /\ made = 0 /\ files = 0
      BY <1>3, <2>1
    <2>2. CASE disk = [f \in File |-> IF f = 1 THEN OldFile ELSE Absent] /\ made = 2 /\ files = 1
      <3>1. \A f \in File : f > 1 => f # 1
        BY DEF File
      <3> QED
        BY <1>3, <2>2, <3>1, OldFileGood
    <2> QED
      BY <2>1, <2>2 DEF SessionInit
  <1>5. \A f \in File : disk[f] \in Content
    BY <1>4 DEF FileOk
  <1>6. disk \in [File -> Content] /\ kept \in [File -> Seq(EntryOf)] /\ \A f \in File : kept[f] = <<>>
    <2>1. disk \in [File -> Content]
      BY <1>4, <1>5
    <2>2. <<>> \in Seq(EntryOf)
      BY NoEntries
    <2> QED
      BY <1>1, <2>1, <2>2
  <1>7. \A f \in File : FileOk(disk[f], made, f \in broken, kept[f])
    <2> SUFFICES ASSUME NEW f \in File
                 PROVE  FileOk(disk[f], made, f \in broken, kept[f])
      OBVIOUS
    <2>1. FileOk(disk[f], made, FALSE, <<>>) /\ f \notin broken /\ kept[f] = <<>>
      BY <1>1, <1>4, <1>6
    <2> QED
      BY <2>1 DEF FileOk
  <1>8. DiskInv
    <2>1. made \in Nat /\ files \in 0..MaxFiles /\ faults \in Nat /\ broken \subseteq File
      BY <1>1, <1>2, <1>4
    <2>2. \A f \in File : f > files => disk[f] = Absent /\ f \notin broken
      BY <1>1, <1>4
    <2>3. faults = 0 => broken = {} /\ \A f \in File : Connected(EntriesOf(disk[f]))
      BY <1>1, <1>4
    <2> QED
      BY <1>6, <1>7, <2>1, <2>2, <2>3 DEF DiskInv
  <1>9. MemoryInv
    <2>1. leaf \in {Undefined} \cup 0..made
      BY <1>1, <1>4 DEF None
    <2> QED
      BY <1>1, <2>1, NoEntries DEF MemoryInv, Synced
  <1> QED
    BY <1>8, <1>9 DEF SessionInv

\* The invariant is kept when nothing happens.
LEMMA SessionInvStutter ==
    ASSUME SessionInv, UNCHANGED sessionVars
    PROVE  SessionInv'
  <1>1. UNCHANGED memory /\ UNCHANGED <<disk, ghosts>> /\ made' = made /\ files' = files
    BY DEF sessionVars
  <1>2. disk' = disk /\ broken' = broken /\ faults' = faults
    BY <1>1 DEF ghosts
  <1>3. DiskInv /\ MemoryInv /\ made \in Nat /\ files \in 0..MaxFiles /\ files \in Nat
    BY InvParts
  <1>4. made' \in Nat /\ made <= made' /\ files' \in Nat /\ files' \in 0..MaxFiles /\ files <= files'
    BY <1>1, <1>3
  <1>5. DiskInv'
    BY <1>1, <1>3, <1>4, FilesStay
  <1>6. MemoryInv'
    BY <1>1, <1>2, <1>3, <1>4, MemoryStays
  <1> QED
    BY <1>5, <1>6 DEF SessionInv

\* The invariant is kept by every step.
LEMMA SessionInvNext ==
    SessionInv /\ [SessionNext]_sessionVars => SessionInv'
  <1> SUFFICES ASSUME SessionInv, [SessionNext]_sessionVars
               PROVE  SessionInv'
    OBVIOUS
  <1>1. CASE UNCHANGED sessionVars
    BY <1>1, SessionInvStutter
  <1>2. ASSUME NEW sort \in {"message", "assistant"}, AppendEntryOf(sort)
        PROVE  SessionInv'
    BY <1>2, AppendEntryOfKeeps
  <1>3. ASSUME NEW sort \in {"label", "unlabel"}, NEW t \in 1..MaxEntries, AppendLabelChange(sort, t)
        PROVE  SessionInv'
    BY <1>3, AppendLabelChangeKeeps
  <1>4. CASE AppendCompaction
    BY <1>4, AppendCompactionKeeps
  <1>5. CASE SetLeafId
    BY <1>5, SetLeafIdKeeps
  <1>6. ASSUME NEW to \in 0..MaxEntries, MoveLeaf(to)
        PROVE  SessionInv'
    BY <1>6, MoveLeafKeeps
  <1>7. ASSUME NEW to \in 0..MaxEntries, BranchWithSummary(to)
        PROVE  SessionInv'
    BY <1>7, BranchWithSummaryKeeps
  <1>8. ASSUME NEW to \in 0..MaxEntries, Fork(to)
        PROVE  SessionInv'
    BY <1>8, ForkKeeps
  <1>9. CASE ForkOfBlank
    BY <1>9, ForkOfBlankKeeps
  <1>10. CASE Flush
    BY <1>10, FlushKeeps
  <1>11. CASE NewSession
    BY <1>11, NewSessionKeeps
  <1>12. ASSUME NEW f \in File, OpenSession(f)
         PROVE  SessionInv'
    BY <1>12, OpenSessionKeeps
  <1>13. ASSUME NEW f \in File, ForkFrom(f)
         PROVE  SessionInv'
    BY <1>13, ForkFromKeeps
  <1>14. CASE Exit
    BY <1>14, ExitKeeps
  <1> QED
    BY <1>1, <1>2, <1>3, <1>4, <1>5, <1>6, <1>7, <1>8, <1>9, <1>10, <1>11, <1>12, <1>13, <1>14 DEF SessionNext

\* What a broken file held before is a prefix of what it holds.
LEMMA SafePrefix ==
    ASSUME NEW c \in Content, NEW es \in Seq(EntryOf), SafeIn(c, es)
    PROVE  IsPrefix(es, EntriesOf(c))
  <1> DEFINE t == EntriesOf(c)
             n == Len(es)
  <1>1. /\ t \in Seq(EntryOf) /\ n \in Nat /\ Len(t) \in Nat
        /\ IsSession(c) <=> Len(c.lines) > 0 /\ c.lines[1].kind = "session"
        /\ IsSession(c) => Holds(c, t)
    <2>1. n \in Nat
      BY LenProperties
    <2>2. t \in Seq(EntryOf)
      BY EntriesAre
    <2>3. Len(t) \in Nat
      BY <2>2, LenProperties
    <2> QED
      BY <2>1, <2>2, <2>3, EntriesAre
  <1>2. n <= Len(t) /\ \A i \in 1..n : t[i] = es[i]
    <2>1. CASE es = <<>>
      <3>1. n = 0
        BY <2>1
      <3> QED
        BY <1>1, <3>1
    <2>2. CASE es # <<>>
      <3>1. c.lines[1].kind = "session" /\ n + 1 <= WholeLen(c) /\ \A i \in 1..n : c.lines[i + 1] = es[i]
        BY <2>2 DEF SafeIn
      <3>2. Len(c.lines) \in Nat /\ WholeLen(c) \in {Len(c.lines), Len(c.lines) - 1}
        <4>1. c.lines \in Seq(Line)
          BY DEF Content
        <4> QED
          BY <4>1, LenProperties DEF WholeLen
      <3>3. n + 1 <= Len(c.lines) /\ Len(c.lines) > 0
        BY <1>1, <3>1, <3>2
      <3>4. Len(c.lines) = Len(t) + 1 /\ \A i \in 1..Len(t) : c.lines[i + 1] = t[i]
        BY <1>1, <3>1, <3>3 DEF Holds
      <3>5. n <= Len(t)
        BY <1>1, <3>3, <3>4
      <3>6. \A i \in 1..n : i \in 1..Len(t)
        BY <1>1, <3>5
      <3> QED
        BY <3>1, <3>4, <3>5, <3>6
    <2> QED
      BY <2>1, <2>2
  <1> DEFINE s == SubSeq(t, 1, n)
  <1> HIDE DEF t, n
  <1>3. s \in Seq(EntryOf) /\ Len(s) = n /\ \A i \in 1..n : s[i] = t[i]
    <2>1. \A i \in 1..n : i \in 1..Len(t)
      BY <1>1, <1>2
    <2>2. \A i \in 1..n : t[i] \in EntryOf
      BY <1>1, <2>1, ElementOfSeq
    <2>3. s \in Seq(EntryOf) /\ Len(s) = IF 1 <= n THEN n - 1 + 1 ELSE 0
      BY <1>1, <2>2, SubSeqProperties
    <2>4. \A i \in 1..n : 1 + i - 1 = i
      BY <1>1
    <2>5. Len(s) = n
      BY <1>1, <2>3
    <2>6. \A i \in 1..(n - 1 + 1) : s[i] = t[1 + i - 1]
      BY <1>1, <2>2, SubSeqProperties
    <2>7. n - 1 + 1 = n
      BY <1>1
    <2> QED
      BY <2>3, <2>4, <2>5, <2>6, <2>7
  <1>4. es = s
    <2>1. Len(es) = Len(s) /\ \A i \in 1..Len(es) : es[i] = s[i]
      BY <1>2, <1>3 DEF n
    <2> HIDE DEF s
    <2> QED
      BY <1>3, <2>1, SeqEqual
  <1> QED
    BY <1>2, <1>4 DEF IsPrefix, n, t

\* The invariant has the files keep the sessions.
LEMMA HistoryFollows ==
    SessionInv => HistoryKept
  <1> SUFFICES ASSUME SessionInv
               PROVE  HistoryKept
    OBVIOUS
  <1>1. ASSUME NEW f \in broken
        PROVE  IsPrefix(kept[f], EntriesOf(disk[f]))
    <2>1. f \in File
      BY DEF SessionInv, DiskInv
    <2>2. FileOk(disk[f], made, f \in broken, kept[f])
      BY <2>1 DEF SessionInv, DiskInv
    <2>3. disk[f] \in Content /\ kept[f] \in Seq(EntryOf) /\ SafeIn(disk[f], kept[f])
      BY <2>2 DEF FileOk
    <2> QED
      BY <2>3, SafePrefix
  <1>2. ASSUME up, file \notin broken, flushed \/ HasAssistant(entries)
        PROVE  EntriesOf(disk[file]) = entries
    <2>1. disk[file] \in Content /\ entries \in Seq(EntryOf)
      BY <1>2, InvParts DEF MemoryInv
    <2>2. Holds(disk[file], entries)
      BY <1>2 DEF SessionInv, MemoryInv, Synced
    <2> QED
      BY <2>1, <2>2, HeldEntries
  <1> QED
    BY <1>1, <1>2 DEF HistoryKept

\* The invariant has the entries form a tree.
LEMMA TreeFollows ==
    SessionInv => TreeClosed
  <1> SUFFICES ASSUME SessionInv, up, faults = 0, Undefined \notin Keys(entries),
                      \A i \in DOMAIN entries : entries[i].kind = "leaf" => entries[i].ref \in Keys(entries) \cup {None}
               PROVE  /\ leaf \in Keys(entries) \cup {None}
                      /\ \A i \in DOMAIN entries : entries[i].parent \in {None} \cup Keys(SubSeq(entries, 1, i - 1))
    BY DEF TreeClosed
  <1>1. /\ entries \in Seq(EntryOf) /\ Connected(entries)
        /\ Plain(entries) => leaf \in Keys(entries) \cup {None}
    BY DEF SessionInv, MemoryInv
  <1>2. Len(entries) \in Nat /\ DOMAIN entries = 1..Len(entries)
    BY <1>1, LenProperties
  <1>3. Plain(entries)
    BY <1>2 DEF Plain
  <1>4. ASSUME NEW i \in 1..Len(entries), entries[i].parent # None
        PROVE  entries[i].parent \in Keys(SubSeq(entries, 1, i - 1))
    <2>1. PICK j \in 1..(i - 1) : Key(entries[j]) = entries[i].parent
      BY <1>1, <1>3, <1>4 DEF Connected
    <2> DEFINE n == i - 1
               s == SubSeq(entries, 1, n)
    <2>2. n \in Nat /\ j \in 1..n /\ \A l \in 1..n : l \in 1..Len(entries)
      BY <1>2, <1>4, <2>1
    <2> HIDE DEF n
    <2>3. \A l \in 1..n : entries[l] \in EntryOf
      BY <1>1, <2>2, ElementOfSeq
    <2>4. s \in Seq(EntryOf) /\ Len(s) = IF 1 <= n THEN n - 1 + 1 ELSE 0
      BY <2>2, <2>3, SubSeqProperties
    <2>5. Len(s) = n
      BY <2>2, <2>4
    <2>6. \A l \in 1..(n - 1 + 1) : s[l] = entries[1 + l - 1]
      BY <2>2, <2>3, SubSeqProperties
    <2>7. n - 1 + 1 = n /\ 1 + j - 1 = j
      BY <2>2
    <2>8. s[j] = entries[j]
      BY <2>2, <2>6, <2>7
    <2>9. j \in DOMAIN s
      <3> HIDE DEF s
      <3> QED
        BY <2>2, <2>4, <2>5, LenProperties
    <2>10. Key(s[j]) \in Keys(s)
      BY <2>9 DEF Keys
    <2> QED
      BY <2>1, <2>8, <2>10 DEF s, n
  <1> QED
    BY <1>1, <1>2, <1>3, <1>4

\* The invariant holds of every reachable state.
LEMMA SessionInvHolds ==
    SessionSpec => []SessionInv
  <1>1. SessionInit => SessionInv
    BY SessionInvInit
  <1>2. SessionInv /\ [SessionNext]_sessionVars => SessionInv'
    BY SessionInvNext
  <1> QED
    BY <1>1, <1>2, PTL DEF SessionSpec

\* A session that has an answer or was flushed is what its file gives back, and a
\* failed write (_persist) leaves all the file held before readable, for any
\* number of entries, files and failures.
THEOREM HistoryKeptHolds ==
    SessionSpec => []HistoryKept
  <1>1. SessionInv => HistoryKept
    BY HistoryFollows
  <1> QED
    BY <1>1, SessionInvHolds, PTL

\* While no write has failed, every parent of an entry of the open session comes
\* before it and the leaf is one of the entries, for any number of entries and
\* files, through branching, retries, migration, forks and reopenings.
THEOREM TreeClosedHolds ==
    SessionSpec => []TreeClosed
  <1>1. SessionInv => TreeClosed
    BY TreeFollows
  <1> QED
    BY <1>1, SessionInvHolds, PTL

=============================================================================
