--------------------------- MODULE RpcProcessProofs ---------------------------
(* Answers, prompts and the end of a child process, for any number of calls, *)
(* ids and disposers and any limits.                                         *)
EXTENDS RpcProcess, FiniteSetTheorems, SequenceTheorems, TLAPS

InMessage == [command : Command, call : Call \cup {None}, aim : Call \cup {None}]
OutMessage == [id : Id, call : Call]

Sent == {r \in Call : request[r] # None}
IsPrompt(m) == m.command = "prompt"

\* The channels carry messages of their kind, and only prompts of a call.
Channels ==
    /\ stdin \in Seq(InMessage) /\ stdout \in Seq(OutMessage)
    /\ \A k \in 1..Len(stdin) : IsPrompt(stdin[k]) => stdin[k].call # None

\* A call has sent its request exactly once it is no longer unused, and its
\* id is its own for ever.
IdsOwned ==
    /\ \A r \in Call : r \in Sent <=> outcome[r] # "unused"
    /\ \A r \in Sent : request[r].id \in used
    /\ \A r, s \in Sent : request[r].id = request[s].id => r = s

\* Whatever is under way belongs to a request that was sent; an answer
\* carries the id of the call it is for.
Traffic ==
    /\ \A k \in 1..Len(stdin) : stdin[k].call # None => stdin[k].call \in Sent
    /\ working \subseteq Sent
    /\ \A k \in 1..Len(stdout) :
        stdout[k].call \in Sent /\ stdout[k].id = request[stdout[k].call].id

OwnAnswers == \A r \in Call : outcome[r] = "resolved" => answer[r] = r

AnswerInv == TypeOK /\ Channels /\ IdsOwned /\ Traffic /\ OwnAnswers

-----------------------------------------------------------------------------

\* The end: what an exit event, a listener and a disposer know.
EndInv ==
    /\ NothingPendingAfterEnd
    /\ told = (IF exited THEN 1 ELSE 0)
    /\ exited => proc \in Over
    /\ exitSeen => exited
    /\ DisposeTruthful

-----------------------------------------------------------------------------

\* A call is in one place on its way: written, read, or answered.
OnePlace ==
    /\ \A j, k \in 1..Len(stdin) :
        stdin[j].call = stdin[k].call /\ stdin[j].call # None => j = k
    /\ \A k \in 1..Len(stdin) : stdin[k].call \notin working
    /\ \A j \in 1..Len(stdout) :
        /\ stdout[j].call \notin working
        /\ \A k \in 1..Len(stdin) : stdin[k].call # stdout[j].call

\* A prompt on its way is one of a request for a prompt.
PromptsMatch ==
    \A k \in 1..Len(stdin) :
        stdin[k].call # None => stdin[k].command = request[stdin[k].call].command

\* The prompts in preflight that an abort still would have to stop.
Heard == Preflight \ missed

\* An abort lies between the j-th and the k-th message of s.
AbortIn(s, j, k) == \E i \in (j + 1)..(k - 1) : s[i].command = "abort"

AbortAfter(j) == AbortIn(stdin, j, Len(stdin) + 1)

\* Between two prompts that reach a running child there is an abort.
AbortsSeparate ==
    proc = "running" => \A k \in 1..Len(stdin) : IsPrompt(stdin[k]) =>
        /\ \A j \in 1..(k - 1) : IsPrompt(stdin[j]) => AbortIn(stdin, j, k)
        /\ Heard # {} => AbortIn(stdin, 0, k)

\* A prompt that still can run in a client in service has its caller waiting,
\* or an abort behind it.
AbandonedAborted ==
    proc = "running" /\ ~exited /\ ~disposing =>
        /\ \A j \in 1..Len(stdin) : IsPrompt(stdin[j]) =>
                outcome[stdin[j].call] = "pending" \/ AbortAfter(j)
        /\ \A r \in Heard : outcome[r] = "pending" \/ AbortAfter(0)

\* The turn is a prompt's, whose caller waits, has its answer, or has an
\* abort on its way.
TurnHeeded ==
    turn # None =>
        /\ turn \in Sent /\ request[turn].command = "prompt"
        /\ proc = "running" /\ ~exited /\ ~disposing /\ phase # "stopping" /\ turn \notin missed =>
              outcome[turn] # "rejected" \/ AbortAfter(0)

\* c is the prompt read last by whoever had read l and then reads s up to,
\* but without, its k-th message.
LastIn(s, l, k, c) ==
    \/ (\A j \in 1..(k - 1) : ~IsPrompt(s[j])) /\ l = c
    \/ \E j \in 1..(k - 1) :
        /\ IsPrompt(s[j]) /\ s[j].call = c
        /\ \A i \in (j + 1)..(k - 1) : ~IsPrompt(s[i])

\* Aborts follow their own prompt, and the pending prompt was written last.
AimsRight ==
    /\ \A k \in 1..Len(stdin) :
        stdin[k].command = "abort" /\ stdin[k].aim # None =>
            LastIn(stdin, last, k, stdin[k].aim)
    /\ proc \notin Over =>
        \A r \in PendingPrompts : LastIn(stdin, last, Len(stdin) + 1, r)

\* One prompt waits for its answer, one at most runs, none in a dead child.
OneAtATime ==
    /\ \A r, s \in PendingPrompts : r = s
    /\ Heard \subseteq {last}
    /\ proc \in Over => working = {} /\ stdin = <<>>

PromptInv == OnePlace /\ PromptsMatch /\ AbortsSeparate /\ AbandonedAborted
             /\ AimsRight /\ OneAtATime

IndInv == AnswerInv /\ EndInv /\ PromptInv

-----------------------------------------------------------------------------
(* What appending and reading do to a channel.                             *)

Grown(s, t, m) ==
    /\ Len(t) = Len(s) + 1
    /\ \A k \in 1..Len(s) : t[k] = s[k]
    /\ t[Len(s) + 1] = m

Shrunk(s, t) ==
    /\ Len(s) >= 1 /\ Len(t) = Len(s) - 1
    /\ \A k \in 1..Len(t) : k + 1 \in 1..Len(s) /\ t[k] = s[k + 1]

\* A message appended is the last one; the others keep their places.
LEMMA AppendGrows ==
    ASSUME NEW S, NEW s \in Seq(S), NEW m \in S
    PROVE  Append(s, m) \in Seq(S) /\ Grown(s, Append(s, m), m)
  BY AppendProperties DEF Grown

\* Reading the head moves every other message up by one.
LEMMA TailShrinks ==
    ASSUME NEW S, NEW s \in Seq(S), s # <<>>
    PROVE  Tail(s) \in Seq(S) /\ Shrunk(s, Tail(s)) /\ Head(s) = s[1] /\ Head(s) \in S
<1>1. Len(s) \in Nat /\ Len(s) >= 1
  BY EmptySeq
<1>2. Tail(s) \in Seq(S) /\ Head(s) \in S /\ Len(Tail(s)) = Len(s) - 1
      /\ \A i \in 1..Len(Tail(s)) : Tail(s)[i] = s[i + 1]
  BY HeadTailProperties
<1>3. Head(s) = s[1]
  OBVIOUS
<1> QED
  BY <1>1, <1>2, <1>3 DEF Shrunk

\* Writing to the child appends one message, unless it is gone.
LEMMA WriteGrows ==
    ASSUME Channels, NEW m \in InMessage, IsPrompt(m) => m.call # None, Write(m)
    PROVE  /\ stdin' \in Seq(InMessage)
           /\ \A k \in 1..Len(stdin') : IsPrompt(stdin'[k]) => stdin'[k].call # None
           /\ \/ proc \in Over /\ stdin' = stdin
              \/ proc \notin Over /\ Grown(stdin, stdin', m)
<1>1. CASE proc \in Over
  BY <1>1 DEF Write, Channels
<1>2. CASE proc \notin Over
  <2>1. stdin' \in Seq(InMessage) /\ Grown(stdin, stdin', m)
    BY <1>2, AppendGrows DEF Write, Channels
  <2>2. Len(stdin) \in Nat
    BY DEF Channels
  <2> QED
    BY <1>2, <2>1, <2>2 DEF Grown, Channels
<1> QED
  BY <1>1, <1>2

-----------------------------------------------------------------------------
(* Answers.                                                                *)

\* An id that send accepts was never used, so it stays one call's own.
LEMMA SendOwnsId ==
    ASSUME AnswerInv, NEW r \in Call, NEW id \in Id, NEW command \in Command,
           Unrefused(r, id, command), NEW o \in {"pending", "rejected"},
           outcome' = [outcome EXCEPT ![r] = o]
    PROVE  /\ TypeOK' /\ IdsOwned' /\ OwnAnswers'
           /\ r \notin Sent /\ request'[r] = [id |-> id, command |-> command] /\ r \in Sent'
           /\ \A s \in Call \ {r} : request'[s] = request[s]
<1>1. [id |-> id, command |-> command] \in Request /\ [id |-> id, command |-> command] # None
  BY RpcProcessAssumption DEF Request
<1>2. id \notin used /\ outcome[r] = "unused"
  BY DEF Unrefused, Refuses
<1>3. r \notin Sent /\ request'[r] = [id |-> id, command |-> command] /\ r \in Sent'
  BY <1>1, <1>2 DEF AnswerInv, TypeOK, IdsOwned, Unrefused, Sent
<1>4. \A s \in Call \ {r} : request'[s] = request[s] /\ outcome'[s] = outcome[s]
  BY DEF AnswerInv, TypeOK, Unrefused
<1>5. TypeOK'
  BY <1>1 DEF AnswerInv, TypeOK, Unrefused, child, ending
<1>6. IdsOwned'
  <2>1. request'[r].id = id
    BY <1>3
  <2> QED
    BY <2>1, <1>2, <1>3, <1>4 DEF AnswerInv, TypeOK, IdsOwned, Unrefused, Sent
<1>7. OwnAnswers'
  BY <1>2, <1>4 DEF AnswerInv, TypeOK, OwnAnswers, Unrefused
<1> QED
  BY <1>3, <1>4, <1>5, <1>6, <1>7

\* The channels go on after a send: a message of the new call, or of none.
LEMMA SendTraffic ==
    ASSUME AnswerInv, NEW r \in Call, NEW m \in InMessage, m.call \in {r, None},
           IsPrompt(m) => m.call # None,
           r \notin Sent, r \in Sent', \A s \in Call \ {r} : request'[s] = request[s],
           UNCHANGED <<stdout, working>>, Write(m) \/ stdin' = stdin
    PROVE  Channels' /\ Traffic'
<1>1. /\ stdin' \in Seq(InMessage)
      /\ \A k \in 1..Len(stdin') : IsPrompt(stdin'[k]) => stdin'[k].call # None
      /\ stdin' = stdin \/ Grown(stdin, stdin', m)
  BY WriteGrows DEF AnswerInv, Channels
<1>2. Channels'
  BY <1>1 DEF AnswerInv, Channels
<1>3. Sent \subseteq Sent' /\ \A s \in Sent : request'[s] = request[s]
  BY DEF Sent
<1>4. /\ Len(stdin) \in Nat /\ Len(stdout) \in Nat
      /\ \A k \in 1..Len(stdin) : stdin[k] \in InMessage
      /\ \A k \in 1..Len(stdout) : stdout[k] \in OutMessage
  BY DEF AnswerInv, Channels
<1>5. \A k \in 1..Len(stdin') : stdin'[k].call # None => stdin'[k].call \in Sent'
  BY <1>1, <1>3, <1>4 DEF AnswerInv, Traffic, Grown, InMessage
<1>6. working' \subseteq Sent'
  BY <1>3 DEF AnswerInv, TypeOK, Traffic
<1>7. \A k \in 1..Len(stdout') :
        stdout'[k].call \in Sent' /\ stdout'[k].id = request'[stdout'[k].call].id
  BY <1>3, <1>4 DEF AnswerInv, Traffic, OutMessage
<1> QED
  BY <1>2, <1>5, <1>6, <1>7 DEF Traffic

\* send and cancel.
LEMMA SendAnswers ==
    ASSUME AnswerInv, NEW r \in Call, NEW id \in Id, NEW command \in Command,
           NEW aim \in Call \cup {None}, SendFor(r, id, command, aim)
    PROVE  AnswerInv'
<1> DEFINE m == [command |-> command, call |-> r, aim |-> aim]
<1>1. m \in InMessage /\ m.call = r /\ m.call # None
  BY RpcProcessAssumption DEF InMessage
<1>2. Unrefused(r, id, command) /\ outcome' = [outcome EXCEPT ![r] = "pending"] /\ Write(m)
  BY DEF SendFor
<1>3. UNCHANGED <<stdout, working>>
  BY <1>2 DEF Unrefused, child
<1> HIDE DEF m
<1>4. /\ TypeOK' /\ IdsOwned' /\ OwnAnswers' /\ r \notin Sent /\ r \in Sent'
      /\ \A s \in Call \ {r} : request'[s] = request[s]
  BY <1>2, SendOwnsId
<1> QED
  BY <1>1, <1>2, <1>3, <1>4, SendTraffic DEF AnswerInv

\* send with a signal that has fired.
LEMMA SendAbortedAnswers ==
    ASSUME AnswerInv, NEW r \in Call, NEW id \in Id, NEW command \in Command,
           SendAborted(r, id, command)
    PROVE  AnswerInv'
<1> DEFINE m == [command |-> "abort", call |-> None, aim |-> None]
<1>1. m \in InMessage /\ m.call = None /\ ~IsPrompt(m)
  BY DEF InMessage, Command, IsPrompt
<1>2. Unrefused(r, id, command) /\ outcome' = [outcome EXCEPT ![r] = "rejected"]
  BY DEF SendAborted
<1>3. UNCHANGED <<stdout, working>> /\ (Write(m) \/ stdin' = stdin)
  BY DEF SendAborted, Unrefused, child, Write
<1> HIDE DEF m
<1>4. /\ TypeOK' /\ IdsOwned' /\ OwnAnswers' /\ r \notin Sent /\ r \in Sent'
      /\ \A s \in Call \ {r} : request'[s] = request[s]
  BY <1>2, SendOwnsId
<1> QED
  BY <1>1, <1>2, <1>3, <1>4, SendTraffic DEF AnswerInv

\* Requests that end without an answer change nothing an answer depends on.
LEMMA RejectAnswers ==
    ASSUME AnswerInv, TypeOK', UNCHANGED <<used, request, answer, stdout, working>>,
           \A r \in Call : outcome'[r] = outcome[r]
                             \/ (outcome[r] = "pending" /\ outcome'[r] = "rejected"),
           \/ stdin' = stdin \/ stdin' = <<>>
           \/ \E r \in Call : Write([command |-> "abort", call |-> None, aim |-> r])
    PROVE  AnswerInv'
<1>1. IdsOwned' /\ OwnAnswers'
  BY DEF AnswerInv, TypeOK, IdsOwned, OwnAnswers, Sent
<1>2. /\ Len(stdin) \in Nat /\ Len(stdout) \in Nat
      /\ \A k \in 1..Len(stdin) : stdin[k] \in InMessage
  BY DEF AnswerInv, Channels
<1>3. Sent' = Sent
  BY DEF Sent
<1>4. CASE stdin' = stdin
  BY <1>1, <1>3, <1>4 DEF AnswerInv, Channels, Traffic
<1>5. CASE stdin' = <<>>
  BY <1>1, <1>3, <1>5, EmptySeq DEF AnswerInv, Channels, Traffic
<1>6. ASSUME NEW r \in Call, Write([command |-> "abort", call |-> None, aim |-> r])
      PROVE  AnswerInv'
  <2> DEFINE m == [command |-> "abort", call |-> None, aim |-> r]
  <2>1. m \in InMessage /\ ~IsPrompt(m) /\ m.call = None
    BY DEF InMessage, Command, IsPrompt
  <2>2. Write(m)
    BY <1>6
  <2> HIDE DEF m
  <2>3. /\ stdin' \in Seq(InMessage)
        /\ \A k \in 1..Len(stdin') : IsPrompt(stdin'[k]) => stdin'[k].call # None
        /\ stdin' = stdin \/ Grown(stdin, stdin', m)
    BY <2>1, <2>2, WriteGrows DEF AnswerInv
  <2>4. Channels'
    BY <2>3 DEF AnswerInv, Channels
  <2>5. \A k \in 1..Len(stdin') : stdin'[k].call # None => stdin'[k].call \in Sent'
    BY <2>1, <2>3, <1>2, <1>3 DEF AnswerInv, Traffic, Grown
  <2> QED
    BY <1>1, <1>3, <2>4, <2>5 DEF AnswerInv, Traffic
<1> QED
  BY <1>4, <1>5, <1>6

\* An answer resolves the one call its id belongs to.
LEMMA HandleLineAnswers ==
    ASSUME AnswerInv, HandleLine
    PROVE  AnswerInv'
<1> DEFINE m == Head(stdout)
<1>1. stdout' \in Seq(OutMessage) /\ Shrunk(stdout, stdout') /\ m = stdout[1] /\ m \in OutMessage
  BY TailShrinks DEF HandleLine, AnswerInv, Channels
<1>2. Len(stdout) \in Nat
  BY DEF AnswerInv, Channels
<1>3. m.call \in Call /\ m.call \in Sent /\ m.id = request[m.call].id
  BY <1>1, <1>2 DEF AnswerInv, Traffic, Shrunk, OutMessage
<1>4. UNCHANGED <<request, used, stdin, working>> /\ Sent' = Sent
  BY DEF HandleLine, child, Sent
<1>5. Channels' /\ Traffic'
  <2>1. Channels'
    BY <1>1, <1>4 DEF AnswerInv, Channels
  <2>2. \A k \in 1..Len(stdout') :
          stdout'[k].call \in Sent' /\ stdout'[k].id = request'[stdout'[k].call].id
    BY <1>1, <1>4 DEF AnswerInv, Traffic, Shrunk
  <2> QED
    BY <2>1, <2>2, <1>4 DEF AnswerInv, Traffic
<1> HIDE DEF m
<1>6. ASSUME NEW r \in Pending, request[r].id = m.id,
             outcome' = [outcome EXCEPT ![r] = "resolved"],
             answer' = [answer EXCEPT ![r] = m.call]
      PROVE  AnswerInv'
  <2>1. r \in Call /\ outcome[r] = "pending" /\ r \in Sent
    BY <1>6 DEF Pending, AnswerInv, IdsOwned
  <2>2. m.call = r
    BY <1>3, <1>6, <2>1 DEF AnswerInv, IdsOwned
  <2>3. TypeOK'
    BY <1>3, <1>6, <2>1 DEF AnswerInv, TypeOK, HandleLine, child, ending
  <2>4. IdsOwned' /\ OwnAnswers'
    BY <1>4, <1>6, <2>1, <2>2 DEF AnswerInv, TypeOK, IdsOwned, OwnAnswers
  <2> QED
    BY <1>5, <2>3, <2>4 DEF AnswerInv
<1>7. CASE UNCHANGED <<outcome, answer>>
  <2>1. TypeOK' /\ IdsOwned' /\ OwnAnswers'
    BY <1>4, <1>7 DEF AnswerInv, TypeOK, IdsOwned, OwnAnswers, HandleLine, child, ending
  <2> QED
    BY <1>5, <2>1 DEF AnswerInv
<1> QED
  BY <1>6, <1>7 DEF HandleLine, m

\* What the child reads, it has in hand.
LEMMA ChildReadsAnswers ==
    ASSUME AnswerInv, ChildReads
    PROVE  AnswerInv'
<1> DEFINE m == Head(stdin)
<1>1. stdin' \in Seq(InMessage) /\ Shrunk(stdin, stdin') /\ m = stdin[1] /\ m \in InMessage
  BY TailShrinks DEF ChildReads, AnswerInv, Channels
<1>2. Len(stdin) \in Nat /\ 1 \in 1..Len(stdin)
  BY <1>1 DEF AnswerInv, Channels, Shrunk
<1>3. UNCHANGED <<request, used, outcome, answer, stdout>> /\ Sent' = Sent
  BY DEF ChildReads, client, Sent
<1>4. (IsPrompt(m) => m.call # None) /\ (m.call # None => m.call \in Call /\ m.call \in Sent)
  BY <1>1, <1>2 DEF AnswerInv, Channels, Traffic, InMessage
<1>5. /\ working' = working \cup ({m.call} \ {None}) /\ working' \subseteq Call
      /\ last' \in Call \cup {None} /\ turn' = turn
  BY <1>4 DEF ChildReads, IsPrompt, AnswerInv, TypeOK
<1>6. /\ missed' \subseteq Call /\ (phase' = "none" <=> phase = "none")
      /\ phase' \in {"none", "deaf", "loop", "stopping"}
  BY DEF ChildReads, Abort, Preflight, AnswerInv, TypeOK
<1>7. TypeOK' /\ IdsOwned' /\ OwnAnswers'
  BY <1>3, <1>5, <1>6 DEF AnswerInv, TypeOK, IdsOwned, OwnAnswers, ChildReads, ending
<1>8. \A k \in 1..Len(stdin') :
        /\ stdin'[k].call # None => stdin'[k].call \in Sent'
        /\ IsPrompt(stdin'[k]) => stdin'[k].call # None
  BY <1>1, <1>3 DEF AnswerInv, Channels, Traffic, Shrunk, IsPrompt
<1>9. working' \subseteq Sent'
  BY <1>3, <1>4, <1>5 DEF AnswerInv, Traffic
<1> HIDE DEF m
<1> QED
  BY <1>1, <1>3, <1>7, <1>8, <1>9 DEF AnswerInv, Channels, Traffic

\* What the child answers, it answers with the id of that request.
LEMMA ChildAnswersAnswers ==
    ASSUME AnswerInv, NEW r \in Call, ChildAnswers(r)
    PROVE  AnswerInv'
<1> DEFINE a == [id |-> request[r].id, call |-> r]
<1>1. r \in Sent /\ working' \subseteq working /\ stdout' = Append(stdout, a)
      /\ UNCHANGED <<request, used, outcome, answer, stdin>> /\ Sent' = Sent
  BY DEF ChildAnswers, client, AnswerInv, Traffic, Sent
<1>2. a \in OutMessage /\ a.call = r /\ a.id = request[r].id
  BY <1>1 DEF OutMessage, AnswerInv, TypeOK, Request, Sent
<1>3. stdout' \in Seq(OutMessage) /\ Grown(stdout, stdout', a) /\ Len(stdout) \in Nat
  BY <1>1, <1>2, AppendGrows DEF AnswerInv, Channels
<1>4. /\ turn' \in Call \cup {None} /\ (phase' = "none" <=> turn' = None)
      /\ phase' \in {"none", "deaf", "loop", "stopping"} /\ missed' \subseteq Call
  BY RpcProcessAssumption DEF ChildAnswers, StillIn, AnswerInv, TypeOK
<1>5. TypeOK' /\ IdsOwned' /\ OwnAnswers'
  BY <1>1, <1>4 DEF AnswerInv, TypeOK, IdsOwned, OwnAnswers, ChildAnswers, ending
<1> HIDE DEF a
<1>6. Channels' /\ Traffic'
  BY <1>1, <1>2, <1>3 DEF AnswerInv, Channels, Traffic, Grown
<1> QED
  BY <1>5, <1>6 DEF AnswerInv

\* Steps of a turn touch nothing an answer depends on.
LEMMA TurnAnswers ==
    ASSUME AnswerInv, TurnMoves \/ TurnEnds
    PROVE  AnswerInv'
<1>1. UNCHANGED <<exited, disposing, client, stdin, stdout, working, last, proc, ending>>
  BY DEF TurnMoves, TurnEnds
<1>2. /\ turn' \in Call \cup {None} /\ (phase' = "none" <=> turn' = None)
      /\ phase' \in {"none", "deaf", "loop", "stopping"} /\ missed' \subseteq Call
  BY DEF TurnMoves, TurnEnds, StillIn, AnswerInv, TypeOK
<1>3. TypeOK'
  BY <1>1, <1>2 DEF AnswerInv, TypeOK, client, ending
<1> QED
  BY <1>1, <1>3 DEF AnswerInv, Channels, IdsOwned, Traffic, OwnAnswers, Sent, client

\* The deadline of a request, or its signal.
LEMMA GiveUpAnswers ==
    ASSUME AnswerInv, NEW r \in Call, GiveUp(r)
    PROVE  AnswerInv'
<1>1. TypeOK'
  BY DEF AnswerInv, TypeOK, GiveUp, child, ending
<1> QED
  BY <1>1, RejectAnswers DEF AnswerInv, TypeOK, GiveUp, BestEffortAbort, child

\* A write that failed.
LEMMA WriteFailsAnswers ==
    ASSUME AnswerInv, NEW r \in Call, WriteFails(r)
    PROVE  AnswerInv'
<1>1. TypeOK'
  BY DEF AnswerInv, TypeOK, WriteFails, child, ending
<1> QED
  BY <1>1, RejectAnswers DEF AnswerInv, TypeOK, WriteFails, child

\* rejectAllPending ends what was pending and nothing else.
LEMMA RejectAll ==
    ASSUME TypeOK, RejectAllPending
    PROVE  /\ outcome' \in [Call -> {"unused", "pending", "resolved", "rejected"}]
           /\ \A r \in Call : outcome'[r] # "pending"
           /\ \A r \in Call : outcome'[r] = outcome[r]
                                \/ (outcome[r] = "pending" /\ outcome'[r] = "rejected")
  BY DEF TypeOK, RejectAllPending

\* markExited, the first time and again.
LEMMA MarkExitedEnds ==
    ASSUME TypeOK, MarkExited
    PROVE  /\ exited' = TRUE /\ told' \in Nat
           /\ outcome' \in [Call -> {"unused", "pending", "resolved", "rejected"}]
           /\ \A r \in Call : outcome'[r] = outcome[r]
                                \/ (outcome[r] = "pending" /\ outcome'[r] = "rejected")
<1>1. CASE exited /\ UNCHANGED <<exited, outcome, told>>
  BY <1>1 DEF TypeOK
<1>2. CASE ~exited /\ exited' = TRUE /\ RejectAllPending /\ told' = told + 1
  BY <1>2, RejectAll DEF TypeOK
<1> QED
  BY <1>1, <1>2 DEF MarkExited

\* Every other step of the process and its disposal.
LEMMA EndAnswers ==
    ASSUME AnswerInv,
           \/ FailProtocol \/ ChildExits \/ ErrorEvent \/ ExitEvent
           \/ \E d \in Disposer : Dispose(d) \/ WaitResolves(d) \/ WaitTimesOut(d)
    PROVE  AnswerInv'
<1>1. CASE FailProtocol
  <2>1. TypeOK'
    BY <1>1, RejectAll DEF AnswerInv, TypeOK, FailProtocol, child, ending
  <2> QED
    BY <1>1, <2>1, RejectAll, RejectAnswers DEF AnswerInv, FailProtocol, child
<1>2. CASE ChildExits
  <2>1. TypeOK'
    BY <1>2 DEF AnswerInv, TypeOK, ChildExits, client, ending
  <2>2. IdsOwned' /\ OwnAnswers' /\ Sent' = Sent /\ stdout' = stdout /\ request' = request
    BY <1>2 DEF AnswerInv, IdsOwned, OwnAnswers, Sent, ChildExits, client
  <2>3. Channels' /\ Traffic'
    BY <1>2, <2>2, EmptySeq DEF AnswerInv, Channels, Traffic, ChildExits
  <2> QED
    BY <2>1, <2>2, <2>3 DEF AnswerInv
<1>3. CASE ErrorEvent
  <2>1. TypeOK'
    BY <1>3, MarkExitedEnds DEF AnswerInv, TypeOK, ErrorEvent, child
  <2> QED
    BY <1>3, <2>1, MarkExitedEnds, RejectAnswers DEF AnswerInv, ErrorEvent, child
<1>4. CASE ExitEvent
  <2>1. TypeOK'
    BY <1>4, MarkExitedEnds DEF AnswerInv, TypeOK, ExitEvent, child
  <2> QED
    BY <1>4, <2>1, MarkExitedEnds, RejectAnswers DEF AnswerInv, ExitEvent, child
<1>5. ASSUME NEW d \in Disposer, Dispose(d) PROVE AnswerInv'
  <2>1. TypeOK'
    BY <1>5, RejectAll DEF AnswerInv, TypeOK, Dispose, child
  <2> QED
    BY <1>5, <2>1, RejectAll, RejectAnswers DEF AnswerInv, Dispose, child
<1>6. ASSUME NEW d \in Disposer, WaitResolves(d) PROVE AnswerInv'
  <2>1. TypeOK'
    BY <1>6 DEF AnswerInv, TypeOK, WaitResolves, client, child
  <2> QED
    BY <1>6, <2>1, RejectAnswers DEF AnswerInv, WaitResolves, client, child
<1>7. ASSUME NEW d \in Disposer, WaitTimesOut(d) PROVE AnswerInv'
  <2>1. TypeOK'
    BY <1>7 DEF AnswerInv, TypeOK, WaitTimesOut, client, child
  <2> QED
    BY <1>7, <2>1, RejectAnswers DEF AnswerInv, WaitTimesOut, client, child
<1> QED
  BY <1>1, <1>2, <1>3, <1>4, <1>5, <1>6, <1>7

\* The call and the id of a request come from Call and Id.
LEMMA Offered ==
    ASSUME TypeOK
    PROVE  NextCall \subseteq Call /\ OfferedIds \subseteq Id
<1>1. NextCall \subseteq Call
  BY DEF NextCall
<1>2. OfferedIds \subseteq Id
  BY DEF OfferedIds, TypeOK
<1> QED
  BY <1>1, <1>2

\* The steps a client, a child and the events take, with their parameters.
LEMMA NextCases ==
    ASSUME TypeOK, Next
    PROVE  \/ \E r \in Call, id \in Id, c \in Command, aim \in Call \cup {None} :
                /\ aim # None => aim \in PendingPrompts /\ c = "abort"
                /\ SendFor(r, id, c, aim)
           \/ \E r \in Call, id \in Id, c \in Command : SendAborted(r, id, c)
           \/ \E r \in Call : GiveUp(r) \/ WriteFails(r) \/ ChildAnswers(r)
           \/ HandleLine \/ ChildReads \/ TurnMoves \/ TurnEnds
           \/ FailProtocol \/ ChildExits \/ ErrorEvent \/ ExitEvent
           \/ \E d \in Disposer : Dispose(d) \/ WaitResolves(d) \/ WaitTimesOut(d)
<1>1. ASSUME NEW r \in Call, NEW id \in Id, NEW c \in Command, Send(r, id, c)
      PROVE  \E aim \in Call \cup {None} :
                /\ aim # None => aim \in PendingPrompts /\ c = "abort"
                /\ SendFor(r, id, c, aim)
  BY <1>1 DEF Send
<1>2. ASSUME NEW r \in Call, NEW id \in Id, Cancel(r, id)
      PROVE  \E c \in Command, aim \in Call \cup {None} :
                /\ aim # None => aim \in PendingPrompts /\ c = "abort"
                /\ SendFor(r, id, c, aim)
  BY <1>2 DEF Cancel, PendingPrompts, Pending, Command
<1> QED
  BY <1>1, <1>2, Offered DEF Next

\* A step that changes nothing.
LEMMA StutterAnswers == AnswerInv /\ UNCHANGED vars => AnswerInv'
  BY DEF AnswerInv, TypeOK, Channels, IdsOwned, Traffic, OwnAnswers, Sent,
         vars, client, child, ending

\* The invariant behind AnswerIsOwn is inductive.
LEMMA AnswerStep == AnswerInv /\ [Next]_vars => AnswerInv'
<1>1. ASSUME AnswerInv, Next PROVE AnswerInv'
  <2>1. TypeOK
    BY <1>1 DEF AnswerInv
  <2> QED
    BY <1>1, <2>1, NextCases, SendAnswers, SendAbortedAnswers, GiveUpAnswers, WriteFailsAnswers,
       HandleLineAnswers, ChildReadsAnswers, ChildAnswersAnswers, TurnAnswers, EndAnswers
<1> QED
  BY <1>1, StutterAnswers

\* Nothing is under way at first.
LEMMA AnswerInit == Init => AnswerInv
<1> SUFFICES ASSUME Init PROVE AnswerInv
  OBVIOUS
<1>1. TypeOK /\ Sent = {}
  BY DEF Init, TypeOK, Sent
<1>2. Channels /\ IdsOwned /\ Traffic /\ OwnAnswers
  BY <1>1, EmptySeq DEF Init, Channels, IdsOwned, Traffic, OwnAnswers
<1> QED
  BY <1>1, <1>2 DEF AnswerInv

\* rpc-process.ts, send and handleLine: a caller whose promise resolves has
\* the answer to its own command, however many requests timed out, were
\* cancelled or aborted before it, because an id is never accepted twice.
THEOREM AnswerIsOwnHolds == Spec => []AnswerIsOwn
<1>1. AnswerInv => AnswerIsOwn
  BY DEF AnswerInv, OwnAnswers, AnswerIsOwn
<1> QED
  BY <1>1, AnswerInit, AnswerStep, PTL DEF Spec

-----------------------------------------------------------------------------
(* The end of the process.                                                 *)

\* The child may fail, exit or be killed at any step, and the events, timers
\* and disposers may come in any order: nothing is told that is not so.
LEMMA EndStep == TypeOK /\ EndInv /\ [Next]_vars => EndInv'
<1> SUFFICES ASSUME TypeOK, EndInv, [Next]_vars PROVE EndInv'
  OBVIOUS
<1> USE DEF EndInv, TypeOK, NothingPendingAfterEnd, DisposeTruthful, Pending, Over,
            client, child, ending
<1>1. ASSUME NEW r \in Call, NEW id \in Id, NEW c \in Command, Unrefused(r, id, c),
             NEW o \in {"pending", "rejected"}, outcome' = [outcome EXCEPT ![r] = o]
      PROVE  EndInv'
  BY <1>1 DEF Unrefused, Refuses
<1>2. ASSUME NEW r \in Call, GiveUp(r) \/ WriteFails(r) \/ ChildAnswers(r) PROVE EndInv'
  BY <1>2 DEF GiveUp, WriteFails, ChildAnswers
<1>3. CASE HandleLine
  BY <1>3 DEF HandleLine
<1>4. CASE ChildReads \/ TurnMoves \/ TurnEnds
  BY <1>4 DEF ChildReads, TurnMoves, TurnEnds
<1>5. CASE FailProtocol
  BY <1>5, RejectAll DEF FailProtocol
<1>6. CASE ChildExits
  BY <1>6 DEF ChildExits
<1>7. CASE ErrorEvent
  BY <1>7, RejectAll DEF ErrorEvent, MarkExited
<1>8. CASE ExitEvent
  BY <1>8, RejectAll DEF ExitEvent, MarkExited
<1>9. ASSUME NEW d \in Disposer, Dispose(d) PROVE EndInv'
  BY <1>9, RejectAll DEF Dispose
<1>10. ASSUME NEW d \in Disposer, WaitResolves(d) PROVE EndInv'
  BY <1>10 DEF WaitResolves
<1>11. ASSUME NEW d \in Disposer, WaitTimesOut(d) PROVE EndInv'
  BY <1>11 DEF WaitTimesOut
<1>12. CASE UNCHANGED vars
  BY <1>12 DEF vars
<1> HIDE DEF EndInv, TypeOK
<1>13. CASE Next
  BY <1>13, <1>1, <1>2, <1>3, <1>4, <1>5, <1>6, <1>7, <1>8, <1>9, <1>10, <1>11, NextCases
     DEF SendFor, SendAborted
<1> QED
  BY <1>12, <1>13

\* rpc-process.ts, markExited, waitForExit and dispose: after an exit or a
\* disposal nobody waits, the exit is told once, and an exit is reported only
\* of a process that is gone.
THEOREM EndToldTrulyHolds == Spec => []EndToldTruly
<1>1. Init => EndInv
  BY DEF Init, EndInv, NothingPendingAfterEnd, DisposeTruthful, Pending
<1>2. AnswerInv => TypeOK
  BY DEF AnswerInv
<1>3. EndInv => EndToldTruly
  BY DEF EndInv, EndToldTruly, ExitToldOnce
<1> QED
  BY <1>1, <1>2, <1>3, AnswerInit, AnswerStep, EndStep, PTL DEF Spec

-----------------------------------------------------------------------------
(* Prompts and aborts.                                                     *)

\* What a channel says of aborts and prompts when a message is appended.
LEMMA GrownKeeps ==
    ASSUME NEW s, NEW t, NEW m, Len(s) \in Nat, Grown(s, t, m)
    PROVE  /\ \A j \in Nat, k \in 1..(Len(s) + 1) : AbortIn(s, j, k) => AbortIn(t, j, k)
           /\ \A l, c : \A k \in 1..(Len(s) + 1) : LastIn(s, l, k, c) => LastIn(t, l, k, c)
           /\ \A j \in Nat : AbortIn(s, j, Len(s) + 1) => AbortIn(t, j, Len(t) + 1)
           /\ m.command = "abort" => \A j \in 0..Len(s) : AbortIn(t, j, Len(t) + 1)
           /\ ~IsPrompt(m) => \A l, c : LastIn(s, l, Len(s) + 1, c) => LastIn(t, l, Len(t) + 1, c)
           /\ IsPrompt(m) => \A l : LastIn(t, l, Len(t) + 1, m.call)
<1> USE DEF Grown
<1>1. ASSUME NEW j \in Nat, NEW k \in 1..(Len(s) + 1), AbortIn(s, j, k) PROVE AbortIn(t, j, k)
  <2>1. PICK i \in (j + 1)..(k - 1) : s[i].command = "abort"
    BY <1>1 DEF AbortIn
  <2>2. i \in 1..Len(s) /\ t[i] = s[i]
    OBVIOUS
  <2> QED
    BY <2>1, <2>2 DEF AbortIn
<1>2. ASSUME NEW l, NEW c, NEW k \in 1..(Len(s) + 1), LastIn(s, l, k, c) PROVE LastIn(t, l, k, c)
  <2>1. \A i \in 1..(k - 1) : t[i] = s[i]
    OBVIOUS
  <2>2. \A i \in 1..(k - 1) : IsPrompt(t[i]) <=> IsPrompt(s[i])
    BY <2>1
  <2> QED
    BY <1>2, <2>1, <2>2 DEF LastIn
<1>3. ASSUME NEW j \in Nat, AbortIn(s, j, Len(s) + 1) PROVE AbortIn(t, j, Len(t) + 1)
  <2>1. PICK i \in (j + 1)..Len(s) : s[i].command = "abort"
    BY <1>3 DEF AbortIn
  <2>2. i \in 1..Len(s) /\ t[i] = s[i]
    OBVIOUS
  <2> QED
    BY <2>1, <2>2 DEF AbortIn
<1>4. ASSUME m.command = "abort", NEW j \in 0..Len(s) PROVE AbortIn(t, j, Len(t) + 1)
  BY <1>4 DEF AbortIn
<1>5. ASSUME ~IsPrompt(m), NEW l, NEW c, LastIn(s, l, Len(s) + 1, c)
      PROVE  LastIn(t, l, Len(t) + 1, c)
  <2>1. \A i \in 1..Len(s) : t[i] = s[i] /\ (IsPrompt(t[i]) <=> IsPrompt(s[i]))
    OBVIOUS
  <2>2. \A i \in 1..(Len(t) + 1 - 1) : i \in 1..Len(s) \/ i = Len(s) + 1
    OBVIOUS
  <2>3. ~IsPrompt(t[Len(s) + 1])
    BY <1>5
  <2>4. CASE (\A j \in 1..(Len(s) + 1 - 1) : ~IsPrompt(s[j])) /\ l = c
    BY <2>1, <2>2, <2>3, <2>4 DEF LastIn
  <2>5. ASSUME NEW j \in 1..(Len(s) + 1 - 1), IsPrompt(s[j]), s[j].call = c,
               \A i \in (j + 1)..(Len(s) + 1 - 1) : ~IsPrompt(s[i])
        PROVE  LastIn(t, l, Len(t) + 1, c)
    <3>1. j \in 1..(Len(t) + 1 - 1) /\ IsPrompt(t[j]) /\ t[j].call = c
      BY <2>1, <2>5
    <3>2. \A i \in (j + 1)..(Len(t) + 1 - 1) : ~IsPrompt(t[i])
      BY <2>1, <2>3, <2>5
    <3> QED
      BY <3>1, <3>2 DEF LastIn
  <2> QED
    BY <1>5, <2>4, <2>5 DEF LastIn
<1>6. ASSUME IsPrompt(m), NEW l PROVE LastIn(t, l, Len(t) + 1, m.call)
  BY <1>6 DEF LastIn
<1> QED
  BY <1>1, <1>2, <1>3, <1>4, <1>5, <1>6

\* And when its first message is read.
LEMMA ShrunkKeeps ==
    ASSUME NEW s, NEW t, Len(s) \in Nat, Shrunk(s, t)
    PROVE  /\ \A j \in Nat, k \in 1..(Len(t) + 1) : AbortIn(s, j + 1, k + 1) => AbortIn(t, j, k)
           /\ s[1].command # "abort" =>
                \A k \in 1..(Len(t) + 1) : AbortIn(s, 0, k + 1) => AbortIn(t, 0, k)
           /\ \A l, c : \A k \in 1..(Len(t) + 1) : LastIn(s, l, k + 1, c) =>
                LastIn(t, IF IsPrompt(s[1]) THEN s[1].call ELSE l, k, c)
<1> USE DEF Shrunk
<1>0. /\ Len(t) \in Nat /\ Len(s) = Len(t) + 1
      /\ \A i \in 2..Len(s) : i - 1 \in 1..Len(t) /\ t[i - 1] = s[i]
  OBVIOUS
<1>1. ASSUME NEW j \in Nat, NEW k \in 1..(Len(t) + 1), AbortIn(s, j + 1, k + 1)
      PROVE  AbortIn(t, j, k)
  <2>1. PICK i \in (j + 1 + 1)..(k + 1 - 1) : s[i].command = "abort"
    BY <1>1 DEF AbortIn
  <2>2. i - 1 \in (j + 1)..(k - 1) /\ t[i - 1] = s[i]
    BY <1>0
  <2> QED
    BY <2>1, <2>2 DEF AbortIn
<1>2. ASSUME s[1].command # "abort", NEW k \in 1..(Len(t) + 1), AbortIn(s, 0, k + 1)
      PROVE  AbortIn(t, 0, k)
  <2>1. PICK i \in (0 + 1)..(k + 1 - 1) : s[i].command = "abort"
    BY <1>2 DEF AbortIn
  <2>2. i - 1 \in (0 + 1)..(k - 1) /\ t[i - 1] = s[i]
    BY <1>0, <1>2, <2>1
  <2> QED
    BY <2>1, <2>2 DEF AbortIn
<1>3. ASSUME NEW l, NEW c, NEW k \in 1..(Len(t) + 1), LastIn(s, l, k + 1, c)
      PROVE  LastIn(t, IF IsPrompt(s[1]) THEN s[1].call ELSE l, k, c)
  <2>0. \A i \in 1..(k - 1) : i + 1 \in 1..(k + 1 - 1) /\ t[i] = s[i + 1]
    OBVIOUS
  <2>1. CASE (\A j \in 1..(k + 1 - 1) : ~IsPrompt(s[j])) /\ l = c
    <3>1. ~IsPrompt(s[1]) /\ \A i \in 1..(k - 1) : ~IsPrompt(t[i])
      BY <2>0, <2>1
    <3> QED
      BY <2>1, <3>1 DEF LastIn
  <2>2. ASSUME NEW j \in 1..(k + 1 - 1), IsPrompt(s[j]), s[j].call = c,
               \A i \in (j + 1)..(k + 1 - 1) : ~IsPrompt(s[i])
        PROVE  LastIn(t, IF IsPrompt(s[1]) THEN s[1].call ELSE l, k, c)
    <3>1. CASE j = 1
      <4>1. IsPrompt(s[1]) /\ s[1].call = c
        BY <2>2, <3>1
      <4>2. \A i \in 1..(k - 1) : ~IsPrompt(t[i])
        <5> SUFFICES ASSUME NEW i \in 1..(k - 1) PROVE ~IsPrompt(t[i])
          OBVIOUS
        <5>1. i + 1 \in (j + 1)..(k + 1 - 1) /\ t[i] = s[i + 1]
          BY <2>0, <3>1
        <5> QED
          BY <5>1, <2>2
      <4> QED
        BY <4>1, <4>2 DEF LastIn
    <3>2. CASE j # 1
      <4>1. j - 1 \in 1..(k - 1) /\ t[j - 1] = s[j]
        BY <1>0, <3>2
      <4>2. \A i \in (j - 1 + 1)..(k - 1) : ~IsPrompt(t[i])
        <5> SUFFICES ASSUME NEW i \in (j - 1 + 1)..(k - 1) PROVE ~IsPrompt(t[i])
          OBVIOUS
        <5>1. i + 1 \in (j + 1)..(k + 1 - 1) /\ i \in 1..(k - 1)
          BY <3>2
        <5>2. t[i] = s[i + 1]
          BY <2>0, <5>1
        <5> QED
          BY <5>1, <5>2, <2>2
      <4> QED
        BY <2>2, <4>1, <4>2 DEF LastIn
    <3> QED
      BY <3>1, <3>2
  <2> QED
    BY <1>3, <2>1, <2>2 DEF LastIn
<1> QED
  BY <1>1, <1>2, <1>3

\* What an index of stdin or stdout gives.
LEMMA Indexed ==
    ASSUME AnswerInv
    PROVE  /\ Len(stdin) \in Nat /\ Len(stdout) \in Nat
           /\ \A k \in 1..Len(stdin) :
                /\ stdin[k] \in InMessage
                /\ stdin[k].call = None \/ stdin[k].call \in Sent
                /\ IsPrompt(stdin[k]) => stdin[k].call \in Sent
           /\ \A k \in 1..Len(stdout) : stdout[k].call \in Sent
           /\ working \subseteq Sent /\ Heard \subseteq working /\ Sent \subseteq Call /\ None \notin Call
<1>1. /\ Len(stdin) \in Nat /\ Len(stdout) \in Nat
      /\ \A k \in 1..Len(stdin) : stdin[k] \in InMessage
  BY DEF AnswerInv, Channels
<1> QED
  BY <1>1, RpcProcessAssumption DEF AnswerInv, Channels, Traffic, Sent, TypeOK, Heard, Preflight

\* Requests keep their commands, so a new one changes no prompt in hand.
LEMMA HeardStays ==
    ASSUME AnswerInv, UNCHANGED <<working, missed>>, \A s \in Sent : request'[s] = request[s]
    PROVE  Heard' = Heard
  BY Indexed DEF Heard, Preflight

\* Steps that write nothing to the child and start no prompt: requests end,
\* answers are read, the process fails or is killed.
LEMMA QuietPrompts ==
    ASSUME AnswerInv, PromptInv, UNCHANGED <<stdin, working, missed, last, request>>,
           stdout' = stdout \/ Shrunk(stdout, stdout'),
           proc' = proc \/ (proc \notin Over /\ proc' = "killed"),
           PendingPrompts' \subseteq PendingPrompts, AbandonedAborted'
    PROVE  PromptInv'
<1>1. Len(stdin) \in Nat /\ Len(stdout) \in Nat /\ Heard' = Heard
  BY Indexed DEF Heard, Preflight
<1>2. OnePlace'
  <2>1. ASSUME NEW j \in 1..Len(stdout') PROVE \E i \in 1..Len(stdout) : stdout'[j] = stdout[i]
    BY <1>1, <2>1 DEF Shrunk
  <2> QED
    BY <2>1 DEF PromptInv, OnePlace
<1>3. PromptsMatch'
  BY DEF PromptInv, PromptsMatch
<1>4. AbortsSeparate'
  BY <1>1 DEF PromptInv, AbortsSeparate, Over
<1>5. AimsRight'
  BY DEF PromptInv, AimsRight, Over
<1>6. OneAtATime'
  BY <1>1 DEF PromptInv, OneAtATime, Over
<1> QED
  BY <1>2, <1>3, <1>4, <1>5, <1>6 DEF PromptInv

\* A message is written: of a call that was never sent before, or an abort
\* of no call.  Prompts are only sent when none is pending.
LEMMA WrittenPrompts ==
    ASSUME AnswerInv, PromptInv, UNCHANGED <<working, missed, last, stdout, proc, exited, disposing>>,
           proc \notin Over,
           NEW m \in InMessage, Grown(stdin, stdin', m),
           m.call = None \/ m.call \notin Sent,
           m.call # None => m.command = request'[m.call].command,
           \A s \in Sent : request'[s] = request[s],
           IsPrompt(m) => m.call # None /\ PendingPrompts = {} /\ ~exited /\ ~disposing,
           m.command = "abort" /\ m.aim # None => m.aim \in PendingPrompts,
           PendingPrompts' \subseteq PendingPrompts \cup (IF IsPrompt(m) THEN {m.call} ELSE {}),
           AbandonedAborted'
    PROVE  PromptInv'
<1> DEFINE n == Len(stdin)
<1>0. /\ n \in Nat /\ Len(stdin') = n + 1 /\ stdin'[n + 1] = m
      /\ \A k \in 1..n : stdin'[k] = stdin[k]
      /\ \A k \in 1..Len(stdin') : k \in 1..n \/ k = n + 1
      /\ Heard' = Heard
  BY Indexed, HeardStays DEF Grown
<1>1. /\ \A j \in Nat, k \in 1..(n + 1) : AbortIn(stdin, j, k) => AbortIn(stdin', j, k)
      /\ \A l, c : \A k \in 1..(n + 1) : LastIn(stdin, l, k, c) => LastIn(stdin', l, k, c)
      /\ ~IsPrompt(m) => \A l, c : LastIn(stdin, l, n + 1, c) => LastIn(stdin', l, Len(stdin') + 1, c)
      /\ IsPrompt(m) => \A l : LastIn(stdin', l, Len(stdin') + 1, m.call)
  BY <1>0, GrownKeeps
<1> HIDE DEF n
<1>2. OnePlace'
  <2>1. /\ \A k \in 1..n : stdin[k].call = m.call => m.call = None
        /\ m.call \notin working
        /\ \A j \in 1..Len(stdout) : m.call # stdout[j].call
    BY Indexed DEF n
  <2>2. \A j, k \in 1..Len(stdin') :
            stdin'[j].call = stdin'[k].call /\ stdin'[j].call # None => j = k
    BY <1>0, <2>1 DEF PromptInv, OnePlace, n
  <2>3. \A k \in 1..Len(stdin') : stdin'[k].call \notin working'
    BY <1>0, <2>1 DEF PromptInv, OnePlace, n
  <2>4. \A j \in 1..Len(stdout') :
            stdout'[j].call \notin working' /\ \A k \in 1..Len(stdin') : stdin'[k].call # stdout'[j].call
    BY <1>0, <2>1 DEF PromptInv, OnePlace, n
  <2> QED
    BY <2>2, <2>3, <2>4 DEF OnePlace
<1>3. PromptsMatch'
  <2>1. ASSUME NEW k \in 1..Len(stdin'), stdin'[k].call # None
        PROVE  stdin'[k].command = request'[stdin'[k].call].command
    <3>1. CASE k = n + 1
      BY <1>0, <2>1, <3>1
    <3>2. CASE k \in 1..n
      <4>1. stdin'[k] = stdin[k] /\ stdin[k].call \in Sent
        BY <1>0, <2>1, <3>2, Indexed DEF n
      <4> QED
        BY <2>1, <3>2, <4>1 DEF PromptInv, PromptsMatch, n
    <3> QED
      BY <1>0, <3>1, <3>2
  <2> QED
    BY <2>1 DEF PromptsMatch
<1>4. AbortsSeparate'
  <2> SUFFICES ASSUME proc = "running", NEW k \in 1..Len(stdin'), IsPrompt(stdin'[k])
               PROVE  /\ \A j \in 1..(k - 1) : IsPrompt(stdin'[j]) => AbortIn(stdin', j, k)
                      /\ Heard # {} => AbortIn(stdin', 0, k)
    BY <1>0 DEF AbortsSeparate
  <2>1. \A j \in 1..(k - 1) : j \in 1..n /\ j \in Nat /\ stdin'[j] = stdin[j]
    BY <1>0
  <2>2. CASE k \in 1..n
    <3>1. IsPrompt(stdin[k]) /\ k \in 1..(n + 1)
      BY <1>0, <2>2
    <3>2. /\ \A j \in 1..(k - 1) : IsPrompt(stdin[j]) => AbortIn(stdin, j, k)
          /\ Heard # {} => AbortIn(stdin, 0, k)
      BY <2>2, <3>1 DEF PromptInv, AbortsSeparate, n
    <3> QED
      BY <1>1, <2>1, <3>1, <3>2
  <2>3. CASE k = n + 1
    <3>1. IsPrompt(m) /\ PendingPrompts = {} /\ ~exited /\ ~disposing
      BY <1>0, <2>3
    <3>2. \A j \in 1..n : IsPrompt(stdin[j]) => AbortIn(stdin, j, n + 1)
      <4> SUFFICES ASSUME NEW j \in 1..n, IsPrompt(stdin[j]) PROVE AbortIn(stdin, j, n + 1)
        OBVIOUS
      <4>1. stdin[j].call \in Call /\ stdin[j].call # None
        BY Indexed DEF n
      <4>2. request[stdin[j].call].command = "prompt"
        BY <4>1 DEF PromptInv, PromptsMatch, IsPrompt, n
      <4>3. outcome[stdin[j].call] # "pending"
        BY <3>1, <4>1, <4>2 DEF PendingPrompts, Pending
      <4> QED
        BY <3>1, <4>3 DEF PromptInv, AbandonedAborted, AbortAfter, n
    <3>3. Heard # {} => AbortIn(stdin, 0, n + 1)
      <4> SUFFICES ASSUME NEW r \in Heard PROVE AbortIn(stdin, 0, n + 1)
        OBVIOUS
      <4>1. r \in Call /\ request[r].command = "prompt"
        BY Indexed DEF Heard, Preflight
      <4>2. outcome[r] # "pending"
        BY <3>1, <4>1 DEF PendingPrompts, Pending
      <4> QED
        BY <3>1, <4>2 DEF PromptInv, AbandonedAborted, AbortAfter, n
    <3> QED
      BY <1>0, <1>1, <2>1, <2>3, <3>2, <3>3
  <2> QED
    BY <1>0, <2>2, <2>3
<1>5. AimsRight'
  <2>1. ASSUME NEW k \in 1..Len(stdin'), stdin'[k].command = "abort", stdin'[k].aim # None
        PROVE  LastIn(stdin', last', k, stdin'[k].aim)
    <3>1. CASE k = n + 1
      <4>1. m.aim \in PendingPrompts
        BY <1>0, <2>1, <3>1
      <4>2. LastIn(stdin, last, n + 1, m.aim)
        BY <4>1 DEF PromptInv, AimsRight, n
      <4> QED
        BY <1>0, <1>1, <3>1, <4>2
    <3>2. CASE k \in 1..n
      <4>1. stdin'[k] = stdin[k] /\ k \in 1..(n + 1)
        BY <1>0, <3>2
      <4>2. LastIn(stdin, last, k, stdin[k].aim)
        BY <2>1, <3>2, <4>1 DEF PromptInv, AimsRight, n
      <4> QED
        BY <1>1, <4>1, <4>2
    <3> QED
      BY <1>0, <3>1, <3>2
  <2>2. ASSUME NEW r \in PendingPrompts' PROVE LastIn(stdin', last', Len(stdin') + 1, r)
    <3>1. CASE IsPrompt(m)
      <4>1. r = m.call
        BY <2>2, <3>1
      <4> QED
        BY <1>1, <3>1, <4>1
    <3>2. CASE ~IsPrompt(m)
      <4>1. LastIn(stdin, last, n + 1, r)
        BY <2>2, <3>2 DEF PromptInv, AimsRight, n
      <4> QED
        BY <1>1, <3>2, <4>1
    <3> QED
      BY <3>1, <3>2
  <2> QED
    BY <2>1, <2>2 DEF AimsRight
<1>6. OneAtATime'
  <2>1. \A r, s \in PendingPrompts' : r = s
    BY DEF PromptInv, OneAtATime
  <2> QED
    BY <1>0, <2>1 DEF PromptInv, OneAtATime
<1> QED
  BY <1>2, <1>3, <1>4, <1>5, <1>6 DEF PromptInv

\* send and cancel: a prompt goes out alone, an abort behind its prompt.
LEMMA SendPrompts ==
    ASSUME AnswerInv, EndInv, PromptInv, NEW r \in Call, NEW id \in Id, NEW command \in Command,
           NEW aim \in Call \cup {None}, aim # None => aim \in PendingPrompts /\ command = "abort",
           SendFor(r, id, command, aim)
    PROVE  PromptInv'
<1> DEFINE m == [command |-> command, call |-> r, aim |-> aim]
<1>1. m \in InMessage /\ m.call = r /\ m.command = command /\ m.aim = aim
      /\ (IsPrompt(m) <=> command = "prompt") /\ r # None
  BY RpcProcessAssumption DEF InMessage, IsPrompt
<1>2. /\ Write(m) /\ outcome' = [outcome EXCEPT ![r] = "pending"] /\ Unrefused(r, id, command)
      /\ UNCHANGED <<working, missed, last, stdout, proc, exited, disposing>>
  BY DEF SendFor, Unrefused, child
<1>3. ~exited /\ ~disposing /\ (command = "prompt" => PendingPrompts = {})
  BY <1>2 DEF Unrefused, Refuses
<1>4. /\ r \notin Sent /\ request'[r] = [id |-> id, command |-> command]
      /\ \A s \in Call \ {r} : request'[s] = request[s]
  BY <1>2, SendOwnsId
<1>5. /\ request'[r].command = command /\ \A s \in Sent : request'[s] = request[s]
      /\ outcome'[r] = "pending" /\ \A s \in Call \ {r} : outcome'[s] = outcome[s]
  BY <1>2, <1>4, Indexed DEF AnswerInv, TypeOK
<1>6. PendingPrompts' \subseteq PendingPrompts \cup (IF IsPrompt(m) THEN {m.call} ELSE {})
  BY <1>1, <1>4, <1>5 DEF PendingPrompts, Pending
<1> HIDE DEF m
<1>9. Heard' = Heard
  BY <1>2, <1>5, HeardStays
<1>7. CASE proc \in Over
  <2>1. stdin' = stdin /\ stdin = <<>> /\ working = {} /\ proc # "running"
    BY <1>2, <1>7 DEF Write, PromptInv, OneAtATime, Over
  <2>2. Len(stdin) = 0
    BY <2>1
  <2>3. OnePlace' /\ PromptsMatch' /\ AbortsSeparate' /\ AbandonedAborted' /\ AimsRight'
    BY <1>2, <1>7, <2>1, <2>2 DEF OnePlace, PromptsMatch, AbortsSeparate, AbandonedAborted, AimsRight
  <2>4. \A s, t \in PendingPrompts' : s = t
    BY <1>1, <1>3, <1>6 DEF PromptInv, OneAtATime
  <2> QED
    BY <1>2, <1>9, <2>1, <2>3, <2>4 DEF PromptInv, OneAtATime
<1>8. CASE proc \notin Over
  <2>1. Grown(stdin, stdin', m)
    BY <1>1, <1>2, <1>8, WriteGrows DEF AnswerInv
  <2>2. Len(stdin) \in Nat
    BY Indexed
  <2>3. \A j \in Nat : AbortIn(stdin, j, Len(stdin) + 1) => AbortIn(stdin', j, Len(stdin') + 1)
    BY <2>1, <2>2, GrownKeeps
  <2>4. AbandonedAborted'
    <3> SUFFICES ASSUME proc = "running"
                 PROVE  /\ \A j \in 1..Len(stdin') : IsPrompt(stdin'[j]) =>
                              \/ outcome'[stdin'[j].call] = "pending"
                              \/ AbortIn(stdin', j, Len(stdin') + 1)
                        /\ \A s \in Heard' :
                              outcome'[s] = "pending" \/ AbortIn(stdin', 0, Len(stdin') + 1)
      BY <1>2 DEF AbandonedAborted, AbortAfter
    <3>1. ASSUME NEW j \in 1..Len(stdin'), IsPrompt(stdin'[j])
          PROVE  outcome'[stdin'[j].call] = "pending" \/ AbortIn(stdin', j, Len(stdin') + 1)
      <4>1. CASE j = Len(stdin) + 1
        BY <1>1, <1>5, <2>1, <4>1 DEF Grown
      <4>2. CASE j \in 1..Len(stdin)
        <5>1. stdin'[j] = stdin[j] /\ stdin[j].call \in Call \ {r}
          BY <3>1, <4>2, <1>4, <2>1, Indexed DEF Grown
        <5>2. outcome[stdin[j].call] = "pending" \/ AbortIn(stdin, j, Len(stdin) + 1)
          BY <1>3, <3>1, <4>2, <5>1 DEF PromptInv, AbandonedAborted, AbortAfter
        <5> QED
          BY <1>5, <2>3, <4>2, <5>1, <5>2
      <4> QED
        BY <2>1, <2>2, <4>1, <4>2 DEF Grown
    <3>2. ASSUME NEW s \in Heard'
          PROVE  outcome'[s] = "pending" \/ AbortIn(stdin', 0, Len(stdin') + 1)
      <4>1. s \in Heard /\ s \in Call \ {r}
        BY <1>4, <1>9, Indexed
      <4>2. outcome[s] = "pending" \/ AbortIn(stdin, 0, Len(stdin) + 1)
        BY <1>3, <4>1 DEF PromptInv, AbandonedAborted, AbortAfter
      <4> QED
        BY <1>5, <2>3, <4>1, <4>2
    <3> QED
      BY <3>1, <3>2
  <2> QED
    BY <1>1, <1>2, <1>3, <1>4, <1>5, <1>6, <1>8, <2>1, <2>4, WrittenPrompts
<1> QED
  BY <1>7, <1>8

\* An abort of no call is written, or nothing: r is given up, or never began.
LEMMA AbortedPrompts ==
    ASSUME AnswerInv, PromptInv, NEW r \in Call, NEW m \in InMessage,
           m.command = "abort", m.call = None, m.aim # None => m.aim \in PendingPrompts,
           UNCHANGED <<working, missed, last, stdout, proc, exited, disposing>>,
           \A s \in Sent : request'[s] = request[s],
           \A s \in Call \ {r} : outcome'[s] = outcome[s],
           PendingPrompts' \subseteq PendingPrompts,
           proc \notin Over, Grown(stdin, stdin', m)
    PROVE  PromptInv'
<1>1. Len(stdin) \in Nat
  BY Indexed
<1>2. \A j \in 0..Len(stdin) : AbortIn(stdin', j, Len(stdin') + 1)
  BY <1>1, GrownKeeps
<1>3. ~IsPrompt(m)
  BY DEF IsPrompt
<1>4. AbandonedAborted'
  <2>1. ASSUME NEW j \in 1..Len(stdin'), IsPrompt(stdin'[j])
        PROVE  AbortIn(stdin', j, Len(stdin') + 1)
    <3>1. j \in 0..Len(stdin)
      BY <1>1, <1>3, <2>1 DEF Grown
    <3> QED
      BY <1>2, <3>1
  <2>2. AbortIn(stdin', 0, Len(stdin') + 1)
    BY <1>1, <1>2
  <2> QED
    BY <2>1, <2>2 DEF AbandonedAborted, AbortAfter
<1> QED
  BY <1>3, <1>4, WrittenPrompts

\* send with a signal that has fired.
LEMMA SendAbortedPrompts ==
    ASSUME AnswerInv, EndInv, PromptInv, NEW r \in Call, NEW id \in Id, NEW command \in Command,
           SendAborted(r, id, command)
    PROVE  PromptInv'
<1> DEFINE m == [command |-> "abort", call |-> None, aim |-> None]
<1>1. m \in InMessage /\ m.call = None /\ m.command = "abort" /\ m.aim = None
  BY DEF InMessage, Command
<1>2. /\ outcome' = [outcome EXCEPT ![r] = "rejected"] /\ Unrefused(r, id, command)
      /\ UNCHANGED <<working, missed, last, stdout, proc, exited, disposing>>
      /\ stdin' = stdin \/ (proc \notin Over /\ stdin' = Append(stdin, m))
  BY DEF SendAborted, Unrefused, child
<1>3. r \notin Sent /\ \A s \in Call \ {r} : request'[s] = request[s]
  BY <1>2, SendOwnsId
<1>4. /\ \A s \in Sent : request'[s] = request[s]
      /\ outcome'[r] = "rejected" /\ \A s \in Call \ {r} : outcome'[s] = outcome[s]
  BY <1>2, <1>3, Indexed DEF AnswerInv, TypeOK
<1>5. PendingPrompts' \subseteq PendingPrompts
  BY <1>3, <1>4 DEF PendingPrompts, Pending
<1> HIDE DEF m
<1>6. CASE stdin' = stdin
  <2>1. \A k \in 1..Len(stdin) : stdin[k].call # None => stdin[k].call \in Sent \ {r}
    BY <1>3, Indexed
  <2>2. \A k \in 1..Len(stdin) : IsPrompt(stdin[k]) => stdin[k].call \in Call \ {r}
    BY <1>3, Indexed
  <2>3. Heard' = Heard /\ Heard \subseteq Call \ {r}
    BY <1>2, <1>3, <1>4, Indexed, HeardStays
  <2>4. OnePlace' /\ AbortsSeparate' /\ OneAtATime'
    BY <1>2, <1>5, <1>6, <2>3 DEF PromptInv, OnePlace, AbortsSeparate, OneAtATime
  <2>5. PromptsMatch'
    BY <1>2, <1>4, <1>6, <2>1, <2>3 DEF PromptInv, PromptsMatch
  <2>6. AbandonedAborted'
    BY <1>2, <1>4, <1>6, <2>2, <2>3 DEF PromptInv, AbandonedAborted, AbortAfter
  <2>7. AimsRight'
    BY <1>2, <1>5, <1>6 DEF PromptInv, AimsRight
  <2> QED
    BY <2>4, <2>5, <2>6, <2>7 DEF PromptInv
<1>7. CASE proc \notin Over /\ stdin' = Append(stdin, m)
  <2>1. Grown(stdin, stdin', m)
    BY <1>1, <1>7, AppendGrows DEF AnswerInv, Channels
  <2> QED
    BY <1>1, <1>2, <1>4, <1>5, <1>7, <2>1, AbortedPrompts
<1> QED
  BY <1>2, <1>6, <1>7

\* A prompt that is given up is aborted at once, behind everything written.
LEMMA GiveUpPrompts ==
    ASSUME AnswerInv, EndInv, PromptInv, NEW r \in Call, GiveUp(r)
    PROVE  PromptInv'
<1> DEFINE m == [command |-> "abort", call |-> None, aim |-> r]
<1>1. m \in InMessage /\ m.call = None /\ m.command = "abort" /\ m.aim = r
  BY DEF InMessage, Command
<1>2. /\ outcome[r] = "pending" /\ outcome' = [outcome EXCEPT ![r] = "rejected"]
      /\ UNCHANGED <<request, working, missed, last, stdout, proc, exited, disposing>>
  BY DEF GiveUp, child
<1>3. ~exited /\ ~disposing
  BY <1>2 DEF EndInv, NothingPendingAfterEnd, Pending
<1>4. outcome'[r] = "rejected" /\ \A s \in Call \ {r} : outcome'[s] = outcome[s]
  BY <1>2 DEF AnswerInv, TypeOK
<1>5. PendingPrompts' \subseteq PendingPrompts
  BY <1>2, <1>4 DEF PendingPrompts, Pending
<1>6. CASE request[r].command = "prompt" /\ proc \notin Over
  <2>1. Write(m) /\ r \in PendingPrompts
    BY <1>2, <1>3, <1>6 DEF GiveUp, BestEffortAbort, PendingPrompts, Pending
  <2> HIDE DEF m
  <2>2. Grown(stdin, stdin', m)
    BY <1>1, <1>6, <2>1, WriteGrows DEF AnswerInv, IsPrompt
  <2> QED
    BY <1>1, <1>2, <1>4, <1>5, <1>6, <2>1, <2>2, AbortedPrompts
<1>7. CASE request[r].command # "prompt" \/ proc \in Over
  <2>1. stdin' = stdin
    BY <1>3, <1>7 DEF GiveUp, BestEffortAbort, Write
  <2>2. AbandonedAborted'
    <3>1. CASE proc \in Over
      BY <1>2, <3>1 DEF AbandonedAborted, Over
    <3>2. CASE request[r].command # "prompt"
      <4>1. \A k \in 1..Len(stdin) : IsPrompt(stdin[k]) => stdin[k].call \in Call \ {r}
        BY <3>2, Indexed DEF PromptInv, PromptsMatch, IsPrompt
      <4>2. Heard' = Heard /\ Heard \subseteq Call \ {r}
        BY <1>2, <3>2, Indexed DEF Heard, Preflight
      <4> QED
        BY <1>2, <1>4, <2>1, <4>1, <4>2 DEF PromptInv, AbandonedAborted, AbortAfter
    <3> QED
      BY <1>7, <3>1, <3>2
  <2> QED
    BY <1>2, <1>5, <2>1, <2>2, QuietPrompts
<1> QED
  BY <1>6, <1>7

\* The caller whose answer arrives has no prompt left in the child.
LEMMA HandleLinePrompts ==
    ASSUME AnswerInv, PromptInv, HandleLine
    PROVE  PromptInv'
<1> DEFINE m == Head(stdout)
<1>1. Shrunk(stdout, stdout') /\ m = stdout[1] /\ 1 \in 1..Len(stdout)
  BY TailShrinks, Indexed DEF HandleLine, AnswerInv, Channels, Shrunk
<1>2. UNCHANGED <<stdin, working, missed, last, request, proc, exited, disposing>>
  BY DEF HandleLine, child
<1>3. /\ m.call \in Sent /\ m.id = request[m.call].id /\ m.call \notin working
      /\ \A k \in 1..Len(stdin) : stdin[k].call # m.call
  BY <1>1 DEF AnswerInv, Traffic, PromptInv, OnePlace
<1> HIDE DEF m
<1>4. ASSUME NEW r \in Pending, request[r].id = m.id,
             outcome' = [outcome EXCEPT ![r] = "resolved"]
      PROVE  PromptInv'
  <2>1. r = m.call /\ r \in Call
    BY <1>3, <1>4 DEF Pending, AnswerInv, IdsOwned
  <2>2. outcome'[r] = "resolved" /\ \A s \in Call \ {r} : outcome'[s] = outcome[s]
    BY <1>4, <2>1 DEF AnswerInv, TypeOK
  <2>3. PendingPrompts' \subseteq PendingPrompts
    BY <1>2, <2>2 DEF PendingPrompts, Pending
  <2>4. /\ \A k \in 1..Len(stdin) : IsPrompt(stdin[k]) => stdin[k].call \in Call \ {r}
        /\ Heard' = Heard /\ Heard \subseteq Call \ {r}
    BY <1>2, <1>3, <2>1, Indexed DEF Heard, Preflight
  <2>5. AbandonedAborted'
    BY <1>2, <2>2, <2>4 DEF PromptInv, AbandonedAborted, AbortAfter
  <2> QED
    BY <1>1, <1>2, <2>3, <2>5, QuietPrompts
<1>5. CASE outcome' = outcome
  <2>1. PendingPrompts' = PendingPrompts
    BY <1>2, <1>5 DEF PendingPrompts, Pending
  <2>2. Heard' = Heard
    BY <1>2 DEF Heard, Preflight
  <2>3. AbandonedAborted'
    BY <1>2, <1>5, <2>2 DEF PromptInv, AbandonedAborted, AbortAfter
  <2> QED
    BY <1>1, <1>2, <2>1, <2>3, QuietPrompts
<1> QED
  BY <1>4, <1>5 DEF HandleLine, m

\* The child reads a prompt only when it runs none; an abort clears what runs.
LEMMA ChildReadsPrompts ==
    ASSUME AnswerInv, AnswerInv', PromptInv, ChildReads
    PROVE  PromptInv'
<1> DEFINE m == stdin[1]
           n == Len(stdin')
<1>1. /\ Shrunk(stdin, stdin') /\ Head(stdin) = m /\ Len(stdin) \in Nat
      /\ n \in Nat /\ Len(stdin) = n + 1 /\ 1 \in 1..Len(stdin) /\ m \in InMessage
  BY TailShrinks, Indexed DEF ChildReads, AnswerInv, Channels, Shrunk
<1>2. \A k \in 1..n : k + 1 \in 1..Len(stdin) /\ k + 1 # 1 /\ stdin'[k] = stdin[k + 1]
  BY <1>1 DEF Shrunk
<1>3. /\ \A j \in Nat, k \in 1..(n + 1) : AbortIn(stdin, j + 1, k + 1) => AbortIn(stdin', j, k)
      /\ m.command # "abort" =>
            \A k \in 1..(n + 1) : AbortIn(stdin, 0, k + 1) => AbortIn(stdin', 0, k)
      /\ \A l, c : \A k \in 1..(n + 1) : LastIn(stdin, l, k + 1, c) =>
            LastIn(stdin', IF IsPrompt(m) THEN m.call ELSE l, k, c)
  BY <1>1, ShrunkKeeps
<1>4. /\ proc = "running" /\ UNCHANGED <<request, outcome, proc, exited, disposing>>
      /\ last' = IF IsPrompt(m) THEN m.call ELSE last
  BY <1>1 DEF ChildReads, client, IsPrompt
<1>5. working' = working \cup ({m.call} \ {None}) /\ stdout' = stdout
  BY <1>1 DEF ChildReads
<1>6. /\ m.command = "abort" => missed' = missed \cup Preflight \cup (IF phase = "deaf" THEN {turn} ELSE {})
      /\ m.command # "abort" => missed' = missed
  BY <1>1 DEF ChildReads, Abort
<1>7. /\ IsPrompt(m) => m.call # None /\ m.call \in Call
      /\ m.call # None => m.call \notin working /\ request[m.call].command = m.command
      /\ \A k \in 1..n : m.call # None => stdin'[k].call # m.call
  BY <1>1, <1>2, Indexed DEF PromptInv, OnePlace, PromptsMatch
<1>15. /\ IsPrompt(m) => Heard' \subseteq Heard \cup {m.call}
       /\ ~IsPrompt(m) => Heard' \subseteq Heard
       /\ m.command = "abort" => Heard' = {}
  <2>1. ASSUME NEW r \in Preflight', r # m.call \/ ~IsPrompt(m)
        PROVE  r \in Preflight
    BY <1>4, <1>5, <1>7, <2>1 DEF Preflight, IsPrompt
  <2>2. missed \subseteq missed' /\ (m.command = "abort" => Preflight \subseteq missed')
    BY <1>6
  <2>3. m.command = "abort" => ~IsPrompt(m)
    BY DEF IsPrompt
  <2> QED
    BY <2>1, <2>2, <2>3 DEF Heard
<1>8. IsPrompt(m) => Heard = {}
  <2> SUFFICES ASSUME IsPrompt(m), Heard # {} PROVE FALSE
    OBVIOUS
  <2>1. AbortIn(stdin, 0, 1)
    BY <1>1, <1>4 DEF PromptInv, AbortsSeparate
  <2> QED
    BY <2>1 DEF AbortIn
<1> HIDE DEF m, n
<1>9. OnePlace'
  <2>1. \A j, k \in 1..n : stdin'[j].call = stdin'[k].call /\ stdin'[j].call # None => j = k
    BY <1>1, <1>2 DEF PromptInv, OnePlace
  <2>2. \A k \in 1..n : stdin'[k].call \notin working'
    BY <1>2, <1>5, <1>7 DEF PromptInv, OnePlace
  <2>3. \A j \in 1..Len(stdout) :
          stdout[j].call \notin working' /\ \A k \in 1..n : stdin'[k].call # stdout[j].call
    BY <1>1, <1>2, <1>5 DEF PromptInv, OnePlace, m
  <2> QED
    BY <1>5, <2>1, <2>2, <2>3 DEF OnePlace, n
<1>10. PromptsMatch'
  BY <1>2, <1>4 DEF PromptInv, PromptsMatch, n
<1>11. AbortsSeparate'
  <2> SUFFICES ASSUME NEW k \in 1..n, IsPrompt(stdin'[k])
               PROVE  /\ \A j \in 1..(k - 1) : IsPrompt(stdin'[j]) => AbortIn(stdin', j, k)
                      /\ Heard' # {} => AbortIn(stdin', 0, k)
    BY DEF AbortsSeparate, n
  <2>1. k + 1 \in 1..Len(stdin) /\ IsPrompt(stdin[k + 1]) /\ k \in 1..(n + 1) /\ 1 \in 1..(k + 1 - 1)
    BY <1>1, <1>2
  <2>2. /\ \A j \in 1..(k + 1 - 1) : IsPrompt(stdin[j]) => AbortIn(stdin, j, k + 1)
        /\ Heard # {} => AbortIn(stdin, 0, k + 1)
    BY <1>4, <2>1 DEF PromptInv, AbortsSeparate
  <2>3. ASSUME NEW j \in 1..(k - 1), IsPrompt(stdin'[j]) PROVE AbortIn(stdin', j, k)
    <3>1. j \in 1..n /\ j \in Nat /\ j + 1 \in 1..(k + 1 - 1)
      BY <1>1, <2>1
    <3>2. AbortIn(stdin, j + 1, k + 1)
      BY <1>2, <2>2, <2>3, <3>1
    <3> QED
      BY <1>3, <2>1, <3>1, <3>2
  <2>4. ASSUME Heard' # {} PROVE AbortIn(stdin', 0, k)
    <3>1. CASE IsPrompt(m)
      <4>1. AbortIn(stdin, 0 + 1, k + 1)
        BY <2>1, <2>2, <3>1 DEF m
      <4> QED
        BY <1>3, <2>1, <4>1
    <3>2. CASE ~IsPrompt(m)
      <4>1. m.command # "abort" /\ Heard # {}
        BY <1>15, <2>4, <3>2
      <4> QED
        BY <1>3, <2>1, <2>2, <4>1
    <3> QED
      BY <3>1, <3>2
  <2> QED
    BY <2>3, <2>4
<1>12. AbandonedAborted'
  <2> SUFFICES ASSUME ~exited, ~disposing
               PROVE  /\ \A j \in 1..n : IsPrompt(stdin'[j]) =>
                            outcome[stdin'[j].call] = "pending" \/ AbortIn(stdin', j, n + 1)
                      /\ \A r \in Heard' : outcome[r] = "pending" \/ AbortIn(stdin', 0, n + 1)
    BY <1>4 DEF AbandonedAborted, AbortAfter, n
  <2>1. /\ \A j \in 1..(n + 1) : IsPrompt(stdin[j]) =>
              outcome[stdin[j].call] = "pending" \/ AbortIn(stdin, j, n + 1 + 1)
        /\ \A r \in Heard : outcome[r] = "pending" \/ AbortIn(stdin, 0, n + 1 + 1)
    BY <1>1, <1>4 DEF PromptInv, AbandonedAborted, AbortAfter
  <2>2. n + 1 \in 1..(n + 1)
    BY <1>1
  <2>3. ASSUME NEW j \in 1..n, IsPrompt(stdin'[j])
        PROVE  outcome[stdin'[j].call] = "pending" \/ AbortIn(stdin', j, n + 1)
    <3>1. j \in Nat /\ j + 1 \in 1..(n + 1) /\ stdin'[j] = stdin[j + 1]
      BY <1>1, <1>2
    <3> QED
      BY <1>3, <2>1, <2>2, <2>3, <3>1
  <2>4. ASSUME NEW r \in Heard' PROVE outcome[r] = "pending" \/ AbortIn(stdin', 0, n + 1)
    <3>1. CASE IsPrompt(m)
      <4>1. r = m.call /\ 1 \in 1..(n + 1)
        BY <1>1, <1>15, <1>8, <2>4, <3>1
      <4>2. outcome[r] = "pending" \/ AbortIn(stdin, 0 + 1, n + 1 + 1)
        BY <2>1, <3>1, <4>1 DEF m
      <4> QED
        BY <1>3, <2>2, <4>2
    <3>2. CASE ~IsPrompt(m)
      <4>1. m.command # "abort" /\ r \in Heard
        BY <1>15, <2>4, <3>2
      <4> QED
        BY <1>3, <2>1, <2>2, <4>1
    <3> QED
      BY <3>1, <3>2
  <2> QED
    BY <2>3, <2>4
<1>13. AimsRight'
  <2>1. ASSUME NEW k \in 1..n, stdin'[k].command = "abort", stdin'[k].aim # None
        PROVE  LastIn(stdin', last', k, stdin'[k].aim)
    <3>1. k \in 1..(n + 1) /\ LastIn(stdin, last, k + 1, stdin'[k].aim)
      BY <1>1, <1>2, <2>1 DEF PromptInv, AimsRight
    <3> QED
      BY <1>3, <1>4, <3>1
  <2>2. ASSUME NEW r \in PendingPrompts' PROVE LastIn(stdin', last', n + 1, r)
    <3>1. n + 1 \in 1..(n + 1) /\ r \in PendingPrompts
      BY <1>1, <1>4, <2>2 DEF PendingPrompts, Pending
    <3>2. LastIn(stdin, last, n + 1 + 1, r)
      BY <1>1, <1>4, <3>1 DEF PromptInv, AimsRight, Over
    <3> QED
      BY <1>3, <1>4, <3>1, <3>2
  <2> QED
    BY <2>1, <2>2 DEF AimsRight, n
<1>14. OneAtATime'
  <2>1. Heard' \subseteq {last'}
    BY <1>4, <1>15, <1>8 DEF PromptInv, OneAtATime
  <2>2. PendingPrompts' = PendingPrompts
    BY <1>4 DEF PendingPrompts, Pending
  <2> QED
    BY <1>4, <2>1, <2>2 DEF PromptInv, OneAtATime, Over
<1> QED
  BY <1>9, <1>10, <1>11, <1>12, <1>13, <1>14 DEF PromptInv

\* The answer to a prompt ends it in the child.
LEMMA ChildAnswersPrompts ==
    ASSUME AnswerInv, PromptInv, NEW r \in Call, ChildAnswers(r)
    PROVE  PromptInv'
<1> DEFINE a == [id |-> request[r].id, call |-> r]
<1>1. /\ r \in working /\ working' = working \ {r} /\ proc = "running" /\ stdout' = Append(stdout, a)
      /\ UNCHANGED <<request, outcome, stdin, last, proc, exited, disposing>>
      /\ missed' = StillIn(missed)
  BY DEF ChildAnswers, client
<1>9. Heard' \subseteq Heard
  BY <1>1 DEF Heard, Preflight, StillIn
<1>2. a \in OutMessage /\ a.call = r
  BY <1>1, Indexed DEF OutMessage, AnswerInv, TypeOK, Request, Sent
<1>3. Grown(stdout, stdout', a) /\ Len(stdout) \in Nat
  BY <1>1, <1>2, AppendGrows DEF AnswerInv, Channels
<1> HIDE DEF a
<1>4. OnePlace'
  <2>1. \A k \in 1..Len(stdin) : stdin[k].call # r
    BY <1>1 DEF PromptInv, OnePlace
  <2>2. ASSUME NEW j \in 1..Len(stdout')
        PROVE  /\ stdout'[j].call \notin working'
               /\ \A k \in 1..Len(stdin) : stdin[k].call # stdout'[j].call
    <3>1. CASE j = Len(stdout) + 1
      BY <1>1, <1>2, <1>3, <2>1, <3>1 DEF Grown
    <3>2. CASE j \in 1..Len(stdout)
      BY <1>1, <1>3, <3>2 DEF Grown, PromptInv, OnePlace
    <3> QED
      BY <1>3, <3>1, <3>2 DEF Grown
  <2> QED
    BY <1>1, <2>2 DEF PromptInv, OnePlace
<1>5. PromptsMatch' /\ AbortsSeparate'
  BY <1>1, <1>9 DEF PromptInv, PromptsMatch, AbortsSeparate
<1>6. AbandonedAborted'
  BY <1>1, <1>9 DEF PromptInv, AbandonedAborted, AbortAfter
<1>7. PendingPrompts' = PendingPrompts
  BY <1>1 DEF PendingPrompts, Pending
<1>8. AimsRight' /\ OneAtATime'
  BY <1>1, <1>7, <1>9 DEF PromptInv, AimsRight, OneAtATime, Over
<1> QED
  BY <1>4, <1>5, <1>6, <1>8 DEF PromptInv

\* A turn that moves or ends forgets only what is no longer in hand.
LEMMA TurnPrompts ==
    ASSUME AnswerInv, PromptInv, TurnMoves \/ TurnEnds
    PROVE  PromptInv'
<1>1. UNCHANGED <<exited, disposing, request, outcome, stdin, stdout, working, last, proc>>
  BY DEF TurnMoves, TurnEnds, client
<1>2. Heard' \subseteq Heard
  <2>1. working \cap missed \subseteq missed'
    BY DEF TurnMoves, TurnEnds, StillIn
  <2> QED
    BY <1>1, <2>1 DEF Heard, Preflight
<1>3. PendingPrompts' = PendingPrompts
  BY <1>1 DEF PendingPrompts, Pending
<1>4. OnePlace' /\ PromptsMatch' /\ AimsRight'
  BY <1>1, <1>3 DEF PromptInv, OnePlace, PromptsMatch, AimsRight
<1>5. AbortsSeparate' /\ AbandonedAborted'
  BY <1>1, <1>2 DEF PromptInv, AbortsSeparate, AbandonedAborted, AbortAfter
<1>6. OneAtATime'
  BY <1>1, <1>2, <1>3 DEF PromptInv, OneAtATime
<1> QED
  BY <1>4, <1>5, <1>6 DEF PromptInv

\* The steps that end requests or the process.
LEMMA EndPrompts ==
    ASSUME AnswerInv, EndInv, PromptInv,
           \/ \E r \in Call : WriteFails(r)
           \/ FailProtocol \/ ChildExits \/ ErrorEvent \/ ExitEvent
           \/ \E d \in Disposer : Dispose(d) \/ WaitResolves(d) \/ WaitTimesOut(d)
    PROVE  PromptInv'
<1>1. TypeOK
  BY DEF AnswerInv
<1>2. ASSUME NEW r \in Call, WriteFails(r) PROVE PromptInv'
  <2>1. /\ UNCHANGED <<stdin, working, missed, last, request, stdout, proc>> /\ proc \in Over
        /\ outcome' = [outcome EXCEPT ![r] = "rejected"]
    BY <1>2 DEF WriteFails, child
  <2>2. PendingPrompts' \subseteq PendingPrompts
    BY <1>1, <2>1 DEF PendingPrompts, Pending, TypeOK
  <2>3. AbandonedAborted'
    BY <2>1 DEF AbandonedAborted, Over
  <2> QED
    BY <2>1, <2>2, <2>3, QuietPrompts
<1>3. ASSUME UNCHANGED <<stdin, working, missed, last, request, stdout>>,
             proc' = proc \/ (proc \notin Over /\ proc' = "killed"),
             RejectAllPending, proc' = "killed" \/ exited' \/ disposing'
      PROVE  PromptInv'
  <2>1. PendingPrompts' \subseteq PendingPrompts
    BY <1>1, <1>3, RejectAll DEF PendingPrompts, Pending
  <2>2. AbandonedAborted'
    BY <1>3 DEF AbandonedAborted
  <2> QED
    BY <1>3, <2>1, <2>2, QuietPrompts
<1>4. ASSUME UNCHANGED <<stdin, working, missed, last, request, stdout, outcome, exited, disposing>>,
             proc' = proc \/ (proc \notin Over /\ proc' = "killed")
      PROVE  PromptInv'
  <2>1. PendingPrompts' = PendingPrompts
    BY <1>4 DEF PendingPrompts, Pending
  <2>2. AbandonedAborted'
    BY <1>4 DEF PromptInv, AbandonedAborted, AbortAfter, Over, Heard, Preflight
  <2> QED
    BY <1>4, <2>1, <2>2, QuietPrompts
<1>5. CASE FailProtocol
  BY <1>3, <1>5 DEF FailProtocol, child, Over
<1>6. CASE ChildExits
  <2>1. /\ proc' = "gone" /\ stdin' = <<>> /\ working' = {} /\ Heard' = {} /\ Len(stdin') = 0
        /\ UNCHANGED <<request, outcome, stdout, last>>
    BY <1>6 DEF ChildExits, client, Heard, Preflight
  <2>2. PendingPrompts' = PendingPrompts
    BY <2>1 DEF PendingPrompts, Pending
  <2>3. OnePlace' /\ PromptsMatch' /\ AbortsSeparate' /\ AbandonedAborted' /\ AimsRight'
    BY <2>1 DEF OnePlace, PromptsMatch, AbortsSeparate, AbandonedAborted, AimsRight, Over
  <2> QED
    BY <2>1, <2>2, <2>3 DEF PromptInv, OneAtATime
<1>7. CASE ErrorEvent
  BY <1>3, <1>7 DEF ErrorEvent, MarkExited, child
<1>8. CASE ExitEvent
  BY <1>3, <1>4, <1>8 DEF ExitEvent, MarkExited, child
<1>9. ASSUME NEW d \in Disposer, Dispose(d) PROVE PromptInv'
  BY <1>3, <1>9 DEF Dispose, child
<1>10. ASSUME NEW d \in Disposer, WaitResolves(d) PROVE PromptInv'
  BY <1>4, <1>10 DEF WaitResolves, client, child
<1>11. ASSUME NEW d \in Disposer, WaitTimesOut(d) PROVE PromptInv'
  BY <1>4, <1>11 DEF WaitTimesOut, client, child, Over
<1> QED
  BY <1>2, <1>5, <1>6, <1>7, <1>8, <1>9, <1>10, <1>11

\* The invariant behind PromptsSeparate is inductive, with the other two.
LEMMA PromptStep ==
    AnswerInv /\ AnswerInv' /\ EndInv /\ PromptInv /\ [Next]_vars => PromptInv'
<1> SUFFICES ASSUME AnswerInv, AnswerInv', EndInv, PromptInv, [Next]_vars PROVE PromptInv'
  OBVIOUS
<1>1. TypeOK
  BY DEF AnswerInv
<1>2. CASE Next
  BY <1>1, <1>2, NextCases, SendPrompts, SendAbortedPrompts, GiveUpPrompts, HandleLinePrompts,
     ChildReadsPrompts, ChildAnswersPrompts, TurnPrompts, EndPrompts
<1>3. CASE UNCHANGED vars
  <2>1. UNCHANGED <<stdin, working, missed, last, request, stdout, outcome, exited, disposing, proc>>
    BY <1>3 DEF vars, client, child
  <2>2. PendingPrompts' = PendingPrompts
    BY <2>1 DEF PendingPrompts, Pending
  <2>3. AbandonedAborted'
    BY <2>1 DEF PromptInv, AbandonedAborted, AbortAfter, Heard, Preflight
  <2> QED
    BY <2>1, <2>2, <2>3, QuietPrompts
<1> QED
  BY <1>2, <1>3

\* The turn that runs keeps its caller, or an abort behind it, or what made
\* it deaf to one.
LEMMA TurnStep ==
    AnswerInv /\ EndInv /\ PromptInv /\ TurnHeeded /\ [Next]_vars => TurnHeeded'
<1> SUFFICES ASSUME AnswerInv, EndInv, PromptInv, TurnHeeded, [Next]_vars PROVE TurnHeeded'
  OBVIOUS
<1>1. TypeOK /\ Len(stdin) \in Nat
  BY Indexed DEF AnswerInv
<1>2. ASSUME UNCHANGED <<request, turn, phase, missed, stdin, outcome>>,
             proc' = proc \/ proc' # "running", exited => exited', disposing => disposing'
      PROVE  TurnHeeded'
  BY <1>2 DEF TurnHeeded, Sent, AbortAfter
<1>3. ASSUME UNCHANGED <<turn, phase, missed, exited, disposing, proc>>, NEW r \in Call, r \notin Sent,
             \A s \in Call \ {r} : request'[s] = request[s] /\ outcome'[s] = outcome[s],
             stdin' = stdin \/ \E m \in InMessage : Grown(stdin, stdin', m)
      PROVE  TurnHeeded'
  <2>1. AbortAfter(0) => AbortAfter(0)'
    <3>1. CASE stdin' = stdin
      BY <3>1 DEF AbortAfter
    <3>2. ASSUME NEW m \in InMessage, Grown(stdin, stdin', m) PROVE AbortAfter(0) => AbortAfter(0)'
      BY <1>1, <3>2 DEF AbortAfter, AbortIn, Grown
    <3> QED
      BY <1>3, <3>1, <3>2
  <2>2. turn # None => turn \in Call \ {r}
    BY <1>3 DEF TurnHeeded, Sent
  <2> QED
    BY <1>3, <2>1, <2>2 DEF TurnHeeded, Sent
<1>4. ASSUME NEW r \in Call, NEW id \in Id, NEW command \in Command,
             NEW aim \in Call \cup {None}, SendFor(r, id, command, aim)
      PROVE  TurnHeeded'
  <2> DEFINE m == [command |-> command, call |-> r, aim |-> aim]
  <2>1. m \in InMessage /\ (IsPrompt(m) => m.call # None)
    BY RpcProcessAssumption DEF InMessage
  <2>2. Write(m) /\ Unrefused(r, id, command) /\ outcome' = [outcome EXCEPT ![r] = "pending"]
    BY <1>4 DEF SendFor
  <2> HIDE DEF m
  <2>3. stdin' = stdin \/ \E e \in InMessage : Grown(stdin, stdin', e)
    BY <2>1, <2>2, WriteGrows DEF AnswerInv
  <2>4. r \notin Sent /\ \A s \in Call \ {r} : request'[s] = request[s] /\ outcome'[s] = outcome[s]
    BY <1>1, <2>2, SendOwnsId DEF TypeOK
  <2> QED
    BY <1>3, <2>2, <2>3, <2>4 DEF Unrefused, child
<1>5. ASSUME NEW r \in Call, NEW id \in Id, NEW command \in Command, SendAborted(r, id, command)
      PROVE  TurnHeeded'
  <2> DEFINE m == [command |-> "abort", call |-> None, aim |-> None]
  <2>1. m \in InMessage
    BY DEF InMessage, Command
  <2>2. /\ Unrefused(r, id, command) /\ outcome' = [outcome EXCEPT ![r] = "rejected"]
        /\ stdin' = stdin \/ stdin' = Append(stdin, m)
    BY <1>5 DEF SendAborted
  <2> HIDE DEF m
  <2>3. stdin' = stdin \/ \E e \in InMessage : Grown(stdin, stdin', e)
    BY <2>1, <2>2, AppendGrows DEF AnswerInv, Channels
  <2>4. r \notin Sent /\ \A s \in Call \ {r} : request'[s] = request[s] /\ outcome'[s] = outcome[s]
    BY <1>1, <2>2, SendOwnsId DEF TypeOK
  <2> QED
    BY <1>3, <2>2, <2>3, <2>4 DEF Unrefused, child
<1>6. ASSUME NEW r \in Call, GiveUp(r) PROVE TurnHeeded'
  <2> DEFINE m == [command |-> "abort", call |-> None, aim |-> r]
  <2>1. /\ UNCHANGED <<request, turn, phase, missed, exited, disposing, proc>> /\ Sent' = Sent
        /\ \A s \in Call \ {r} : outcome'[s] = outcome[s]
    BY <1>1, <1>6 DEF GiveUp, child, TypeOK, Sent
  <2>2. ~exited /\ ~disposing
    BY <1>6 DEF GiveUp, EndInv, NothingPendingAfterEnd, Pending
  <2>3. m \in InMessage /\ m.command = "abort"
    BY DEF InMessage, Command
  <2>4. stdin' = stdin \/ stdin' = Append(stdin, m)
    BY <1>6 DEF GiveUp, BestEffortAbort, Write
  <2>5. request[r].command = "prompt" /\ proc = "running" => stdin' = Append(stdin, m)
    BY <1>6, <2>2 DEF GiveUp, BestEffortAbort, Write, Over
  <2> HIDE DEF m
  <2>6. stdin' = Append(stdin, m) => AbortAfter(0)'
    BY <1>1, <2>3, AppendGrows DEF AnswerInv, Channels, Grown, AbortAfter, AbortIn
  <2>7. stdin' = stdin => (AbortAfter(0) => AbortAfter(0)')
    BY DEF AbortAfter
  <2>8. CASE turn = r
    BY <2>1, <2>5, <2>6, <2>8 DEF TurnHeeded
  <2>9. CASE turn # r
    BY <2>1, <2>4, <2>6, <2>7, <2>9, <1>1 DEF TurnHeeded, TypeOK
  <2> QED
    BY <2>8, <2>9
<1>7. CASE HandleLine
  <2>1. UNCHANGED <<request, turn, phase, missed, stdin, exited, disposing, proc>>
    BY <1>7 DEF HandleLine, child
  <2>2. \A s \in Call : outcome'[s] = "rejected" => outcome[s] = "rejected"
    BY <1>1, <1>7 DEF HandleLine, Pending, TypeOK
  <2> QED
    BY <1>1, <2>1, <2>2 DEF TurnHeeded, Sent, AbortAfter, TypeOK
<1>8. CASE ChildReads
  <2>1. /\ UNCHANGED <<request, turn, outcome, exited, disposing, proc>>
        /\ stdin # <<>> /\ stdin' = Tail(stdin)
        /\ IF Head(stdin).command = "abort" THEN Abort ELSE UNCHANGED <<phase, missed>>
    BY <1>8 DEF ChildReads, client
  <2>2. Shrunk(stdin, stdin') /\ Head(stdin) = stdin[1]
    BY <2>1, TailShrinks DEF AnswerInv, Channels
  <2>3. CASE Head(stdin).command = "abort"
    <3>1. turn # None => phase' = "stopping" \/ turn \in missed'
      BY <1>1, <2>1, <2>3 DEF Abort, TypeOK
    <3> QED
      BY <2>1, <3>1 DEF TurnHeeded, Sent
  <2>4. CASE Head(stdin).command # "abort"
    <3>1. AbortAfter(0) => AbortAfter(0)'
      <4> SUFFICES ASSUME NEW i \in 1..Len(stdin), stdin[i].command = "abort"
                   PROVE  \E j \in 1..Len(stdin') : stdin'[j].command = "abort"
        BY <1>1, <2>2 DEF AbortAfter, AbortIn, Shrunk
      <4>1. i # 1
        BY <2>2, <2>4
      <4>2. i - 1 \in 1..Len(stdin') /\ stdin'[i - 1] = stdin[i]
        BY <1>1, <2>2, <4>1 DEF Shrunk
      <4> QED
        BY <4>2
    <3> QED
      BY <2>1, <2>4, <3>1 DEF TurnHeeded, Sent
  <2> QED
    BY <2>3, <2>4
<1>9. ASSUME NEW r \in Call, ChildAnswers(r) PROVE TurnHeeded'
  <2>1. /\ UNCHANGED <<request, outcome, stdin, exited, disposing, proc>> /\ Sent' = Sent
        /\ r \in working /\ missed' = missed \cap (working' \cup {turn'})
    BY <1>9 DEF ChildAnswers, StillIn, client, Sent
  <2>2. CASE UNCHANGED <<turn, phase>>
    BY <2>1, <2>2 DEF TurnHeeded, AbortAfter
  <2>3. CASE r \in Preflight /\ turn' = r
    <3>1. r \in Sent /\ request[r].command = "prompt" /\ (r \in missed' <=> r \in missed)
      BY <2>1, <2>3, Indexed DEF Preflight
    <3>2. r \notin missed /\ proc = "running" /\ ~exited /\ ~disposing =>
              outcome[r] = "pending" \/ AbortAfter(0)
      BY <2>3 DEF PromptInv, AbandonedAborted, Heard
    <3> QED
      BY <2>1, <2>3, <3>1, <3>2 DEF TurnHeeded, AbortAfter
  <2> QED
    BY <1>9, <2>2, <2>3 DEF ChildAnswers
<1>10. CASE TurnMoves
  <2>1. /\ UNCHANGED <<request, outcome, stdin, exited, disposing, proc, turn, missed>>
        /\ phase # "stopping"
    BY <1>10 DEF TurnMoves, client
  <2> QED
    BY <2>1 DEF TurnHeeded, Sent, AbortAfter
<1>11. CASE TurnEnds \/ ChildExits
  BY <1>11 DEF TurnEnds, ChildExits, TurnHeeded
<1>12. ASSUME UNCHANGED <<request, turn, phase, missed, stdin>>,
              proc' # "running" \/ exited' \/ disposing'
       PROVE  TurnHeeded'
  BY <1>12 DEF TurnHeeded, Sent
<1>13. CASE FailProtocol
  BY <1>12, <1>13 DEF FailProtocol, child
<1>14. CASE ErrorEvent \/ ExitEvent
  BY <1>12, <1>14 DEF ErrorEvent, ExitEvent, MarkExited, child
<1>15. ASSUME NEW r \in Call, WriteFails(r) PROVE TurnHeeded'
  BY <1>12, <1>15 DEF WriteFails, child, Over
<1>16. ASSUME NEW d \in Disposer, Dispose(d) PROVE TurnHeeded'
  BY <1>12, <1>16 DEF Dispose, child
<1>17. ASSUME NEW d \in Disposer, WaitResolves(d) \/ WaitTimesOut(d) PROVE TurnHeeded'
  BY <1>2, <1>17 DEF WaitResolves, WaitTimesOut, client, child
<1>18. CASE UNCHANGED vars
  BY <1>2, <1>18 DEF vars, client, child
<1>19. CASE Next
  BY <1>1, <1>4, <1>5, <1>6, <1>7, <1>8, <1>9, <1>10, <1>11, <1>13, <1>14, <1>15, <1>16, <1>17,
     <1>19, NextCases
<1> QED
  BY <1>18, <1>19

\* Whoever can name the last prompt has named the one LastBefore chooses.
LEMMA LastInIsLastBefore ==
    ASSUME Len(stdin) \in Nat, NEW k \in 1..Len(stdin), NEW c, LastIn(stdin, last, k, c)
    PROVE  LastBefore(k) = c
<1> DEFINE prompts == {j \in 1..(k - 1) : stdin[j].command = "prompt"}
<1>1. CASE (\A j \in 1..(k - 1) : ~IsPrompt(stdin[j])) /\ last = c
  <2>1. prompts = {}
    BY <1>1 DEF IsPrompt
  <2> QED
    BY <1>1, <2>1 DEF LastBefore
<1>2. ASSUME NEW j \in 1..(k - 1), IsPrompt(stdin[j]), stdin[j].call = c,
             \A i \in (j + 1)..(k - 1) : ~IsPrompt(stdin[i])
      PROVE  LastBefore(k) = c
  <2>1. j \in prompts /\ \A i \in prompts : i <= j
    BY <1>2 DEF IsPrompt
  <2>2. prompts \subseteq Int
    OBVIOUS
  <2>3. LastBefore(k) = stdin[CHOOSE i \in prompts : \A h \in prompts : h <= i].call
    BY <2>1 DEF LastBefore
  <2> HIDE DEF prompts
  <2> DEFINE top == CHOOSE i \in prompts : \A h \in prompts : h <= i
  <2>4. \E i \in prompts : \A h \in prompts : h <= i
    BY <2>1
  <2>5. top \in prompts /\ \A h \in prompts : h <= top
    BY <2>4, Zenon
  <2>6. LastBefore(k) = stdin[top].call
    BY <2>3
  <2> HIDE DEF top
  <2>7. top = j
    BY <2>1, <2>2, <2>5
  <2> QED
    BY <1>2, <2>6, <2>7
<1> QED
  BY <1>1, <1>2 DEF LastIn

\* rpc-process.ts, send, requestBestEffortAbort and cancel, and rpc-mode.ts,
\* prompt and abort: a prompt reaches a child that has no other in preflight
\* but ones deaf to their abort, although callers give up prompts the child
\* has not answered; an abort reaches the child before any later prompt; and a
\* turn given up goes on only if the abort found the child deaf to it.
THEOREM PromptsSeparateHolds == Spec => []PromptsSeparate
<1>1. Init => EndInv
  BY DEF Init, EndInv, NothingPendingAfterEnd, DisposeTruthful, Pending
<1>2. Init => PromptInv
  <2> SUFFICES ASSUME Init PROVE PromptInv
    OBVIOUS
  <2>1. stdin = <<>> /\ Len(stdin) = 0 /\ Len(stdout) = 0 /\ working = {} /\ Heard = {}
        /\ PendingPrompts = {}
    BY DEF Init, PendingPrompts, Pending, Heard, Preflight
  <2> QED
    BY <2>1 DEF PromptInv, OnePlace, PromptsMatch, AbortsSeparate, AbandonedAborted,
                AimsRight, OneAtATime
<1>3. AnswerInv => TypeOK
  BY DEF AnswerInv
<1>4. AnswerInv /\ EndInv /\ PromptInv /\ TurnHeeded => PromptsSeparate
  <2> SUFFICES ASSUME AnswerInv, EndInv, PromptInv, TurnHeeded PROVE PromptsSeparate
    OBVIOUS
  <2>1. OnePromptOpen
    <3>1. Heard = {} \/ Heard = {last}
      BY DEF PromptInv, OneAtATime
    <3>2. Cardinality({}) = 0 /\ Cardinality({last}) = 1
      BY FS_EmptySet, FS_Singleton
    <3> QED
      BY <3>1, <3>2 DEF OnePromptOpen, Heard
  <2>2. AbortHitsItsPrompt
    BY Indexed, LastInIsLastBefore DEF PromptInv, AimsRight, AbortHitsItsPrompt
  <2>3. GivenUpStops
    <3>1. AbortAfter(0) => \E k \in 1..Len(stdin) : stdin[k].command = "abort"
      BY Indexed DEF AbortAfter, AbortIn
    <3>2. proc = "running" => ~exited
      BY DEF EndInv, Over
    <3> QED
      BY <3>1, <3>2 DEF TurnHeeded, GivenUpStops
  <2> QED
    BY <2>1, <2>2, <2>3 DEF PromptsSeparate
<1>5. Init => TurnHeeded
  BY DEF Init, TurnHeeded
<1> QED
  BY <1>1, <1>2, <1>3, <1>4, <1>5, AnswerInit, AnswerStep, EndStep, PromptStep, TurnStep, PTL
     DEF Spec

=============================================================================
