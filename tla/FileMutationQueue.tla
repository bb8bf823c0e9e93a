-------------------------- MODULE FileMutationQueue --------------------------
(***************************************************************************)
(* withFileMutationQueue (packages/coding-agent/src/core/tools/            *)
(* file-mutation-queue.ts, and its twin in packages/agent/src/harness/     *)
(* tools) and the edit and write tools that run their file operations      *)
(* under it while a batch of tool calls executes in parallel.              *)
(*                                                                         *)
(* A file is named by its canonical path; a link is another path to it.    *)
(* The queue's key is the canonical path when the file exists and the path *)
(* as given when it does not.  `content` is the set of mutations whose     *)
(* text the file holds: an edit adds its own to what it read, a write      *)
(* leaves only its own, and the truncation with which writeFile starts     *)
(* leaves none.                                                            *)
(***************************************************************************)
EXTENDS Integers, Sequences

CONSTANTS
    MaxOps,         \* calls of the edit and write tools
    File,           \* canonical paths
    Link, Linked,   \* paths through a symbolic link, and the file they lead to
    Missing,        \* files that do not exist until a tool writes them
    None

ASSUME FileMutationAssumption ==
    /\ MaxOps \in Nat
    /\ None \notin 1..MaxOps \cup File \cup Link
    /\ File \cap Link = {}
    /\ Linked \in File
    /\ Missing \subseteq File

VARIABLES
    kind, path,            \* the tool called, and its path argument
    stage,                 \* how far each call has come
    registration,          \* registrationQueue: calls still to register
    key,                   \* the key realpath gave the call
    queues,                \* fileMutationQueues: the last call chained per key
    pred,                  \* the call whose end currentQueue waits for
    exists, content,       \* the file system
    before,                \* what a file held before the write under way
    seen,                  \* what an edit read
    aborted                \* the batch's AbortSignal

inputs == <<kind, path>>
vars == <<kind, path, stage, registration, key, queues, pred,
          exists, content, before, seen, aborted>>

\* The calls, numbered in the order in which they are made.
Op == 1..MaxOps

Path == File \cup Link

FileOf(p) == IF p \in File THEN p ELSE Linked

Settled == {"ok", "failed"}

Stage == Settled \cup {"idle", "registering", "resolved", "waiting", "holding", "ready", "writing",
                      "written"}

\* getMutationQueueKey: realpath of an existing file, else the path given.
MutationQueueKey(o) == IF exists[FileOf(path[o])] THEN FileOf(path[o]) ELSE path[o]

-----------------------------------------------------------------------------
(* Registration: one call at a time, in call order. *)

Init ==
    /\ kind \in [Op -> {"edit", "write"}]
    /\ path \in [Op -> Path]
    /\ exists = [f \in File |-> f \notin Missing]
    /\ stage = [o \in Op |-> "idle"]
    /\ registration = <<>>
    /\ key = [o \in Op |-> None]
    /\ queues = [k \in Path |-> None]
    /\ pred = [o \in Op |-> None]
    /\ content = [f \in File |-> {}]
    /\ before = [f \in File |-> {}]
    /\ seen = [o \in Op |-> {}]
    /\ aborted = FALSE

\* The tool's execute calls withFileMutationQueue.
Execute(o) ==
    /\ stage[o] = "idle"
    /\ \A p \in Op : p < o => stage[p] # "idle"
    /\ stage' = [stage EXCEPT ![o] = "registering"]
    /\ registration' = Append(registration, o)
    /\ UNCHANGED <<inputs, key, queues, pred, exists, content, before, seen, aborted>>

CanRegister(o) == stage[o] = "registering" /\ Head(registration) = o

\* realpath answers, or fails for another reason than a missing file.
ResolveKey(o) ==
    /\ CanRegister(o)
    /\ \/ /\ stage' = [stage EXCEPT ![o] = "resolved"]
          /\ key' = [key EXCEPT ![o] = MutationQueueKey(o)]
          /\ UNCHANGED registration
       \/ /\ stage' = [stage EXCEPT ![o] = "failed"]
          /\ registration' = Tail(registration)
          /\ UNCHANGED key
    /\ UNCHANGED <<inputs, queues, pred, exists, content, before, seen, aborted>>

\* The call chains itself behind the key's last one and becomes the last.
Register(o) ==
    /\ stage[o] = "resolved"
    /\ stage' = [stage EXCEPT ![o] = "waiting"]
    /\ pred' = [pred EXCEPT ![o] = queues[key[o]]]
    /\ queues' = [queues EXCEPT ![key[o]] = o]
    /\ registration' = Tail(registration)
    /\ UNCHANGED <<inputs, key, exists, content, before, seen, aborted>>

-----------------------------------------------------------------------------
(* The tool's function, run when the call before it on the key has ended.  *)

\* Mutant: the key's entry is dropped even if another call has chained since.
FinallyDropsOthers(o, s) ==
    /\ stage' = [stage EXCEPT ![o] = s]
    /\ queues' = [queues EXCEPT ![key[o]] = None]

\* The finally block: release the next call, drop the entry if still ours.
Finally(o, s) ==
    /\ stage' = [stage EXCEPT ![o] = s]
    /\ queues' = [queues EXCEPT ![key[o]] = IF @ = o THEN None ELSE @]

\* Mutant: fn is not kept waiting for a call that is still writing.
MayBeginEarly(o) == stage[o] = "waiting"

\* Mutant: a call whose tool failed does not release the next one.
MayBeginAfterSuccess(o) == stage[o] = "waiting" /\ ~(pred[o] # None /\ stage[pred[o]] # "ok")

\* await currentQueue.
MayBegin(o) == stage[o] = "waiting" /\ ~(pred[o] # None /\ stage[pred[o]] \notin Settled)

\* fn starts: throwIfAborted, then access and readFile, or mkdir.
Begin(o) ==
    /\ MayBegin(o)
    /\ \/ ~aborted /\ stage' = [stage EXCEPT ![o] = "holding"] /\ UNCHANGED queues
       \/ aborted /\ Finally(o, "failed")
    /\ UNCHANGED <<inputs, registration, key, pred, exists, content, before, seen, aborted>>

\* access and readFile (edit) or mkdir (write) settle.  An edit of a missing
\* file and one whose oldText is not found fail; so does an aborted call.
Prepared(o) ==
    LET f == FileOf(path[o])
    IN  /\ stage[o] = "holding"
        /\ \/ /\ ~aborted
              /\ kind[o] = "edit" => exists[f]
              /\ stage' = [stage EXCEPT ![o] = "ready"]
              /\ seen' = [seen EXCEPT ![o] = IF kind[o] = "edit" THEN content[f] ELSE {}]
              /\ UNCHANGED queues
           \/ Finally(o, "failed") /\ UNCHANGED seen
        /\ UNCHANGED <<inputs, registration, key, pred, exists, content, before, aborted>>

\* writeFile opens the file: it exists from now on, and is empty.  Or it
\* cannot be opened, and stays as it was.
OpenForWrite(o) ==
    LET f == FileOf(path[o])
    IN  /\ stage[o] = "ready"
        /\ \/ /\ stage' = [stage EXCEPT ![o] = "writing"]
              /\ exists' = [exists EXCEPT ![f] = TRUE]
              /\ before' = [before EXCEPT ![f] = content[f]]
              /\ content' = [content EXCEPT ![f] = {}]
              /\ UNCHANGED <<queues, seen>>
           \/ /\ Finally(o, "failed")
              /\ seen' = [seen EXCEPT ![o] = {}]
              /\ UNCHANGED <<exists, before, content>>
        /\ UNCHANGED <<inputs, registration, key, pred, aborted>>

\* writeFile settles; one that fails leaves the file cut off.  The language
\* server's diagnostics are then awaited with the queue still held, unless
\* the call is aborted.
WriteFile(o) ==
    LET f == FileOf(path[o])
    IN  /\ stage[o] = "writing"
        /\ before' = [before EXCEPT ![f] = {}]
        /\ seen' = [seen EXCEPT ![o] = {}]
        /\ \/ /\ content' = [content EXCEPT ![f] = seen[o] \cup {o}]
              /\ \/ ~aborted /\ stage' = [stage EXCEPT ![o] = "written"] /\ UNCHANGED queues
                 \/ aborted /\ Finally(o, "failed")
           \/ Finally(o, "failed") /\ UNCHANGED content
        /\ UNCHANGED <<inputs, registration, key, pred, exists, aborted>>

\* The diagnostics arrive, fail or time out: the tool returns its result.
Diagnosed(o) ==
    /\ stage[o] = "written"
    /\ Finally(o, "ok")
    /\ UNCHANGED <<inputs, registration, key, pred, exists, content, before, seen, aborted>>

\* The user aborts the run the batch belongs to.
Abort ==
    /\ ~aborted
    /\ aborted' = TRUE
    /\ UNCHANGED <<inputs, stage, registration, key, queues, pred, exists, content, before, seen>>

Step(o) ==
    \/ ResolveKey(o) \/ Register(o) \/ Begin(o) \/ Prepared(o)
    \/ OpenForWrite(o) \/ WriteFile(o) \/ Diagnosed(o)

Next == Abort \/ \E o \in Op : Execute(o) \/ Step(o)

\* The file system and the language server answer, if only with an error.
Fairness == \A o \in Op : WF_vars(Step(o))

Spec == Init /\ [][Next]_vars /\ Fairness

-----------------------------------------------------------------------------
(* Properties. *)

TypeOK ==
    /\ kind \in [Op -> {"edit", "write"}]
    /\ path \in [Op -> Path]
    /\ stage \in [Op -> Stage]
    /\ registration \in Seq(Op)
    /\ key \in [Op -> Path \cup {None}]
    /\ queues \in [Path -> Op \cup {None}]
    /\ pred \in [Op -> Op \cup {None}]
    /\ exists \in [File -> BOOLEAN]
    /\ content \in [File -> SUBSET Op]
    /\ before \in [File -> SUBSET Op]
    /\ seen \in [Op -> SUBSET Op]
    /\ aborted \in BOOLEAN

\* fileMutationQueues neither forgets a call that others must wait for nor
\* keeps an entry of one that ended: whatever order calls end in, the map is
\* empty once all of them have (file-mutation-queue.ts, the finally block).
QueueMapExact ==
    /\ TypeOK
    /\ \A k \in Path : queues[k] # None => stage[queues[k]] \notin Settled
    /\ \A o \in Op :
          stage[o] \in {"waiting", "holding", "ready", "writing", "written"} => queues[key[o]] # None

\* The state of the promise: a mutation counts as applied when writeFile has
\* settled, and a file under a write still shows what it held before.
Phase(o) ==
    CASE stage[o] = "idle" -> "idle"
      [] stage[o] = "written" -> "applied"
      [] stage[o] \in Settled -> stage[o]
      [] OTHER -> "pending"

Shown(f) ==
    IF \E o \in Op : stage[o] = "writing" /\ FileOf(path[o]) = f THEN before[f] ELSE content[f]

Files == INSTANCE AtomicFiles WITH
    phase <- [o \in Op |-> Phase(o)],
    file <- [f \in File |-> Shown(f)],
    of <- [o \in Op |-> FileOf(path[o])]

\* Parallel edits and writes of one file behave as if each happened at one
\* instant, in call order: no edit works on content another call is about to
\* replace, none reads a half-written file, aborts included (the comment in
\* edit.ts on keeping the queue locked until the operation has settled).
ImplementsAtomicFiles == Files!Spec

\* Every call gets its turn and its result or error, though the calls before
\* it may fail to register, be aborted while they wait or fail in the tool.
EveryMutationSettles == \A o \in Op : stage[o] = "registering" ~> stage[o] \in Settled

=============================================================================
