---------------------------- MODULE SessionFile ----------------------------
(***************************************************************************)
(* SessionManager (packages/coding-agent/src/core/session-manager.ts): a   *)
(* session is a tree of entries kept in memory and in a JSONL file to      *)
(* which entries are appended.  A write may fail after any part of it has  *)
(* reached the file, and the process may die at any time; a line cut short *)
(* runs into the line that is appended next.                               *)
(*                                                                         *)
(* Entries carry what the tree, labels, compaction and forks depend on.    *)
(* "message" stands for every message but an assistant's, "label" and      *)
(* "unlabel" for a label set and cleared, and these also for the other     *)
(* entries no model is shown.  An `old` entry is one of a version 1 file,  *)
(* which has neither id nor parent.                                        *)
(***************************************************************************)
EXTENDS Integers, Sequences, SequencesExt

CONSTANTS
    MaxEntries,     \* entries ever made, of which each failing write takes one
    MaxFiles,       \* session files
    MaxNew,         \* session files not made by a fork
    MaxFaults       \* failing writes

ASSUME SessionFileAssumption ==
    MaxEntries \in Nat \ {0, 1} /\ MaxFiles \in Nat /\ MaxNew \in 1..MaxFiles /\ MaxFaults \in Nat

VARIABLES
    up,                \* a SessionManager is open
    file,              \* sessionFile
    entries,           \* fileEntries without the header
    leaf,              \* leafId
    flushed,
    disk,              \* the session files
    made, files,       \* entries and file names handed out
    faults,            \* writes that failed
    broken,            \* files with a failed write nobody has made good since
    kept               \* what a broken file held before that write

memory == <<up, file, entries, leaf, flushed>>
ghosts == <<faults, broken, kept>>
sessionVars == <<memory, disk, made, files, ghosts>>

File == 1..MaxFiles
None == 0

\* Key of the index byId: `undefined` for an entry of a version 1 file.
Undefined == -1
Key(e) == IF e.old THEN Undefined ELSE e.id

Entry(id, kind, parent, ref) ==
    [id |-> id, kind |-> kind, parent |-> parent, ref |-> ref, old |-> FALSE]

Kinds == {"message", "assistant", "label", "unlabel", "compaction", "leaf"}
LabelKinds == {"label", "unlabel"}

\* The header carries the version of the file.
Header == Entry(None, "session", None, None)
OldHeader == [Header EXCEPT !.old = TRUE]

-----------------------------------------------------------------------------
(* The file: the lines a reader can parse, whether there are others, and    *)
(* whether the last line is whole.                                          *)

Absent == [exists |-> FALSE, lines |-> <<>>, malformed |-> FALSE, tail |-> "clean"]
Empty == [Absent EXCEPT !.exists = TRUE]

\* The lines without the last if that has no newline yet: what is written next
\* spoils it.
WholeLines(c) == IF c.tail = "open" THEN Front(c.lines) ELSE c.lines

\* A line written behind a clean end; or behind a fragment ("torn") or a line
\* without newline ("open"), with which it becomes one malformed line.
WriteLine(c, l) ==
    IF c.tail = "clean" THEN [c EXCEPT !.lines = Append(@, l)]
    ELSE [c EXCEPT !.tail = "clean", !.malformed = TRUE, !.lines = WholeLines(c)]

\* What a failing write of a line may leave.
CutLine(c, l) ==
    {c, [c EXCEPT !.tail = "torn", !.lines = WholeLines(c)]} \cup
    {d \in {[c EXCEPT !.tail = "open", !.lines = Append(@, l)]} : c.tail = "clean"}

\* Behind the first line the end is clean.
WriteLines(c, ls) ==
    IF ls = <<>> THEN c ELSE [WriteLine(c, Head(ls)) EXCEPT !.lines = @ \o Tail(ls)]

CutShort(c, ls) == UNION {CutLine(WriteLines(c, SubSeq(ls, 1, i - 1)), ls[i]) : i \in 1..Len(ls)}

\* loadEntriesFromFile, which skips malformed lines: without a header first the
\* file is no session.
Load(c) == IF c.lines # <<>> /\ Head(c.lines).kind = "session" THEN c.lines ELSE <<>>

IsSession(c) == Load(c) # <<>>

\* A header is only ever written first.
EntriesOf(c) == IF IsSession(c) THEN Tail(Load(c)) ELSE <<>>

-----------------------------------------------------------------------------
(* The tree. *)

Keys(es) == {Key(es[i]) : i \in DOMAIN es}

\* byId: a later entry replaces an earlier one of the same key.
ById(es) == [k \in Keys(es) |-> SelectLastInSeq(es, LAMBDA e : Key(e) = k)]

\* getBranch: from the root to an entry, as far as parents are found; and the
\* entries of some kinds on it.
BranchOf(es, k, kinds) ==
    LET at == ById(es)
        path[x \in Keys(es)] ==
            LET e == es[at[x]]
                before == IF e.parent \in Keys(es) THEN path[e.parent] ELSE <<>>
            IN  IF e.kind \in kinds THEN Append(before, e) ELSE before
    IN  IF k \in Keys(es) THEN path[k] ELSE <<>>

Branch(es, k) == BranchOf(es, k, Kinds)

IsLabel(e) == e.kind \in LabelKinds

\* The entries of labelsById: the last change of a label counts.
Labels(es) ==
    {es[i].ref : i \in {j \in DOMAIN es :
        /\ es[j].kind = "label"
        /\ \A l \in DOMAIN es : l > j /\ IsLabel(es[l]) => es[l].ref # es[j].ref}}

LeafAfter(e) == IF e.kind = "leaf" THEN e.ref ELSE Key(e)

\* _buildIndex: the leaf after the last entry.
IndexedLeaf(es) == IF es = <<>> THEN None ELSE LeafAfter(Last(es))

\* buildSessionPath, which takes the last entry if it does not find the leaf.
SessionPath(es, k) ==
    IF k = None \/ k \in Keys(es) \/ es = <<>> THEN Branch(es, k) ELSE Branch(es, Key(Last(es)))

\* buildContextEntries: the last compaction on the path stands for everything
\* before the entry it keeps first.
ContextEntries(es, k) ==
    LET path == SessionPath(es, k)
        c == SelectLastInSeq(path, LAMBDA e : e.kind = "compaction")
        first == IF c = 0 THEN 0 ELSE SelectInSeq(path, LAMBDA e : Key(e) = path[c].ref)
        before == IF first = 0 \/ first > c THEN <<>> ELSE SubSeq(path, first, c - 1)
    IN  IF c = 0 THEN path ELSE <<path[c]>> \o before \o SubSeq(path, c + 1, Len(path))

\* sessionEntryToContextMessages is not empty.
Visible(e) == e.kind \in {"message", "assistant", "compaction"}

IdsOf(es) == [i \in DOMAIN es |-> es[i].id]

\* The messages a model is shown for the branch that ends in k.
Context(es, k) == IdsOf(SelectSeq(ContextEntries(es, k), Visible))

\* findCutPoint: a visible entry, moved back over the metadata before it.
FirstKept(path) ==
    LET c == SelectLastInSeq(path, LAMBDA e : e.kind = "compaction")
        prior == IF c = 0 THEN 0 ELSE SelectInSeq(path, LAMBDA e : Key(e) = path[c].ref)
        start == IF c = 0 THEN 1 ELSE IF prior # 0 THEN prior ELSE c + 1
        cuts == {i \in start..Len(path) : Visible(path[i]) /\ path[i].kind # "compaction"}
        \* only metadata from j up to a cut, and no more of it before j
        first(j) == /\ \E i \in cuts : j \in start..i /\ \A l \in j..i-1 : ~Visible(path[l])
                    /\ j = start \/ Visible(path[j - 1])
    IN  {j \in DOMAIN path : IF cuts = {} THEN j = start ELSE first(j)}

HasAssistant(es) == \E i \in DOMAIN es : es[i].kind = "assistant"

-----------------------------------------------------------------------------
(* Writes. *)

\* The lines ls follow what c holds; the file is then whole again if it was
\* (re)written from its header on.
Written(f, c, ls, whole) ==
    /\ disk' = [disk EXCEPT ![f] = WriteLines(c, ls)]
    /\ broken' = IF whole THEN broken \ {f} ELSE broken
    /\ kept' = IF whole THEN [kept EXCEPT ![f] = <<>>] ELSE kept
    /\ UNCHANGED faults

\* The write throws, with the file as it was (it could not be opened) or cut
\* short.  A truncated file keeps nothing.  The bound leaves room for an entry.
WriteFails(f, c, ls, truncates) ==
    /\ faults < MaxFaults /\ made + faults + 1 < MaxEntries
    /\ faults' = faults + 1
    /\ \E d \in {disk[f]} \cup CutShort(c, ls) : disk' = [disk EXCEPT ![f] = d]
    /\ broken' = broken \cup {f}
    /\ kept' = [kept EXCEPT ![f] = IF truncates THEN <<>>
                                   ELSE IF f \in broken THEN @ ELSE EntriesOf(disk[f])]

\* The lines of a file written in full: header and entries.
Created(es) == <<Header>> \o es

\* _persist: nothing until the first assistant message, unless flushed; then
\* the whole session into a file that must not exist; then line by line.
Persist(es) ==
    \/ /\ ~flushed /\ ~HasAssistant(es)
       /\ UNCHANGED <<flushed, disk, ghosts>>
    \/ /\ flushed
       /\ \/ Written(file, disk[file], <<Last(es)>>, FALSE)
          \/ WriteFails(file, disk[file], <<Last(es)>>, FALSE)
       /\ UNCHANGED flushed
    \/ /\ ~flushed /\ HasAssistant(es) /\ ~disk[file].exists
       /\ \/ Written(file, Empty, Created(es), TRUE) /\ flushed' = TRUE
          \/ WriteFails(file, Empty, Created(es), TRUE) /\ UNCHANGED flushed
    \/ /\ ~flushed /\ HasAssistant(es) /\ disk[file].exists
       /\ UNCHANGED <<flushed, disk, ghosts>>

\* _appendEntry: the entry is in memory even if writing it throws.
AppendEntry(e) ==
    /\ entries' = Append(entries, e)
    /\ leaf' = LeafAfter(e)
    /\ Persist(Append(entries, e))
    /\ made' = e.id
    /\ UNCHANGED <<up, file, files>>

CanAppend == up /\ made + faults < MaxEntries

-----------------------------------------------------------------------------
(* Operations on an open session. *)

OldFile == [Empty EXCEPT !.lines = <<OldHeader, [Entry(1, "message", None, None) EXCEPT !.old = TRUE],
                                       [Entry(2, "assistant", None, None) EXCEPT !.old = TRUE]>>]

\* No process runs; there may be a session file of version 1.
SessionInit ==
    /\ up = FALSE /\ file = None /\ entries = <<>> /\ leaf = None /\ flushed = FALSE
    /\ \/ disk = [f \in File |-> Absent] /\ made = 0 /\ files = 0
       \/ disk = [f \in File |-> IF f = 1 THEN OldFile ELSE Absent] /\ made = 2 /\ files = 1
    /\ faults = 0 /\ broken = {} /\ kept = [f \in File |-> <<>>]

\* parentId of a new entry; an undefined one is not found again.
ParentId == IF leaf = Undefined THEN None ELSE leaf

\* appendMessage and the other entries that only follow the leaf.
AppendEntryOf(kind) == CanAppend /\ AppendEntry(Entry(made + 1, kind, ParentId, None))

\* appendLabelChange.
AppendLabelChange(kind, target) ==
    /\ CanAppend
    /\ target \in Keys(entries)
    /\ AppendEntry(Entry(made + 1, kind, ParentId, target))

\* compact: prepareCompaction refuses a path that ends in a compaction.
AppendCompaction ==
    LET path == Branch(entries, leaf)
    IN  /\ CanAppend /\ leaf # Undefined
        /\ path # <<>> /\ Last(path).kind # "compaction"
        /\ \E i \in FirstKept(path) :
               AppendEntry(Entry(made + 1, "compaction", leaf, Key(path[i])))

\* retry, by RecodeSessionStorage.setLeafId: the leaf goes back behind the failed
\* answer, the last message of the branch.
SetLeafId ==
    LET path == Branch(entries, leaf)
        latest == SelectLastInSeq(path, LAMBDA e : e.kind \in {"message", "assistant"})
    IN  /\ CanAppend /\ leaf # Undefined
        /\ latest # 0 /\ path[latest].kind = "assistant"
        /\ path[latest].parent \in Keys(entries) \cup {None}
        /\ AppendEntry(Entry(made + 1, "leaf", leaf, path[latest].parent))

\* branch and resetLeaf: navigation that is not written.
MoveLeaf(to) ==
    /\ up
    /\ to \in Keys(entries) \cup {None}
    /\ leaf' = to
    /\ UNCHANGED <<up, file, entries, flushed, disk, made, files, ghosts>>

\* branchWithSummary.
BranchWithSummary(from) ==
    /\ CanAppend
    /\ from \in Keys(entries) \cup {None}
    /\ AppendEntry(Entry(made + 1, "message", from, None))

\* flush: write the session now if it is not on disk.
Flush ==
    /\ up /\ ~flushed
    /\ \/ Written(file, Empty, Created(entries), TRUE) /\ flushed' = TRUE
       \/ WriteFails(file, Empty, Created(entries), TRUE) /\ UNCHANGED flushed
    /\ UNCHANGED <<up, file, entries, leaf, made, files>>

-----------------------------------------------------------------------------
(* Opening, forking and losing a session. *)

\* Mutant: a session read from its file does not count as written.
ManagerUnflushed(f, es, isFlushed) ==
    /\ up' = TRUE /\ file' = f /\ entries' = es /\ leaf' = IndexedLeaf(es)
    /\ flushed' = FALSE

\* The SessionManager of file f with the entries es.
Manager(f, es, isFlushed) ==
    /\ up' = TRUE /\ file' = f /\ entries' = es /\ leaf' = IndexedLeaf(es)
    /\ flushed' = isFlushed

\* create and newSession.
NewSession ==
    /\ files < MaxNew
    /\ files' = files + 1
    /\ Manager(files + 1, <<>>, FALSE)
    /\ UNCHANGED <<disk, made, ghosts>>

\* migrateToCurrentVersion: ids, and each entry the child of the one before.
Migrate(es) ==
    [i \in DOMAIN es |-> [es[i] EXCEPT !.old = FALSE,
                                      !.parent = IF i = 1 THEN None ELSE es[i - 1].id]]

IsOld(c) == IsSession(c) /\ Head(Load(c)).old

\* A file of size zero, which is initialised with a header.
IsBlank(c) == c.exists /\ c.lines = <<>> /\ ~c.malformed /\ c.tail = "clean"

\* setSessionFile of a file that is absent, blank, of an old version, or a
\* session.  A file that is none of these is refused.  A session read from a
\* file that ends in a whole line is again what the file holds.
SetSessionFile(f) ==
    LET c == disk[f]
        es == EntriesOf(c)
    IN  /\ \/ ~c.exists /\ Manager(f, <<>>, FALSE) /\ UNCHANGED <<disk, ghosts>>
           \/ /\ IsBlank(c)
              /\ \/ Manager(f, <<>>, TRUE) /\ Written(f, Empty, <<Header>>, TRUE)
                 \/ UNCHANGED memory /\ WriteFails(f, Empty, <<Header>>, TRUE)
           \/ /\ IsOld(c)
              /\ \/ Manager(f, Migrate(es), TRUE) /\ Written(f, Empty, Created(Migrate(es)), TRUE)
                 \/ UNCHANGED memory /\ WriteFails(f, Empty, Created(Migrate(es)), TRUE)
           \/ /\ IsSession(c) /\ ~IsOld(c)
              /\ Manager(f, es, TRUE)
              /\ broken' = IF c.tail = "clean" THEN broken \ {f} ELSE broken
              /\ kept' = IF c.tail = "clean" THEN [kept EXCEPT ![f] = <<>>] ELSE kept
              /\ UNCHANGED <<disk, faults>>
        /\ UNCHANGED <<made, files>>

\* SessionManager.open, at the start or to switch or reload a session.
OpenSession(f) == f <= files /\ SetSessionFile(f)

\* Mutant: the entries behind a label keep it as their parent.
RechainedNot(path) == path

\* Each entry is made the child of the one before.
Rechained(path) ==
    [i \in DOMAIN path |-> [path[i] EXCEPT !.parent = IF i = 1 THEN None ELSE path[i - 1].id]]

\* Mutant: the first label added again has no parent.
RecreatedLabelsAtRoot(es, targets) ==
    LET ts == SetToSeq(targets)
    IN  [i \in DOMAIN ts |-> Entry(made + i, "label", IF i > 1 THEN made + i - 1 ELSE None, ts[i])]

\* The labels of the path, added again behind it.
RecreatedLabels(es, targets) ==
    LET ts == SetToSeq(targets)
    IN  [i \in DOMAIN ts |->
            Entry(made + i, "label",
                  IF i > 1 THEN made + i - 1 ELSE IF es = <<>> THEN None ELSE Last(es).id,
                  ts[i])]

\* createBranchedSession in a new file, for the path that ends in k without its
\* labels.
CreateBranchedSession(es, k) ==
    LET path == Rechained(BranchOf(es, k, Kinds \ LabelKinds))
        labels == RecreatedLabels(path, Labels(es) \cap Keys(path))
        new == path \o labels
    IN  /\ files < MaxFiles /\ made + faults + Len(labels) <= MaxEntries
        /\ files' = files + 1
        /\ made' = made + Len(labels)
        /\ IF HasAssistant(new)
           THEN \/ Written(files + 1, Empty, Created(new), TRUE) /\ Manager(files + 1, new, TRUE)
                \/ WriteFails(files + 1, Empty, Created(new), TRUE) /\ UNCHANGED memory
           ELSE Manager(files + 1, new, FALSE) /\ UNCHANGED <<disk, ghosts>>

\* Where fork and clone may cut: at the leaf, or before a user message.
ForkPoints == ({leaf} \cup {entries[i].parent : i \in {j \in DOMAIN entries :
                                                        entries[j].kind = "message"}}) \ {None}

\* fork: a manager of its own reads the file again and makes the branch.  It
\* fails if the file does not hold the entry.
Fork(k) ==
    /\ up /\ k \in ForkPoints
    /\ k \in Keys(EntriesOf(disk[file]))
    /\ CreateBranchedSession(EntriesOf(disk[file]), k)

\* The same for a file that was created and left empty: the manager that reads
\* it writes a header, and then fails.
ForkOfBlank ==
    /\ up /\ ForkPoints # {}
    /\ IsBlank(disk[file])
    /\ Written(file, Empty, <<Header>>, FALSE)
    /\ UNCHANGED <<memory, made, files>>

\* forkFrom, at the start of a process: header and entries go to a new file,
\* which is then opened.
ForkFrom(f) ==
    LET es == EntriesOf(disk[f])
    IN  /\ ~up /\ f <= files /\ files < MaxFiles
        /\ IsSession(disk[f])
        /\ files' = files + 1
        /\ \/ Written(files + 1, Empty, Created(es), TRUE) /\ Manager(files + 1, es, TRUE)
           \/ WriteFails(files + 1, Empty, Created(es), TRUE) /\ UNCHANGED memory
        /\ UNCHANGED made

\* The process ends or dies; a write under way is one that failed before.
Exit ==
    /\ up
    /\ up' = FALSE /\ file' = None /\ entries' = <<>> /\ leaf' = None /\ flushed' = FALSE
    /\ UNCHANGED <<disk, made, files, ghosts>>

SessionNext ==
    \/ \E kind \in {"message", "assistant"} : AppendEntryOf(kind)
    \/ \E kind \in {"label", "unlabel"}, t \in 1..MaxEntries : AppendLabelChange(kind, t)
    \/ AppendCompaction
    \/ SetLeafId
    \/ \E to \in 0..MaxEntries : MoveLeaf(to) \/ BranchWithSummary(to) \/ Fork(to)
    \/ ForkOfBlank
    \/ Flush
    \/ NewSession
    \/ \E f \in File : OpenSession(f) \/ ForkFrom(f)
    \/ Exit

SessionSpec == SessionInit /\ [][SessionNext]_sessionVars

-----------------------------------------------------------------------------
(* Properties. *)

\* What a session shows is in its file: once the session has an answer, or was
\* flushed, the file read back gives the entries of the memory, whatever forks,
\* restarts and failures came before.  A failed write (_persist) harms only what
\* comes after it: all that the file held before stays readable, until the
\* session is read again from a file that ends in a whole line.
HistoryKept ==
    /\ \A f \in broken : IsPrefix(kept[f], EntriesOf(disk[f]))
    /\ up /\ file \notin broken /\ (flushed \/ HasAssistant(entries))
           => EntriesOf(disk[file]) = entries

\* While no write has failed, the entries of an open session form a tree in which
\* each comes after its parent, and the leaf is one of them, after any sequence of
\* branching, retries, forks and reopenings.  Excused are version 1 entries, which
\* forkFrom copies without migrating them, and forks of a path to a leaf entry
\* whose target was a label that createBranchedSession took out.
TreeClosed ==
    /\ up /\ faults = 0 /\ Undefined \notin Keys(entries)
    /\ \A i \in DOMAIN entries :
          entries[i].kind = "leaf" => entries[i].ref \in Keys(entries) \cup {None}
    =>
        /\ leaf \in Keys(entries) \cup {None}
        /\ \A i \in DOMAIN entries :
              entries[i].parent \in {None} \cup Keys(SubSeq(entries, 1, i - 1))

NotLabel(e) == ~IsLabel(e)

\* The compaction in force on the path to k keeps entries from a label on.
KeptFromLabel(es, k) ==
    LET path == SessionPath(es, k)
        c == SelectLastInSeq(path, LAMBDA e : e.kind = "compaction")
    IN  c # 0 /\ \E i \in DOMAIN path : Key(path[i]) = path[c].ref /\ IsLabel(path[i])

EndsInLeafEntry(path) == path # <<>> /\ Last(path).kind = "leaf"

\* The fork at k, if it succeeds, holds the path to k without its labels, which it
\* has again at its end.
KeepsPath(es, k) ==
    LET path == SelectSeq(Branch(es, k), NotLabel)
    IN  /\ IdsOf(SelectSeq(Branch(entries', leaf'), NotLabel)) = IdsOf(path)
        /\ Labels(entries') = Labels(es) \cap Keys(path)

\* A step that opens a session in a new file.
Forked == files' > files /\ file' = files'

SameContext(es, k) == Context(entries', leaf') = Context(es, k)

\* createBranchedSession, with the labels taken out and put back, gives a session
\* with the same path, the same labels and the same context for the model.  Excused
\* are a fork that ends in a leaf entry, which positions it, and the context where
\* the compaction in force keeps entries from a label on: the fork, which takes the
\* label out, loses the entries kept.
ForkKeepsConversation ==
    [][Forked => \A k \in ForkPoints :
          LET es == EntriesOf(disk[file])
          IN  Fork(k) /\ ~EndsInLeafEntry(SelectSeq(Branch(es, k), NotLabel)) =>
                  /\ KeepsPath(es, k)
                  /\ KeptFromLabel(es, k) \/ SameContext(es, k)]_sessionVars

=============================================================================
