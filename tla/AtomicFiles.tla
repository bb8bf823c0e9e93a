----------------------------- MODULE AtomicFiles -----------------------------
(***************************************************************************)
(* What the file mutation queue promises the edit and write tools: a       *)
(* mutation replaces the whole content of its file at one instant, an edit *)
(* starts from what the file holds at that instant, and the mutations of   *)
(* one file take effect in the order in which the tools were called.       *)
(***************************************************************************)
EXTENDS Integers

CONSTANTS Op, File    \* mutations are numbered in the order of their calls

VARIABLES
    phase,      \* where each mutation stands
    file,       \* the mutations whose text each file holds
    kind,       \* "edit" or "write"
    of          \* the file a mutation is for

avars == <<phase, file, kind, of>>

Init ==
    /\ phase = [o \in Op |-> "idle"]
    /\ file = [f \in File |-> {}]
    /\ kind \in [Op -> {"edit", "write"}]
    /\ of \in [Op -> File]

\* o was called before p and its effect is still to come.
Ahead(o, p) == o < p /\ of[o] = of[p] /\ phase[o] = "pending"

Start(o) ==
    /\ phase[o] = "idle"
    /\ \A p \in Op : p < o => phase[p] # "idle"
    /\ phase' = [phase EXCEPT ![o] = "pending"]
    /\ UNCHANGED <<file, kind, of>>

\* An aborted mutation may take effect and be reported as failed.  One whose
\* write fails half-way leaves nothing readable, and is reported as failed.
Apply(o) ==
    /\ phase[o] = "pending"
    /\ ~\E p \in Op : Ahead(p, o)
    /\ \/ /\ \E a \in {"applied", "failed"} : phase' = [phase EXCEPT ![o] = a]
          /\ file' = [file EXCEPT ![of[o]] = IF kind[o] = "edit" THEN @ \cup {o} ELSE {o}]
       \/ /\ phase' = [phase EXCEPT ![o] = "failed"]
          /\ file' = [file EXCEPT ![of[o]] = {}]
    /\ UNCHANGED <<kind, of>>

Answer(o) ==
    /\ \/ phase[o] = "pending" /\ phase' = [phase EXCEPT ![o] = "failed"]
       \/ phase[o] = "applied" /\ phase' = [phase EXCEPT ![o] = "ok"]
    /\ UNCHANGED <<file, kind, of>>

Next == \E o \in Op : Start(o) \/ Apply(o) \/ Answer(o)

Spec == Init /\ [][Next]_avars

=============================================================================
