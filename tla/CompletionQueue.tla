--------------------------- MODULE CompletionQueue ---------------------------
(***************************************************************************)
(* MaestroCompletionQueue (completion-queue.ts): the durable queue of      *)
(* child-session completions on their way to the parent.  The queue file   *)
(* holds at most one record per child, so it is a function from children   *)
(* to a record or None; each operator is one method, from the file's       *)
(* contents before to its contents after.  The position of a record in the *)
(* file decides only which records a full claim takes first, and is        *)
(* abstracted to a choice.                                                 *)
(***************************************************************************)
EXTENDS Integers, FiniteSets

CONSTANTS
    Child,         \* child instances
    Owner,         \* claim owners: one per parent instance
    Address,       \* parent addresses: instance ids and session ids
    MaxEntries,    \* options.maxEntries
    ClaimLimit,    \* the `limit` of one claim, 16 for the supervisor
    None

\* CompletionRecord.  `lapsed` is Date.parse(claimedAt) + claimLeaseMs <= now.
CompletionRecord ==
    [id : Nat, parent : Address, hash : Nat, state : {"pending", "claimed", "acknowledged"},
     owner : Owner \cup {None}, generation : Nat, lapsed : BOOLEAN]

ASSUME QueueAssumption ==
    /\ IsFiniteSet(Child)
    /\ MaxEntries \in Nat \ {0}
    /\ ClaimLimit \in Nat \ {0}
    /\ None \notin Child \cup Owner \cup Address \cup Nat
    /\ None \notin CompletionRecord

EmptyQueue == [c \in Child |-> None]

Entries(q) == {c \in Child : q[c] # None}
Acknowledged(q) == {c \in Entries(q) : q[c].state = "acknowledged"}

-----------------------------------------------------------------------------
\* Drop the records `gone`: the retention of cleanupAcknowledged, or the
\* eviction at capacity.
Without(q, gone) == [c \in Child |-> IF c \in gone THEN None ELSE q[c]]

\* `list`, `claim` and `enqueue` first drop acknowledged records that are
\* older than the retention.
CleanupAcknowledged(q, expired) == Without(q, expired \cap Acknowledged(q))

Conflicts(r, parent, hash) == r.hash # hash \/ r.parent # parent

AtCapacity(q) == Cardinality(Entries(q)) >= MaxEntries

\* Mutant: eviction at capacity that also drops undelivered completions.
MakeRoomDroppingAny(q) == IF AtCapacity(q) THEN Without(q, Entries(q)) ELSE q

\* Room is made by dropping every acknowledged record, and only then.
MakeRoom(q) == IF AtCapacity(q) THEN Without(q, Acknowledged(q)) ELSE q

\* enqueue throws on a conflicting record of the same child, and when the
\* queue is full of unacknowledged records.
EnqueueThrows(q, c, parent, hash) ==
    \/ q[c] # None /\ Conflicts(q[c], parent, hash)
    \/ q[c] = None /\ AtCapacity(MakeRoom(q))

\* The file after enqueue, whether it returned or threw.
Enqueue(q, c, parent, hash, id) ==
    IF q[c] # None THEN q
    ELSE IF AtCapacity(MakeRoom(q)) THEN MakeRoom(q)
    ELSE [MakeRoom(q) EXCEPT ![c] =
            [id |-> id, parent |-> parent, hash |-> hash, state |-> "pending",
             owner |-> None, generation |-> 0, lapsed |-> FALSE]]

-----------------------------------------------------------------------------
\* Mutant: a claim that ignores the lease of another owner.
ClaimableByAnyone(q, owner, addresses) ==
    {c \in Entries(q) : q[c].parent \in addresses /\ q[c].state # "acknowledged"}

\* Records a parent with these addresses may claim: not acknowledged, and not
\* under an unexpired claim of another owner.
Claimable(q, owner, addresses) ==
    {c \in Entries(q) :
        /\ q[c].parent \in addresses
        /\ q[c].state # "acknowledged"
        /\ ~(q[c].state = "claimed" /\ q[c].owner # owner /\ ~q[c].lapsed)}

\* The sets of records one claim may take: all of them, or ClaimLimit.
Claims(q, owner, addresses) ==
    LET all == Claimable(q, owner, addresses)
    IN  IF Cardinality(all) <= ClaimLimit THEN {all}
        ELSE {some \in SUBSET all : Cardinality(some) = ClaimLimit}

Claim(q, owner, taken) ==
    [c \in Child |->
        IF c \in taken
        THEN [q[c] EXCEPT !.state = "claimed", !.owner = owner,
                          !.generation = @ + 1, !.lapsed = FALSE]
        ELSE q[c]]

\* A claim receipt names the record by id, the owner and the generation.
ClaimReceipt(q, c) ==
    [child |-> c, id |-> q[c].id, owner |-> q[c].owner, generation |-> q[c].generation]

HoldsClaim(q, claim) ==
    \E r \in {q[claim.child]} \ {None} :
        /\ r.id = claim.id
        /\ r.owner = claim.owner
        /\ r.generation = claim.generation
        /\ r.state = "claimed"

Acknowledge(q, claim) ==
    IF HoldsClaim(q, claim)
    THEN [q EXCEPT ![claim.child].state = "acknowledged"]
    ELSE q

Release(q, claim) ==
    IF HoldsClaim(q, claim)
    THEN [q EXCEPT ![claim.child].state = "pending", ![claim.child].owner = None,
                   ![claim.child].lapsed = FALSE]
    ELSE q
=============================================================================
