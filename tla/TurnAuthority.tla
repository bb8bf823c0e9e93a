--------------------------- MODULE TurnAuthority ---------------------------
(***************************************************************************)
(* What the turn leases promise (the contract stated on                    *)
(* SessionTurnLeaseRegistry and in docs/maestro/DESIGN.md): a turn is      *)
(* authoritative on at most one session, a session has at most one         *)
(* authoritative turn, and authority changes hands only when its owner     *)
(* ends or moves it.  No map, queue, timer or alias is visible here.       *)
(***************************************************************************)
CONSTANTS Session, Token, None

VARIABLE turn     \* the session on which each turn is authoritative, or None

Free(s) == \A t \in Token : turn[t] # s

Init == turn = [t \in Token |-> None]

\* A turn starts on a session nobody is authoritative for.
Begin(t, s) ==
    /\ turn[t] = None
    /\ Free(s)
    /\ turn' = [turn EXCEPT ![t] = s]

\* A turn ends and nobody was waiting.
End(t) ==
    /\ turn[t] # None
    /\ turn' = [turn EXCEPT ![t] = None]

\* A turn ends and another begins in its place, in one step.
HandOver(t, u, s) ==
    /\ turn[t] # None
    /\ turn[u] = None
    /\ \A v \in Token : turn[v] = s => v = t
    /\ turn' = [turn EXCEPT ![t] = None, ![u] = s]

\* A turn moves to a session nobody is authoritative for.
Move(t, s) ==
    /\ turn[t] # None
    /\ Free(s)
    /\ turn' = [turn EXCEPT ![t] = s]

Next ==
    \/ \E t \in Token, s \in Session : Begin(t, s) \/ Move(t, s)
    \/ \E t \in Token : End(t)
    \/ \E t, u \in Token, s \in Session : HandOver(t, u, s)

Spec == Init /\ [][Next]_turn
=============================================================================
