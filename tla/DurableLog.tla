----------------------------- MODULE DurableLog -----------------------------
(***************************************************************************)
(* What the journal promises its caller (docs/RELIABILITY.md R1, R2, R5,   *)
(* R8, R9): a map from accepted events to their status that only a call    *)
(* changes.  A power loss changes nothing, and the only events that are    *)
(* ever forgotten are settled ones.                                        *)
(***************************************************************************)
CONSTANTS Event, Unsynced, Terminal

VARIABLE log  \* log[e]: the status of each event held

Held == DOMAIN log

TypeOK == Held \subseteq Event /\ \A e \in Held : log[e] \in Unsynced \cup Terminal

Init == log = [e \in {} |-> "PENDING"]

Accept(e) ==
  /\ e \notin Held
  /\ log' = [x \in Held \cup {e} |-> IF x = e THEN "PENDING" ELSE log[x]]

Update(e, s) ==
  /\ e \in Held
  /\ log' = [log EXCEPT ![e] = s]

Forget(S) ==
  /\ \A e \in S : log[e] \in Terminal
  /\ log' = [e \in Held \ S |-> log[e]]

Next ==
  \/ \E e \in Event : Accept(e)
  \/ \E e \in Event, s \in Unsynced \cup Terminal : Update(e, s)
  \/ \E S \in SUBSET Held : Forget(S)

Spec == Init /\ [][Next]_log
=============================================================================
