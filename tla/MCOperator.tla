----------------------------- MODULE MCOperator -----------------------------
(***************************************************************************)
(* For TLC: the operator's entry beside the server's state (QuantityEntry) *)
(* and what the display shows of it (Screens), checked in one run.  The    *)
(* initial state says which of the two moves; the other stays as it is.    *)
(***************************************************************************)
EXTENDS QuantityEntry, Screens

VARIABLE part

OperatorInit ==
  /\ part \in {"entry", "screens"}
  /\ Init
  /\ IF part = "screens" THEN ScreensInit ELSE ui = Fresh(FALSE, "ACTIVE", 0)

OperatorNext ==
  \/ part = "entry" /\ Next /\ UNCHANGED <<part, ui>>
  \/ part = "screens" /\ ScreensNext /\ UNCHANGED <<part, vars>>

OperatorSpec == OperatorInit /\ [][OperatorNext]_<<part, ui, vars>>

(* The type invariants of both.                                              *)
OperatorTypeOK == TypeOK /\ ScreensTypeOK
=============================================================================
