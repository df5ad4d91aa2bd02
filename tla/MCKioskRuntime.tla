-------------------------- MODULE MCKioskRuntime --------------------------
(***************************************************************************)
(* KioskRuntime for TLC: budgets of what the environment may do.           *)
(***************************************************************************)
EXTENDS KioskRuntime

CONSTANT Scenarios \* the names of those a run takes, one per behaviour

Nothing == [h \in Happening |-> 0]

Scenario ==
  [faults   |-> [Nothing EXCEPT !.failure = 1, !.bootstrap = 1, !.move = 1, !.powerLoss = 1],
   mixing   |-> [Nothing EXCEPT !.failure = 1, !.heartbeat = 1, !.resync = 1, !.reconnect = 1],
   delivery |-> [Nothing EXCEPT !.failure = 1, !.powerLoss = 1],
   resync   |-> [Nothing EXCEPT !.failure = 1, !.bootstrap = 1]]

MCBudgets == {Scenario[s] : s \in Scenarios}
=============================================================================
