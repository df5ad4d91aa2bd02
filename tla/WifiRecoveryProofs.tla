------------------------- MODULE WifiRecoveryProofs -------------------------
(***************************************************************************)
(* Proofs about the two users of WifiLink: WifiRecovery, for every set of  *)
(* networks and of keys, however long '*' must be held and whatever        *)
(* happens to the link; and Bootstrap, for any number of attempts.         *)
(***************************************************************************)
EXTENDS WifiRecovery, Bootstrap, TLAPS

-----------------------------------------------------------------------------
(* Who acts on a key.                                                        *)

(* The menu and the information screen exclude one another and the portal,   *)
(* and the overlay is marked active under both.  That '*' is not held on the *)
(* information screen keeps tick() from opening the portal over it.          *)
MenuHasOverlay == menu => overlay /\ ~info /\ portal = "INACTIVE"
InfoHasOverlay == info => overlay /\ ~held /\ portal = "INACTIVE"
OverlayInv == MenuHasOverlay /\ InfoHasOverlay /\ OneKeyOneAction

(* At boot neither is up.                                                    *)
LEMMA OverlayInvInit == WifiRecoveryInit => OverlayInv
BY DEF WifiRecoveryInit, OverlayInv, MenuHasOverlay, InfoHasOverlay, OneKeyOneAction

(* A reboot leaves neither up, either.                                       *)
LEMMA RestartOverlay == ASSUME NEW n, Restart(n) PROVE OverlayInv'
BY DEF Restart, OverlayInv, MenuHasOverlay, InfoHasOverlay, OneKeyOneAction

(* What the controller does on KEY_DOWN keeps the overlays apart.            *)
LEMMA OnKeyDownOverlay ==
  ASSUME OverlayInv, NEW k, OnKeyDown(k)
  PROVE  MenuHasOverlay' /\ InfoHasOverlay'
<1> USE DEF OverlayInv, MenuHasOverlay, InfoHasOverlay, hold, flows
<1>1. CASE ControllerIgnores
  BY <1>1 DEF ControllerIgnores
<1>2. CASE portal = "INACTIVE" /\ info /\ InfoToMenu
  BY <1>2 DEF InfoToMenu
<1>3. CASE portal = "INACTIVE" /\ ~info /\ menu /\ Select(k)
  <2>1. CASE SelectRetry
    BY <1>3, <2>1 DEF SelectRetry, BackToState
  <2>2. CASE SelectReturn
    BY <1>3, <2>2 DEF SelectReturn, BackToState
  <2>3. CASE SelectSetup
    BY <1>3, <2>3 DEF SelectSetup
  <2>4. CASE SelectInfo
    BY <1>3, <2>4 DEF SelectInfo, Select
  <2>. QED  BY <1>3, <2>1, <2>2, <2>3, <2>4 DEF Select
<1>4. CASE portal = "INACTIVE" /\ ~info /\ StarDown
  BY <1>4 DEF StarDown
<1>. QED  BY <1>1, <1>2, <1>3, <1>4 DEF OnKeyDown

(* KioskRuntime and the controller do not both act on it.                    *)
LEMMA KeyDownOverlay == ASSUME OverlayInv, NEW k, KeyDown(k) PROVE OverlayInv'
<1>1. MenuHasOverlay' /\ InfoHasOverlay'
  BY OnKeyDownOverlay DEF KeyDown
<1>2. OneKeyOneAction'
  <2>1. ~(BusinessTakes(k) /\ RecoveryTakes(k))
    BY DEF BusinessTakes, RecoveryTakes, OverlayInv, MenuHasOverlay, InfoHasOverlay
  <2>2. "business" \in acted' => BusinessTakes(k)
    BY DEF KeyDown
  <2>3. "recovery" \in acted' => RecoveryTakes(k)
    BY DEF KeyDown
  <2>. QED  BY <2>1, <2>2, <2>3 DEF OneKeyOneAction
<1>. QED  BY <1>1, <1>2 DEF OverlayInv

(* tick() opens one of them only while none is up.                           *)
LEMMA TickOverlay == ASSUME OverlayInv, Tick PROVE OverlayInv'
<1> PICK d \in 0..SetupHold :
      TickInMenu(d) \/ TickOpensPortal(d) \/ TickOpensMenu(d) \/ TickWaits(d)
  BY DEF Tick
<1> USE DEF OverlayInv, MenuHasOverlay, InfoHasOverlay, OneKeyOneAction, TickHold
<1>1. CASE TickInMenu(d)
  BY <1>1 DEF TickInMenu
<1>2. CASE TickOpensPortal(d)
  BY <1>2 DEF TickOpensPortal
<1>3. CASE TickOpensMenu(d)
  BY <1>3 DEF TickOpensMenu
<1>4. CASE TickWaits(d)
  BY <1>4 DEF TickWaits
<1>. QED  BY <1>1, <1>2, <1>3, <1>4

(* Steps that leave the keys, the overlays and the portal alone.             *)
LEMMA KeepsOverlay ==
  ASSUME OverlayInv, UNCHANGED <<held, menu, info, overlay, portal, acted>>
  PROVE  OverlayInv'
BY DEF OverlayInv, MenuHasOverlay, InfoHasOverlay, OneKeyOneAction

(* Every step: the keys, the passes of the loop and the portal.              *)
LEMMA OverlayInvStep == OverlayInv /\ [WifiRecoveryNext]_recoveryVars => OverlayInv'
<1> SUFFICES ASSUME OverlayInv, [WifiRecoveryNext]_recoveryVars PROVE OverlayInv'
  OBVIOUS
<1>1. CASE PowerCycles
  BY <1>1, RestartOverlay DEF PowerCycles
<1>2. CASE LoopPollsWifi \/ LoopForcesReconnect \/ RadioJoins \/ RetryIsDue \/ AroundTheLink
  BY <1>2, KeepsOverlay
     DEF LoopPollsWifi, LoopForcesReconnect, RadioJoins, RetryIsDue, AroundTheLink,
         FlowsUntouched, hold, flows
<1>3. ASSUME NEW k \in Digits \cup {Star}, KeyDown(k) PROVE OverlayInv'
  BY <1>3, KeyDownOverlay
<1>4. ASSUME NEW k \in Digits \cup {Star}, KeyReboots(k) PROVE OverlayInv'
  BY <1>4, RestartOverlay DEF KeyReboots
<1>5. CASE KeyUp
  BY <1>5 DEF KeyUp, OverlayInv, MenuHasOverlay, InfoHasOverlay, OneKeyOneAction, hold, flows
<1>6. CASE Tick
  BY <1>6, TickOverlay
<1>7. CASE TestSucceeds
  BY <1>7 DEF TestSucceeds, PortalKeeps, OverlayInv, MenuHasOverlay, InfoHasOverlay,
              OneKeyOneAction
<1>12. CASE PutPassword
  BY <1>12, RestartOverlay DEF PutPassword
<1>8. ASSUME NEW n \in Net, Save(n) PROVE OverlayInv'
  BY <1>8 DEF Save, PortalKeeps, OverlayInv, MenuHasOverlay, InfoHasOverlay, OneKeyOneAction
<1>9. CASE TestFails
  BY <1>9 DEF TestFails, PortalKeeps, OverlayInv, MenuHasOverlay, InfoHasOverlay, OneKeyOneAction
<1>10. CASE Cancel \/ IdleStop
  BY <1>10 DEF Cancel, IdleStop, PortalStop, OverlayInv, MenuHasOverlay, InfoHasOverlay,
               OneKeyOneAction, hold
<1>11. CASE UNCHANGED recoveryVars
  BY <1>11, KeepsOverlay DEF recoveryVars, hold, flows
<1>. QED  BY <1>1, <1>2, <1>3, <1>4, <1>5, <1>6, <1>7, <1>8, <1>9, <1>10, <1>11, <1>12
          DEF WifiRecoveryNext

(* A key aimed at the menu or the information screen is not business input   *)
(* as well, though KioskRuntime and the controller both hear it.             *)
THEOREM KeysActOnce == WifiRecoverySpec => []OneKeyOneAction
<1>1. OverlayInv => OneKeyOneAction
  BY DEF OverlayInv
<1>. QED  BY <1>1, OverlayInvInit, OverlayInvStep, PTL DEF WifiRecoverySpec

-----------------------------------------------------------------------------
(* What is stored.                                                           *)

(* While a network is tested the radio joins, or is on, that one or none.    *)
RadioTests == joining \in {cand, NoNet} /\ assoc \in {cand, NoNet}

(* Between the two puts the name stored is that of the network just tested,  *)
(* and otherwise the password goes with the name; unless a put is missing.   *)
StoreInv ==
  /\ creds = [name |-> creds.name, pass |-> creds.pass]
  /\ torn \/ creds.name = IF portal = "STORING" THEN cand ELSE creds.pass
TestInv ==
  /\ air \subseteq Net
  /\ portal = "TESTING" => RadioTests
  /\ StoreInv

(* At boot nothing is tested.                                                *)
LEMMA TestInvInit == WifiRecoveryInit => TestInv
BY DEF WifiRecoveryInit, LinkInit, PortalAtBoot, TestInv, StoreInv, Pair

(* After a reboot nothing is tested.                                         *)
LEMMA RestartTests ==
  ASSUME TestInv, NEW c, Restart(c), air' = air, c = [name |-> c.name, pass |-> c.pass],
         torn' \/ c.name = c.pass
  PROVE  TestInv'
BY DEF Restart, LinkBegin, PortalAtBoot, TestInv, StoreInv

(* A reboot in which nothing was being stored.                               *)
LEMMA RebootTests ==
  ASSUME TestInv, Restart(creds), air' = air, torn => torn', portal = "STORING" => torn'
  PROVE  TestInv'
<1>1. torn' \/ creds.name = creds.pass
  BY DEF TestInv, StoreInv
<1>. QED  BY <1>1, RestartTests DEF TestInv, StoreInv

(* The radio by itself, and a reconnection that loop() forces.               *)
LEMMA LinkTests ==
  ASSUME TestInv, UNCHANGED <<portal, cand>>, Joins \/ AirChanges \/ ForceReconnect
  PROVE  TestInv'
<1>1. CASE Joins
  BY <1>1, LinkAssumption DEF Joins, TestInv, RadioTests, StoreInv, wifiNvs
<1>2. CASE AirChanges
  <2>1. air' \subseteq Net
    BY <1>2 DEF AirChanges, TestInv
  <2>2. PICK n \in Net : IF assoc = n THEN assoc' = NoNet /\ joining' \in {n, NoNet}
                                      ELSE UNCHANGED radio
    BY <1>2 DEF AirChanges
  <2>3. portal = "TESTING" => RadioTests'
    BY <2>2, LinkAssumption DEF TestInv, RadioTests, radio
  <2>. QED  BY <1>2, <2>1, <2>3 DEF AirChanges, TestInv, StoreInv, wifiNvs
<1>3. CASE ForceReconnect
  BY <1>3 DEF ForceReconnect, RadioOff, TestInv, RadioTests, StoreInv, wifiNvs
<1>. QED  BY <1>1, <1>2, <1>3

(* A step that leaves the link alone and starts no test.                     *)
LEMMA KeepsTests ==
  ASSUME TestInv, UNCHANGED <<air, radio, cand, wifiNvs>>,
         portal' = "TESTING" => portal = "TESTING",
         portal' = "STORING" <=> portal = "STORING"
  PROVE  TestInv'
BY DEF TestInv, RadioTests, StoreInv, radio, wifiNvs

(* Keys start no test.                                                       *)
LEMMA KeyTests == ASSUME TestInv, NEW k, KeyDown(k) PROVE TestInv'
<1> USE DEF LinkUntouched, linkVars, flows
<1>1. CASE ControllerIgnores
  BY <1>1, KeepsTests DEF ControllerIgnores
<1>2. CASE InfoToMenu
  BY <1>2, KeepsTests DEF InfoToMenu
<1>3. CASE Select(k)
  <2>1. CASE SelectRetry
    BY <2>1, KeepsTests DEF SelectRetry, BackToState
  <2>2. CASE SelectReturn
    BY <2>2, KeepsTests DEF SelectReturn, BackToState
  <2>3. CASE SelectSetup
    BY <2>3, KeepsTests DEF SelectSetup, KeyDown, LoopRuns
  <2>4. CASE SelectInfo
    BY <2>4, KeepsTests DEF SelectInfo
  <2>. QED  BY <1>3, <2>1, <2>2, <2>3, <2>4 DEF Select
<1>4. CASE StarDown
  BY <1>4, KeepsTests DEF StarDown
<1>. QED  BY <1>1, <1>2, <1>3, <1>4 DEF KeyDown, OnKeyDown

(* Neither does the held star.                                               *)
LEMMA TickTests == ASSUME TestInv, Tick PROVE TestInv'
<1> PICK d \in 0..SetupHold :
      TickInMenu(d) \/ TickOpensPortal(d) \/ TickOpensMenu(d) \/ TickWaits(d)
  BY DEF Tick
<1>1. UNCHANGED <<air, radio, cand, wifiNvs>>
  BY DEF TickInMenu, TickOpensPortal, TickOpensMenu, TickWaits, TickHold, LinkUntouched, linkVars
<1>2. (portal' = "TESTING" => portal = "TESTING") /\ (portal' = "STORING" <=> portal = "STORING")
  BY DEF TickInMenu, TickOpensPortal, TickOpensMenu, TickWaits, TickHold
<1>. QED  BY <1>1, <1>2, KeepsTests

(* What the portal does: only a save starts a test, of what it gives the     *)
(* radio to join.                                                            *)
LEMMA PortalTests ==
  ASSUME TestInv, (\E n \in Net : Save(n)) \/ TestSucceeds \/ PutPassword \/ TestFails \/ Cancel
                  \/ IdleStop
  PROVE  TestInv'
<1>1. ASSUME NEW n \in Net, Save(n) PROVE TestInv'
  BY <1>1 DEF Save, LoopRuns, RadioBegin, TestInv, RadioTests, StoreInv, wifiNvs
<1>2. CASE TestSucceeds
  BY <1>2 DEF TestSucceeds, TestInv, StoreInv
<1>3. CASE TestFails
  BY <1>3 DEF TestFails, TestInv, StoreInv, wifiNvs
<1>4. CASE Cancel \/ IdleStop
  BY <1>4, KeepsTests DEF Cancel, IdleStop, LoopRuns, PortalStop, LinkUntouched, linkVars
<1>5. CASE PutPassword
  <2>1. CASE Restart([creds EXCEPT !.pass = cand]) /\ torn' = torn
    <3>1. torn \/ creds.name = cand
      BY <1>5 DEF PutPassword, TestInv, StoreInv
    <3>2. [creds EXCEPT !.pass = cand] = [name |-> creds.name, pass |-> cand]
      BY DEF TestInv, StoreInv
    <3>. QED  BY <1>5, <2>1, <3>1, <3>2, RestartTests DEF PutPassword
  <2>2. CASE Restart(creds) /\ torn' = TRUE
    BY <1>5, <2>2, RestartTests DEF PutPassword, TestInv, StoreInv
  <2>. QED  BY <1>5, <2>1, <2>2 DEF PutPassword
<1>. QED  BY <1>1, <1>2, <1>3, <1>4, <1>5

(* Every step.                                                               *)
LEMMA TestInvStep == TestInv /\ [WifiRecoveryNext]_recoveryVars => TestInv'
<1> SUFFICES ASSUME TestInv, [WifiRecoveryNext]_recoveryVars PROVE TestInv'
  OBVIOUS
<1>1. CASE PowerCycles
  BY <1>1, RebootTests DEF PowerCycles
<1>2. CASE LoopPollsWifi
  BY <1>2 DEF LoopPollsWifi, FlowsUntouched, flows, WmPoll, WmConnects, WmGivesUp, WmDropped,
              WmRetries, TestInv, StoreInv, wifiNvs
<1>3. CASE LoopForcesReconnect \/ RadioJoins \/ AroundTheLink
  BY <1>3, LinkTests DEF LoopForcesReconnect, RadioJoins, AroundTheLink, FlowsUntouched, flows
<1>4. CASE RetryIsDue
  BY <1>4, KeepsTests DEF RetryIsDue, CooldownOver, FlowsUntouched, flows
<1>5. ASSUME NEW k \in Digits \cup {Star}, KeyDown(k) PROVE TestInv'
  BY <1>5, KeyTests
<1>6. ASSUME NEW k \in Digits \cup {Star}, KeyReboots(k) PROVE TestInv'
  BY <1>6, RebootTests DEF KeyReboots, LoopRuns
<1>7. CASE KeyUp
  BY <1>7, KeepsTests DEF KeyUp, LinkUntouched, linkVars, flows
<1>8. CASE Tick
  BY <1>8, TickTests
<1>9. CASE (\E n \in Net : Save(n)) \/ TestSucceeds \/ PutPassword \/ TestFails \/ Cancel
           \/ IdleStop
  BY <1>9, PortalTests
<1>10. CASE UNCHANGED recoveryVars
  BY <1>10, KeepsTests DEF recoveryVars, linkVars, flows
<1>. QED  BY <1>1, <1>2, <1>3, <1>4, <1>5, <1>6, <1>7, <1>8, <1>9, <1>10 DEF WifiRecoveryNext

(* The store is written by the two steps that end a test well, and by no     *)
(* other.                                                                    *)
LEMMA StepStores ==
  TestInv /\ [WifiRecoveryNext]_recoveryVars =>
    TestInv' /\ [StoresTested /\ StoresWhole]_recoveryVars
<1> SUFFICES ASSUME TestInv, WifiRecoveryNext, TestInv'
             PROVE  StoresTested /\ StoresWhole
  BY TestInvStep
<1> USE DEF linkVars, wifiNvs, StoresTested
<1>0. StoresWhole
  BY DEF StoresWhole, TestInv, StoreInv
<1>1. CASE TestSucceeds
  BY <1>0, <1>1 DEF TestSucceeds, TestInv, RadioTests
<1>2. CASE PutPassword
  BY <1>0, <1>2 DEF PutPassword, Restart, LinkBegin
<1>3. ASSUME NEW k, KeyDown(k) \/ KeyReboots(k) PROVE StoresTested
  <2>1. CASE KeyDown(k)
    BY <1>0, <2>1 DEF KeyDown, OnKeyDown, ControllerIgnores, InfoToMenu, Select, SelectRetry,
                SelectReturn, SelectSetup, SelectInfo, StarDown, BackToState, LinkUntouched
  <2>2. CASE KeyReboots(k)
    BY <2>2 DEF KeyReboots, Restart, LinkBegin
  <2>. QED  BY <1>3, <2>1, <2>2
<1>4. CASE PowerCycles
  BY <1>0, <1>4 DEF PowerCycles, Restart, LinkBegin
<1>5. CASE LoopPollsWifi \/ LoopForcesReconnect \/ RadioJoins \/ RetryIsDue \/ AroundTheLink
  BY <1>0, <1>5 DEF LoopPollsWifi, LoopForcesReconnect, RadioJoins, RetryIsDue, AroundTheLink, WmPoll,
              WmConnects, WmGivesUp, WmDropped, WmRetries, ForceReconnect, Joins, CooldownOver,
              AirChanges
<1>6. CASE KeyUp \/ Tick
  BY <1>0, <1>6 DEF KeyUp, Tick, TickInMenu, TickOpensPortal, TickOpensMenu, TickWaits, TickHold,
              LinkUntouched
<1>7. CASE (\E n \in Net : Save(n)) \/ TestFails \/ Cancel \/ IdleStop
  BY <1>0, <1>7 DEF Save, TestFails, Cancel, IdleStop, PortalStop, LinkUntouched
<1>. QED  BY <1>0, <1>1, <1>2, <1>3, <1>4, <1>5, <1>6, <1>7 DEF WifiRecoveryNext

(* The name in NVS changes only to that of a network the kiosk is on at that *)
(* moment, under test, the password only to the one it was joined with: no   *)
(* test that is cancelled, fails or is cut short, and no reboot, replaces    *)
(* what worked.  Name and password go together, but between the two puts and *)
(* where one of them failed or was cut off.                                  *)
THEOREM OnlyTestedCommitted == WifiRecoverySpec => CommitTested
BY TestInvInit, StepStores, PTL DEF WifiRecoverySpec, CommitTested

-----------------------------------------------------------------------------
(* The link, whoever uses it.                                                *)
Nets == Net \cup {NoNet}
Pairs == [name : Nets, pass : Nets]
LinkTypes ==
  /\ air \subseteq Net
  /\ assoc \in Nets /\ joining \in Nets \cup {Mixed} /\ ssid \in Nets \cup {Mixed}
  /\ creds \in Pairs
  /\ reconnects \in Nat

(* The link starts in its ranges.                                            *)
LEMMA LinkTypesInit == LinkInit => LinkTypes
BY DEF LinkInit, LinkTypes, Nets, Pairs, Pair, Opens

(* A boot with a network of some kind, and what the radio, the air and the   *)
(* manager do: reconnections are only counted up.                            *)
LEMMA LinkTypesBegin ==
  ASSUME LinkTypes, NEW c \in Pairs, LinkBegin(c), air' = air
  PROVE  LinkTypes'
BY DEF LinkBegin, LinkTypes, Nets, Pairs, Opens

(* Every step of the manager and of the radio stays in them.                 *)
LEMMA LinkTypesKept ==
  ASSUME LinkTypes, Joins \/ AirChanges \/ WmPoll \/ CooldownOver \/ ForceReconnect
  PROVE  LinkTypes' /\ reconnects' >= reconnects
<1> USE DEF LinkTypes, Nets, wifiNvs
<1>1. ASSUME NEW s, Becomes(s) PROVE reconnects' \in Nat /\ reconnects' >= reconnects
  BY <1>1 DEF Becomes
<1>2. CASE Joins
  BY <1>2 DEF Joins, manager
<1>3. CASE AirChanges
  <2>1. PICK n \in Net :
          /\ air' = IF n \in air THEN air \ {n} ELSE air \cup {n}
          /\ IF assoc = n THEN assoc' = NoNet /\ joining' \in {n, NoNet} ELSE UNCHANGED radio
    BY <1>3 DEF AirChanges
  <2>. QED  BY <1>3, <2>1 DEF AirChanges, radio, manager
<1>4. CASE WmConnects \/ WmGivesUp \/ WmDropped \/ WmRetries
  <2>1. reconnects' \in Nat /\ reconnects' >= reconnects
    BY <1>1, <1>4 DEF WmConnects, WmGivesUp, WmDropped, WmRetries
  <2>. QED
    BY <1>4, <2>1 DEF WmConnects, WmGivesUp, WmDropped, WmRetries, RadioOff, RadioBegin, radio
<1>5. CASE CooldownOver
  BY <1>5 DEF CooldownOver, radio
<1>6. CASE ForceReconnect
  BY <1>1, <1>6 DEF ForceReconnect, RadioOff
<1>. QED  BY <1>2, <1>3, <1>4, <1>5, <1>6 DEF WmPoll

-----------------------------------------------------------------------------
(* WifiRecovery's types; those of the link are needed for what is stored.    *)
RecoveryTypes == LinkTypes /\ WifiRecoveryTypeOK

(* The recovery flows start in their ranges.                                 *)
LEMMA RecoveryTypesInit == WifiRecoveryInit => RecoveryTypes
<1> SUFFICES ASSUME WifiRecoveryInit PROVE RecoveryTypes
  OBVIOUS
<1>1. LinkTypes
  BY LinkTypesInit DEF WifiRecoveryInit
<1>2. WifiRecoveryTypeOK
  BY <1>1, RecoveryKeysAssumption
     DEF WifiRecoveryInit, WifiRecoveryTypeOK, LinkTypes, Nets, Pairs, PortalAtBoot
<1>. QED  BY <1>1, <1>2 DEF RecoveryTypes

(* A restart, with whatever network is then stored.                          *)
LEMMA RestartTypes ==
  ASSUME RecoveryTypes, NEW c \in Pairs, Restart(c), air' = air
  PROVE  RecoveryTypes'
<1>1. LinkTypes'
  BY LinkTypesBegin DEF Restart, RecoveryTypes
<1>2. WifiRecoveryTypeOK'
  BY <1>1, RecoveryKeysAssumption 
     DEF Restart, WifiRecoveryTypeOK, LinkTypes, Nets, Pairs, PortalAtBoot
<1>. QED  BY <1>1, <1>2 DEF RecoveryTypes

(* A key that does not reboot the kiosk leaves the link alone, but for the   *)
(* wait before the next attempt to connect.                                  *)
LEMMA KeyDownTypes ==
  ASSUME RecoveryTypes, NEW k \in Digits \cup {Star}, KeyDown(k)
  PROVE  RecoveryTypes'
<1> USE DEF RecoveryTypes, LinkUntouched, linkVars, wifiNvs, radio, manager, flows, hold
<1>1. keyDown' \in Digits \cup {Star, NoKey}
  BY DEF KeyDown
<1>2. /\ UNCHANGED <<air, assoc, joining, creds, ssid, reconnects, cand>>
      /\ heldFor' \in {heldFor, 0} /\ portal' \in {portal, "AP_ACTIVE"}
  <2>1. CASE Select(k)
    BY <2>1 DEF Select, SelectRetry, SelectReturn, SelectSetup, SelectInfo, BackToState, RetryNow
  <2>2. CASE ControllerIgnores \/ InfoToMenu \/ StarDown
    BY <2>2 DEF ControllerIgnores, InfoToMenu, StarDown
  <2>. QED  BY <2>1, <2>2 DEF KeyDown, OnKeyDown
<1>3. heldFor' \in 0..SetupHold
  BY <1>2, RecoveryKeysAssumption DEF WifiRecoveryTypeOK
<1>. QED  BY <1>1, <1>2, <1>3 DEF WifiRecoveryTypeOK, LinkTypes, Nets

(* The timer of the held star stops at its last threshold.                   *)
LEMMA TickTypes == ASSUME RecoveryTypes, Tick PROVE RecoveryTypes'
<1> PICK d \in 0..SetupHold :
      TickInMenu(d) \/ TickOpensPortal(d) \/ TickOpensMenu(d) \/ TickWaits(d)
  BY DEF Tick
<1>1. /\ UNCHANGED <<air, assoc, joining, creds, ssid, reconnects, cand, keyDown>>
      /\ heldFor' = Upto(heldFor + d) /\ portal' \in {portal, "AP_ACTIVE"}
  BY DEF TickInMenu, TickOpensPortal, TickOpensMenu, TickWaits, TickHold, LinkUntouched, linkVars,
         wifiNvs, radio, manager
<1>2. heldFor' \in 0..SetupHold
  BY <1>1, RecoveryKeysAssumption DEF RecoveryTypes, WifiRecoveryTypeOK, Upto
<1>. QED  BY <1>1, <1>2 DEF RecoveryTypes, WifiRecoveryTypeOK, LinkTypes, Nets

(* Every step.                                                               *)
LEMMA RecoveryTypesStep ==
  RecoveryTypes /\ [WifiRecoveryNext]_recoveryVars => RecoveryTypes'
<1> SUFFICES ASSUME RecoveryTypes, [WifiRecoveryNext]_recoveryVars PROVE RecoveryTypes'
  OBVIOUS
<1>0. creds \in Pairs /\ [creds EXCEPT !.name = cand] \in Pairs
      /\ [creds EXCEPT !.pass = cand] \in Pairs
  BY DEF RecoveryTypes, WifiRecoveryTypeOK, Nets, Pairs
<1>1. CASE PowerCycles
  BY <1>0, <1>1, RestartTypes DEF PowerCycles
<1>2. CASE LoopPollsWifi \/ LoopForcesReconnect \/ RadioJoins \/ RetryIsDue \/ AroundTheLink
  <2>1. LinkTypes'
    BY <1>2, LinkTypesKept DEF LoopPollsWifi, LoopForcesReconnect, RadioJoins, RetryIsDue,
                               AroundTheLink, RecoveryTypes
  <2>2. UNCHANGED <<keyDown, hold, flows, cand>>
    BY <1>2 DEF LoopPollsWifi, LoopForcesReconnect, RadioJoins, RetryIsDue, AroundTheLink,
                FlowsUntouched
  <2>. QED
    BY <2>1, <2>2 DEF RecoveryTypes, WifiRecoveryTypeOK, LinkTypes, Nets, Pairs, hold, flows
<1>3. ASSUME NEW k \in Digits \cup {Star}, KeyDown(k) PROVE RecoveryTypes'
  BY <1>3, KeyDownTypes
<1>4. ASSUME NEW k \in Digits \cup {Star}, KeyReboots(k) PROVE RecoveryTypes'
  BY <1>0, <1>4, RestartTypes DEF KeyReboots
<1>5. CASE KeyUp
  <2>1. heldFor' \in {heldFor, 0} /\ keyDown' = NoKey /\ UNCHANGED <<linkVars, portal, cand>>
    BY <1>5 DEF KeyUp, hold, flows, LinkUntouched
  <2>2. heldFor' \in 0..SetupHold
    BY <2>1, RecoveryKeysAssumption DEF RecoveryTypes, WifiRecoveryTypeOK
  <2>. QED
    BY <2>1, <2>2 DEF RecoveryTypes, WifiRecoveryTypeOK, LinkTypes, linkVars, wifiNvs, radio, manager
<1>6. CASE Tick
  BY <1>6, TickTypes
<1>7. CASE TestSucceeds
  BY <1>0, <1>7 DEF TestSucceeds, PortalKeeps, hold, radio, manager, RecoveryTypes,
                    WifiRecoveryTypeOK, LinkTypes, Nets, Pairs
<1>12. CASE PutPassword
  BY <1>0, <1>12, RestartTypes DEF PutPassword
<1>8. ASSUME NEW n \in Net, Save(n) PROVE RecoveryTypes'
  BY <1>8 DEF Save, RadioBegin, PortalKeeps, wifiNvs, hold, manager, RecoveryTypes, WifiRecoveryTypeOK,
              LinkTypes, Nets
<1>9. CASE TestFails
  BY <1>9 DEF TestFails, RadioOff, PortalKeeps, wifiNvs, hold, manager, RecoveryTypes, WifiRecoveryTypeOK,
              LinkTypes, Nets
<1>10. CASE Cancel \/ IdleStop
  BY <1>10 DEF Cancel, IdleStop, PortalStop, LinkUntouched, linkVars, wifiNvs, radio, manager, hold,
               RecoveryTypes, WifiRecoveryTypeOK, LinkTypes
<1>11. CASE UNCHANGED recoveryVars
  BY <1>11 DEF recoveryVars, linkVars, wifiNvs, radio, manager, hold, flows, RecoveryTypes,
               WifiRecoveryTypeOK, LinkTypes
<1>. QED  BY <1>1, <1>2, <1>3, <1>4, <1>5, <1>6, <1>7, <1>8, <1>9, <1>10, <1>11, <1>12
          DEF WifiRecoveryNext

(* Everything the controller, the portal and the radio hold is in its range; *)
(* in particular what is stored and tested is a network that was given.      *)
THEOREM RecoveryTypeCorrect == WifiRecoverySpec => []WifiRecoveryTypeOK
<1>1. RecoveryTypes => WifiRecoveryTypeOK
  BY DEF RecoveryTypes
<1>. QED  BY <1>1, RecoveryTypesInit, RecoveryTypesStep, PTL DEF WifiRecoverySpec

-----------------------------------------------------------------------------
(* When loop() asks for a bootstrap.                                         *)

(* An attempt is left while none is under way and it is not given up; the    *)
(* reconnections seen are some of those there were.                          *)
AttemptIsLeft == ~attempted /\ ~inFlight => attempts < MaxAttempts
BootInv ==
  /\ LinkTypes /\ BootstrapTypeOK /\ seen \in Nat
  /\ AttemptIsLeft /\ InFlightIsAnswered

(* Before the first request every attempt is left.                           *)
LEMMA BootStarts == LinkTypes /\ BootstrapStarts => BootInv
BY AttemptsAssumption
   DEF LinkTypes, BootstrapStarts, BootInv, BootstrapTypeOK, AttemptIsLeft, InFlightIsAnswered

(* Initially none was made.                                                  *)
LEMMA BootInvInit == BootstrapInit => BootInv
BY BootStarts, LinkTypesInit DEF BootstrapInit

(* The link may change under it: reconnections are only counted up.          *)
LEMMA BootKeptByLink ==
  ASSUME BootInv, LinkTypes', reconnects' >= reconnects, UNCHANGED <<asking, requests, answer>>
  PROVE  BootInv'
BY DEF asking, BootInv, LinkTypes, BootstrapTypeOK, AttemptIsLeft, InFlightIsAnswered

(* Every step: an attempt is counted when it is made, and given back by a    *)
(* reconnection or a reboot.                                                 *)
LEMMA BootInvStep == BootInv /\ [BootstrapNext]_bootstrapVars => BootInv'
<1> SUFFICES ASSUME BootInv, [BootstrapNext]_bootstrapVars PROVE BootInv'
  OBVIOUS
<1>0. LinkTypes /\ reconnects \in Nat
  BY DEF BootInv, LinkTypes
<1>1. CASE \/ LinkMoves(Joins) \/ LinkMoves(AirChanges) \/ LinkMoves(WmPoll)
           \/ LinkMoves(CooldownOver) \/ LinkMoves(ForceReconnect)
  <2>1. LinkTypes' /\ reconnects' >= reconnects
    BY <1>0, <1>1, LinkTypesKept DEF LinkMoves
  <2>. QED  BY <1>1, <2>1, BootKeptByLink DEF LinkMoves
<1>2. CASE BootstrapReboot
  <2>1. LinkTypes'
    BY <1>0, <1>2, LinkTypesBegin DEF BootstrapReboot, LinkTypes
  <2>. QED
    BY <1>2, <2>1, AttemptsAssumption
       DEF BootstrapReboot, StartsOver, BootInv, LinkTypes, BootstrapTypeOK, AttemptIsLeft,
           InFlightIsAnswered
<1>3. ASSUME UNCHANGED linkVars
      PROVE  LinkTypes' /\ reconnects' = reconnects
  BY <1>0, <1>3 DEF linkVars, wifiNvs, radio, manager, LinkTypes
<1> USE AttemptsAssumption DEF BootInv, BootstrapTypeOK, AttemptIsLeft, InFlightIsAnswered
<1>4. CASE Rearm
  BY <1>0, <1>3, <1>4 DEF Rearm, StartsOver
<1>5. CASE Ask
  BY <1>0, <1>3, <1>5 DEF Ask, MayAsk
<1>6. CASE AskNowhere
  BY <1>0, <1>3, <1>6 DEF AskNowhere, MayAsk
<1>7. CASE RetryDue
  BY <1>0, <1>3, <1>7 DEF RetryDue
<1>8. CASE Answered
  BY <1>0, <1>3, <1>8 DEF Answered, BootstrapStatus, asking
<1>9. CASE Take
  BY <1>0, <1>3, <1>9 DEF Take
<1>10. CASE UNCHANGED bootstrapVars
  BY <1>0, <1>3, <1>10 DEF bootstrapVars, asking
<1>. QED  BY <1>1, <1>2, <1>4, <1>5, <1>6, <1>7, <1>8, <1>9, <1>10 DEF BootstrapNext

(* loop() never makes more attempts than it may, and never has seen more     *)
(* reconnections than there were.                                            *)
THEOREM BootstrapTypeCorrect == BootstrapSpec => []BootstrapTypeOK
<1>1. BootInv => BootstrapTypeOK
  BY DEF BootInv
<1>. QED  BY <1>1, BootInvInit, BootInvStep, PTL DEF BootstrapSpec

(* g_bootstrap_inflight never keeps loop() from asking for nothing: a        *)
(* request is with the network task or its answer is kept, whatever          *)
(* reconnections came between request and answer.                            *)
THEOREM InFlightAnswered == BootstrapSpec => []InFlightIsAnswered
<1>1. BootInv => InFlightIsAnswered
  BY DEF BootInv
<1>. QED  BY <1>1, BootInvInit, BootInvStep, PTL DEF BootstrapSpec
=============================================================================
