---------------------------- MODULE WifiRecovery ----------------------------
(***************************************************************************)
(* The way out that must work from every screen: '*' held opens the        *)
(* recovery menu, held longer the Wi-Fi setup portal, where a phone gives  *)
(* a network to try.  Composes runtime/wifi_recovery_controller,           *)
(* network/wifi_setup_portal, runtime/recovery_overlay and what            *)
(* KioskRuntime does with the same bus events, over the link of WifiLink.  *)
(*                                                                         *)
(* The bus calls its subscribers inside publish(), KioskRuntime first; a   *)
(* key event is one step.  The keypad publishes KEY_DOWN of a key also     *)
(* when the one before it is not up yet (Keypad.PollDown), and KEY_UP only *)
(* of the key it published last.                                           *)
(***************************************************************************)
EXTENDS WifiLink

CONSTANTS
  Star, Digits,  \* '*', and the other keys the bounds let be pressed
  NoKey,
  MenuHold,      \* RECOVERY_MENU_HOLD_MS
  SetupHold      \* WIFI_RECOVERY_HOLD_MS

ASSUME RecoveryKeysAssumption ==
  /\ Star \notin Digits /\ NoKey \notin Digits \cup {Star}
  /\ MenuHold \in Nat \ {0} /\ SetupHold \in Nat /\ MenuHold < SetupHold

VARIABLES
  keyDown,  \* the key last published, while it is down
  held,     \* star_held_
  heldFor,  \* since star_down_ms_, in seconds, up to SetupHold
  menu,     \* menu_active_
  info,     \* device_info_active_
  overlay,  \* recovery_overlay_active()
  portal,   \* state_ of the portal; "STORING": between the two puts of poll()
  cand,     \* pending_ssid_ and pending_password_
  acted     \* history: who acted on the last KEY_DOWN

hold  == <<held, heldFor>>
flows == <<menu, info, overlay, portal>>
recoveryVars == <<linkVars, keyDown, hold, flows, cand, acted>>

Busy == trouble > 0 /\ trouble' = trouble - 1

(* setup() opens the portal when there are no credentials.                   *)
PortalAtBoot(stored) == IF stored.name = NoNet THEN "AP_ACTIVE" ELSE "INACTIVE"

WifiRecoveryInit ==
  /\ LinkInit
  /\ keyDown = NoKey /\ held = FALSE /\ heldFor = 0
  /\ menu = FALSE /\ info = FALSE /\ overlay = FALSE
  /\ portal = PortalAtBoot(creds) /\ cand = NoNet
  /\ acted = {}

Restart(stored) ==
  /\ LinkBegin(stored)
  /\ keyDown' = NoKey /\ held' = FALSE /\ heldFor' = 0
  /\ menu' = FALSE /\ info' = FALSE /\ overlay' = FALSE
  /\ portal' = PortalAtBoot(stored) /\ cand' = NoNet
  /\ acted' = {}

PowerCycles ==
  /\ Busy /\ Restart(creds)
  /\ torn' = (torn \/ portal = "STORING")
  /\ UNCHANGED air

(* loop() goes round, and is not in the middle of the portal's poll().       *)
LoopRuns == portal # "STORING"

-----------------------------------------------------------------------------
LinkUntouched  == UNCHANGED linkVars
FlowsUntouched == UNCHANGED <<keyDown, hold, flows, cand, acted>>

(* loop(): while the portal is open it has the radio to itself.              *)
LoopPollsWifi == portal = "INACTIVE" /\ WmPoll /\ FlowsUntouched

LoopForcesReconnect == LoopRuns /\ ForceReconnect /\ FlowsUntouched

RadioJoins == Joins /\ FlowsUntouched

RetryIsDue == CooldownOver /\ FlowsUntouched

AroundTheLink == AirChanges /\ FlowsUntouched

-----------------------------------------------------------------------------
(* exit_menu_to_current_state() *)
BackToState ==
  /\ menu' = FALSE /\ overlay' = FALSE
  /\ UNCHANGED <<info, portal, cand>>

SelectRetry ==
  /\ BackToState
  /\ RetryNow /\ UNCHANGED <<air, radio, wifiNvs, trouble>>

(* A resync, or the way back: for these flows the same.                      *)
SelectReturn == BackToState /\ LinkUntouched

SelectSetup ==
  /\ menu' = FALSE /\ portal' = "AP_ACTIVE"
  /\ LinkUntouched /\ UNCHANGED <<info, overlay, cand>>

SelectInfo ==
  /\ menu' = FALSE /\ info' = TRUE
  /\ LinkUntouched /\ UNCHANGED <<overlay, portal, cand>>

Options == {"1", "2", "3", "4", "5", "6"}

(* handle_menu_selection(): a choice ends the gesture.                       *)
Select(k) ==
  /\ held' = FALSE /\ heldFor' = 0
  /\ \/ k = "1" /\ SelectRetry
     \/ k \in {"2", "4"} /\ SelectReturn
     \/ k = "3" /\ SelectSetup
     \/ k = "6" /\ SelectInfo

(* The controller's part of KEY_DOWN, by precedence.                         *)
ControllerIgnores == LinkUntouched /\ UNCHANGED <<hold, flows, cand>>

InfoToMenu ==
  /\ info' = FALSE /\ menu' = TRUE
  /\ LinkUntouched /\ UNCHANGED <<hold, overlay, portal, cand>>

StarDown ==
  /\ held' = TRUE /\ heldFor' = 0
  /\ LinkUntouched /\ UNCHANGED <<flows, cand>>

OnKeyDown(k) ==
  IF portal # "INACTIVE" THEN ControllerIgnores
  ELSE IF info THEN InfoToMenu
  ELSE IF menu /\ k \in Options THEN Select(k)
  ELSE IF k = Star THEN StarDown
  ELSE ControllerIgnores

(* Who acts on a key: the controller, and KioskRuntime, which runs before    *)
(* it, and takes the key for business input.                                 *)
RecoveryTakes(k) == portal = "INACTIVE" /\ (info \/ (menu /\ k \in Options))
BusinessTakesWrong(k) == k # Star /\ ~overlay'             \* hears the key after the controller

BusinessTakes(k) == k # Star /\ ~overlay

KeyDown(k) ==
  /\ LoopRuns /\ keyDown # k
  /\ ~(menu /\ k = "5")
  /\ keyDown' = k
  /\ OnKeyDown(k)
  /\ acted' = {a \in {"business", "recovery"} :
                  IF a = "business" THEN BusinessTakes(k) ELSE RecoveryTakes(k)}

KeyReboots(k) ==
  /\ LoopRuns /\ keyDown # k /\ menu /\ k = "5"
  /\ Busy /\ Restart(creds) /\ UNCHANGED <<air, torn>>

KeyUp ==
  /\ LoopRuns /\ keyDown # NoKey
  /\ keyDown' = NoKey
  /\ IF portal = "INACTIVE" /\ keyDown = Star
     THEN held' = FALSE /\ heldFor' = 0 ELSE UNCHANGED hold
  /\ acted' = {}
  /\ LinkUntouched /\ UNCHANGED <<flows, cand>>

-----------------------------------------------------------------------------
(* tick(), d seconds after the one before; the loop may have been busy.      *)
Upto(n) == IF n < SetupHold THEN n ELSE SetupHold

TickHold(d) ==
  /\ portal = "INACTIVE" /\ held
  /\ heldFor' = Upto(heldFor + d)
  /\ LinkUntouched /\ UNCHANGED <<keyDown, info, cand, acted>>

TickInMenu(d) ==
  /\ menu /\ TickHold(d)
  /\ UNCHANGED <<held, menu, overlay, portal>>

TickOpensPortal(d) ==
  /\ ~menu /\ TickHold(d) /\ heldFor' = SetupHold
  /\ held' = FALSE
  /\ overlay' = TRUE /\ portal' = "AP_ACTIVE"
  /\ UNCHANGED menu

TickOpensMenu(d) ==
  /\ ~menu /\ TickHold(d) /\ heldFor' \in MenuHold..(SetupHold - 1)
  /\ menu' = TRUE /\ overlay' = TRUE
  /\ UNCHANGED <<held, portal>>

TickWaits(d) ==
  /\ ~menu /\ TickHold(d) /\ heldFor' < MenuHold
  /\ UNCHANGED <<held, menu, overlay, portal>>

Tick == \E d \in 0..SetupHold :
          TickInMenu(d) \/ TickOpensPortal(d) \/ TickOpensMenu(d) \/ TickWaits(d)

-----------------------------------------------------------------------------
(* The portal: poll() serves the page, then looks at the test or the clock.  *)
PortalKeeps == UNCHANGED <<keyDown, hold, menu, info, overlay, acted>>

SaveWrong(n) ==                                            \* stores what is still to be tested
  /\ portal # "INACTIVE" /\ LoopRuns /\ Busy
  /\ cand' = n /\ RadioBegin(n)
  /\ portal' = "TESTING"
  /\ creds' = Pair(n)
  /\ PortalKeeps /\ UNCHANGED <<air, torn, manager>>

(* handle_save(): what is stored is not touched.                             *)
Save(n) ==
  /\ portal # "INACTIVE" /\ LoopRuns /\ Busy
  /\ cand' = n /\ RadioBegin(n)
  /\ portal' = "TESTING"
  /\ PortalKeeps /\ UNCHANGED <<air, wifiNvs, manager>>

(* set_wifi_credentials(): the name is put, then the password.  Either put   *)
(* may fail, and nothing looks whether it did; the restart follows.          *)
TestSucceeds ==
  /\ portal = "TESTING" /\ assoc # NoNet
  /\ portal' = "STORING"
  /\ \/ creds' = [creds EXCEPT !.name = cand] /\ torn' = FALSE
     \/ torn' = TRUE /\ UNCHANGED creds
  /\ PortalKeeps /\ UNCHANGED <<air, radio, manager, trouble, cand>>

PutPassword ==
  /\ portal = "STORING"
  /\ \/ Restart([creds EXCEPT !.pass = cand]) /\ UNCHANGED torn
     \/ Restart(creds) /\ torn' = TRUE
  /\ UNCHANGED <<air, trouble>>

TestFails ==
  /\ portal = "TESTING" /\ assoc = NoNet
  /\ RadioOff
  /\ portal' = "FAILED"
  /\ PortalKeeps /\ UNCHANGED <<air, wifiNvs, manager, trouble, cand>>

(* stop(), and what the controller does on INACTIVE; the radio is left       *)
(* joining what it was joining.                                              *)
PortalStop ==
  /\ portal' = "INACTIVE" /\ overlay' = FALSE
  /\ LinkUntouched /\ UNCHANGED <<keyDown, hold, menu, info, cand, acted>>

Cancel == portal # "INACTIVE" /\ LoopRuns /\ PortalStop

IdleStopWrong == portal = "AP_ACTIVE" /\ PortalStop        \* not after a test that failed

(* Nobody used the page for WIFI_RECOVERY_PORTAL_TIMEOUT_MS.                 *)
IdleStop == portal \in {"AP_ACTIVE", "FAILED"} /\ PortalStop

-----------------------------------------------------------------------------
WifiRecoveryNext ==
  \/ PowerCycles \/ LoopPollsWifi \/ LoopForcesReconnect
  \/ RadioJoins \/ RetryIsDue \/ AroundTheLink
  \/ \E k \in Digits \cup {Star} : KeyDown(k) \/ KeyReboots(k)
  \/ KeyUp \/ Tick
  \/ \E n \in Net : Save(n)
  \/ TestSucceeds \/ PutPassword \/ TestFails \/ Cancel \/ IdleStop

WifiRecoverySpec == WifiRecoveryInit /\ [][WifiRecoveryNext]_recoveryVars

-----------------------------------------------------------------------------
WifiRecoveryTypeOK ==
  /\ keyDown \in Digits \cup {Star, NoKey}
  /\ heldFor \in 0..SetupHold
  /\ portal \in {"INACTIVE", "AP_ACTIVE", "TESTING", "STORING", "FAILED"}
  /\ assoc \in Net \cup {NoNet} /\ joining \in Net \cup {NoNet, Mixed}
  /\ cand \in Net \cup {NoNet}
  /\ creds \in [name : Net \cup {NoNet}, pass : Net \cup {NoNet}]

(* A key aimed at the menu or at the information screen never reaches        *)
(* business input as well, though both hear every key and the menu closes    *)
(* inside the same event (recovery_overlay.h:11-16).                         *)
OneKeyOneAction == acted # {"business", "recovery"}

(* No test that is cancelled, fails or is cut short touches what is stored:  *)
(* the name put is that of the network the kiosk is on, the password the one *)
(* it was joined with (wifi_setup_portal.cpp:253-255).  And name and         *)
(* password are those of one network, but between the two puts and after a   *)
(* failure or a power loss there, until another pair is stored.              *)
StoresTested ==
  creds' # creds =>
    \/ portal = "TESTING" /\ creds' = [creds EXCEPT !.name = assoc]
    \/ portal = "STORING" /\ creds' = [creds EXCEPT !.pass = cand]
StoresWhole == creds'.name = creds'.pass \/ portal' = "STORING" \/ torn'
CommitTested == [][StoresTested /\ StoresWhole]_recoveryVars

(* The open access point is never permanent (docs/WIFI_RECOVERY.md:103).     *)
PortalCloses == portal # "INACTIVE" ~> portal = "INACTIVE"

(* With the stored network in the air and nobody at the portal, the kiosk is *)
(* in the end connected, whatever happened to the link before.               *)
BackOnline ==
  <>[](portal = "INACTIVE" /\ ssid \in air) => <>[](wm = "CONNECTED" /\ assoc # NoNet)

(* '*' held for SetupHold opens the portal (docs/WIFI_RECOVERY.md:133).      *)
TenSecondHold == ~(held /\ keyDown = Star /\ heldFor = SetupHold)
=============================================================================
