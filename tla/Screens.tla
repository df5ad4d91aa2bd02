------------------------------- MODULE Screens -------------------------------
(***************************************************************************)
(* What is on the display.  Nothing owns it: KioskRuntime draws the state  *)
(* of the server's snapshot, errors and its feedback to scans and keys;    *)
(* its poll() redraws on answers, timeouts and counters; the recovery menu *)
(* and the setup portal draw over all of that; and each draw stays until   *)
(* the next one.  Composes runtime/kiosk_runtime as far as it draws,       *)
(* runtime/wifi_recovery_controller and ui/renderer.                       *)
(*                                                                         *)
(* The module is a function of the record `ui`, so that a handler is one   *)
(* step with every draw in it.  Of a screen it keeps its name and the      *)
(* figures on it; of the operator's figures the defects and the repaired   *)
(* ones, which the code compares, a typed number being the last digit of   *)
(* it.  Messages, the Wi-Fi sign and the counters of the status bar are    *)
(* left out, but not the redraws they cause: of the journal's count and of *)
(* the clock, only whether they changed.                                   *)
(***************************************************************************)
EXTENDS Naturals

CONSTANTS
  Figures,     \* the numbers typed, 0 among them
  Hash,        \* '#'
  Blank,       \* an empty local_qty_buffer_
  States,      \* the states of the server's snapshots
  NoState,
  ErrorPasses, \* kErrorViewTimeoutMs, in passes of loop()
  MaxRare      \* bound: what does not happen every day happens at most so often

ASSUME ScreensAssumption ==
  /\ Figures \subseteq 0..9 /\ 0 \in Figures /\ {Blank, Hash} \cap Figures = {}
  /\ NoState \notin States
  /\ ErrorPasses \in Nat \ {0} /\ MaxRare \in Nat

VARIABLE ui

QtySteps == {"GOOD", "DEFECT", "REWORK_DECISION", "REWORK", "SUMMARY"}
Overlays == {"none", "menu", "info", "portal"}

(* These screens are not of a state.                                         *)
ASSUME NamesAssumption ==
  States \cap {"waiting", "scan_received", "scan_result", "safe_mode", "server_mismatch", "identity",
               "resyncing", "finish_result", "error_view", "wifi_hold_progress", "recovery_menu",
               "device_info", "wifi_portal"} = {}

-----------------------------------------------------------------------------
(* ui/renderer: the screens, with the figures they show.                     *)
Screen(id) == [id |-> id, figures |-> <<>>, by |-> 0]

WaitingScreen      == Screen("waiting")
ScanReceivedScreen == Screen("scan_received")
ScanResultScreen   == Screen("scan_result")
SafeModeScreen     == Screen("safe_mode")
MismatchScreen     == Screen("server_mismatch")
IdentityScreen     == Screen("identity")
ResyncingScreen    == Screen("resyncing")
FinishScreen       == Screen("finish_result")
ErrorScreen        == Screen("error_view")
HoldScreen         == Screen("wifi_hold_progress")
MenuScreen         == Screen("recovery_menu")
InfoScreen         == Screen("device_info")
PortalScreen       == Screen("wifi_portal")

(* DEFECT, REWORK_DECISION, REWORK and SUMMARY have screens of their own.    *)
StepFigures(u) ==
  CASE u.step = "DEFECT"          -> <<u.buf>>
    [] u.step = "REWORK_DECISION" -> <<u.defect>>
    [] u.step = "REWORK"          -> <<u.buf, u.defect>>
    [] u.step = "SUMMARY"         -> <<u.defect, u.rework>>
StepScreen(u) == [id |-> u.step, figures |-> StepFigures(u), by |-> 0]

(* A state's screen is the bundle's if one is installed (u.bundle > 0) that  *)
(* has it, else the firmware's; either shows the digits typed.               *)
TypedShown(u) == IF u.snap = "QUANTITY_INPUT" THEN <<u.buf>> ELSE <<>>
BuiltInScreen(u) == [id |-> u.snap, figures |-> TypedShown(u), by |-> 0]
BundleScreen(u)  == [id |-> u.snap, figures |-> TypedShown(u), by |-> u.bundle]
BusinessScreen(u) == IF u.bundle > 0 THEN BundleScreen(u) ELSE BuiltInScreen(u)

StateScreen(u) ==
  IF u.snap = "QUANTITY_INPUT" /\ u.step # "GOOD" THEN StepScreen(u) ELSE BusinessScreen(u)

-----------------------------------------------------------------------------
Drawn(u, s) == [u EXCEPT !.display = s]

(* What takes over the display before the state of the snapshot is shown.    *)
TakesOver(u) ==
  IF u.safe THEN {SafeModeScreen}
  ELSE IF u.mismatch THEN {MismatchScreen}
  ELSE IF u.identity # "ACTIVE" THEN {IdentityScreen}
  ELSE IF u.resyncing THEN {ResyncingScreen}
  ELSE IF u.snap = NoState THEN {WaitingScreen}
  ELSE {}

ShowErrorWrong(u) ==                                       \* every redraw starts the time again
  [u EXCEPT !.display = ErrorScreen, !.errorUp = TRUE, !.errorAge = 0]

(* A view that is up already keeps the time it has been up.                  *)
ShowError(u) ==
  [u EXCEPT !.display = ErrorScreen, !.errorUp = TRUE, !.errorAge = IF u.errorUp THEN @ ELSE 0]

(* render_current_business_state() *)
Render(u, isError) ==
  LET calm == [u EXCEPT !.errorUp = FALSE, !.errorAge = 0, !.errorFor = 0]
  IN  IF TakesOver(u) # {} THEN Drawn(calm, CHOOSE s \in TakesOver(u) : TRUE)
      ELSE IF isError THEN ShowError(u)
      ELSE IF u.holding THEN Drawn(calm, FinishScreen)
      ELSE Drawn(calm, StateScreen(u))
Refresh(u) == Render(u, FALSE)

-----------------------------------------------------------------------------
(* setup(), on a kiosk that has been told who it is or not, in safe mode or  *)
(* not, with a bundle installed or not.                                      *)
Fresh(safe, identity, bundle) ==
  [safe |-> safe, identity |-> identity, mismatch |-> FALSE, resyncing |-> FALSE,
   snap |-> NoState, bundle |-> bundle,
   step |-> "GOOD", buf |-> Blank, defect |-> 0, rework |-> 0,   \* qty_step_, ...
   errorUp |-> FALSE, errorAge |-> 0,  \* showing_error_view_, since error_view_shown_at_ms_
   errorFor |-> 0,                     \* history: passes an error has been up for
   holding |-> FALSE,                  \* finish_result_hold_active_
   pending |-> FALSE,                  \* scan_pending_result_
   submitted |-> FALSE,                \* last_event_type_ is QUANTITY_SUBMITTED
   fetched |-> FALSE,                  \* a state was asked for, at least once
   over |-> "none", star |-> "up",     \* the overlay that takes the keys; star_held_
   rare |-> 0,                         \* see MaxRare
   display |-> WaitingScreen]

(* KioskRuntime: input.                                                      *)

(* send_business_event(): no server configured or no room in the journal; no *)
(* room in the queue; sent.  A scan that is sent leaves the display alone.   *)
Sent(u, kind, outcome) ==
  LET v == [u EXCEPT !.holding = FALSE]
      w == [v EXCEPT !.submitted = (kind = "QUANTITY"), !.pending = (outcome = "sent")]
  IN  IF outcome = "refused" THEN Render(v, TRUE)
      ELSE IF outcome = "sent" /\ kind = "SCAN" THEN w
      ELSE Refresh(w)

HandleScan(u, outcome) ==
  IF u.safe \/ u.mismatch THEN u
  ELSE IF u.identity # "ACTIVE" THEN Drawn(u, ScanResultScreen)
  ELSE Sent(Drawn(u, ScanReceivedScreen), "SCAN", outcome)

(* reset_quantity_flow() *)
FreshFlow(u) ==
  [u EXCEPT !.step = "GOOD", !.buf = Blank, !.defect = 0, !.rework = 0]

Typed(u) == IF u.buf = Blank THEN 0 ELSE u.buf
GoTo(u, step) == Refresh([u EXCEPT !.step = step, !.buf = Blank])

(* '#' in the steps where digits are typed.                                  *)
ConfirmStep(u) ==
  IF u.step = "GOOD" THEN GoTo(u, "DEFECT")
  ELSE IF u.step = "DEFECT"
    THEN IF Typed(u) = 0 THEN GoTo([u EXCEPT !.defect = 0, !.rework = 0], "SUMMARY")
                         ELSE GoTo([u EXCEPT !.defect = Typed(u)], "REWORK_DECISION")
  ELSE IF Typed(u) > u.defect THEN Render([u EXCEPT !.buf = Blank], TRUE)
  ELSE GoTo([u EXCEPT !.rework = Typed(u)], "SUMMARY")

QuantityKey(u, k, outcome) ==
  IF u.step = "SUMMARY"
    THEN IF k = Hash THEN Sent(u, "QUANTITY", outcome)
         ELSE IF k = 0 THEN Refresh(FreshFlow(u)) ELSE u
  ELSE IF u.step = "REWORK_DECISION"
    THEN IF k = 1 THEN GoTo(u, "REWORK")
         ELSE IF k \in {2, Hash} THEN Refresh([u EXCEPT !.rework = 0, !.step = "SUMMARY"]) ELSE u
  ELSE IF k = Hash THEN ConfirmStep(u)
  ELSE Refresh([u EXCEPT !.buf = k])

HandleBusinessKey(u, k, outcome) ==
  IF TakesOver(u) # {} THEN u
  ELSE IF u.snap = "QUANTITY_INPUT" THEN QuantityKey(u, k, outcome)
  ELSE IF k = Hash /\ u.snap \in {"WAIT_OPERATION", "SESSION_ACTIVE"} THEN Sent(u, "KEY", outcome)
  ELSE u

-----------------------------------------------------------------------------
(* KioskRuntime: what the server says.                                       *)

ResyncStarts(u) == Drawn([u EXCEPT !.resyncing = TRUE, !.fetched = TRUE], ResyncingScreen)

(* request_manual_resync() *)
ManualResync(u) == IF u.identity # "ACTIVE" THEN u ELSE ResyncStarts(u)

(* apply_event_response() of an answer with a snapshot of state s, accepted  *)
(* or rejected, that StateProjection takes.                                  *)
Apply(u, accepted, s) ==
  LET entered  == s = "QUANTITY_INPUT" /\ u.snap # "QUANTITY_INPUT"
      finished == accepted /\ u.submitted
                  /\ u.snap = "QUANTITY_INPUT" /\ s # "QUANTITY_INPUT"
      v == IF entered THEN FreshFlow(u) ELSE u
  IN  Render([v EXCEPT !.snap = s, !.holding = @ \/ finished], ~accepted)

(* The result of an event, of the operator's or replayed: the replay runs in *)
(* safe mode too.                                                            *)
EventAnswers ==
  [kind : {"failed", "malformed", "conflict", "stale", "unsupported"}]
    \cup [kind : {"accepted", "rejected"}, state : States]

EventAnswered(u, a) ==
  LET v == [u EXCEPT !.pending = FALSE]
      w == [v EXCEPT !.buf = Blank]
  IN  IF a.kind \in {"failed", "malformed"} THEN Render(v, TRUE)
      ELSE IF a.kind = "conflict" THEN ResyncStarts(v)
      ELSE IF a.kind = "stale" THEN ResyncStarts(w)
      ELSE IF a.kind = "unsupported" THEN Render(w, TRUE)
      ELSE Apply(w, a.kind = "accepted", a.state)

(* handle_resync_result() of a state that is taken; any other leaves all as  *)
(* it is.                                                                    *)
Resynced(u, s) == Refresh([u EXCEPT !.resyncing = FALSE, !.buf = Blank, !.snap = s])

(* on_bootstrap_result(): a rejection is drawn as an error, but not held as  *)
(* one.                                                                      *)
Bootstrapped(u, b, s) ==
  IF b = "rejected" THEN Drawn(u, ErrorScreen)
  ELSE IF b = "mismatch" THEN Refresh([u EXCEPT !.mismatch = TRUE])
  ELSE IF b = "no_state" THEN [u EXCEPT !.mismatch = FALSE]
  ELSE Refresh([u EXCEPT !.mismatch = FALSE, !.snap = s])

-----------------------------------------------------------------------------
(* KioskRuntime::poll(): the result, if there is one, and then the checks,   *)
(* each with the states it may leave.                                        *)
PassTime(u) ==
  IF u.errorUp THEN [u EXCEPT !.errorAge = @ + 1, !.errorFor = @ + 1] ELSE u

CheckErrorView(u) == IF u.errorUp /\ u.errorAge >= ErrorPasses THEN Refresh(u) ELSE u

CheckFinishHold(u) ==
  {u} \cup (IF u.holding THEN {Refresh([u EXCEPT !.holding = FALSE])} ELSE {})

Sends == {"refused", "full", "sent"}

(* check_ui_timeout(), which may find the operator gone.                     *)
CheckIdle(u) ==
  {u} \cup (IF TakesOver(u) # {} THEN {}
            ELSE IF u.snap = "WAIT_OPERATION" THEN {Sent(u, "KEY", o) : o \in Sends}
            ELSE IF u.snap = "QUANTITY_INPUT" THEN {Refresh(u)}
            ELSE {})

(* The number of events the journal holds for the server may have changed;   *)
(* in WAIT_EMPLOYEE the minute may, too, to the same effect.                 *)
CheckStatusBar(u) == {u} \cup (IF u.errorUp \/ u.holding THEN {} ELSE {Refresh(u)})

Checks(u) ==
  UNION {CheckStatusBar(w) : w \in UNION {CheckIdle(v) : v \in CheckFinishHold(CheckErrorView(u))}}

ScreensPoll ==
  LET u == PassTime(ui)
  IN  \/ ui' \in Checks(u)
      \/ \E a \in EventAnswers : ui' \in Checks(EventAnswered(u, a))
      \/ \E s \in States : ui.fetched /\ ui' \in Checks(Resynced(u, s))

-----------------------------------------------------------------------------
(* The other steps of loop().                                                *)
Rarely == ui.rare < MaxRare
Counted(u) == [u EXCEPT !.rare = @ + 1]

Scanned == \E outcome \in Sends : ui' = HandleScan(ui, outcome)

(* KioskRuntime hears a key only while no overlay takes it.                  *)
BusinessKey ==
  /\ ui.over = "none"
  /\ \E k \in Figures \cup {Hash}, outcome \in Sends :
       ui' = HandleBusinessKey(ui, k, outcome)

BootstrapTaken ==
  \/ \E s \in States : ui' = Bootstrapped(ui, "state", s)
  \/ ui' = Bootstrapped(ui, "no_state", NoState)
  \/ \E b \in {"rejected", "mismatch"} :
       Rarely /\ ui' = Bootstrapped(Counted(ui), b, NoState)

(* WIFI_STATE; WifiManager is not polled while the portal is open.           *)
WifiChanges ==
  /\ ui.over # "portal" /\ ~ui.pending
  /\ ui' = Refresh(ui)

(* The serial commands suspend and revoke.                                   *)
Suspended == Rarely /\ ui' = Refresh([Counted(ui) EXCEPT !.identity = "SUSPENDED"])

BundleActivatedWrong ==                                    \* left to the next draw
  /\ ~ui.safe /\ ui.bundle = 0 /\ Rarely
  /\ ui' = [Counted(ui) EXCEPT !.bundle = 1]

(* UiSyncController activated one.                                           *)
BundleActivated ==
  /\ ~ui.safe /\ ui.bundle = 0 /\ Rarely
  /\ ui' = Refresh([Counted(ui) EXCEPT !.bundle = 1])

-----------------------------------------------------------------------------
(* WifiRecoveryController: '*' and what it opens.  That it holds the star    *)
(* while the menu is open makes no difference to what follows.               *)
StarPressed ==
  /\ ui.over = "none" /\ Rarely
  /\ ui' = [Counted(ui) EXCEPT !.star = "down"]

Opens(u, over, screen) == Drawn([u EXCEPT !.star = "up", !.over = over], screen)

(* tick(): nothing is drawn before the third second, then once a second.     *)
StarHeld ==
  /\ ui.over = "none" /\ ui.star # "up"
  /\ \/ ui' = [ui EXCEPT !.star = "counting"]
     \/ ui' = Drawn([ui EXCEPT !.star = "counting"], HoldScreen)
     \/ ui' = Opens(ui, "menu", MenuScreen)
     \/ ui' = Opens(ui, "portal", PortalScreen)

StarLetGo ==
  /\ ui.over = "none" /\ ui.star # "up"
  /\ ui' = IF ui.star = "counting" THEN Opens(ui, "none", WaitingScreen)
                                   ELSE [ui EXCEPT !.star = "up"]

MenuChoice(o) ==
  /\ ui.over = "menu"
  /\ LET back == [ui EXCEPT !.over = "none"]
     IN  \/ o \in {1, 4} /\ ui' = Refresh(back)
         \/ o = 2 /\ ui' = ManualResync(back)
         \/ o = 3 /\ ui' = Opens(ui, "portal", PortalScreen)
         \/ o = 5 /\ ui' = Refresh(Fresh(ui.safe, ui.identity, ui.bundle))
         \/ o = 6 /\ ui' = Opens(ui, "info", InfoScreen)

(* Any key, '*' too.                                                        *)
InfoKey == ui.over = "info" /\ ui' = Opens(ui, "menu", MenuScreen)

(* AP_ACTIVE, TESTING and FAILED have a screen each; INACTIVE goes back.     *)
PortalDraws == ui.over = "portal" /\ ui' = Drawn(ui, PortalScreen)

PortalLeaves == ui.over = "portal" /\ ui' = Refresh([ui EXCEPT !.over = "none"])

-----------------------------------------------------------------------------
ScreensInit ==
  \E safe \in BOOLEAN, identity \in {"ACTIVE", "SUSPENDED"}, bundle \in {0, 1} :
    ui = Refresh(Fresh(safe, identity, bundle))

ScreensNext ==
  \/ ScreensPoll \/ Scanned \/ BusinessKey \/ BootstrapTaken
  \/ WifiChanges \/ Suspended \/ BundleActivated
  \/ StarPressed \/ StarHeld \/ StarLetGo
  \/ \E o \in 1..6 : MenuChoice(o)
  \/ InfoKey \/ PortalDraws \/ PortalLeaves

ScreensSpec == ScreensInit /\ [][ScreensNext]_ui

-----------------------------------------------------------------------------
ScreensTypeOK ==
  /\ ui.snap \in States \cup {NoState} /\ ui.step \in QtySteps
  /\ ui.buf \in Figures \cup {Blank} /\ {ui.defect, ui.rework} \subseteq Figures
  /\ ui.over \in Overlays /\ ui.star \in {"up", "down", "counting"}
  /\ ui.errorAge \in 0..ErrorPasses

(* A state's screen, a step's or the finish banner is on the display only    *)
(* while it is what the kiosk holds, with the figures it holds, drawn by the *)
(* bundle it uses, and nothing takes the display over (kiosk_runtime.cpp     *)
(* 170-314): no handler changes one of these and leaves the old screen.      *)
ShowsState == ui.display.id \in States \cup (QtySteps \ {"GOOD"})
ShownIsHeld ==
  /\ ShowsState => TakesOver(ui) = {} /\ ui.display = StateScreen(ui)
  /\ ui.display = FinishScreen => TakesOver(ui) = {} /\ ui.holding

(* An error goes away after its time, however many follow it meanwhile       *)
(* (kiosk_runtime.cpp:177-178).                                              *)
ErrorGoesAway == ui.errorUp => ui.errorFor < ErrorPasses

(* The waiting screen is for the time before the kiosk has a snapshot        *)
(* (docs/STATE_MACHINE.md:49-50, and :41-42 of what it shows once it has     *)
(* one).                                                                     *)
WaitingMeansNoSnapshot == ui.display = WaitingScreen => ui.snap = NoState
=============================================================================
