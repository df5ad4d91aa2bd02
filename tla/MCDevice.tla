------------------------------ MODULE MCDevice ------------------------------
(***************************************************************************)
(* For TLC: the parts of the kiosk that share no state, checked in one     *)
(* run.  The initial state says which part moves; the others stay as they  *)
(* are.  The fairness of each part is what loop() and the network task     *)
(* give it: they go on; nothing is said of people, heap, power or server.  *)
(***************************************************************************)
EXTENDS NetworkTraffic, UiBundle, DeviceSequence, RecoverySupervisor, RecoveryHistory,
        Keypad, WifiRecovery, Bootstrap

VARIABLE part

Part == {"network", "bundle", "sequence", "recovery", "history", "keypad", "wifi", "bootstrap"}

recoveryOnly  == <<keyDown, hold, flows, cand, acted>>
bootstrapOnly == <<endpoint, asking, requests, answer>>
deviceVars == <<part, vars, bundleVars, seqVars, recVars, ringVars, padVars,
                linkVars, recoveryOnly, bootstrapOnly>>

(* A part that does not move has one initial state.  Nothing tells one       *)
(* network from another, so the one that is stored may be any.               *)
Home == CHOOSE n \in Net : TRUE
StillParts ==
  /\ part # "bundle" => desired = CHOOSE v \in Versions : TRUE
  /\ part # "keypad" => ~calibrated
  /\ ssid \in {NoNet, Home}
  /\ part \notin {"wifi", "bootstrap"} => ssid = Home /\ air = {}
  /\ part # "bootstrap" => endpoint

DeviceInit ==
  /\ part \in Part
  /\ Init /\ BundleInit /\ SeqInit /\ RecInit /\ RingInit /\ PadInit
  /\ WifiRecoveryInit
  /\ endpoint \in BOOLEAN /\ BootstrapStarts
  /\ part = "bootstrap" => ssid # NoNet
  /\ StillParts

(* Nor does anything tell one request of a tier from another: they are named *)
(* in the order of the calls.                                                *)
NamedInOrder ==
  \A T \in {High, Low} :
    Made' \cap T \subseteq Made \cup {CHOOSE r \in T : r \notin Made \/ T \subseteq Made}

InNetwork(A) ==
  /\ part = "network" /\ A
  /\ UNCHANGED <<part, bundleVars, seqVars, recVars, ringVars, padVars, linkVars,
                 recoveryOnly, bootstrapOnly>>
InBundle(A) ==
  /\ part = "bundle" /\ A
  /\ UNCHANGED <<part, vars, seqVars, recVars, ringVars, padVars, linkVars,
                 recoveryOnly, bootstrapOnly>>
InSequence(A) ==
  /\ part = "sequence" /\ A
  /\ UNCHANGED <<part, vars, bundleVars, recVars, ringVars, padVars, linkVars,
                 recoveryOnly, bootstrapOnly>>
InRecovery(A) ==
  /\ part = "recovery" /\ A
  /\ UNCHANGED <<part, vars, bundleVars, seqVars, ringVars, padVars, linkVars,
                 recoveryOnly, bootstrapOnly>>
InHistory(A) ==
  /\ part = "history" /\ A
  /\ UNCHANGED <<part, vars, bundleVars, seqVars, recVars, padVars, linkVars,
                 recoveryOnly, bootstrapOnly>>
InKeypad(A) ==
  /\ part = "keypad" /\ A
  /\ UNCHANGED <<part, vars, bundleVars, seqVars, recVars, ringVars, linkVars,
                 recoveryOnly, bootstrapOnly>>
InWifi(A) ==
  /\ part = "wifi" /\ A
  /\ UNCHANGED <<part, vars, bundleVars, seqVars, recVars, ringVars, padVars, bootstrapOnly>>
InBootstrap(A) ==
  /\ part = "bootstrap" /\ A
  /\ UNCHANGED <<part, vars, bundleVars, seqVars, recVars, ringVars, padVars, recoveryOnly>>

DeviceNext ==
  \/ InNetwork(Next /\ NamedInOrder)
  \/ InBundle(BundleNext)
  \/ InSequence(SeqNext)
  \/ InRecovery(RecNext)
  \/ InHistory(RingNextStep)
  \/ InKeypad(PadNext)
  \/ InWifi(WifiRecoveryNext)
  \/ InBootstrap(BootstrapNext)

(* One part moves in a behaviour, so that fairness of a disjunction over the *)
(* parts is fairness of the disjunct of that part.                           *)
Turns ==
  \/ InNetwork(Task)
  \/ InBundle(CheckDesired(Text(desired, "good"), TRUE))
  \/ InRecovery(RecBoot \/ PutCode \/ PutStreakAndRestart)
  \/ InKeypad(PadPoll)
  \/ InWifi(LoopPollsWifi)
  \/ InBootstrap(LinkMoves(WmPoll))
Answers ==
  \/ InNetwork(Poll)
  \/ InBundle(Fetched)
  \/ InRecovery(LowMemoryCheck \/ DiagnosticsTick \/ StallReboot)
  \/ InKeypad(GlitchPasses)
  \/ InWifi(RetryIsDue)
  \/ InBootstrap(LinkMoves(CooldownOver))
Completes == InBundle(SyncPoll) \/ InWifi(TestSucceeds \/ PutPassword) \/ InBootstrap(Rearm \/ Ask \/ AskNowhere \/ Take)
Expires == InWifi(TestFails) \/ InBootstrap(RetryDue)
Idles   == InWifi(IdleStop) \/ InBootstrap(Answered)
Joined  == InWifi(RadioJoins) \/ InBootstrap(LinkMoves(Joins))

DeviceFairness ==
  /\ WF_deviceVars(Turns) /\ WF_deviceVars(Answers) /\ WF_deviceVars(Completes)
  /\ WF_deviceVars(Expires) /\ WF_deviceVars(Idles) /\ SF_deviceVars(Joined)

DeviceSpec == DeviceInit /\ [][DeviceNext]_deviceVars /\ DeviceFairness

-----------------------------------------------------------------------------
(* Every part's type invariant.                                              *)
DeviceTypeOK ==
  /\ TypeOK /\ BundleTypeOK /\ SeqTypeOK /\ RecTypeOK /\ PadTypeOK
  /\ WifiRecoveryTypeOK /\ BootstrapTypeOK

(* UiBundle's UpdateLands and Bootstrap's BootstrapEnds promise something of *)
(* a kiosk whose loop() does nothing else, too; here, where they move.       *)
UpdateLandsHere   == part = "bundle" => UpdateLands
BootstrapEndsHere == part = "bootstrap" => BootstrapEnds
=============================================================================
