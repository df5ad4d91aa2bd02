------------------------------ MODULE WifiLink ------------------------------
(***************************************************************************)
(* network/wifi_manager over the radio.  The manager has a state of its    *)
(* own, follows the radio by asking it at every pass of loop(), gives up   *)
(* an attempt after 15 s and waits 10 s before the next.  The radio is     *)
(* shared with the setup portal, and while that is open loop() does not    *)
(* call the manager.                                                       *)
(***************************************************************************)
EXTENDS Naturals

CONSTANTS
  Net,       \* the networks, each with the password that opens it
  NoNet,
  Mixed,     \* the name of one network with the password of another: opens none
  MaxTrouble \* bound: what the environment does to the link

ASSUME LinkAssumption ==
  NoNet \notin Net /\ Mixed \notin Net \cup {NoNet} /\ MaxTrouble \in Nat

VARIABLES
  air,        \* the networks that can be joined
  assoc,      \* the radio: the network it is on (WL_CONNECTED), or NoNet
  joining,    \* the radio: the network it tries to join
  creds,      \* NVS: name (wifi_ssid) and pass (wifi_pass)
  torn,       \* history: of the last pair to be stored, not both puts were made
  ssid,       \* RAM: what begin() was given, as the network that it opens
  wm,         \* state_
  cooling,    \* whether next_retry_ms_ is still ahead
  everOn,     \* ever_connected_
  reconnects, \* reconnect_count_
  trouble     \* bound: what the environment may still do

radio     == <<assoc, joining>>
manager   == <<ssid, wm, cooling, everOn, reconnects>>
wifiNvs   == <<creds, torn>>
linkVars  == <<air, radio, wifiNvs, manager, trouble>>

Pair(n) == [name |-> n, pass |-> n]
Opens(c) == IF c.name = c.pass \/ c.name = NoNet THEN c.name ELSE Mixed

LinkInit ==
  /\ air \in SUBSET Net
  /\ creds \in {Pair(n) : n \in Net \cup {NoNet}} /\ ssid = Opens(creds) /\ torn = FALSE
  /\ assoc = NoNet /\ joining = ssid
  /\ wm = (IF ssid = NoNet THEN "DISCONNECTED" ELSE "CONNECTING")
  /\ cooling = FALSE /\ everOn = FALSE /\ reconnects = 0
  /\ trouble = MaxTrouble

-----------------------------------------------------------------------------
(* The radio: WiFi.begin() drops what it is on, WiFi.disconnect() too.       *)
RadioBegin(n) == assoc' = NoNet /\ joining' = n
RadioOff == assoc' = NoNet /\ joining' = NoNet

Joins ==
  /\ joining \in air
  /\ assoc' = joining /\ joining' = NoNet
  /\ UNCHANGED <<air, wifiNvs, manager, trouble>>

(* A network goes away, or comes back; the radio that was on it may try by   *)
(* itself to join it again.                                                  *)
AirChanges ==
  /\ trouble > 0 /\ trouble' = trouble - 1
  /\ \E n \in Net :
       /\ air' = IF n \in air THEN air \ {n} ELSE air \cup {n}
       /\ IF assoc = n THEN assoc' = NoNet /\ joining' \in {n, NoNet} ELSE UNCHANGED radio
  /\ UNCHANGED <<wifiNvs, manager>>

-----------------------------------------------------------------------------
(* set_state() *)
Becomes(s) ==
  /\ wm' = s
  /\ IF s = "CONNECTED"
     THEN IF everOn THEN reconnects' = reconnects + 1 /\ UNCHANGED everOn
                    ELSE everOn' = TRUE /\ UNCHANGED reconnects
     ELSE UNCHANGED <<everOn, reconnects>>

(* begin(), at boot, with what is stored.                                    *)
LinkBegin(stored) ==
  /\ creds' = stored /\ ssid' = Opens(stored)
  /\ wm' = IF ssid' = NoNet THEN "DISCONNECTED" ELSE "CONNECTING"
  /\ assoc' = NoNet /\ joining' = ssid'
  /\ cooling' = FALSE /\ everOn' = FALSE /\ reconnects' = 0

(* poll() *)
WmConnects ==
  /\ ssid # NoNet /\ wm = "CONNECTING" /\ assoc # NoNet
  /\ Becomes("CONNECTED")
  /\ UNCHANGED <<air, radio, wifiNvs, ssid, cooling, trouble>>

WmGivesUp ==
  /\ ssid # NoNet /\ wm = "CONNECTING" /\ assoc = NoNet
  /\ RadioOff
  /\ Becomes("DISCONNECTED")
  /\ cooling' = TRUE
  /\ UNCHANGED <<air, wifiNvs, ssid, trouble>>

WmDropped ==
  /\ ssid # NoNet /\ wm = "CONNECTED" /\ assoc = NoNet
  /\ Becomes("DISCONNECTED")
  /\ cooling' = TRUE
  /\ UNCHANGED <<air, radio, wifiNvs, ssid, trouble>>

CooldownOver ==
  /\ cooling /\ cooling' = FALSE
  /\ UNCHANGED <<air, radio, wifiNvs, ssid, wm, everOn, reconnects, trouble>>

WmRetriesWrong ==                                          \* WiFi.begin() forgotten
  /\ ssid # NoNet /\ wm = "DISCONNECTED" /\ ~cooling
  /\ Becomes("CONNECTING")
  /\ UNCHANGED <<air, radio, wifiNvs, ssid, cooling, trouble>>

WmRetries ==
  /\ ssid # NoNet /\ wm = "DISCONNECTED" /\ ~cooling
  /\ RadioBegin(ssid)
  /\ Becomes("CONNECTING")
  /\ UNCHANGED <<air, wifiNvs, ssid, cooling, trouble>>

WmPoll == WmConnects \/ WmGivesUp \/ WmDropped \/ WmRetries

(* retry_now(), from the recovery menu.                                      *)
RetryNow ==
  /\ cooling' = (cooling /\ wm # "DISCONNECTED")
  /\ UNCHANGED <<ssid, wm, everOn, reconnects>>

(* loop(): TCP connections go on failing though the radio says it is on;     *)
(* what the manager's own state is does not count.                           *)
ForceReconnect ==
  /\ trouble > 0 /\ trouble' = trouble - 1
  /\ RadioOff
  /\ Becomes("DISCONNECTED")
  /\ cooling' = FALSE
  /\ UNCHANGED <<air, wifiNvs, ssid>>
=============================================================================
