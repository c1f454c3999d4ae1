------------------------------ MODULE SetupWifi ------------------------------
(***************************************************************************)
(* The station interface in set-up mode: wifi_manager.h and the WebSocket  *)
(* states 1 (scan) and 2 (test) of config_mode.h.                          *)
(*                                                                         *)
(* Two tasks use the Wi-Fi driver at the same time.  The event loop's task *)
(* runs wifi_event_handler for one event after the other and reconnects on *)
(* every DISCONNECTED.  The HTTP server's task tests an access point: it   *)
(* configures the station, connects, waits, asks what it is connected to,  *)
(* disconnects and clears the configuration, and only then takes the next  *)
(* message.                                                                *)
(*                                                                         *)
(* The driver is external.  Its contract, as the code uses it: connecting  *)
(* needs a configured name and an idle station; the configuration cannot   *)
(* be set, and no scan started, while the station is connecting; a         *)
(* connection that fails, is lost or is given up posts DISCONNECTED.       *)
(* mqtt_manager.h is not reached from the handler: status is 0 for ever.   *)
(***************************************************************************)
EXTENDS Naturals, Sequences

CONSTANTS AP,       \* the names a test may ask for
          NoSsid,   \* the empty name
          MaxEvents \* a request or a join comes only below this queue length

\* The empty text of get_ap_info, and the reply of a test
\* whose esp_wifi_connect failed.
Nothing      == "nothing"
NotConnected == "Wifi Not Connect"

ASSUME SetupWifiConstants ==
    /\ NoSsid \notin AP
    /\ {Nothing, NotConnected} \cap (AP \cup {NoSsid}) = {}
    /\ MaxEvents \in Nat

VARIABLES sta,    \* the station: "idle", "connecting" or "connected"
          target, \* the access point it is connecting or connected to
          cfg,    \* the name in the driver's station configuration
          evq,    \* the event loop's queue
          server, \* the HTTP server runs (the global "server")
          http,   \* where the HTTP server's task is
          test,   \* the name the current test asks for
          err,    \* what esp_wifi_connect returned to the test
          fresh,  \* the station was not connected when the test connected it
          reply,  \* "Wifi_state" of the test's reply, once it is known
          panic   \* an ESP_ERROR_CHECK failed

vars == <<sta, target, cfg, evq, server, http, test, err, fresh, reply, panic>>

Ssid == AP \cup {NoSsid}

TypeOK ==
    /\ sta \in {"idle", "connecting", "connected"}
    /\ target \in Ssid
    /\ cfg \in Ssid
    /\ evq \in Seq({"STA_START", "STA_DISCONNECTED", "AP_STACONNECTED"})
    /\ server \in BOOLEAN
    /\ http \in {"idle", "scan", "connect", "delay", "disconnect", "clear"}
    /\ test \in Ssid
    /\ err \in {"ok", "fail"}
    /\ fresh \in BOOLEAN
    /\ reply \in Ssid \cup {Nothing, NotConnected}
    /\ panic \in BOOLEAN

\* wifi_start_ap has configured an empty station and started the driver.
Init ==
    /\ sta = "idle"
    /\ target = NoSsid
    /\ cfg = NoSsid
    /\ evq = <<"STA_START">>
    /\ server = FALSE
    /\ http = "idle"
    /\ test = NoSsid
    /\ err = "ok"
    /\ fresh = TRUE
    /\ reply = Nothing
    /\ panic = FALSE

-----------------------------------------------------------------------------
(* The driver.                                                             *)

\* esp_wifi_connect returns result.
Connect(result) ==
    \/ /\ sta = "idle" /\ cfg # NoSsid
       /\ sta' = "connecting"
       /\ target' = cfg
       /\ result = "ok"
    \/ /\ sta = "idle" \/ result = "fail"
       /\ UNCHANGED <<sta, target>>
       /\ result = "fail"
    \/ /\ sta # "idle"
       /\ UNCHANGED <<sta, target>>
       /\ result = "ok"

Drop ==
    /\ sta' = "idle"
    /\ target' = NoSsid
    /\ evq' = Append(evq, "STA_DISCONNECTED")

Connected ==
    /\ sta = "connecting"
    /\ sta' = "connected"
    /\ UNCHANGED <<target, cfg, evq, server, http, test, err, fresh, reply,
                   panic>>

\* The access point is out of reach, refuses the password or goes away.
ConnectionLost ==
    /\ sta # "idle"
    /\ Drop
    /\ UNCHANGED <<cfg, server, http, test, err, fresh, reply, panic>>

\* A browser's station joins the access point of the device.
StationJoins ==
    /\ Len(evq) < MaxEvents
    /\ evq' = Append(evq, "AP_STACONNECTED")
    /\ UNCHANGED <<sta, target, cfg, server, http, test, err, fresh, reply,
                   panic>>

-----------------------------------------------------------------------------
(* wifi_event_handler.                                                     *)

Takes(event) == evq # <<>> /\ Head(evq) = event /\ evq' = Tail(evq)

\* STA_START connects and STA_DISCONNECTED connects again; neither looks at
\* the result.
HandleConnect ==
    /\ Takes("STA_START") \/ Takes("STA_DISCONNECTED")
    /\ \E result \in {"ok", "fail"} : Connect(result)
    /\ UNCHANGED <<cfg, server, http, test, err, fresh, reply, panic>>

\* The server is started unless it runs; start_webserver may fail.
HandleJoin ==
    /\ Takes("AP_STACONNECTED")
    /\ server' \in {server, TRUE}
    /\ UNCHANGED <<sta, target, cfg, http, test, err, fresh, reply, panic>>

-----------------------------------------------------------------------------
(* The HTTP server's task: one message at a time.                          *)

\* Variant: without the ESP_ERROR_CHECK.
SetConfigUnchecked(ssid, point) ==
    /\ cfg' = IF sta # "connecting" THEN ssid ELSE cfg
    /\ http' = point
    /\ UNCHANGED panic

\* esp_wifi_set_config under ESP_ERROR_CHECK, then the next point.
SetConfig(ssid, point) ==
    \/ /\ sta # "connecting"
       /\ cfg' = ssid
       /\ http' = point
       /\ UNCHANGED panic
    \/ /\ sta = "connecting"
       /\ panic' = TRUE
       /\ UNCHANGED <<cfg, http>>

\* State 2: setup_wifi_connect configures the station.
TestRequest ==
    /\ server /\ http = "idle" /\ Len(evq) < MaxEvents
    /\ \E ssid \in Ssid : test' = ssid /\ SetConfig(ssid, "connect")
    /\ UNCHANGED <<sta, target, evq, server, err, fresh, reply>>

TestConnect ==
    /\ http = "connect"
    /\ \E result \in {"ok", "fail"} : Connect(result) /\ err' = result
    /\ fresh' = (sta # "connected")
    /\ http' = "delay"
    /\ UNCHANGED <<cfg, evq, server, test, reply, panic>>

\* Variant: the access point's record is used without a look at the error.
TestDelayOverNoCheck ==
    /\ http = "delay"
    /\ \/ err = "ok" /\ sta = "connected" /\ reply' = target
       \/ err = "ok" /\ sta # "connected" /\ reply' = "uninitialised"
       \/ err = "fail" /\ reply' = NotConnected
    /\ http' = "disconnect"
    /\ UNCHANGED <<sta, target, cfg, evq, server, test, err, fresh, panic>>

\* Variant: the test waits for the connection, however long it takes.
TestDelayOverConnected ==
    /\ http = "delay"
    /\ \/ err = "ok" /\ sta = "connected" /\ reply' = target
       \/ err = "fail" /\ reply' = NotConnected
    /\ http' = "disconnect"
    /\ UNCHANGED <<sta, target, cfg, evq, server, test, err, fresh, panic>>

\* get_ap_info: the text is empty without a connection, and without memory.
ApInfo == IF sta = "connected" THEN {target, Nothing} ELSE {Nothing}

\* After vTaskDelay(1000): get_ap_info, if connecting succeeded.
TestDelayOver ==
    /\ http = "delay"
    /\ \/ err = "ok" /\ reply' \in ApInfo
       \/ err = "fail" /\ reply' = NotConnected
    /\ http' = "disconnect"
    /\ UNCHANGED <<sta, target, cfg, evq, server, test, err, fresh, panic>>

\* Variant: the station stays connected.
TestDisconnectNot ==
    /\ http = "disconnect"
    /\ http' = "clear"
    /\ UNCHANGED <<sta, target, cfg, evq, server, test, err, fresh, reply,
                   panic>>

TestDisconnect ==
    /\ http = "disconnect"
    /\ \/ sta # "idle" /\ Drop
       \/ sta = "idle" /\ UNCHANGED <<sta, target, evq>>
    /\ http' = "clear"
    /\ UNCHANGED <<cfg, server, test, err, fresh, reply, panic>>

\* Variant: the configuration of the test is kept.
TestClearNot ==
    /\ http = "clear"
    /\ http' = "idle"
    /\ UNCHANGED <<sta, target, cfg, evq, server, test, err, fresh, reply,
                   panic>>

\* clear_sta_config, and the reply is sent.
TestClear ==
    /\ http = "clear"
    /\ SetConfig(NoSsid, "idle")
    /\ UNCHANGED <<sta, target, evq, server, test, err, fresh, reply>>

\* State 1: wifi_scan_ap starts a blocking scan, whose result it ignores.
ScanRequest ==
    /\ server /\ http = "idle"
    /\ http' = "scan"
    /\ UNCHANGED <<sta, target, cfg, evq, server, test, err, fresh, reply,
                   panic>>

\* The results are read under ESP_ERROR_CHECK (wifi_manager.h:99, 100, 124,
\* 125).  When these calls fail is not known of the driver: a scan that panics
\* is one during which the device reboots, as it may at any time.
ScanDone ==
    /\ http = "scan"
    /\ http' = "idle"
    /\ UNCHANGED <<sta, target, cfg, evq, server, test, err, fresh, reply,
                   panic>>

-----------------------------------------------------------------------------

\* A failed ESP_ERROR_CHECK reboots the device, and so does the button.
Reboot ==
    /\ sta' = "idle"
    /\ target' = NoSsid
    /\ cfg' = NoSsid
    /\ evq' = <<"STA_START">>
    /\ server' = FALSE
    /\ http' = "idle"
    /\ test' = NoSsid
    /\ err' = "ok"
    /\ fresh' = TRUE
    /\ reply' = Nothing
    /\ panic' = FALSE

PanicReboot == panic /\ Reboot

Driver    == Connected \/ ConnectionLost
EventLoop == HandleConnect \/ HandleJoin
HttpTest  == TestConnect \/ TestDelayOver \/ TestDisconnect \/ TestClear

Next ==
    \/ ~panic /\ Driver
    \/ ~panic /\ StationJoins
    \/ ~panic /\ EventLoop
    \/ ~panic /\ HttpTest
    \/ ~panic /\ ScanDone
    \/ ~panic /\ (TestRequest \/ ScanRequest)
    \/ PanicReboot
    \/ Reboot

Spec == Init /\ [][Next]_vars

\* A message is worked off once it is taken, events are handled, a panic
\* reboots; nothing is assumed of the driver's connections or of requests.
Fairness ==
    /\ WF_vars(~panic /\ HttpTest)
    /\ WF_vars(~panic /\ EventLoop)
    /\ WF_vars(PanicReboot)

FairSpec == Spec /\ Fairness

-----------------------------------------------------------------------------

(***************************************************************************)
(* Between tests the station is not connecting, whatever DISCONNECTED      *)
(* events of earlier tests the event loop still has to handle.  So the     *)
(* ESP_ERROR_CHECK of setup_wifi_connect (wifi_manager.h:219) holds for    *)
(* every test, and the driver refuses no scan.                             *)
(***************************************************************************)
QuietBetweenTests == http \in {"idle", "scan"} => sta # "connecting"

(***************************************************************************)
(* A test that began with a station that was not connected reports the     *)
(* access point it asked for, or none: a retry of the event handler (line  *)
(* 59) that runs in the middle of it never brings up an earlier test's     *)
(* access point.                                                           *)
(***************************************************************************)
FreshTestReportsItsOwn ==
    http \in {"disconnect", "clear"} /\ fresh /\ reply \in Ssid
        => reply = test

(***************************************************************************)
(* Setting the configuration fails only in clear_sta_config (line 261),    *)
(* and only while the event handler connects anew to the very network that *)
(* was tested.  In setup_wifi_connect (line 219) it never fails: a test    *)
(* does not reset the device before it has looked for its result.          *)
(***************************************************************************)
OnlyARetryPanics ==
    panic => http = "clear" /\ sta = "connecting" /\ target = test

(***************************************************************************)
(* A connection that a retry left behind after a test is to the network of *)
(* the last test, never of an earlier one: so a test that finds a          *)
(* connection, and reports it for its own, reports that of the test just   *)
(* before (wifi_manager.h:59, config_mode.h:100-119).                      *)
(***************************************************************************)
LeftoverIsOfLastTest ==
    http \in {"idle", "scan"} /\ sta = "connected" => target = test

(***************************************************************************)
(* A test ends, with its reply or with a reboot, also while the event      *)
(* handler and the driver reconnect and fail for ever.                     *)
(***************************************************************************)
TestEnds == http = "connect" ~> http = "idle"

(***************************************************************************)
(* The event handler retries on every DISCONNECTED (line 59) and the       *)
(* disconnect of a test is a DISCONNECTED like any other.  Once no further *)
(* test is made the retries stop, because each test clears the             *)
(* configuration before it ends.                                           *)
(***************************************************************************)
Retrying == \/ sta = "connecting"
            \/ \E i \in DOMAIN evq : evq[i] = "STA_DISCONNECTED"

RetriesStop == <>[](http \in {"idle", "scan"}) => <>[]~Retrying

(***************************************************************************)
(* clear_sta_config asserts that the station can be configured after the   *)
(* test has disconnected it (ESP_ERROR_CHECK, wifi_manager.h:261); the     *)
(* event handler may be connecting it again by then (line 59).             *)
(***************************************************************************)
ClearSucceeds == http = "clear" => ~panic

=============================================================================
