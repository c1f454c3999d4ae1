--------------------------- MODULE SetupWifiProofs ---------------------------
(***************************************************************************)
(* Proofs about SetupWifi: between tests the station is not connecting, a  *)
(* test that began without a connection reports its own access point or    *)
(* none.  The two hang together: the configuration is the test's name      *)
(* while a test runs and empty otherwise, and a station that is connecting *)
(* is connecting to what is configured, because the configuration cannot   *)
(* change under it.                                                        *)
(***************************************************************************)
EXTENDS SetupWifi, TLAPS

Window == {"connect", "delay", "disconnect", "clear"}

QuietOK  == http \in {"idle", "scan"} => /\ cfg = NoSsid
                                         /\ sta # "connecting"
TargetOK == sta = "connecting" => target = cfg
ConfigOK == http \in Window => cfg = test
FreshOK  == (http \in Window \ {"connect"} /\ fresh /\ sta = "connected")
                => target = test

\* From a test's disconnect on, a connection is to what it configured.
LeftoverOK == (http \in {"clear", "idle", "scan"} /\ sta = "connected")
                  => target = test

\* A configuration that cannot be set leaves its caller where it is.
PanicOK == panic => http = "clear" /\ sta = "connecting"

IInv == /\ TypeOK
        /\ QuietOK
        /\ TargetOK
        /\ ConfigOK
        /\ FreshOK
        /\ FreshTestReportsItsOwn
        /\ LeftoverOK
        /\ PanicOK

-----------------------------------------------------------------------------

LEMMA InitIInv == Init => IInv
<1> SUFFICES ASSUME Init
             PROVE  IInv
  OBVIOUS
<1>1. <<"STA_START">> \in Seq({"STA_START", "STA_DISCONNECTED",
                               "AP_STACONNECTED"})
  OBVIOUS
<1> QED
  BY <1>1, SetupWifiConstants DEF Init, IInv, TypeOK, QuietOK, TargetOK,
     ConfigOK, FreshOK, FreshTestReportsItsOwn, LeftoverOK, PanicOK, Ssid,
     Window

\* A step appends to the queue or takes from it; the rest has finite ranges.
LEMMA NextTypeOK == TypeOK /\ Next => TypeOK'
<1> SUFFICES ASSUME TypeOK, Next
             PROVE  TypeOK'
  OBVIOUS
<1> USE SetupWifiConstants
<1>1. CASE Connected
  BY <1>1 DEF TypeOK, Ssid, Connected
<1>2. CASE ConnectionLost
  BY <1>2 DEF TypeOK, Ssid, ConnectionLost, Drop
<1>3. CASE StationJoins
  BY <1>3 DEF TypeOK, Ssid, StationJoins
<1>4. CASE HandleConnect
  BY <1>4 DEF TypeOK, Ssid, HandleConnect, Connect, Takes
<1>5. CASE HandleJoin
  <2>1. evq' \in Seq({"STA_START", "STA_DISCONNECTED", "AP_STACONNECTED"})
    BY <1>5 DEF TypeOK, HandleJoin, Takes
  <2>2. server' \in BOOLEAN
    BY <1>5, Zenon DEF TypeOK, HandleJoin
  <2> QED
    BY <1>5, <2>1, <2>2 DEF TypeOK, Ssid, HandleJoin
<1>6. CASE TestConnect
  BY <1>6 DEF TypeOK, Ssid, TestConnect, Connect
<1>7. CASE TestDelayOver
  BY <1>7 DEF TypeOK, Ssid, TestDelayOver, ApInfo
<1>8. CASE TestDisconnect
  BY <1>8 DEF TypeOK, Ssid, TestDisconnect, Drop
<1>9. CASE TestClear
  BY <1>9 DEF TypeOK, Ssid, TestClear, SetConfig
<1>10. CASE ScanDone
  BY <1>10 DEF TypeOK, Ssid, ScanDone
<1>11. CASE TestRequest
  BY <1>11 DEF TypeOK, Ssid, TestRequest, SetConfig
<1>12. CASE ScanRequest
  BY <1>12 DEF TypeOK, Ssid, ScanRequest
<1>13. CASE Reboot
  <2>1. <<"STA_START">> \in Seq({"STA_START", "STA_DISCONNECTED",
                                 "AP_STACONNECTED"})
    OBVIOUS
  <2> QED
    BY <1>13, <2>1 DEF TypeOK, Ssid, Reboot
<1> QED
  BY <1>1, <1>2, <1>3, <1>4, <1>5, <1>6, <1>7, <1>8, <1>9, <1>10, <1>11,
     <1>12, <1>13
  DEF Next, Driver, EventLoop, HttpTest, PanicReboot

\* Every step keeps the relation of station, configuration and test.
LEMMA NextIInv == IInv /\ Next => IInv'
<1> SUFFICES ASSUME IInv, Next
             PROVE  IInv'
  OBVIOUS
<1> USE SetupWifiConstants
<1>0. TypeOK'
  BY NextTypeOK DEF IInv
<1>t. (QuietOK /\ TargetOK /\ ConfigOK /\ FreshOK /\ FreshTestReportsItsOwn
         /\ LeftoverOK)'
  <2>1. CASE Connected
    BY <2>1 DEF IInv, TypeOK, Ssid, Window, QuietOK, TargetOK, ConfigOK,
       FreshOK, FreshTestReportsItsOwn, LeftoverOK, Connected
  <2>2. CASE ConnectionLost
    BY <2>2 DEF IInv, TypeOK, Ssid, Window, QuietOK, TargetOK, ConfigOK,
       FreshOK, FreshTestReportsItsOwn, LeftoverOK, ConnectionLost, Drop
  <2>3. CASE StationJoins
    BY <2>3 DEF IInv, TypeOK, Ssid, Window, QuietOK, TargetOK, ConfigOK,
       FreshOK, FreshTestReportsItsOwn, LeftoverOK, StationJoins
  <2>4. CASE HandleConnect
    BY <2>4 DEF IInv, TypeOK, Ssid, Window, QuietOK, TargetOK, ConfigOK,
       FreshOK, FreshTestReportsItsOwn, LeftoverOK, HandleConnect, Connect,
       Takes
  <2>5. CASE HandleJoin
    BY <2>5 DEF IInv, TypeOK, Ssid, Window, QuietOK, TargetOK, ConfigOK,
       FreshOK, FreshTestReportsItsOwn, LeftoverOK, HandleJoin, Takes
  <2>6. CASE TestConnect
    BY <2>6 DEF IInv, TypeOK, Ssid, Window, QuietOK, TargetOK, ConfigOK,
       FreshOK, FreshTestReportsItsOwn, LeftoverOK, TestConnect, Connect
  <2>7. CASE TestDelayOver
    BY <2>7 DEF IInv, TypeOK, Ssid, Window, QuietOK, TargetOK, ConfigOK,
       FreshOK, FreshTestReportsItsOwn, LeftoverOK, TestDelayOver,
       ApInfo
  <2>8. CASE TestDisconnect
    BY <2>8 DEF IInv, TypeOK, Ssid, Window, QuietOK, TargetOK, ConfigOK,
       FreshOK, FreshTestReportsItsOwn, LeftoverOK, TestDisconnect, Drop
  <2>9. CASE TestClear
    BY <2>9 DEF IInv, TypeOK, Ssid, Window, QuietOK, TargetOK, ConfigOK,
       FreshOK, FreshTestReportsItsOwn, LeftoverOK, TestClear, SetConfig
  <2>10. CASE ScanDone
    BY <2>10 DEF IInv, TypeOK, Ssid, Window, QuietOK, TargetOK, ConfigOK,
       FreshOK, FreshTestReportsItsOwn, LeftoverOK, ScanDone
  <2>11. CASE TestRequest
    BY <2>11 DEF IInv, TypeOK, Ssid, Window, QuietOK, TargetOK, ConfigOK,
       FreshOK, FreshTestReportsItsOwn, LeftoverOK, TestRequest, SetConfig
  <2>12. CASE ScanRequest
    BY <2>12 DEF IInv, TypeOK, Ssid, Window, QuietOK, TargetOK, ConfigOK,
       FreshOK, FreshTestReportsItsOwn, LeftoverOK, ScanRequest
  <2>13. CASE Reboot
    BY <2>13 DEF IInv, TypeOK, Ssid, Window, QuietOK, TargetOK, ConfigOK,
       FreshOK, FreshTestReportsItsOwn, LeftoverOK, Reboot
  <2> QED
    BY <2>1, <2>2, <2>3, <2>4, <2>5, <2>6, <2>7, <2>8, <2>9, <2>10, <2>11,
       <2>12, <2>13
    DEF Next, Driver, EventLoop, HttpTest, PanicReboot
<1>p. PanicOK'
  <2>1. CASE panic
    <3>1. Reboot
      BY <2>1 DEF Next, PanicReboot
    <3> QED
      BY <3>1 DEF Reboot, PanicOK
  <2>2. CASE ~panic
    <3>1. CASE TestClear
      BY <2>2, <3>1 DEF TestClear, SetConfig, PanicOK
    <3>2. CASE TestRequest
      BY <2>2, <3>2 DEF TestRequest, SetConfig, PanicOK, IInv, QuietOK
    <3>3. CASE Reboot
      BY <3>3 DEF Reboot, PanicOK
    <3>4. TestClear \/ TestRequest \/ Reboot \/ UNCHANGED panic
      BY DEF Next, Driver, EventLoop, HttpTest, PanicReboot, Connected,
             ConnectionLost, StationJoins, HandleConnect, HandleJoin,
             TestConnect, TestDelayOver, TestDisconnect, ScanDone, ScanRequest
    <3> QED
      BY <2>2, <3>1, <3>2, <3>3, <3>4 DEF PanicOK
  <2> QED
    BY <2>1, <2>2
<1> QED
  BY <1>0, <1>t, <1>p DEF IInv

LEMMA StutterIInv == IInv /\ UNCHANGED vars => IInv'
BY DEF IInv, vars, TypeOK, Ssid, Window, QuietOK, TargetOK, ConfigOK, FreshOK,
   FreshTestReportsItsOwn, LeftoverOK, PanicOK

\* The inductive invariant holds in every reachable state.
THEOREM Invariance == Spec => []IInv
<1>1. IInv /\ [Next]_vars => IInv'
  BY NextIInv, StutterIInv
<1> QED
  BY InitIInv, <1>1, PTL DEF Spec

\* The variables of the station, the event queue and the test keep their types.
THEOREM TypeCorrect == Spec => []TypeOK
<1>1. IInv => TypeOK
  BY DEF IInv
<1> QED
  BY Invariance, <1>1, PTL

\* Between tests the station is not connecting (wifi_manager.h:59 and 219),
\* however many DISCONNECTED events of earlier tests are still queued.
THEOREM QuietCorrect == Spec => []QuietBetweenTests
<1>1. IInv => QuietBetweenTests
  BY DEF IInv, QuietOK, QuietBetweenTests
<1> QED
  BY Invariance, <1>1, PTL

\* A test that began without a connection reports the access point it asked
\* for, or none, for any number of access points and of queued events.
THEOREM FreshTestCorrect == Spec => []FreshTestReportsItsOwn
<1>1. IInv => FreshTestReportsItsOwn
  BY DEF IInv
<1> QED
  BY Invariance, <1>1, PTL

\* Setting the configuration fails only at the end of a test, while a retry
\* connects to the network that was tested (wifi_manager.h:219 and 261).
THEOREM OnlyARetryPanicsCorrect == Spec => []OnlyARetryPanics
<1>1. IInv => OnlyARetryPanics
  BY DEF IInv, PanicOK, TargetOK, ConfigOK, Window, OnlyARetryPanics
<1> QED
  BY Invariance, <1>1, PTL

\* What a retry leaves connected after a test is the network of that test
\* (wifi_manager.h:59), however many tests and retries there were before.
THEOREM LeftoverCorrect == Spec => []LeftoverIsOfLastTest
<1>1. IInv => LeftoverIsOfLastTest
  BY DEF IInv, LeftoverOK, LeftoverIsOfLastTest
<1> QED
  BY Invariance, <1>1, PTL

=============================================================================
