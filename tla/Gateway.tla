------------------------------ MODULE Gateway ------------------------------
(***************************************************************************)
(* The gateway's mode: app_main (main.c), the button (Setup_mode_button.h) *)
(* and the two WebSocket commands that write NVS (config_mode.h, states 6  *)
(* and 7), with the NVS functions they call step by step.                  *)
(*                                                                         *)
(* Three tasks run: "main" executes app_main once per boot, "gpio_task"    *)
(* handles button events from a queue that the interrupt handler fills,    *)
(* "httpd" handles one WebSocket message at a time once a station has      *)
(* joined the access point.  esp_restart in any task, a failed             *)
(* ESP_ERROR_CHECK and a power cut reset all of them; only the flash       *)
(* remains.                                                                *)
(***************************************************************************)
EXTENDS NvsManager

CONSTANTS QueueLength, \* items of gpio_evt_queue: 10 in the code
          PowerCuts    \* whether the power may fail

\* The macros Gateway_mode, KEY_NAME and KEY_cons.
CONFIG == "CONFIG"
MODE   == "mode"
CONS   == "cons"

ASSUME GatewayConstants ==
    /\ Task = {"main", "gpio_task", "httpd"}
    /\ Key = {CONFIG, MODE, CONS}
    /\ {0, 1} \subseteq Value
    /\ QueueLength \in Nat \ {0}
    /\ PowerCuts \in BOOLEAN

VARIABLES app,        \* where app_main is
          saved_data, \* the mode app_main read, NoEntry before it did
          queue,      \* the number of events in gpio_evt_queue
          isr,        \* the interrupt handler is installed
          btn,        \* where gpio_task is
          wifi,       \* the access point is up
          server,     \* the HTTP server runs
          http,       \* where the HTTP server's task is
          panic       \* a failed ESP_ERROR_CHECK outside the NVS functions

appVars == <<app, saved_data, queue, isr, btn, wifi, server, http, panic>>
vars    == <<nvsVars, appVars>>

TypeOK ==
    /\ NvsTypeOK
    /\ app \in {"init_nvs", "wifi_init", "gpio_init", "get_mode", "switch",
                "done"}
    /\ saved_data \in Entry
    /\ queue \in 0 .. QueueLength
    /\ isr \in BOOLEAN
    /\ btn \in {"none", "wait", "save", "save_again", "restart"}
    /\ wifi \in BOOLEAN
    /\ server \in BOOLEAN
    /\ http \in {"idle", "reinit", "close_save", "close_read", "delay"}
    /\ panic \in BOOLEAN

-----------------------------------------------------------------------------
(* Resets.                                                                 *)

\* Variant: app_main without init_nvs.
BootFramesNoInit ==
    [t \in Task |-> IF t = "main"
                    THEN [NewFrame(InitNvs, CONFIG, NoEntry) EXCEPT
                             !.at = "returned"]
                    ELSE IdleFrame]

\* The frames of a boot: app_main is inside init_nvs, nothing else runs.
BootFrames ==
    [t \in Task |-> IF t = "main" THEN NewFrame(InitNvs, CONFIG, NoEntry)
                                  ELSE IdleFrame]

BootApp ==
    /\ app = "init_nvs"
    /\ saved_data = NoEntry
    /\ queue = 0
    /\ isr = FALSE
    /\ btn = "none"
    /\ wifi = FALSE
    /\ server = FALSE
    /\ http = "idle"
    /\ panic = FALSE

Init == NvsInit /\ call = BootFrames /\ BootApp

\* Every task and its memory is gone, and the boot begins again.
Reboot ==
    /\ NvsReset
    /\ call' = BootFrames
    /\ app' = "init_nvs"
    /\ saved_data' = NoEntry
    /\ queue' = 0
    /\ isr' = FALSE
    /\ btn' = "none"
    /\ wifi' = FALSE
    /\ server' = FALSE
    /\ http' = "idle"
    /\ panic' = FALSE

Panicking == panic \/ \E t \in Task : Aborted(t)

PanicReboot == Panicking /\ Reboot

PowerCut == PowerCuts /\ Reboot

-----------------------------------------------------------------------------
(* app_main.                                                               *)

\* A function returned to its caller, which calls nothing next.
Consume(t, fn) ==
    /\ Returned(t, fn)
    /\ call' = [call EXCEPT ![t] = IdleFrame]

\* init_nvs and init_spiffs: app_main looks at neither result.
AppInitDone ==
    /\ app = "init_nvs"
    /\ Consume("main", InitNvs)
    /\ app' = "wifi_init"
    /\ UNCHANGED <<flash, staged, part, pages, open, leaked, faults,
                   saved_data, queue, isr, btn, wifi, server, http, panic>>

\* wifi_init: netif, event loop and event handler, each ESP_ERROR_CHECKed.
AppWifiInit ==
    /\ app = "wifi_init"
    /\ \/ app' = "gpio_init" /\ UNCHANGED <<panic, faults>>
       \/ Fault /\ panic' = TRUE /\ UNCHANGED app
    /\ UNCHANGED <<flash, staged, part, pages, open, leaked, call,
                   saved_data, queue, isr, btn, wifi, server, http>>

\* gpio_button_mode_init, which checks nothing: without the queue the task
\* asserts in its first xQueueReceive; a task that is not created, or an
\* interrupt service that is not installed, is not noticed.  app_main then
\* enters get_saved_data_32_from_flash(NVS_NAMESPACE, Gateway_mode).
AppGpioInit ==
    /\ app = "gpio_init"
    /\ app' = "get_mode"
    /\ \/ btn' = "wait" /\ isr' = TRUE /\ UNCHANGED <<panic, faults>>
       \/ Fault /\ isr' = TRUE /\ UNCHANGED <<btn, panic>>
       \/ Fault /\ btn' = "wait" /\ UNCHANGED <<isr, panic>>
       \/ Fault /\ panic' = TRUE /\ UNCHANGED <<btn, isr>>
    /\ Enter("main", GetU32, CONFIG, NoEntry)
    /\ UNCHANGED <<flash, staged, part, pages, open, leaked,
                   saved_data, queue, wifi, server, http>>

AppGotMode ==
    /\ app = "get_mode"
    /\ Consume("main", GetU32)
    /\ saved_data' = call["main"].val
    /\ app' = "switch"
    /\ UNCHANGED <<flash, staged, part, pages, open, leaked, faults,
                   queue, isr, btn, wifi, server, http, panic>>

\* Variant: wifi_start_ap without ESP_ERROR_CHECK.
AppSetupModeUnchecked ==
    /\ app = "switch" /\ saved_data = 0
    /\ \/ part = "ready" /\ wifi' = TRUE /\ UNCHANGED faults
       \/ part = "uninit" /\ UNCHANGED <<wifi, faults>>
       \/ Fault /\ UNCHANGED wifi
    /\ app' = "done"
    /\ UNCHANGED <<flash, staged, part, pages, open, leaked, call,
                   saved_data, queue, isr, btn, server, http, panic>>

\* case 0: wifi_start_ap, whose driver keeps its own data in NVS and refuses
\* to start without it; every call of it is ESP_ERROR_CHECKed.
AppSetupMode ==
    /\ app = "switch" /\ saved_data = 0
    /\ \/ part = "ready" /\ wifi' = TRUE /\ UNCHANGED <<panic, faults>>
       \/ part = "uninit" /\ panic' = TRUE /\ UNCHANGED <<wifi, faults>>
       \/ Fault /\ panic' = TRUE /\ UNCHANGED wifi
    /\ app' = "done"
    /\ UNCHANGED <<flash, staged, part, pages, open, leaked, call,
                   saved_data, queue, isr, btn, server, http>>

\* case 1 and default: nothing is started.
AppOtherMode ==
    /\ app = "switch" /\ saved_data # 0
    /\ app' = "done"
    /\ UNCHANGED <<nvsVars, saved_data, queue, isr, btn, wifi, server, http,
                   panic>>

-----------------------------------------------------------------------------
(* The button.                                                             *)

\* Variant: a queue that grows.
ReleaseUnbounded ==
    /\ isr
    /\ queue' = queue + 1
    /\ UNCHANGED <<nvsVars, app, saved_data, isr, btn, wifi, server, http,
                   panic>>

\* gpio_isr_handler on the rising edge; an event that finds the queue full
\* is dropped.
Release ==
    /\ isr /\ queue < QueueLength
    /\ queue' = queue + 1
    /\ UNCHANGED <<nvsVars, app, saved_data, isr, btn, wifi, server, http,
                   panic>>

\* Variant: the other value, as in the disabled gpio_task (line 63).
SaveOperationMode == Enter("gpio_task", SaveU32, CONFIG, 1)

SaveSetupMode == Enter("gpio_task", SaveU32, CONFIG, 0)

BtnReceive ==
    /\ btn = "wait" /\ queue > 0
    /\ queue' = queue - 1
    /\ btn' = "save"
    /\ SaveSetupMode
    /\ UNCHANGED <<flash, staged, part, pages, open, leaked, faults,
                   app, saved_data, isr, wifi, server, http, panic>>

\* Variant: one save only.
BtnSavedOnce ==
    /\ btn = "save"
    /\ Consume("gpio_task", SaveU32)
    /\ btn' = "restart"
    /\ UNCHANGED <<flash, staged, part, pages, open, leaked, faults,
                   app, saved_data, queue, isr, wifi, server, http, panic>>

\* The first save's result is not looked at; the event's pin is always
\* setup_mode_button, so the same save is made again.
BtnSaved ==
    /\ btn = "save"
    /\ Returned("gpio_task", SaveU32)
    /\ btn' = "save_again"
    /\ SaveSetupMode
    /\ UNCHANGED <<flash, staged, part, pages, open, leaked, faults,
                   app, saved_data, queue, isr, wifi, server, http, panic>>

\* Variant: Setup_mode_button.h:37 without esp_restart.
BtnSavedAgainNoRestart ==
    /\ btn = "save_again"
    /\ Consume("gpio_task", SaveU32)
    /\ btn' = "wait"
    /\ UNCHANGED <<flash, staged, part, pages, open, leaked, faults,
                   app, saved_data, queue, isr, wifi, server, http, panic>>

BtnSavedAgain ==
    /\ btn = "save_again"
    /\ Consume("gpio_task", SaveU32)
    /\ btn' = "restart"
    /\ UNCHANGED <<flash, staged, part, pages, open, leaked, faults,
                   app, saved_data, queue, isr, wifi, server, http, panic>>

BtnRestart == btn = "restart" /\ Reboot

-----------------------------------------------------------------------------
(* The HTTP server's task.                                                 *)

\* WIFI_EVENT_AP_STACONNECTED: the server is started unless it runs; when it
\* cannot be started the next station to join tries again.
StationJoins ==
    /\ wifi /\ ~server
    /\ \/ server' = TRUE /\ UNCHANGED faults
       \/ Fault /\ UNCHANGED server
    /\ UNCHANGED <<flash, staged, part, pages, open, leaked, call,
                   app, saved_data, queue, isr, btn, wifi, http, panic>>

\* Variant: config_mode.h:157 without esp_restart.
HttpNoRestart ==
    /\ http = "delay"
    /\ http' = "idle"
    /\ UNCHANGED <<nvsVars, app, saved_data, queue, isr, btn, wifi, server,
                   panic>>

\* Variant: the key of the mode for KEY_cons.
HttpReinitMode ==
    /\ server /\ http = "idle"
    /\ Enter("httpd", SaveU32, CONFIG, 0)
    /\ http' = "reinit"
    /\ UNCHANGED <<flash, staged, part, pages, open, leaked, faults,
                   app, saved_data, queue, isr, btn, wifi, server, panic>>

\* State 6, "reinitialise": save_data_u32_in_flash(NVS_NAMESPACE, KEY_cons, 0).
HttpReinit ==
    /\ server /\ http = "idle"
    /\ Enter("httpd", SaveU32, CONS, 0)
    /\ http' = "reinit"
    /\ UNCHANGED <<flash, staged, part, pages, open, leaked, faults,
                   app, saved_data, queue, isr, btn, wifi, server, panic>>

HttpReinitDone ==
    /\ http = "reinit"
    /\ Consume("httpd", SaveU32)
    /\ http' = "idle"
    /\ UNCHANGED <<flash, staged, part, pages, open, leaked, faults,
                   app, saved_data, queue, isr, btn, wifi, server, panic>>

\* State 7, "close": saved_data_in_flash(NVS_NAMESPACE, KEY_NAME, "1").
HttpClose ==
    /\ server /\ http = "idle"
    /\ Enter("httpd", SaveStr, MODE, 1)
    /\ http' = "close_save"
    /\ UNCHANGED <<flash, staged, part, pages, open, leaked, faults,
                   app, saved_data, queue, isr, btn, wifi, server, panic>>

HttpCloseSaved ==
    /\ http = "close_save"
    /\ Returned("httpd", SaveStr)
    /\ Enter("httpd", GetStr, MODE, NoEntry)
    /\ http' = "close_read"
    /\ UNCHANGED <<flash, staged, part, pages, open, leaked, faults,
                   app, saved_data, queue, isr, btn, wifi, server, panic>>

\* The mode is logged, then vTaskDelay(1000).
HttpCloseRead ==
    /\ http = "close_read"
    /\ Consume("httpd", GetStr)
    /\ http' = "delay"
    /\ UNCHANGED <<flash, staged, part, pages, open, leaked, faults,
                   app, saved_data, queue, isr, btn, wifi, server, panic>>

HttpRestart == http = "delay" /\ Reboot

-----------------------------------------------------------------------------

NvsCall(t) == NvsStep(t) /\ UNCHANGED appVars

MainStep == NvsCall("main") \/ AppInitDone \/ AppWifiInit \/ AppGpioInit
              \/ AppGotMode \/ AppSetupMode \/ AppOtherMode

GpioStep == NvsCall("gpio_task") \/ BtnReceive \/ BtnSaved \/ BtnSavedAgain
              \/ BtnRestart

\* Messages come from a browser; a message once accepted is worked off.
HttpRequest == HttpReinit \/ HttpClose
HttpStep == NvsCall("httpd") \/ HttpReinitDone \/ HttpCloseSaved
              \/ HttpCloseRead \/ HttpRestart

\* While a panic is handled nothing but the reboot happens.
Running == ~Panicking

Next ==
    \/ Running /\ MainStep
    \/ Running /\ GpioStep
    \/ Running /\ HttpStep
    \/ Running /\ HttpRequest
    \/ Running /\ StationJoins
    \/ Running /\ Release
    \/ PanicReboot
    \/ PowerCut

Spec == Init /\ [][Next]_vars

\* The scheduler runs every task that is ready: gpio_task (priority 10) and
\* the HTTP server's (5) block on a queue, a socket or a delay between events,
\* so app_main (1) is not starved; a panic always ends in the reboot.
Fairness ==
    /\ WF_vars(Running /\ MainStep)
    /\ WF_vars(Running /\ GpioStep)
    /\ WF_vars(Running /\ HttpStep)
    /\ WF_vars(PanicReboot)

FairSpec == Spec /\ Fairness

-----------------------------------------------------------------------------
(* Properties.                                                             *)

GatewayCalls ==
    {<<"main", GetU32, CONFIG>>, <<"gpio_task", SaveU32, CONFIG>>,
     <<"httpd", SaveU32, CONS>>, <<"httpd", SaveStr, MODE>>,
     <<"httpd", GetStr, MODE>>}

(***************************************************************************)
(* To the gateway's tasks NVS is the store that nvs_manager.h promises:    *)
(* each key has one task that saves it, the mode gpio_task and the other   *)
(* two the HTTP server's, and an entry changes only by its save or by an   *)
(* erase that was decided before any call of the boot had succeeded        *)
(* (main.c:23-28, Setup_mode_button.h:32-35, config_mode.h:144-160).       *)
(***************************************************************************)
Store == INSTANCE NvsStore
             WITH value  <- staged,
                  usable <- part = "ready" \/ pages = "good",
                  job    <- [t \in Task |-> Job(call[t])],
                  Boot   <- [t \in Task |-> Job(BootFrames[t])],
                  Calls  <- GatewayCalls

IsStore == Store!Spec

(***************************************************************************)
(* A device that came up in a mode other than set-up is right to stay      *)
(* there: the flash says so too, or gpio_task has taken a button event and *)
(* the restart into set-up mode is on its way.  app_main may read the mode *)
(* just before gpio_task overwrites it (main.c:28 against                  *)
(* Setup_mode_button.h:32), so the mode it acts on may be stale.           *)
(***************************************************************************)
StaleModeIsRestarted ==
    saved_data \in Value \ {0} =>
        \/ flash[CONFIG] = saved_data
        \/ btn \in {"save", "save_again", "restart"}

(***************************************************************************)
(* Set-up mode is absorbing: once the flash does not hold a non-zero mode, *)
(* no step of any task writes one.  "close" saves its mode under KEY_NAME  *)
(* and the boot reads Gateway_mode, so nothing in the firmware leaves      *)
(* set-up mode.                                                            *)
(***************************************************************************)
SetupModeIsAbsorbing ==
    [][flash[CONFIG] \in {0, NoEntry} => flash'[CONFIG] \in {0, NoEntry}]_vars

(***************************************************************************)
(* One failing library call does not lose a button press: gpio_task makes  *)
(* the save twice, and opens a new handle for each, so at its esp_restart  *)
(* the flash holds no other mode unless at least two calls have failed.    *)
(***************************************************************************)
OneFaultKeepsThePress ==
    btn = "restart" /\ faults < 2 => flash[CONFIG] \in {0, NoEntry}

(***************************************************************************)
(* From a partition that is ready, entries disappear only when a call of   *)
(* the library has failed: init_nvs runs before any other task, so without *)
(* such a failure no task finds the partition unusable after another has   *)
(* made it ready and saved in it.  (Pages that are full when the device    *)
(* boots are erased by init_nvs without any failure, nvs_manager.h:10.)    *)
(***************************************************************************)
LossNeedsAFault ==
    [][\A k \in Key : part = "ready" /\ flash[k] # NoEntry
                        /\ flash'[k] = NoEntry => faults > 0]_vars

(***************************************************************************)
(* While no library call fails, every save succeeds and is in the flash    *)
(* when its caller gets the result, though gpio_task and the HTTP server   *)
(* save at the same time, and though saved_data_in_flash may report a      *)
(* success that was none: after init_nvs no task erases, and none works    *)
(* with the handle of another (nvs_manager.h:65-101, 139-179).             *)
(***************************************************************************)
FaultlessSavesAreDurable ==
    faults = 0 =>
        \A t \in Task : call[t].at = "returned" /\ call[t].fn \in Savers =>
            call[t].ret = "ok" /\ flash[call[t].key] = call[t].val

(***************************************************************************)
(* The handle that get_saved_data_from_flash does not close                *)
(* (nvs_manager.h:37-58) does no harm here: its only caller is the "close" *)
(* command, which restarts the device next (config_mode.h:151-158).  So    *)
(* handles do not add up, however long the device runs.                    *)
(***************************************************************************)
LeakEndsInRestart ==
    /\ leaked => http \in {"close_read", "delay"}
    /\ \A t \in open : Accessing(t) \/ (leaked /\ t = "httpd")

(***************************************************************************)
(* A press in a mode other than set-up leads to set-up mode: once the      *)
(* event is in the queue and gpio_task exists, the device restarts and the *)
(* boot finds no other mode in the flash, even when a library call fails   *)
(* on the way.                                                             *)
(***************************************************************************)
PressReachesSetup ==
    queue > 0 /\ btn # "none" /\ saved_data \in Value \ {0}
        ~> app = "init_nvs" /\ flash[CONFIG] \in {0, NoEntry}

(***************************************************************************)
(* A boot that finds set-up mode in the flash, or no mode, brings the      *)
(* access point up, also when one library call fails: the failing call     *)
(* reboots (main.c:24, wifi_start_ap's checks) or its result is set-up     *)
(* mode (main.c:28).  Only gpio_task, serving a press, restarts it first.  *)
(***************************************************************************)
SetupComesUp ==
    app = "init_nvs" /\ flash[CONFIG] \in {0, NoEntry}
        ~> wifi \/ btn \in {"save", "save_again", "restart"}

=============================================================================
