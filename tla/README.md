# A verification of the ESP32 gateway's firmware

TLA+ models of the firmware in `src/main` and `src/spiffs`, the TLC runs that
check them on small instances, and theorems about them that TLAPS proves for
every value of the constants. The firmware is a Wi-Fi gateway (ESP-IDF 5.3,
two cores) with two modes. In *set-up* mode it opens an access point and serves
a page on which a browser scans for networks, tests one and saves the
configuration. In *operation* mode the committed code starts nothing. A button
brings the device back to set-up mode.

The repository's own README is that of an ESP-IDF sample; the reference for
everything here is the source.

## 1. Inventory

| part | state it keeps | operations | used by |
|---|---|---|---|
| `nvs_manager.h` | the NVS partition (flash), open handles | `init_nvs`, save and get of numbers and strings | `app_main`, `gpio_task`, HTTP server |
| `main.c` | the mode `saved_data`, the globals `server`, `client`, `status` | `app_main`, once per boot | - |
| `Setup_mode_button.h` | the event queue, `gpio_task` | interrupt handler, task | - |
| `wifi_manager.h` | the station and its configuration (in the driver), the event queue | `wifi_event_handler`, connect, disconnect, clear, scan, `wifi_start_ap` | event loop's task, HTTP server |
| `config_mode.h` | the sessions of the HTTP server | page GET, WebSocket states 0 read, 1 scan, 2 test, 5 save, 6 reinitialise, 7 close, 8 delete | browsers |
| `spiffs_manager.h` | `Config.txt`, the page's file | mount, `store_data`, `read_data`, `delete_files` | `app_main`, HTTP server |
| `Configurationpage.html` | in every browser: the socket, two kinds of timers, the form | sends the commands, shows the answers | users |
| the heap | the blocks of the command worked on, and what earlier ones lost | allocate, use, free | `config_mode.h` |
| `mqtt_manager.h` | an MQTT client | start, event handler | never: see section 8 |

**Who runs at the same time.** `app_main` (priority 1) runs once per boot and
starts the others; `gpio_task` (10) waits on a queue the interrupt handler
fills; the event loop's task runs `wifi_event_handler`; the HTTP server is one
task (5) that works on one message at a time, also while it waits ten seconds
in a test. They share the NVS partition, the Wi-Fi driver and the reset:
`esp_restart` in any of them, a failed `ESP_ERROR_CHECK` and a power cut take
all of them down, and only the flash remains.

**What is hard, and what makes each part correct**

* NVS: the functions initialise the partition on every call and *erase it* when
  its pages are unusable, under handles that other tasks have open; a set
  reaches the flash somewhere between `nvs_set` and `nvs_commit`. Correct: a
  reported success is in the flash; handles are closed; entries vanish
  from a ready partition only after a failure.
* Mode: the boot reads the mode while `gpio_task` may be writing it. Correct: a
  device never stays in a mode the flash contradicts, a press is not lost, and
  the mode changes only as the operations say.
* Station: the event handler reconnects on every DISCONNECTED while the HTTP
  server configures, connects, disconnects and clears. Correct: a test reports
  the network it tested, the station is quiet between tests, retries end.
* Configuration file: a save truncates before it writes, any step may fail, a
  reset may come in between, several browsers send commands. Correct: commands
  take effect one at a time; an answer tells the truth; a read is answered.
* Page: it interprets the answers by their `state` field. Correct: the
  network and the password that a save stores belong together, and are what the
  user saw or typed, though answers come late, a list is put in half a second
  later, and the answer to a save looks like a configuration.
* Heap: every command allocates several blocks and frees some of them, and most
  results are used unchecked. Correct: nothing is used after it is
  freed, whichever allocation fails, and memory runs short only by what the
  commands lost.

PROJECT.json lists the hazards with their lines and the properties against them.

## 2. Modules

| module | models | source |
|---|---|---|
| `NvsManager` | the five NVS functions, one action per library call, each executed by any task | `nvs_manager.h` |
| `NvsClients` | tasks that call them in any order: the environment in which the functions must be correct | - |
| `NvsStore` | what the functions promise their callers: a store of entries; `NvsClients` and `Gateway` implement it | `nvs_manager.h` |
| `Gateway` | boot, mode, button, and the commands that write NVS; extends `NvsManager`, so that every call is executed step by step | `main.c`, `Setup_mode_button.h`, states 6 and 7 of `config_mode.h`, `wifi_init`, `wifi_start_ap` |
| `SetupWifi` | the station, the event handler, the test and the scan | `wifi_manager.h`, states 1 and 2 |
| `ConfigStore` | the files, the commands of several browsers, the mount at boot | `spiffs_manager.h`, states 0, 5, 6, 8 and the page's GET |
| `ConfigRegister` | what `ConfigStore` promises: an atomic register | - |
| `ConfigPage` | the page's script, its users and connections in several browsers, composed with `ConfigRegister` | `Configurationpage.html`, `wifi_scan_ap`, the sending side of `config_mode.h` |
| `WsHeap` | the memory of one command after the other | `config_mode.h:49-193`, `read_data` |
| `MC...` | the instances TLC checks, with one `.cfg` per question | - |
| `...Proofs` | the theorems (`NvsManagerProofs` holds the lemmas the two modules above it share) | - |

Definitions named `Variant:` in their comment are mutated forms of a definition
(a dropped check, a missing restart); no specification uses them. They serve to
see that the properties notice.

### NvsManager: calls as frames

`call[t]` is the frame of the NVS function that task `t` is in: the function,
its key and value, the program point (`init`, `erase`, `reinit`, `open`, `set`,
`commit`, `get`, `returned`, `abort`), the handle variable and the result. A
caller puts a frame with `Enter` and takes the result with `Returned`. `flash`
is what a reset will find; `staged` is what the library's reads return, so a
value that is set but not committed is in `staged` and perhaps in `flash`.
`part` and `pages` decide what `nvs_flash_init` returns. The differences
between the functions are kept: `get_saved_data_from_flash` retries without
erasing and goes on whatever comes of it, `saved_data_in_flash` aborts on a
failed initialisation, goes on with an uninitialised handle after a failed open
(the handle is then none, or another task's), and commits after a failed set.

### NvsStore: the promise

`job[t]` is the call of task `t` without its library calls: its function, key
and value, and a phase (`starting`, `erasing`, `working`, `closing`, then `ok`
or `fail`). `usable` says that no call that starts now erases the store; a
success needs it, and only a reset ends it. A save takes effect for the readers
in one step and for the flash then or at its success. The promise keeps the
weak points of the code, each as a step: a call that found the store unusable
erases it later (`Condemn`, then `Erase`), `saved_data_in_flash` may succeed
without writing (`SkipWrite`, the finding of `nvs_save_str`), and a save that
fails may have been written. `Phase` and `Job` in `NvsManager` map a frame to a
job. `Calls` says who may call what, `Boot` which calls are in progress when a
boot begins: none for `NvsClients`, `init_nvs` of `app_main` for `Gateway`.

### Gateway: three tasks

`app`, `btn` and `http` are the places of `app_main`, `gpio_task` and the HTTP
server between their NVS calls. `queue` counts the button events (the pin is
always the same). A reset is one action, `Reboot`, that `esp_restart`,
`PanicReboot` and `PowerCut` share. At power-up the flash may hold anything:
the mode 1 cannot be written by this code, only by earlier firmware (the
disabled `gpio_task` of lines 42-84 wrote it), and it is the case in which the
button matters.

### SetupWifi: two tasks and the driver

The driver is external. Its contract is the one the code's calls rely on and
ESP-IDF documents: a connection needs a configured name; the configuration can
not be set, nor a scan started, while the station is connecting; whatever ends
or fails a connection posts DISCONNECTED. `http` walks through the lines of
state 2; `evq` holds the events not yet handled. `fresh` records whether the
station was unconnected when the test connected it.

### ConfigStore: browsers, a server, a file

A request is a record; `req[c]` is the outstanding one of browser `c`, `rep[c]`
the last answer. Reads, deletions and the page's GET are one step, since the
server's task is the only one that touches the files; a save is `OpenStore`
(truncates), `WriteStore` (at `fclose`), for state 6 `StoreCons`, and `Reply`,
with a reset possible between any two. `err` is overwritten as in the code.
`DropRequest` is a command for which `malloc` or the JSON parser had no memory.
`before` is a history variable for the refinement only.

### ConfigPage: browsers on top of the register

The page is composed with `ConfigRegister`, not with `ConfigStore`: the second
is proved to implement the first, so what a page can be answered is what the
register answers, and the file's steps do not multiply the states. `TakeCommand`
is the register's `Ask` with the first message of the connection, `Serve` one of
its answers, `Reset` its reset. `tab[p]` is the script: `socket` (readyState),
`due` (the timer of `getconfig`), the form (`opts`, `sel`, `pw`) and `lists` (the
timers of `add_wifi_to_list`, with the list each will put in). `up` and `down`
are the two directions of the WebSocket, `link` says that the device still has
the session: after a reset the page sends into nothing until it sees the close.
`onMessage` is split by what the answer is: `OnConfig`, `OnSaved` (state 5
without an ssid, which the script treats as a configuration), `OnList`,
`OnOther`. `Reselect` is what a browser selects when the selected option is
replaced: browsers differ, so both outcomes are allowed. `past`, `twice`, `known`
and `clicks` are history and bounds: `known` collects the pairs of network and
password that belonged together (the first configuration; every form as its user
left it after selecting or typing; the two a page is given when it is loaded and
after a save), and `past[p].apart` says that a list, or an answer beside a list,
has changed the form since. A form saved in that state is added to `known`, since
the page shows its user what it mixed; no other pair is excused. Left out:
alerts, the text of a test, the white space that `new Option(text)` normalises in
names, and forms that a browser restores on reloading. What an earlier session sent is worked off or lost before the next
one is opened; its answers would reach no script.

### WsHeap: a program per command

A command's program is the sequence of its allocations, uses and releases in
the order of `ws_handler` and `websocket_callback`: `Entry`, the steps of its
state, `Leave`. `ptr[b]` is what the pointer to block `b` is (unset, NULL, live,
freed), `has[b]` the memory behind it, `free` what is left. An allocation fails
exactly if it does not fit; a tree built of many pieces can then also be there
in part. The two tests of the code (`buffer`, `root`) are `Exit` steps; a use
that NULL crashes is `Need`, one that takes it (cJSON, `fprintf`) `Take`.
`read_data` also returns NULL without memory being short (no file). A boot
leaves any amount of heap up to the bound, so that every allocation of every
command is seen to fail.

## 3. Runs

| run | module / cfg | what it shows |
|---|---|---|
| nvs_clients | MCNvsClients | success of `save_data_u32_in_flash` is in the flash; only tasks that call one of the functions have handles left open; the functions implement the store |
| nvs_save_str | MCNvsSaveStr | **finding**: `saved_data_in_flash` reports success after a failed set |
| nvs_handles | MCNvsHandles | **finding**: a get of an absent key leaks its handle |
| gateway | MCGateway | stale mode, press against one failure, absorbing set-up mode, nothing lost from a ready partition before a failure, durable saves until one, a handle left open ends in the restart; its NVS calls implement the store, one saving task per key |
| gateway_live | MCGatewayLive | a press leads to a boot into set-up mode, and such a boot to the access point |
| setup_wifi | MCSetupWifi | quiet between tests, own result, whose connection may be left over, when a test panics, tests and retries end |
| setup_wifi_clear | MCSetupWifiClear | **finding**: a retry makes `clear_sta_config` abort |
| config_store | MCConfigStore | the commands implement the register; page, panic and progress |
| config_store_ok | MCConfigStoreOk | **finding**: a save or reinitialisation that did not reach the file is answered "ok" |
| config_store_read | MCConfigStoreRead | **finding**: a read of the deleted file panics |
| config_page | MCConfigPage | which networks and passwords saves can bring together; how often a late answer overwrites; when the script fails |
| ws_heap | MCWsHeap | nothing dangles; what every command loses; how long a boot serves |

The findings are quoted line by line in PROJECT.json.

**Bounds.** `MaxFaults` bounds the library calls that fail on their own account
over the whole behaviour (not the failures that follow from the state: those
are unlimited). One failure suffices for every finding that needs any; two are
what `OneFaultKeepsThePress` needs to see the press lost, so `gateway` has two.
`QueueLength` is 1 or 2 for the code's 10: 1 makes the queue full with a single
press, 2 lets an event wait behind the one being handled. Two modes, 0 and 1;
three keys, all that the code uses; two tasks for the NVS functions, where
every interference (an erase or a close under another's handle) is between two.
Two access points, because the hazard is the confusion of one test's with the
next's; `MaxEvents` 2 bounds only joins and requests, not DISCONNECTED: these
are limited by the model itself, one per connection. Two browsers and two
configurations: a command can be overtaken by one other, and a stale one told
from the new one. `config_page` has two browsers, one network and one password
(besides the empty ones and "undefined") and two clicks: a second save, a save
against the other browser's reinitialisation, a reload with an answer on its
way, a scan with a changed selection each take two. `ListSize` is 1 for the
code's 20 and `MaxFound` 3, the first size at which the script fails. `ws_heap`
has a payload larger than all else together, as the code's 8192 bytes are, a
heap that serves four commands and a bound of five. Resets are never bounded.
The theorems hold without any of these bounds.

**Fairness.** Weak fairness of each task's steps while no panic is pending, and
of the reboot after a panic: the scheduler is preemptive, and every task of
higher priority blocks between events, so app_main is not starved. The HTTP
server additionally visits every session that has data before it waits again:
strong fairness of serving each browser. Nothing is assumed of browsers, the
button, the driver, failures or power cuts; `gateway_live` therefore excludes
power cuts (one between the queue and the save loses the press, rightly), and
switches the deadlock check off because a device in operation mode whose
`gpio_task` could not be created, or whose interrupt could not be installed, has
nothing left to do.

## 4. Proofs

Every theorem is for arbitrary tasks, keys, values, access points, browsers,
sizes of heaps and blocks, and numbers of failures, within the assumptions the
modules name (`NvsConstants`, `OneWriterPerKey`, `GatewayConstants`,
`SetupWifiConstants`, `ConfigStoreConstants`, `ConfigPageConstants`,
`WsHeapConstants`: disjointness of the special values, a password that no user
types, blocks that are not empty, and that no two tasks save the same key).

* **NvsClientsProofs** - `TypeCorrect`, `SaveU32Durable`. The save returns ESP_OK
  only in `CommitOk`, which copies `staged` to the flash; so the invariant is
  that a task at its commit, with its handle still open, finds its own value
  staged. An erase closes all handles, and no other task writes the key.
  `StoreCorrect`: `NvsClients` implements `NvsStore`. Every library call is a
  step of the store's `Work` or a stutter (`NvsStepWork` in `NvsManagerProofs`),
  since handles are open only in a ready partition (`OpenNeedsReady`): a
  function that succeeds, succeeds on a usable store. `LeaksCorrect`: a library
  call leaves open at most its own task's handle, and then the call is still to
  close it (`Accessing`) or is `get_saved_data_from_flash` returning early
  (`NvsStepAccess` in `NvsManagerProofs`); `CallsOnly` says which task that can be.
* **GatewayProofs** - `TypeCorrect`, `StaleModeRestarted`, `PressSurvivesOneFault`,
  `SetupModeAbsorbing`. The properties are not inductive: `IInv` adds which frame
  each place of each task goes with (`FramesOK`), where a frame may be
  (`PointsOK`), that a set which can still be committed is staged
  (`SetIsStaged`), when the server runs (`ModeOK`), that what `app_main` read is
  in the flash or about to be overwritten (`ReadOK`), how a save of `gpio_task`
  can have ended (`SaveOK`), and how many failed calls an unfinished press must
  have met while the flash holds another mode (`FaultsOK`). `StoreCorrect`: its calls
  of the NVS functions implement `NvsStore` too, each by the task and with the
  key that `GatewayCalls` names; between the lines that call one, the HTTP
  server is in none (`HttpWaits`). `LeakEnds`: by `NvsStepAccess` again, and
  because only "close" reads a string (`OnlyCloseReads`), a handle is left open
  only where the restart follows.
* **GatewayLossProofs** - `LossNeedsFault`, `FaultlessSavesDurable`. On top of `IInv`: until a library
  call fails the partition is ready, or `app_main` is still in `init_nvs` and
  every other task idle (`NoFaultOK`); a ready partition is not erased, and what
  is saved is always a value (`ValuesOK`), so no entry is overwritten by none.
  For the second theorem every call is moreover `Smooth` until then: between its
  open and its close the handle is its own and open, at its commit its value is
  staged, at its return in the flash. A call's own steps keep this on a ready
  partition (`NvsStepSmooth`), the others' because they save other keys and
  close other handles (`NvsStepOthersSmooth`).
* **SetupWifiProofs** - `TypeCorrect`, `QuietCorrect`, `FreshTestCorrect`,
  `OnlyARetryPanicsCorrect`, `LeftoverCorrect`. The
  configuration is the test's name while a test runs and empty otherwise; a
  station that is connecting is connecting to the configured name, because the
  driver refuses to change it under it. The `ESP_ERROR_CHECK` is essential:
  without it (`SetConfigUnchecked`) a test can report an earlier network. Every
  test disconnects before it clears, so what is connected or connecting from
  there on is of this test (`LeftoverOK`), and the one configuration that can
  be refused is the cleared one (`PanicOK`).
* **ConfigStoreProofs** - `TypeCorrect`, `OnlyDeletionPanicsCorrect`,
  `PageSurvivesCorrect`, and `RegisterCorrect`: `ConfigStore` implements
  `ConfigRegister`. The register's value is `before` while a store is worked on
  and the file otherwise, so a store takes effect at its answer, and a reset in
  between is the register's `Reset` with what the file then holds. `WorkOK` says
  what the file can hold at each point of a store.

* **ConfigPageProofs** - one invariant per theorem, each beside the types
  (`TypeInv`). `UndefinedCorrect`: while nobody has saved again after the answer
  to a save, "undefined" is in no form but one that shows such an answer, and in
  no message, command or answer (`UndefinedOK`). `StoredPairCorrect`:
  every form that did not come apart is in `known`, and so is what messages,
  commands, answers and the register carry (`KnownOK`). Both rest on the same
  lemmas about `Carries(S)`, that everything on its way is in a set `S`: a save
  carries a form to the register, a read carries it to another page, and nothing
  else puts one there.
  `OverwriteCorrect`: the one read of a loading is in one place at a time, from
  the timer through the connection and the device to the form (`ReadOK`).
  `ScriptFailureCorrect`: every list on its way has as many entries as fit of
  what was found (`ListsOK`), and the loop goes to one less than was found.
* **WsHeapProofs** - `TypeCorrect`, `NothingEverDangles`, `LossAlwaysKnown`,
  `ShortOnlyAfterCommands`, `CommandsNumbered`. Instead of a case for every step
  of every program, `Sound(p, K, c)` says of a program `p`, given the blocks `K`
  that are allocated, what makes it right: it uses and frees what is then
  allocated, makes no block twice, frees a block for good, leaves early only
  before there is more to lose than `c` may lose, and ends with what `c` loses.
  Nine lemmas show this of the ten programs. `SoundTail` keeps it when a step is
  taken and `SoundRest` when an early exit is, so `IInv` can say that what is
  left to do is sound for what is there. The rest of `IInv` is the books: what is
  not free is what is allocated now and what `done` commands lost (`Memory`,
  `Books`), each at most `MostLost`, and a NULL pointer means that memory was
  short (`NullIsShort`). The sums over the nine blocks are written out, as an
  induction over finite sets is not to be had, and the two maxima are taken over
  the ten commands.

Only model-checked: the liveness properties (`PressReachesSetup`,
`SetupComesUp`, `TestEnds`, `RetriesStop`, `EveryRequestEnds`), which need
fairness and ENABLED, out of TLAPS's reach here. Every invariant and every action
property of a passing run, and every refinement, is a theorem. Induction over
data is out of reach too; no theorem rests on one.

## 5. What the models say about the code beyond the findings

* `app_main` can read a mode that is set but not yet committed, and a boot can
  act on a mode the flash no longer holds; both are harmless because the writer
  is about to restart the device (`StaleModeIsRestarted`).
* Making the save twice (Setup_mode_button.h:32 and 35) looks redundant and is
  what makes a press survive one failure.
* A retry that connects fully just before `clear_sta_config` leaves the station
  connected after the test; the next test then reports the earlier network,
  since `esp_wifi_connect` does nothing on a connected station. The property
  about reports is therefore stated for tests that began unconnected (`fresh`).
* That connection is always the last test's, never an earlier one's
  (`LeftoverIsOfLastTest`), and a test can panic only after it has looked for
  its result, when it clears the configuration (`OnlyARetryPanics`).
* The handle that `get_saved_data_from_flash` leaves open is harmless only
  because its one caller restarts the device (`LeakEndsInRestart`).
* Without a failing library call every save of the firmware is durable, those of
  `saved_data_in_flash` too (`FaultlessSavesAreDurable`): its wrong success,
  and its uninitialised handle, need one.
* The page survives every request only because its name is longer than the
  buffer of `delete_files`; `Config.txt` does not.
* No command leaves set-up mode: "close" saves its mode under `KEY_NAME` and the
  boot reads `Gateway_mode` (`SetupModeIsAbsorbing`).
* Saving twice without loading the page anew stores the password "undefined" and
  an empty name: the first answer replaces the form (`UndefinedNeedsSecondSave`
  says that this is the only way).
* A save in the first three seconds after loading stores an empty form, and the
  configuration then overwrites what was typed, once.
* A list of networks over a configuration leaves the stored password next to a
  name that is another's or 'None', depending on what the browser selects then;
  a configuration that comes after the list does the same. Saved unchanged, that
  pair is stored, and it is the only way to store one that was never together
  (`StoredPairIsKnown`; without the excuse the run finds it in a few steps).
* The last network found is never offered, and the script throws on a scan that
  found at least two networks more than the list holds
  (`ScriptFailsOnlyBeyondList`; with 20 entries, 22 or more; the list is taken as
  complete, see section 8).
* Every command but a close loses the path and mostly its answer
  (`LossIsKnown`): a boot serves a limited number of commands until an allocation
  fails, and then a panic, or silence, is what a browser gets.
* A save cut short by a reset leaves an empty or partial configuration, and the
  next read sends it as it is.

## 6. How the parts fit, and what could follow

The modules meet in three places. `Gateway` extends `NvsManager`, so the mode
and the page's NVS commands run on the real steps of the NVS functions.
What the functions promise is `NvsStore`, which they implement under any callers
(`NvsClients`) and under these (`Gateway`).
`ConfigStore` implements `ConfigRegister`, and `ConfigPage` runs on the
register. Everything meets in the reset: each module allows one between any two
of its steps (`PowerCut`, `Reboot`, `Reset`), so a panic that one module
explains is a step the others already have, and composing them further would
add no behaviour to any of them.

## 7. Running it

`tlc -config MCGateway.cfg MCGateway.tla` and the like for each cfg (each ends
within a minute); `tlapm GatewayProofs.tla` and the like for the proofs
(seconds, `WsHeapProofs` a minute).

## 8. Not modelled

* `mqtt_manager.h`: `wifi_event_handler` calls it only if `status == 1`, and
  `status` is 0 for ever (main.c:12 is its only assignment).
* `stop_webserver`, `wifi_start_sta`, `wifi_stop_sta`, `wifi_stop_ap`,
  `save_data_to_spiffs`, `read_data_from_spiffs`: never called.
* Messages without the fields their state uses, frames that are not text:
  messages are those the page sends, and state 8.
* A list of networks that is short because cJSON had no memory for an entry
  (wifi_manager.h:106): `ConfigPage` has the complete list only, and `WsHeap`,
  which has the failing allocations, does not look into it. The script could then
  fail on fewer networks.
* When the assertions of `wifi_scan_ap` (wifi_manager.h:99, 100, 124, 125) fail:
  a scan that panics is one during which `Reboot` happens, which `SetupWifi`
  allows at any time.
* JSON text, HTML, logging, Wi-Fi passwords of the station, signal strengths.
* Memory that other tasks use, and fragmentation of the heap.
* Generated and vendored sources: the compiler identification files under
  `CMakeFiles`, `esp-idf/mbedtls` and `config/sdkconfig.h` are more than four
  fifths of the repository's lines of code and have no behaviour of this
  program in them. Of what was written for it, `src/main` and the script of the
  page, all that can be reached is modelled.
* The source as committed does not compile: config_mode.h:154 declares a
  variable named like the macro `Gateway_mode`, and `KEY_cons` (line 141) is
  defined nowhere. The models read the first as the local variable it is meant to
  be and the second as a key of its own.
