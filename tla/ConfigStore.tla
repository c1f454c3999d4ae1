----------------------------- MODULE ConfigStore -----------------------------
(***************************************************************************)
(* The configuration file: spiffs_manager.h, the WebSocket states 0        *)
(* (read), 5 (save), 6 (reinitialise) and 8 (delete) of config_mode.h and  *)
(* its GET handler of the configuration page.                              *)
(*                                                                         *)
(* Browsers send requests at any time.  The one task of the HTTP server    *)
(* takes one request after the other and is the only one that uses the     *)
(* files; a reset stops it between any two steps.  The file system is      *)
(* external: it mounts, formats or fails at boot, fopen for writing        *)
(* truncates at once, and what is written is stored when the file is       *)
(* closed.  How state 6 fares in NVS is NvsManager's matter: here it is a  *)
(* result.                                                                 *)
(***************************************************************************)
EXTENDS Naturals

CONSTANTS Client,   \* the browsers
          Config,   \* the configurations they save
          Erased,   \* the configuration "{}"
          Damaged,  \* an empty or partly written file
          Missing,  \* no file
          None,     \* no request, no answer
          MaxFaults \* failures of the file system, the heap or NVS

ASSUME ConfigStoreConstants ==
    /\ Erased # Damaged /\ Erased # Missing /\ Damaged # Missing
    /\ {Erased, Damaged, Missing} \cap Config = {}
    /\ MaxFaults \in Nat

Content == Config \cup {Erased, Damaged, Missing}

\* Names of files, as state 8 gets them, with their lengths.
PathLength == [path \in {"Config.txt", "Configurationpage.html", "other"} |->
                  CASE path = "Config.txt"             -> 10
                    [] path = "Configurationpage.html" -> 22
                    [] path = "other"                  -> 5]

\* A request: one shape for all, so that its fields can be compared.
Request ==
         {[op |-> op, config |-> None, path |-> None] : op \in {"read", "get"}}
    \cup {[op |-> "save", config |-> v, path |-> None] : v \in Config}
    \cup {[op |-> "reinit", config |-> Erased, path |-> None]}
    \cup {[op |-> "delete", config |-> None, path |-> p] :
              p \in DOMAIN PathLength}

Answers == Content \cup {"ok", "notok", "page", "404", None}

VARIABLES file,    \* Config.txt
          page,    \* Configurationpage.html is there
          mounted, \* the file system is mounted
          req,     \* the request of every client that waits for an answer
          rep,     \* the answer to every client's last request, unless lost
          at,      \* where the device is
          cur,     \* the client whose request is being worked on
          err,     \* "err" of states 5 and 6
          before,  \* history: Config.txt when the request was taken
          panic,   \* a null pointer was used
          faults   \* failures so far

vars == <<file, page, mounted, req, rep, at, cur, err, before, panic, faults>>

TypeOK ==
    /\ file \in Content
    /\ page \in BOOLEAN
    /\ mounted \in BOOLEAN
    /\ req \in [Client -> Request \cup {None}]
    /\ rep \in [Client -> Answers]
    /\ at \in {"boot", "idle", "write", "nvs", "reply"}
    /\ cur \in Client
    /\ err \in {"ok", "notok"}
    /\ before \in Content
    /\ panic \in BOOLEAN
    /\ faults \in 0 .. MaxFaults

\* The flash image holds a configuration and the page.
Init ==
    /\ file \in Config
    /\ page = TRUE
    /\ mounted = FALSE
    /\ req = [c \in Client |-> None]
    /\ rep = [c \in Client |-> None]
    /\ at = "boot"
    /\ cur \in Client
    /\ err = "ok"
    /\ before = file
    /\ panic = FALSE
    /\ faults = 0

Fault == faults < MaxFaults /\ faults' = faults + 1

-----------------------------------------------------------------------------
(* Boot.                                                                   *)

\* init_spiffs mounts, formats what does not mount, or fails; app_main goes on.
InitSpiffs ==
    /\ at = "boot"
    /\ at' = "idle"
    /\ \/ mounted' = TRUE /\ UNCHANGED <<file, page, before, faults>>
       \/ Fault /\ UNCHANGED <<mounted, file, page, before>>
       \/ /\ Fault
          /\ mounted' = TRUE
          /\ file' = Missing
          /\ before' = Missing
          /\ page' = FALSE
    /\ UNCHANGED <<req, rep, cur, err, panic>>

\* Whatever resets the device, nothing but the files remains.
Reset ==
    /\ req' = [c \in Client |-> None]
    /\ rep' = [c \in Client |-> None]
    /\ at' = "boot"
    /\ mounted' = FALSE
    /\ before' = file
    /\ panic' = FALSE
    /\ UNCHANGED <<file, page, cur, err, faults>>

PanicReset == panic /\ Reset

-----------------------------------------------------------------------------
(* The browsers.                                                           *)

Ask(c) ==
    /\ at # "boot"
    /\ req[c] = None
    /\ \E r \in Request : req' = [req EXCEPT ![c] = r]
    /\ rep' = [rep EXCEPT ![c] = None]
    /\ UNCHANGED <<file, page, mounted, at, cur, err, before, panic, faults>>

-----------------------------------------------------------------------------
(* The HTTP server's task.                                                 *)

\* The server takes the request op of client c.
Takes(c, op) == at = "idle" /\ req[c] # None /\ req[c].op = op

\* The request of c is over.  Nobody looks at the result of the sending.
Send(c, answer) ==
    /\ req' = [req EXCEPT ![c] = None]
    /\ rep' \in {[rep EXCEPT ![c] = answer], rep}

\* Config_get_handler.
GetPage(c) ==
    /\ Takes(c, "get")
    /\ \/ mounted /\ page /\ Send(c, "page") /\ UNCHANGED faults
       \/ ~(mounted /\ page) /\ Send(c, "404") /\ UNCHANGED faults
       \/ Fault /\ Send(c, "404")
    /\ UNCHANGED <<file, page, mounted, at, cur, err, before, panic>>

\* Variant: read_data takes an empty file for an error.
ReadConfigNotEmpty(c) ==
    /\ Takes(c, "read")
    /\ \/ /\ mounted /\ file \notin {Missing, Damaged}
          /\ Send(c, file)
          /\ UNCHANGED <<panic, faults>>
       \/ /\ ~(mounted /\ file \notin {Missing, Damaged})
          /\ panic' = TRUE
          /\ UNCHANGED <<req, rep, faults>>
    /\ UNCHANGED <<file, page, mounted, at, cur, err, before>>

\* Variant: what cannot be read is sent all the same.
ReadConfigUnchecked(c) ==
    /\ Takes(c, "read")
    /\ \/ /\ mounted /\ file # Missing
          /\ Send(c, file)
          /\ UNCHANGED faults
       \/ /\ Fault
          /\ Send(c, "uninitialised")
    /\ UNCHANGED <<file, page, mounted, at, cur, err, before, panic>>

\* Variant: a copy in memory that the last save did not refresh is sent.
ReadConfigStale(c) ==
    /\ Takes(c, "read")
    /\ mounted /\ file # Missing
    /\ Send(c, before)
    /\ UNCHANGED <<file, page, mounted, at, cur, err, before, panic, faults>>

\* Variant: the read waits for a file.
ReadConfigWaits(c) ==
    /\ Takes(c, "read")
    /\ mounted /\ file # Missing
    /\ Send(c, file)
    /\ UNCHANGED <<file, page, mounted, at, cur, err, before, panic, faults>>

\* State 0: read_data's result is sent.  It is NULL without a file, or when
\* the buffer or the reading fails, and send_websocket_message takes its
\* length.
ReadConfig(c) ==
    /\ Takes(c, "read")
    /\ \/ /\ mounted /\ file # Missing
          /\ Send(c, file)
          /\ UNCHANGED <<panic, faults>>
       \/ /\ ~(mounted /\ file # Missing)
          /\ panic' = TRUE
          /\ UNCHANGED <<req, rep, faults>>
       \/ /\ Fault
          /\ panic' = TRUE
          /\ UNCHANGED <<req, rep>>
    /\ UNCHANGED <<file, page, mounted, at, cur, err, before>>

\* States 5 and 6: store_data opens the file for writing, which truncates it,
\* or fails.
OpenStore(c) ==
    /\ Takes(c, "save") \/ Takes(c, "reinit")
    /\ cur' = c
    /\ before' = file
    /\ \/ /\ mounted
          /\ file' = Damaged
          /\ at' = "write"
          /\ UNCHANGED <<err, faults>>
       \/ /\ (~mounted /\ UNCHANGED faults) \/ Fault
          /\ err' = "notok"
          /\ at' = IF req[c].op = "save" THEN "reply" ELSE "nvs"
          /\ UNCHANGED file
    /\ UNCHANGED <<page, mounted, req, rep, panic>>

\* fprintf and fclose, whose results are not looked at.
WriteStore ==
    /\ at = "write"
    /\ \/ file' = req[cur].config /\ UNCHANGED faults
       \/ Fault /\ UNCHANGED file
    /\ err' = "ok"
    /\ at' = IF req[cur].op = "save" THEN "reply" ELSE "nvs"
    /\ UNCHANGED <<page, mounted, req, rep, cur, before, panic>>

\* State 6: save_data_u32_in_flash, whose result replaces store_data's.
StoreCons ==
    /\ at = "nvs"
    /\ \/ err' = "ok" /\ UNCHANGED faults
       \/ Fault /\ err' = "notok"
    /\ at' = "reply"
    /\ UNCHANGED <<file, page, mounted, req, rep, cur, before, panic>>

\* The reply is printed and sent; without memory there is none to send.
Reply ==
    /\ at = "reply"
    /\ \/ /\ Send(cur, err)
          /\ at' = "idle"
          /\ UNCHANGED <<panic, faults>>
       \/ /\ Fault
          /\ panic' = TRUE
          /\ UNCHANGED <<req, rep, at>>
    /\ UNCHANGED <<file, page, mounted, cur, err, before>>

\* Variant: a buffer that holds every name.
DeletesAny(path, name) == path = name

\* delete_files's buffer of 20 bytes holds "/spiffs/" and at most 11 more.
Deletes(path, name) == path = name /\ 8 + PathLength[path] < 20

\* State 8, which answers nothing.
DeleteFile(c) ==
    /\ Takes(c, "delete")
    /\ \/ /\ mounted
          /\ file' = IF Deletes(req[c].path, "Config.txt") THEN Missing
                                                           ELSE file
          /\ page' = (page /\ ~Deletes(req[c].path, "Configurationpage.html"))
          /\ UNCHANGED faults
       \/ /\ (~mounted /\ UNCHANGED faults) \/ Fault
          /\ UNCHANGED <<file, page>>
    /\ Send(c, None)
    /\ UNCHANGED <<mounted, at, cur, err, before, panic>>

\* Without memory ws_handler has no payload to copy and the name of state 8 has
\* nowhere to go, which panics; websocket_callback drops the command.
DropRequest(c) ==
    /\ at = "idle" /\ req[c] # None /\ req[c].op # "get"
    /\ Fault
    /\ \/ Send(c, None) /\ UNCHANGED panic
       \/ panic' = TRUE /\ UNCHANGED <<req, rep>>
    /\ UNCHANGED <<file, page, mounted, at, cur, err, before>>

Serve(c) == \/ GetPage(c) \/ ReadConfig(c) \/ OpenStore(c) \/ DeleteFile(c)
            \/ DropRequest(c)

Finish == WriteStore \/ StoreCons \/ Reply

-----------------------------------------------------------------------------

Next ==
    \/ ~panic /\ InitSpiffs
    \/ ~panic /\ \E c \in Client : Serve(c)
    \/ ~panic /\ Finish
    \/ \E c \in Client : Ask(c)
    \/ PanicReset
    \/ Reset

Spec == Init /\ [][Next]_vars

\* The boot ends, a request that was taken is finished, a panic resets.  The
\* server's loop visits every session that has data before it waits again, so
\* no session is passed over for ever.
Fairness ==
    /\ WF_vars(~panic /\ InitSpiffs)
    /\ WF_vars(~panic /\ Finish)
    /\ WF_vars(PanicReset)
    /\ \A c \in Client : SF_vars(~panic /\ Serve(c))

FairSpec == Spec /\ Fairness

-----------------------------------------------------------------------------

(***************************************************************************)
(* The requests of all browsers take effect one at a time, each as a whole *)
(* and between its sending and its answer; a reset in the middle leaves    *)
(* the new configuration, the old one or a damaged one, never a mixture,   *)
(* and never undoes what was answered.                                     *)
(***************************************************************************)
Register == INSTANCE ConfigRegister
                WITH value <- IF at \in {"write", "nvs", "reply"} THEN before
                                                                  ELSE file

IsRegister == Register!Spec

(***************************************************************************)
(* While nothing fails, state 0 crashes the device only when Config.txt    *)
(* was deleted: a save that a reset cut short leaves a file that is read   *)
(* and sent, however short it is.                                          *)
(***************************************************************************)
OnlyDeletionPanics == panic /\ faults = 0 => file = Missing

(***************************************************************************)
(* No request removes the page, which no request could bring back: the     *)
(* name that delete_files builds is cut before the page's ends.            *)
(***************************************************************************)
PageSurvives == faults = 0 => page

(***************************************************************************)
(* Every browser's request is answered, dropped by a reset, or lost, also  *)
(* while other browsers keep asking.                                       *)
(***************************************************************************)
EveryRequestEnds == \A c \in Client : req[c] # None ~> req[c] = None

(***************************************************************************)
(* "Data stored successfully" (spiffs_manager.h:146): what will be         *)
(* answered "ok", a save or a reinitialisation, is in the file.            *)
(***************************************************************************)
OkIsStored == at = "reply" /\ err = "ok" => file = req[cur].config

(***************************************************************************)
(* What read_data returns is sent "back to the client"                     *)
(* (config_mode.h:57): a device on which nothing fails does not panic.     *)
(***************************************************************************)
ReadIsAnswered == faults = 0 => ~panic

=============================================================================
