----------------------------- MODULE ConfigPage -----------------------------
(***************************************************************************)
(* The configuration page (the script of Configurationpage.html) in        *)
(* several browsers, on top of the configuration's commands.  The commands *)
(* are taken by what they promise, ConfigRegister, which ConfigStore       *)
(* implements; the scan's list is that of wifi_scan_ap (wifi_manager.h).   *)
(*                                                                         *)
(* A browser loads the page, opens a WebSocket and asks for the            *)
(* configuration three seconds later; the user fills in the form and       *)
(* clicks meanwhile.  Messages of one WebSocket keep their order in both   *)
(* directions; a reset of the device ends every WebSocket, which the       *)
(* browser may notice late; nothing opens it again but loading the page.   *)
(***************************************************************************)
EXTENDS Naturals, Sequences

CONSTANTS Page,     \* the browsers
          Ssid,     \* the names of networks
          Password, \* the passwords a user types
          Erased,   \* the configuration "{}"
          Damaged,  \* an empty or partly written file
          Missing,  \* no file
          None,     \* no request, no answer, no configuration
          ListSize, \* DEFAULT_SCAN_LIST_SIZE: 20 in the code
          MaxFound, \* bound: networks a scan finds
          MaxClicks \* bound: what all users do

\* What the script puts in place of a field that an answer does not have.
Undefined == "undefined"

\* What a save sends: the form, whose fields are empty at first.
Name   == Ssid \cup {""}
Secret == Password \cup {"", Undefined}
Form   == [ssid : Name, password : Secret]

\* The form of a page just loaded, and what the answer to a save puts in one
\* without a list.
EmptyForm == [ssid |-> "", password |-> ""]
SavedForm == [ssid |-> "", password |-> Undefined]

ASSUME ConfigPageConstants ==
    /\ Erased # Damaged /\ Erased # Missing /\ Damaged # Missing
    /\ {Erased, Damaged, Missing, None} \cap Form = {}
    /\ None \notin {Erased, Damaged, Missing, "ok", "notok"}
    /\ Undefined \notin Password
    /\ ListSize \in Nat /\ MaxFound \in Nat /\ MaxClicks \in Nat

\* Messages to the device have the shape of ConfigStore's requests.  What a
\* test tries is left out: its result changes nothing but a line of text.
Plain(op) == [op |-> op, config |-> None, path |-> None]
SaveOf(f) == [op |-> "save", config |-> f, path |-> None]

Message == {Plain(op) : op \in {"read", "reinit", "scan", "test", "close"}}
             \cup {SaveOf(f) : f \in Form}

Found == UNION {[1 .. n -> Ssid] : n \in 0 .. MaxFound}

VARIABLES value,  \* the stored configuration: the register
          req,    \* the command of every page that the device works on
          rep,    \* its answer
          tab,    \* every page's script: socket, timers, form
          past,   \* history: what happened since the page was loaded
          twice,  \* history: a page saved again after an answer to a save
          known,  \* history: networks and passwords that were together
          link,   \* the device has the page's session
          up,     \* messages on their way to the device
          down,   \* answers on their way to the page
          clicks  \* what users did so far

register == <<value, req, rep>>
net  == <<link, up, down>>
vars == <<register, tab, past, twice, known, net, clicks>>

Register == INSTANCE ConfigRegister
                WITH Client <- Page, Config <- Form, Request <- Message

\* A page just loaded.
NewTab == [socket |-> "connecting", \* readyState
           due    |-> FALSE,        \* the timer of getconfig runs
           opts   |-> <<>>,         \* options[i] is opts[i + 1]
           sel    |-> 1,            \* the option selected, if there is one
           pw     |-> "",           \* the password field
           lists  |-> <<>>]         \* the timers of add_wifi_to_list

NewPast == [reads   |-> 0,     \* configurations shown
            most    |-> 0,     \* most networks a list told of
            apart   |-> FALSE, \* a list was put in, or an answer put beside
                               \* a list, since the user changed the form
            resaved |-> FALSE, \* an answer to a save was shown
            threw   |-> FALSE] \* the script used an entry that is not there

Socket == {"connecting", "open", "closed"}
Lists  == [n : Nat, list : Seq(Ssid)]
Body   == Form \cup {Erased, Damaged, None}
Answers == [op : {"scan"}, body : Lists]
             \cup [op : {"read", "save", "reinit", "test"}, body : Body]

TabType == [socket : Socket, due : BOOLEAN, opts : Seq(Name),
            sel : Nat \ {0}, pw : Secret, lists : Seq(Lists)]

PastType == [reads : Nat, most : Nat, apart : BOOLEAN, resaved : BOOLEAN,
             threw : BOOLEAN]

\* What the browser selects is an option that is there, once there is one.
Selected(t) == t.sel = 1 \/ t.sel <= Len(t.opts)

TypeOK ==
    /\ value \in Form \cup {Erased, Damaged, Missing}
    /\ req \in [Page -> Message \cup {None}]
    /\ tab \in [Page -> TabType]
    /\ \A p \in Page : Selected(tab[p])
    /\ past \in [Page -> PastType]
    /\ twice \in BOOLEAN
    /\ known \in SUBSET Form
    /\ link \in [Page -> BOOLEAN]
    /\ up \in [Page -> Seq(Message)]
    /\ down \in [Page -> Seq(Answers)]
    /\ clicks \in 0 .. MaxClicks

Init ==
    /\ value \in [ssid : Ssid, password : Password]
    /\ req = [p \in Page |-> None]
    /\ rep = [p \in Page |-> None]
    /\ tab = [p \in Page |-> NewTab]
    /\ past = [p \in Page |-> NewPast]
    /\ twice = FALSE
    /\ known = {value, EmptyForm, SavedForm}
    /\ link = [p \in Page |-> FALSE]
    /\ up = [p \in Page |-> <<>>]
    /\ down = [p \in Page |-> <<>>]
    /\ clicks = 0

-----------------------------------------------------------------------------
(* The script.                                                             *)

\* onOpen starts the timer of getconfig.  What an earlier session of the page
\* sent is taken as worked off, or lost, before: its answers would go to a
\* script that is gone.
OnOpen(p) ==
    /\ tab[p].socket = "connecting"
    /\ req[p] = None /\ up[p] = <<>>
    /\ tab' = [tab EXCEPT ![p].socket = "open", ![p].due = TRUE]
    /\ link' = [link EXCEPT ![p] = TRUE]
    /\ UNCHANGED <<register, past, twice, known, up, down, clicks>>

\* The browser finds that the session is gone.
OnClose(p) ==
    /\ tab[p].socket = "open" /\ ~link[p]
    /\ tab' = [tab EXCEPT ![p].socket = "closed"]
    /\ UNCHANGED <<register, past, twice, known, net, clicks>>

\* websocket.send: only an open socket takes a message, and it is lost when
\* the device has no session for it any more.
WsSend(p, m) ==
    up' = [up EXCEPT ![p] = IF tab[p].socket = "open" /\ link[p]
                            THEN Append(@, m)
                            ELSE @]

\* Variant: setInterval in place of setTimeout.
GetConfigRepeats(p) ==
    /\ tab[p].due
    /\ WsSend(p, Plain("read"))
    /\ UNCHANGED <<register, tab, past, twice, known, link, down, clicks>>

\* getconfig, three seconds after the opening; without a socket it alerts.
GetConfig(p) ==
    /\ tab[p].due
    /\ tab' = [tab EXCEPT ![p].due = FALSE]
    /\ WsSend(p, Plain("read"))
    /\ UNCHANGED <<register, past, twice, known, link, down, clicks>>

\* Variant: the selection moves on.
ReselectNext(p, opts, last) ==
    IF tab[p].sel > last THEN {tab[p].sel} ELSE {last + 1}

\* The options up to last were replaced: a browser that lost the selected one
\* selects the first, or the first that was left.
Reselect(p, opts, last) ==
    IF tab[p].sel > last THEN {tab[p].sel}
                         ELSE {1, last + 1} \cap (1 .. Len(opts))

\* History: the form has options of a list.
Listed(p) == Len(tab[p].opts) > 1

\* Variant: the option is added, as with select.add.
ShowConfigAdds(p, ssid, password) ==
    tab' = [tab EXCEPT ![p].opts = Append(@, ssid), ![p].pw = password]

\* options[0] = new Option(ssid), and the password.
ShowConfig(p, ssid, password) ==
    LET opts == IF tab[p].opts = <<>> THEN <<ssid>>
                                      ELSE [tab[p].opts EXCEPT ![1] = ssid]
    IN  \E s \in Reselect(p, opts, 1) :
            tab' = [tab EXCEPT ![p].opts = opts, ![p].sel = s,
                               ![p].pw = password]

\* An answer is taken off the connection.
Receive(p) ==
    /\ down[p] # <<>>
    /\ down' = [down EXCEPT ![p] = Tail(@)]

\* onMessage, a configuration: state 0 as shipped, state 5 as saved.
OnConfig(p) ==
    /\ Receive(p)
    /\ Head(down[p]).op = "read" /\ Head(down[p]).body \in Form
    /\ LET f == Head(down[p]).body
       IN  /\ ShowConfig(p, f.ssid, f.password)
           /\ past' = [past EXCEPT ![p].reads = @ + 1,
                                   ![p].apart = @ \/ Listed(p)]
    /\ UNCHANGED <<register, twice, known, link, up, clicks>>

\* onMessage, the answer to a save: its state is 5 too, so that it is taken
\* for a configuration, and it has neither an ssid nor a password.
OnSaved(p) ==
    /\ Receive(p)
    /\ Head(down[p]).op = "save"
    /\ ShowConfig(p, "", Undefined)
    /\ past' = [past EXCEPT ![p].resaved = TRUE,
                            ![p].apart = @ \/ Listed(p)]
    /\ UNCHANGED <<register, twice, known, link, up, clicks>>

\* onMessage, a list of networks: shown half a second later.
OnList(p) ==
    /\ Receive(p)
    /\ Head(down[p]).op = "scan"
    /\ tab' = [tab EXCEPT ![p].lists = Append(@, Head(down[p]).body)]
    /\ UNCHANGED <<register, past, twice, known, link, up, clicks>>

\* Variant: a reinitialisation is answered with state 5.
OnOtherOrReinit(p) ==
    /\ Receive(p)
    /\ \/ Head(down[p]).op = "reinit" /\ ShowConfig(p, "", Undefined)
       \/ /\ \/ Head(down[p]).op = "test"
             \/ Head(down[p]).op = "read" /\ Head(down[p]).body \notin Form
          /\ UNCHANGED tab
    /\ UNCHANGED <<register, past, twice, known, link, up, clicks>>

\* onMessage, what leaves the form as it is: the state of a test, the answer
\* to a reinitialisation, a configuration without a state or that does not
\* parse.
OnOther(p) ==
    /\ Receive(p)
    /\ \/ Head(down[p]).op \in {"test", "reinit"}
       \/ Head(down[p]).op = "read" /\ Head(down[p]).body \notin Form
    /\ UNCHANGED <<register, tab, past, twice, known, link, up, clicks>>

\* Variant: i <= num_scan.
LastWantedIncluded(n) == n

\* The last i of the loop: i < num_scan.
LastWanted(n) == IF n = 0 THEN 0 ELSE n - 1

\* The last i that it comes to: beyond the list it throws.
LastSet(n, list) == IF LastWanted(n) <= Len(list) THEN LastWanted(n)
                                                  ELSE Len(list)

\* options[0] is 'None', options[i] the network wifi_networks[i]; options of a
\* longer list before it remain.
Offer(old, list, last) ==
    [j \in 1 .. (IF Len(old) > last + 1 THEN Len(old) ELSE last + 1) |->
        IF j = 1 THEN "" ELSE IF j <= last + 1 THEN list[j - 1] ELSE old[j]]

\* add_wifi_to_list, half a second after the list came.
AddWifiToList(p) ==
    /\ tab[p].lists # <<>>
    /\ LET n    == Head(tab[p].lists).n
           list == Head(tab[p].lists).list
           last == LastSet(n, list)
           opts == Offer(tab[p].opts, list, last)
       IN  /\ \E s \in Reselect(p, opts, last + 1) :
                 tab' = [tab EXCEPT ![p].lists = Tail(@), ![p].opts = opts,
                                    ![p].sel = s]
           /\ past' = [past EXCEPT
                          ![p].apart = TRUE,
                          ![p].most = IF n > @ THEN n ELSE @,
                          ![p].threw = @ \/ LastWanted(n) > Len(list)]
    /\ UNCHANGED <<register, twice, known, net, clicks>>

-----------------------------------------------------------------------------
(* The users.                                                              *)

Click == clicks < MaxClicks /\ clicks' = clicks + 1

\* The selected network and the password.
FormOf(p) == [ssid     |-> IF tab[p].opts = <<>> THEN ""
                           ELSE tab[p].opts[tab[p].sel],
              password |-> tab[p].pw]

\* History: the user has seen the form as it now is.
Keep(p) ==
    /\ known' = known \cup {FormOf(p)'}
    /\ past' = [past EXCEPT ![p].apart = FALSE]

Select(p) ==
    /\ Click
    /\ \E i \in 1 .. Len(tab[p].opts) : tab' = [tab EXCEPT ![p].sel = i]
    /\ Keep(p)
    /\ UNCHANGED <<register, twice, net>>

TypePassword(p) ==
    /\ Click
    /\ \E w \in Password : tab' = [tab EXCEPT ![p].pw = w]
    /\ Keep(p)
    /\ UNCHANGED <<register, twice, net>>

\* scanwifi, testwifi, renitialisationconfig, closeconfig.
Command(p) ==
    /\ Click
    /\ tab[p].socket = "open"
    /\ \E op \in {"scan", "test", "reinit", "close"} : WsSend(p, Plain(op))
    /\ UNCHANGED <<register, tab, past, twice, known, link, down>>

SaveConfig(p) ==
    /\ Click
    /\ tab[p].socket = "open"
    /\ WsSend(p, SaveOf(FormOf(p)))
    /\ twice' = (twice \/ past[p].resaved)
    /\ known' = IF past[p].apart THEN known \cup {FormOf(p)} ELSE known
    /\ UNCHANGED <<register, tab, past, link, down>>

\* The page is loaded anew: a new script and a new socket.  Of what the old
\* one sent the device may still get a beginning.
Load(p) ==
    /\ Click
    /\ tab' = [tab EXCEPT ![p] = NewTab]
    /\ past' = [past EXCEPT ![p] = NewPast]
    /\ link' = [link EXCEPT ![p] = FALSE]
    /\ \E k \in 0 .. Len(up[p]) : up' = [up EXCEPT ![p] = SubSeq(@, 1, k)]
    /\ down' = [down EXCEPT ![p] = <<>>]
    /\ UNCHANGED <<register, twice, known>>

-----------------------------------------------------------------------------
(* The device.                                                             *)

\* The next message of page p, if its last command is answered.
Waiting(p, ops) == up[p] # <<>> /\ req[p] = None /\ Head(up[p]).op \in ops

\* The server takes a command on the configuration.
TakeCommand(p) ==
    /\ Waiting(p, {"read", "save", "reinit"})
    /\ Register!Ask(p)
    /\ req'[p] = Head(up[p])
    /\ up' = [up EXCEPT ![p] = Tail(@)]
    /\ UNCHANGED <<tab, past, twice, known, link, down, clicks>>

\* An answer of the device; a page that was loaded anew does not get it.
Respond(p, op, body) ==
    down' = IF link[p] THEN [down EXCEPT ![p] = Append(@, [op |-> op,
                                                          body |-> body])]
                       ELSE down

\* The register answers, or the answer is lost.  Whether a save or a
\* reinitialisation went well is not what the script looks at.
Serve(p) ==
    /\ Register!Read(p) \/ Register!Save(p) \/ Register!Reinit(p)
           \/ Register!Drop(p)
    /\ \/ rep'[p] = None /\ UNCHANGED down
       \/ /\ rep'[p] # None
          /\ Respond(p, req[p].op, IF req[p].op = "read" THEN rep'[p]
                                                         ELSE None)
    /\ UNCHANGED <<tab, past, twice, known, link, up, clicks>>

\* wifi_scan_ap: n_station is what was found, the list holds what fits.  An
\* entry that cJSON has no memory for would be missing in the list too; that
\* is left out here (WsHeap says when memory is short).
WifiScanAp(found) ==
    [n    |-> Len(found),
     list |-> SubSeq(found, 1, IF Len(found) < ListSize THEN Len(found)
                                                        ELSE ListSize)]

Scan(p) ==
    /\ Waiting(p, {"scan"})
    /\ up' = [up EXCEPT ![p] = Tail(@)]
    /\ \/ \E found \in Found : Respond(p, "scan", WifiScanAp(found))
       \/ UNCHANGED down
    /\ UNCHANGED <<register, tab, past, twice, known, link, clicks>>

Test(p) ==
    /\ Waiting(p, {"test"})
    /\ up' = [up EXCEPT ![p] = Tail(@)]
    /\ Respond(p, "test", None) \/ UNCHANGED down
    /\ UNCHANGED <<register, tab, past, twice, known, link, clicks>>

\* esp_restart, a panic or a power cut: every session is gone.
Reset ==
    /\ Register!Reset
    /\ link' = [p \in Page |-> FALSE]
    /\ up' = [p \in Page |-> <<>>]
    /\ UNCHANGED <<tab, past, twice, known, down, clicks>>

Close(p) == Waiting(p, {"close"}) /\ Reset

\* The boot finds the file system damaged.
Format == Register!Format /\ UNCHANGED <<tab, past, twice, known, net, clicks>>

-----------------------------------------------------------------------------

Script(p) == \/ OnOpen(p) \/ OnClose(p) \/ GetConfig(p)
             \/ OnConfig(p) \/ OnSaved(p) \/ OnList(p) \/ OnOther(p)
             \/ AddWifiToList(p)

User(p) == \/ Select(p) \/ TypePassword(p) \/ Command(p) \/ SaveConfig(p)
           \/ Load(p)

Device(p) == \/ TakeCommand(p) \/ Serve(p) \/ Scan(p) \/ Test(p) \/ Close(p)

Next ==
    \/ \E p \in Page : Script(p) \/ User(p) \/ Device(p)
    \/ Reset
    \/ Format

Spec == Init /\ [][Next]_vars

-----------------------------------------------------------------------------
(* Properties.                                                             *)

(***************************************************************************)
(* The password "undefined" is stored only when somebody saved again       *)
(* without loading the page anew: of all answers only the one to a save    *)
(* lacks what onMessage takes from it (Configurationpage.html:161).        *)
(***************************************************************************)
UndefinedNeedsSecondSave ==
    value \in Form /\ value.password = Undefined => twice

(***************************************************************************)
(* The network and the password that the device stores belong together:    *)
(* they were the configuration at first, or stood side by side in a form   *)
(* when its user last selected or typed (or both fields were empty, or     *)
(* emptied by the answer to a save).  However late answers come and        *)
(* whichever page saves what another has saved, one page's list is the     *)
(* only thing that mixes two: any other pair stored is a form that its     *)
(* user saved without changing it since a list was put in, or an answer    *)
(* put beside a list (Configurationpage.html:161-175).                     *)
(***************************************************************************)
StoredPairIsKnown == value \in Form => value \in known

(***************************************************************************)
(* What the user typed is overwritten by the configuration at most once    *)
(* per loading, however late the answer to getconfig comes: the socket is  *)
(* opened once, and getconfig called once (Configurationpage.html:153).    *)
(***************************************************************************)
OneLateOverwrite == \A p \in Page : past[p].reads <= 1

(***************************************************************************)
(* The page's loop runs past the device's list only after a scan that      *)
(* found at least two networks more than the list holds                    *)
(* (Configurationpage.html:169, wifi_manager.h:105), if the device had the *)
(* memory for every entry of the list (wifi_manager.h:106).                *)
(***************************************************************************)
ScriptFailsOnlyBeyondList ==
    \A p \in Page : past[p].threw => past[p].most > ListSize + 1

=============================================================================
