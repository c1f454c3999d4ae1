----------------------------- MODULE NvsClients -----------------------------
(***************************************************************************)
(* nvs_manager.h on its own: the tasks make the calls of the constant      *)
(* Calls in any order and as often as they like, and the chip may be reset *)
(* at any moment.  This is every environment in which each key has one     *)
(* writer; the firmware's own use of the functions is module Gateway.      *)
(***************************************************************************)
EXTENDS NvsManager

CONSTANT Calls  \* the triples <<task, function, key>> that may be called

Writers(k) == {t \in Task : \E fn \in Savers : <<t, fn, k>> \in Calls}

\* Gateway_mode is saved by gpio_task only, KEY_NAME and KEY_cons by the
\* HTTP server's task only.
ASSUME OneWriterPerKey ==
    /\ Calls \subseteq Task \X Functions \X Key
    /\ \A k \in Key : \A t, u \in Writers(k) : t = u

Init ==
    /\ NvsInit
    /\ call = [t \in Task |-> IdleFrame]

Begin(t) ==
    /\ call[t].at = "idle"
    /\ \E fn \in Functions, k \in Key :
         /\ <<t, fn, k>> \in Calls
         /\ \/ fn \in Savers /\ \E v \in Value : Enter(t, fn, k, v)
            \/ fn \notin Savers /\ Enter(t, fn, k, NoEntry)
    /\ UNCHANGED <<flash, staged, part, pages, open, leaked, faults>>

Finish(t) ==
    /\ call[t].at = "returned"
    /\ call' = [call EXCEPT ![t] = IdleFrame]
    /\ UNCHANGED <<flash, staged, part, pages, open, leaked, faults>>

\* esp_restart, a failed ESP_ERROR_CHECK or a power cut.
Reset ==
    /\ NvsReset
    /\ call' = [t \in Task |-> IdleFrame]

\* A failed ESP_ERROR_CHECK halts both cores until the reset.
Step(t) ==
    /\ \A u \in Task : ~Aborted(u)
    /\ Begin(t) \/ NvsStep(t) \/ Finish(t)

Next == (\E t \in Task : Step(t)) \/ Reset

Spec == Init /\ [][Next]_nvsVars

-----------------------------------------------------------------------------

TypeOK == NvsTypeOK

\* The step with which t's call of fn returns ESP_OK.
ReturnsOk(t, fn) ==
    /\ call[t].fn = fn /\ call[t].at # "returned"
    /\ call'[t].fn = fn /\ call'[t].at = "returned" /\ call'[t].ret = "ok"

(***************************************************************************)
(* save_data_u32_in_flash returns ESP_OK only when the flash holds the     *)
(* value it was given, whatever the other tasks do meanwhile: an erase     *)
(* that comes between its set and its commit, or a handle closed under it, *)
(* makes it return an error.                                               *)
(***************************************************************************)
SaveU32OkIsDurable ==
    [][\A t \in Task : ReturnsOk(t, SaveU32) =>
           flash'[call[t].key] = call[t].val]_nvsVars

(***************************************************************************)
(* A task has a handle open only between nvs_open and nvs_close; any other *)
(* handle belongs to a task that is one of the callers of                  *)
(* get_saved_data_from_flash, and is open only after a call of it has      *)
(* returned without closing (nvs_manager.h:37-58).  So no task that makes  *)
(* only the other four calls loses one, neither by failing between the two *)
(* nor by going on with a handle that is not its own.                      *)
(***************************************************************************)
OnlyGetStrLeaks ==
    \A t \in open :
        \/ Accessing(t)
        \/ leaked /\ \E k \in Key : <<t, GetStr, k>> \in Calls

(***************************************************************************)
(* The functions are a store: an entry changes only by the one call that   *)
(* saves it, and then to its value, or by an erase; an erase is decided    *)
(* only by a call that began before any call of this boot had succeeded,   *)
(* though it may be made after others have saved; a read returns what was  *)
(* saved last; a reset loses only what was not committed                   *)
(* (nvs_manager.h:9, 68, 103, 142).                                        *)
(***************************************************************************)
Store == INSTANCE NvsStore
             WITH value  <- staged,
                  usable <- part = "ready" \/ pages = "good",
                  job    <- [t \in Task |-> Job(call[t])],
                  Boot   <- [t \in Task |-> Job(IdleFrame)]

IsStore == Store!Spec

(***************************************************************************)
(* The same of saved_data_in_flash.  nvs_manager.h:88 reports a failed     *)
(* nvs_set_str as "Error (%s) writing to NVS!", and then the result of     *)
(* nvs_commit replaces the error: ESP_OK is returned for a value that was  *)
(* not written.                                                            *)
(***************************************************************************)
SaveStrOkIsDurable ==
    [][\A t \in Task : ReturnsOk(t, SaveStr) =>
           flash'[call[t].key] = call[t].val]_nvsVars

(***************************************************************************)
(* Every function closes the handle it opened (nvs_manager.h:60, "Close    *)
(* NVS"): get_saved_data_from_flash does not when the key is absent.       *)
(***************************************************************************)
HandlesAreClosed == ~leaked

=============================================================================
