----------------------------- MODULE NvsManager -----------------------------
(***************************************************************************)
(* The five functions of main/inc/nvs_manager.h, run by tasks that may     *)
(* interleave between any two calls of the NVS library and that a reset    *)
(* may cut off between any two of them.                                    *)
(*                                                                         *)
(* A call in progress is a frame, call[t]: the function, its key, the      *)
(* value it saves or the value it will return, the library call it makes   *)
(* next (at), its result (ret) and the NVS handle in its local variable.   *)
(* Every action below is one library call and the code around it, up to    *)
(* the next library call.  Closing a handle cannot fail and is part of     *)
(* the step before it.                                                     *)
(*                                                                         *)
(* The library itself is external.  Its contract, as the code uses it:     *)
(* nvs_flash_init is a no-op once the partition is ready, reports          *)
(* NO_FREE_PAGES / NEW_VERSION_FOUND when the pages are unusable, and may  *)
(* fail otherwise; nvs_set_* may reach the flash before nvs_commit does;   *)
(* nvs_flash_erase removes every entry and closes every handle.  A call    *)
(* of the library fails for another reason at most MaxFaults times.        *)
(***************************************************************************)
EXTENDS Naturals

CONSTANTS Task,      \* the FreeRTOS tasks that call the functions
          Key,       \* the NVS keys of the namespace "storage"
          Value,     \* the values kept under them
          NoEntry,   \* no value: the key is absent, or a function returned NULL
          NoHandle,  \* a handle that names no open NVS handle
          MaxFaults  \* bound on the number of library calls that fail

ASSUME NvsConstants ==
    /\ Key # {}
    /\ 0 \in Value
    /\ NoEntry \notin Value
    /\ NoHandle \notin Task
    /\ MaxFaults \in Nat

VARIABLES flash,   \* what a reset will find under each key
          staged,  \* what nvs_get_* reads: flash and the sets not yet committed
          part,    \* "uninit" or "ready": the partition's state in the library
          pages,   \* "good" or "full": whether nvs_flash_init accepts the pages
          open,    \* the tasks whose NVS handle the library has open
          leaked,  \* a function returned without closing its handle
          call,    \* the frame of each task's call
          faults   \* the number of library calls that have failed so far

nvsVars == <<flash, staged, part, pages, open, leaked, call, faults>>

InitNvs == "init_nvs"
GetU32  == "get_saved_data_32_from_flash"
SaveU32 == "save_data_u32_in_flash"
GetStr  == "get_saved_data_from_flash"
SaveStr == "saved_data_in_flash"

Savers    == {SaveU32, SaveStr}
Getters   == {GetU32, GetStr}
Functions == {InitNvs} \cup Savers \cup Getters

Entry  == Value \cup {NoEntry}
Handle == Task \cup {NoHandle}
Points == {"idle", "init", "erase", "reinit", "open", "set", "commit", "get",
           "returned", "abort"}

Frame == [fn : Functions, key : Key, val : Entry, at : Points,
          ret : {"ok", "fail"}, handle : Handle]

NvsTypeOK ==
    /\ flash \in [Key -> Entry]
    /\ staged \in [Key -> Entry]
    /\ part \in {"uninit", "ready"}
    /\ pages \in {"good", "full"}
    /\ open \in SUBSET Task
    /\ leaked \in BOOLEAN
    /\ call \in [Task -> Frame]
    /\ faults \in 0 .. MaxFaults

-----------------------------------------------------------------------------
(* Frames.                                                                 *)

\* The frame with which a task enters a function.
NewFrame(fn, k, v) ==
    [fn |-> fn, key |-> k, val |-> v, at |-> "init", ret |-> "ok",
     handle |-> NoHandle]

IdleFrame == [NewFrame(InitNvs, CHOOSE k \in Key : TRUE, NoEntry)
                 EXCEPT !.at = "idle"]

Enter(t, fn, k, v) == call' = [call EXCEPT ![t] = NewFrame(fn, k, v)]

Goto(t, point) == call' = [call EXCEPT ![t].at = point]

Returns(t, r, v) ==
    call' = [call EXCEPT ![t] = [@ EXCEPT !.at = "returned", !.ret = r,
                                          !.val = v, !.handle = NoHandle]]

Returned(t, fn) == call[t].at = "returned" /\ call[t].fn = fn

\* Variant: nvs_manager.h:122 without its initialiser.
FailValueUninitialised(c) == IF c.fn = GetU32 THEN NoHandle ELSE NoEntry

\* What a function that gives up returns: 0 for a number, NULL for a string.
FailValue(c) == CASE c.fn = GetU32 -> 0
                  [] c.fn = GetStr -> NoEntry
                  [] OTHER -> c.val

GivesUp(t) == Returns(t, "fail", FailValue(call[t]))

\* What the library call of frame c is to the store's caller.
Phase(c) == CASE c.at = "init"     -> "starting"
              [] c.at = "erase"    -> "erasing"
              [] c.at = "commit"   -> "closing"
              [] c.at = "abort"    -> "stuck"
              [] c.at = "returned" -> c.ret
              [] OTHER             -> "working"

Job(c) == IF c.at = "idle"
          THEN [phase |-> "idle"]
          ELSE [fn |-> c.fn, key |-> c.key, val |-> c.val, phase |-> Phase(c)]

\* A library call fails for a reason of its own (out of memory, flash error).
Fault == faults < MaxFaults /\ faults' = faults + 1

-----------------------------------------------------------------------------
(* nvs_flash_init, which every function starts with, and the erase-and-    *)
(* retry that follows it when the pages are unusable.                      *)

FlashInitOk(t) ==
    /\ call[t].at \in {"init", "reinit"}
    /\ part = "ready" \/ pages = "good"
    /\ part' = "ready"
    /\ \/ call[t].fn = InitNvs /\ Returns(t, "ok", call[t].val)
       \/ call[t].fn # InitNvs /\ Goto(t, "open")
    /\ UNCHANGED <<flash, staged, pages, open, leaked, faults>>

\* Variant: nvs_manager.h:68 erasing on any error.
FlashInitErases(t) ==
    /\ call[t].at = "init"
    /\ part = "uninit"
    /\ \/ pages = "full" /\ UNCHANGED faults
       \/ Fault
    /\ Goto(t, IF call[t].fn = GetStr THEN "reinit" ELSE "erase")
    /\ UNCHANGED <<flash, staged, part, pages, open, leaked>>

\* get_saved_data_from_flash retries without erasing; the others erase first.
FlashInitNoFreePages(t) ==
    /\ call[t].at = "init"
    /\ part = "uninit" /\ pages = "full"
    /\ Goto(t, IF call[t].fn = GetStr THEN "reinit" ELSE "erase")
    /\ UNCHANGED <<flash, staged, part, pages, open, leaked, faults>>

\* Any other error, or NO_FREE_PAGES a second time: saved_data_in_flash
\* aborts (ESP_ERROR_CHECK), get_saved_data_from_flash ignores it, the others
\* give up.
FlashInitError(t) ==
    /\ part = "uninit"
    /\ \/ call[t].at \in {"init", "reinit"} /\ Fault
       \/ call[t].at = "reinit" /\ pages = "full" /\ UNCHANGED faults
    /\ \/ call[t].fn = SaveStr /\ Goto(t, "abort")
       \/ call[t].fn = GetStr /\ Goto(t, "open")
       \/ call[t].fn \notin {SaveStr, GetStr} /\ GivesUp(t)
    /\ UNCHANGED <<flash, staged, part, pages, open, leaked>>

\* ESP_ERROR_CHECK(nvs_flash_erase()).
FlashErase(t) ==
    /\ call[t].at = "erase"
    /\ \/ /\ flash' = [k \in Key |-> NoEntry]
          /\ staged' = [k \in Key |-> NoEntry]
          /\ part' = "uninit"
          /\ pages' = "good"
          /\ open' = {}
          /\ Goto(t, "reinit")
          /\ UNCHANGED faults
       \/ /\ Fault
          /\ Goto(t, "abort")
          /\ UNCHANGED <<flash, staged, part, pages, open>>
    /\ UNCHANGED leaked

-----------------------------------------------------------------------------
(* nvs_open, the access and nvs_commit.                                    *)

OpenOk(t) ==
    /\ call[t].at = "open"
    /\ part = "ready"
    /\ open' = open \cup {t}
    /\ call' = [call EXCEPT ![t] =
                   [@ EXCEPT !.handle = t,
                             !.at = IF call[t].fn \in Savers THEN "set"
                                                             ELSE "get"]]
    /\ UNCHANGED <<flash, staged, part, pages, leaked, faults>>

\* nvs_open fails on a partition that is not ready, and read-only on a
\* namespace that nothing was ever written to.
OpenRefused(t) ==
    \/ part = "uninit"
    \/ call[t].fn \in Getters /\ \A k \in Key : staged[k] = NoEntry

\* saved_data_in_flash goes on with the handle variable uninitialised: the
\* garbage names no handle, or the handle another task has open.
OpenFails(t) ==
    /\ call[t].at = "open"
    /\ \/ OpenRefused(t) /\ UNCHANGED faults
       \/ Fault
    /\ \/ /\ call[t].fn = SaveStr
          /\ \E h \in Handle \ {t} :
               call' = [call EXCEPT ![t] = [@ EXCEPT !.handle = h,
                                                     !.at = "set"]]
       \/ call[t].fn # SaveStr /\ GivesUp(t)
    /\ UNCHANGED <<flash, staged, part, pages, open, leaked>>

\* The library accepts a set through the handle the frame holds.
Writable(t) ==
    /\ call[t].handle \in open
    /\ call[call[t].handle].fn \in Savers

\* nvs_set_*: the value may or may not reach the flash before nvs_commit.
SetOk(t) ==
    /\ call[t].at = "set"
    /\ Writable(t)
    /\ staged' = [staged EXCEPT ![call[t].key] = call[t].val]
    /\ flash' \in {flash, [flash EXCEPT ![call[t].key] = call[t].val]}
    /\ Goto(t, "commit")
    /\ UNCHANGED <<part, pages, open, leaked, faults>>

Close(t) == open' = open \ {call[t].handle}

\* t is between its own nvs_open and nvs_close.
Accessing(t) == call[t].at \in {"set", "commit", "get"} /\ call[t].handle = t

\* Variant: nvs_manager.h:164 without its nvs_close.
SetFailsOpen(t) ==
    /\ call[t].at = "set"
    /\ \/ ~Writable(t) /\ UNCHANGED faults
       \/ Fault
    /\ \/ call[t].fn = SaveStr /\ Goto(t, "commit")
       \/ call[t].fn = SaveU32 /\ GivesUp(t)
    /\ UNCHANGED <<flash, staged, part, pages, open, leaked>>

\* Variant: nvs_manager.h:165 without its return.
SetFailsGoesOn(t) ==
    /\ call[t].at = "set"
    /\ \/ ~Writable(t) /\ UNCHANGED faults
       \/ Fault
    /\ Goto(t, "commit")
    /\ UNCHANGED <<flash, staged, part, pages, open, leaked>>

\* save_data_u32_in_flash closes and returns the error; saved_data_in_flash
\* prints it and goes on to the commit.
SetFails(t) ==
    /\ call[t].at = "set"
    /\ \/ ~Writable(t) /\ UNCHANGED faults
       \/ Fault
    /\ \/ call[t].fn = SaveStr /\ Goto(t, "commit") /\ UNCHANGED open
       \/ call[t].fn = SaveU32 /\ GivesUp(t) /\ Close(t)
    /\ UNCHANGED <<flash, staged, part, pages, leaked>>

CommitOk(t) ==
    /\ call[t].at = "commit"
    /\ call[t].handle \in open
    /\ flash' = [flash EXCEPT ![call[t].key] = staged[call[t].key]]
    /\ Returns(t, "ok", call[t].val)
    /\ Close(t)
    /\ UNCHANGED <<staged, part, pages, leaked, faults>>

CommitFails(t) ==
    /\ call[t].at = "commit"
    /\ \/ call[t].handle \notin open /\ UNCHANGED faults
       \/ Fault
    /\ GivesUp(t)
    /\ Close(t)
    /\ UNCHANGED <<flash, staged, part, pages, leaked>>

\* nvs_get_*: get_saved_data_from_flash returns early, its handle still
\* open, on every error; get_saved_data_32_from_flash closes it.
GetOk(t) ==
    /\ call[t].at = "get"
    /\ call[t].handle \in open
    /\ staged[call[t].key] # NoEntry
    /\ Returns(t, "ok", staged[call[t].key])
    /\ Close(t)
    /\ UNCHANGED <<flash, staged, part, pages, leaked, faults>>

GetFails(t) ==
    /\ call[t].at = "get"
    /\ \/ /\ call[t].handle \notin open \/ staged[call[t].key] = NoEntry
          /\ UNCHANGED faults
       \/ Fault
    /\ \/ /\ call[t].fn = GetU32
          /\ Close(t)
          /\ UNCHANGED leaked
       \/ /\ call[t].fn = GetStr
          /\ leaked' = (leaked \/ call[t].handle \in open)
          /\ UNCHANGED open
    /\ GivesUp(t)
    /\ UNCHANGED <<flash, staged, part, pages>>

\* The copy of the string cannot be allocated: NULL, with the handle closed.
GetNoMemory(t) ==
    /\ call[t].at = "get"
    /\ call[t].fn = GetStr
    /\ call[t].handle \in open
    /\ staged[call[t].key] # NoEntry
    /\ Fault
    /\ GivesUp(t)
    /\ Close(t)
    /\ UNCHANGED <<flash, staged, part, pages, leaked>>

-----------------------------------------------------------------------------

NvsStep(t) ==
    \/ FlashInitOk(t)
    \/ FlashInitNoFreePages(t)
    \/ FlashInitError(t)
    \/ FlashErase(t)
    \/ OpenOk(t)
    \/ OpenFails(t)
    \/ SetOk(t)
    \/ SetFails(t)
    \/ CommitOk(t)
    \/ CommitFails(t)
    \/ GetOk(t)
    \/ GetFails(t)
    \/ GetNoMemory(t)

\* ESP_ERROR_CHECK failed in t: the panic handler reboots the chip.
Aborted(t) == call[t].at = "abort"

\* A device fresh from the flasher or after earlier runs, before any call.
NvsInit ==
    /\ flash \in [Key -> Entry]
    /\ staged = flash
    /\ part = "uninit"
    /\ pages \in {"good", "full"}
    /\ open = {}
    /\ leaked = FALSE
    /\ faults = 0

\* A reset keeps the flash only; the pages may turn out unusable after it.
NvsReset ==
    /\ staged' = flash
    /\ part' = "uninit"
    /\ pages' \in {pages, "full"}
    /\ open' = {}
    /\ leaked' = FALSE
    /\ UNCHANGED <<flash, faults>>

=============================================================================
