------------------------------ MODULE NvsStore ------------------------------
(***************************************************************************)
(* What the functions of nvs_manager.h promise to their callers, above     *)
(* handles, partitions and library calls: a store of entries.  A save puts *)
(* its value where reads find it in one step of its call, and in the flash *)
(* then or at its end; a read returns the entry; a reset takes what the    *)
(* flash does not have.                                                    *)
(*                                                                         *)
(* The promise is no stronger than the code.  A call that starts before    *)
(* the store is usable may erase it, and does so later, perhaps when       *)
(* others have found it usable and saved.  saved_data_in_flash may succeed *)
(* without having written.  A save that fails may have been written.       *)
(***************************************************************************)
CONSTANTS Task,    \* the callers
          Key,     \* the keys
          Value,   \* the values kept under them
          NoEntry, \* no value
          Calls,   \* the triples <<task, function, key>> that may be called
          Boot,    \* the calls in progress when a boot begins
          InitNvs, GetU32, SaveU32, GetStr, SaveStr \* the functions

VARIABLES flash,  \* what a reset will find
          value,  \* what a read finds
          usable, \* no call that starts now erases the store
          job     \* the call of every task

vars == <<flash, value, usable, job>>

Savers  == {SaveU32, SaveStr}
Getters == {GetU32, GetStr}
Empty   == [k \in Key |-> NoEntry]
Idle    == [phase |-> "idle"]

Init ==
    /\ flash \in [Key -> Value \cup {NoEntry}]
    /\ value = flash
    /\ usable \in BOOLEAN
    /\ job = Boot

In(t, phases) == job[t].phase \in phases

Moves(t, phase) == job' = [job EXCEPT ![t].phase = phase]

\* A caller may make the next call as soon as it has the result of the last.
Start(t) ==
    /\ In(t, {"idle", "ok", "fail"})
    /\ \E fn \in Savers \cup Getters \cup {InitNvs}, k \in Key,
          v \in Value \cup {NoEntry} :
         /\ <<t, fn, k>> \in Calls
         /\ v \in Value <=> fn \in Savers
         /\ job' = [job EXCEPT ![t] = [fn |-> fn, key |-> k, val |-> v,
                                       phase |-> "starting"]]
    /\ UNCHANGED <<flash, value, usable>>

\* Only get_saved_data_from_flash leaves an unusable store as it is.
Condemn(t) ==
    /\ In(t, {"starting"}) /\ job[t].fn # GetStr
    /\ ~usable
    /\ Moves(t, "erasing")
    /\ UNCHANGED <<flash, value, usable>>

Erase(t) ==
    /\ In(t, {"erasing"})
    /\ flash' = Empty
    /\ value' = Empty
    /\ usable' = TRUE
    /\ Moves(t, "working")

Proceed(t) ==
    /\ In(t, {"starting"})
    /\ Moves(t, "working")
    /\ UNCHANGED <<flash, value, usable>>

Write(t) ==
    /\ In(t, {"working"}) /\ job[t].fn \in Savers
    /\ value' = [value EXCEPT ![job[t].key] = job[t].val]
    /\ flash' \in {flash, [flash EXCEPT ![job[t].key] = job[t].val]}
    /\ Moves(t, "closing")
    /\ UNCHANGED usable

SkipWrite(t) ==
    /\ In(t, {"working"}) /\ job[t].fn = SaveStr
    /\ Moves(t, "closing")
    /\ UNCHANGED <<flash, value, usable>>

\* A success means that no later call of this boot erases the store.
InitDone(t) ==
    /\ In(t, {"starting", "working"}) /\ job[t].fn = InitNvs
    /\ usable
    /\ Moves(t, "ok")
    /\ UNCHANGED <<flash, value, usable>>

Saved(t) ==
    /\ In(t, {"closing"})
    /\ usable
    /\ job[t].fn = SaveU32 => value[job[t].key] = job[t].val
    /\ flash' = [flash EXCEPT ![job[t].key] = value[job[t].key]]
    /\ Moves(t, "ok")
    /\ UNCHANGED <<value, usable>>

Read(t) ==
    /\ In(t, {"working"}) /\ job[t].fn \in Getters
    /\ usable
    /\ value[job[t].key] # NoEntry
    /\ job' = [job EXCEPT ![t] = [@ EXCEPT !.phase = "ok",
                                           !.val = value[job[t].key]]]
    /\ UNCHANGED <<flash, value, usable>>

\* What a call that fails returns besides its error.
Default(j) == CASE j.fn = GetU32 -> 0
                [] j.fn = GetStr -> NoEntry
                [] OTHER -> j.val

Fail(t) ==
    /\ In(t, {"starting", "working", "closing"})
    /\ job' = [job EXCEPT ![t] = [@ EXCEPT !.phase = "fail",
                                           !.val = Default(job[t])]]
    /\ UNCHANGED <<flash, value, usable>>

\* The caller halts the chip.
Abort(t) ==
    /\ \/ In(t, {"erasing"})
       \/ In(t, {"starting", "working"}) /\ job[t].fn = SaveStr
    /\ Moves(t, "stuck")
    /\ UNCHANGED <<flash, value, usable>>

Finish(t) ==
    /\ In(t, {"ok", "fail"})
    /\ job' = [job EXCEPT ![t] = Idle]
    /\ UNCHANGED <<flash, value, usable>>

Reset ==
    /\ value' = flash
    /\ usable' \in BOOLEAN
    /\ job' = Boot
    /\ UNCHANGED flash

\* A call on its way.
Work(t) ==
    \/ Condemn(t) \/ Erase(t) \/ Proceed(t) \/ Write(t) \/ SkipWrite(t)
    \/ InitDone(t) \/ Saved(t) \/ Read(t) \/ Fail(t) \/ Abort(t)

Running == \A t \in Task : ~In(t, {"stuck"})

Next ==
    \/ \E t \in Task : Running /\ (Start(t) \/ Work(t) \/ Finish(t))
    \/ Reset

Spec == Init /\ [][Next]_vars

=============================================================================
