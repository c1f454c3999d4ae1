--------------------------- MODULE ConfigRegister ---------------------------
(***************************************************************************)
(* What the configuration's WebSocket commands promise to browsers, above  *)
(* files and tasks: a register that holds the configuration.  A request    *)
(* takes effect in one step between being sent and being answered, or,     *)
(* when the device resets, once more or not at all.                        *)
(*                                                                         *)
(* The promise is no stronger than the code: a save whose writing fails    *)
(* still answers "ok" and leaves a damaged configuration, and the answer   *)
(* to a reinitialisation tells nothing of the configuration.               *)
(***************************************************************************)
CONSTANTS Client,  \* the browsers
          Config,  \* the configurations they save
          Request, \* the requests: records with the field op
          Erased,  \* the configuration "{}"
          Damaged, \* an empty or partly written file
          Missing, \* no file
          None     \* no request, no answer

VARIABLES value, \* the configuration
          req,   \* the request of every client that waits for an answer
          rep    \* the answer to every client's last request, unless lost

vars == <<value, req, rep>>

Value == Config \cup {Erased, Damaged, Missing}

Init ==
    /\ value \in Value
    /\ req = [c \in Client |-> None]
    /\ rep = [c \in Client |-> None]

\* A client asks anew: what it was told before no longer matters.
Ask(c) ==
    /\ req[c] = None
    /\ \E r \in Request : req' = [req EXCEPT ![c] = r]
    /\ rep' = [rep EXCEPT ![c] = None]
    /\ UNCHANGED value

\* The request of c is over; the answer may be lost on its way.
Answer(c, a) ==
    /\ req' = [req EXCEPT ![c] = None]
    /\ rep' \in {[rep EXCEPT ![c] = a], rep}

Waits(c, op) == req[c] # None /\ req[c].op = op

Read(c) ==
    /\ Waits(c, "read")
    /\ value # Missing
    /\ Answer(c, value)
    /\ UNCHANGED value

Save(c) ==
    /\ Waits(c, "save")
    /\ \/ value' = req[c].config /\ Answer(c, "ok")
       \/ value' = Damaged /\ Answer(c, "ok")
       \/ UNCHANGED value /\ Answer(c, "notok")

Reinit(c) ==
    /\ Waits(c, "reinit")
    /\ value' \in {Erased, Damaged, value}
    /\ \E a \in {"ok", "notok"} : Answer(c, a)

\* Deleting Config.txt is not answered.
Delete(c) ==
    /\ Waits(c, "delete")
    /\ \/ UNCHANGED value
       \/ req[c].path = "Config.txt" /\ value' = Missing
    /\ Answer(c, None)

Get(c) ==
    /\ Waits(c, "get")
    /\ \E a \in {"page", "404"} : Answer(c, a)
    /\ UNCHANGED value

\* Without memory for it a command is dropped, unanswered.
Drop(c) ==
    /\ req[c] # None
    /\ Answer(c, None)
    /\ UNCHANGED value

\* A reset ends every request, also one that is taking effect; the boot may
\* find the file system damaged and format it.
Reset ==
    /\ req' = [c \in Client |-> None]
    /\ rep' = [c \in Client |-> None]
    /\ \/ UNCHANGED value
       \/ \E c \in Client :
            Waits(c, "save") /\ value' \in {req[c].config, Damaged}
       \/ \E c \in Client : Waits(c, "reinit") /\ value' \in {Erased, Damaged}

Format == value' = Missing /\ UNCHANGED <<req, rep>>

Next ==
    \/ \E c \in Client : \/ Ask(c) \/ Read(c) \/ Save(c) \/ Reinit(c)
                         \/ Delete(c) \/ Get(c) \/ Drop(c)
    \/ Reset
    \/ Format

Spec == Init /\ [][Next]_vars

=============================================================================
