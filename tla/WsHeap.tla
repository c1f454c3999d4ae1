------------------------------- MODULE WsHeap -------------------------------
(***************************************************************************)
(* The memory of the WebSocket handler (ws_handler and websocket_callback, *)
(* config_mode.h:60-193).  What a command allocates, uses and frees, in    *)
(* order, is its program; the server's one task works a command off before *)
(* it takes the next.  What is allocated and not freed when the handler    *)
(* returns is gone until the next reset: every pointer to it was local.    *)
(*                                                                         *)
(* cJSON and fprintf take NULL; memcpy, strlen and snprintf do not: there  *)
(* NULL is a panic, and the device resets.                                 *)
(***************************************************************************)
EXTENDS Integers, Sequences, FiniteSetsExt

CONSTANTS Size,     \* the size of every block
          MaxHeap,  \* bound: what a boot leaves of the heap
          MaxDone,  \* bound: commands between resets
          None      \* no command

Block == {"payload", \* the frame received
          "buffer",  \* its text
          "root",    \* what cJSON_Parse makes of it
          "path",    \* 23 bytes for the name of a file
          "list",    \* the networks of wifi_scan_ap
          "info",    \* the text of get_ap_info
          "send",    \* root_send, an answer under construction
          "text",    \* the configuration printed for store_data
          "answer"}  \* new_message

\* States 0, 1, 2, 5, 6, 7, 8 and the others.  A test is told the network's
\* data ("joined"), none of it ("nodata"), or that it failed ("refused").
Command == {"read", "scan", "joined", "nodata", "refused", "save", "reinit",
            "close", "delete", "other"}

ASSUME WsHeapConstants ==
    /\ Size \in [Block -> Nat \ {0}]
    /\ MaxHeap \in Nat /\ MaxDone \in Nat
    /\ None \notin Command

\* Built of many small pieces: without memory for all some are left out.
Trees == {"list", "send"}

VARIABLES cmd,   \* the command worked on
          todo,  \* the rest of its program
          ptr,   \* what its pointers are
          has,   \* the memory behind them
          heap,  \* what the boot left
          free,  \* what is free of it
          fault, \* what became of a pointer
          short, \* history: an allocation failed since the boot
          done   \* history: commands worked off since the boot

vars == <<cmd, todo, ptr, has, heap, free, fault, short, done>>

-----------------------------------------------------------------------------
(* The programs.                                                           *)

Step(do, b, from) == [do |-> do, block |-> b, from |-> from]

New(b)      == Step("new", b, b)        \* malloc
Printed(t, b) == Step("print", b, t)      \* cJSON_Print: NULL of NULL
Need(b)     == Step("need", b, b)       \* a use that faults on NULL
Take(b)     == Step("take", b, b)       \* a use that takes NULL
Exit(b)     == Step("exit", b, b)       \* nothing more is done with NULL
Drop(b)     == Step("drop", b, b)       \* free, cJSON_Delete
Restart     == Step("restart", "path", "path") \* esp_restart

\* What is received is copied: without a payload that faults, or nothing was
\* received.
Copy(b)     == Step("copy", b, b)

\* read_data allocates too; without the file it gives NULL.
Load(b)     == Step("load", b, b)

\* httpd_ws_recv_frame, memcpy to the buffer, cJSON_Parse, the path and the
\* state.
Entry == <<New("payload"), New("buffer"), Exit("buffer"), Copy("payload"),
           New("root"), New("path"), Exit("root"), Need("root")>>

\* Variant: the payload is kept.
KeepPayload(b) == IF b = "buffer" THEN <<>> ELSE <<Drop("buffer")>>

\* What is left to do when b turned out to be NULL.
AfterExit(b) == IF b = "buffer" THEN <<Drop("payload")>>
                                ELSE <<Drop("buffer"), Drop("payload")>>

Leave == AfterExit("root")

\* send_websocket_message.
SendMessage == <<Need("answer")>>

ReadSteps == <<Drop("root"), Load("answer")>> \o SendMessage

ScanSteps == <<Drop("root"), New("list"), Printed("list", "answer")>>
                 \o SendMessage

\* Variant: the request is deleted before its names are used.
TestDropsFirst(info) ==
    <<Drop("root"), Need("root"), New("send")>> \o info
        \o <<Printed("send", "answer"), Drop("send")>> \o SendMessage

TestSteps(info) ==
    <<Need("root"), Drop("root"), New("send")>> \o info
        \o <<Printed("send", "answer"), Drop("send")>> \o SendMessage

\* Variant: the answer under construction is kept.
SaveKeepsSend == <<New("send"), Printed("root", "text"), Take("text"),
                   Printed("send", "answer"), Drop("root")>>
                     \o SendMessage

SaveSteps == <<New("send"), Printed("root", "text"), Take("text"),
               Printed("send", "answer"), Drop("send"), Drop("root")>>
                 \o SendMessage

ReinitSteps == <<Drop("root"), New("send"), Printed("send", "answer"),
                 Drop("send")>> \o SendMessage

\* Variant: the path is freed.
DeleteFreesPath == <<Need("root"), Need("path"), Drop("root"), Drop("path")>>

DeleteSteps == <<Need("root"), Need("path"), Drop("root")>>

\* States 3 and 4, and those not known, do nothing.
Steps(c) == CASE c = "read"    -> ReadSteps
              [] c = "scan"    -> ScanSteps
              [] c = "joined"  -> TestSteps(<<New("info"), Take("info")>>)
              [] c \in {"nodata", "refused"} -> TestSteps(<<>>)
              [] c = "save"    -> SaveSteps
              [] c = "reinit"  -> ReinitSteps
              [] c = "delete"  -> DeleteSteps
              [] c = "close"   -> <<Restart>>
              [] OTHER         -> <<>>

\* websocket_callback, and the payload's end in ws_handler.
Program(c) == Entry \o Steps(c) \o Leave

-----------------------------------------------------------------------------

NoPtr == [b \in Block |-> "unset"]
NoMemory == [b \in Block |-> 0]

Init ==
    /\ heap \in 0 .. MaxHeap /\ free = heap
    /\ cmd = None /\ todo = <<>> /\ ptr = NoPtr /\ has = NoMemory
    /\ fault = "none" /\ short = FALSE /\ done = 0

\* ws_handler is called.
WsHandler(c) ==
    /\ cmd = None /\ done < MaxDone
    /\ cmd' = c /\ todo' = Program(c)
    /\ UNCHANGED <<ptr, has, heap, free, fault, short, done>>

\* The next step, if it is of the kind do.
At(do) == fault = "none" /\ todo # <<>> /\ Head(todo).do = do

\* Pointer b becomes p, with n of the memory.
Get(b, p, n) ==
    /\ ptr' = [ptr EXCEPT ![b] = p]
    /\ has' = [has EXCEPT ![b] = n]
    /\ free' = free - n

\* What is allocated for b: all of it, nothing, or a part of a tree.
Allocate(b) ==
    /\ short' = (short \/ Size[b] > free)
    /\ \/ Size[b] <= free /\ Get(b, "live", Size[b])
       \/ Size[b] > free /\ Get(b, "null", 0)
       \/ /\ Size[b] > free /\ b \in Trees
          /\ \E n \in 0 .. free, p \in {"null", "live"} : Get(b, p, n)

Null(b) == Get(b, "null", 0) /\ UNCHANGED short

\* b was freed, or never set.
Dangles(b) == ptr[b] \in {"unset", "freed"}

Malloc ==
    /\ At("new")
    /\ Allocate(Head(todo).block)
    /\ todo' = Tail(todo)
    /\ UNCHANGED <<cmd, heap, fault, done>>

ReadData ==
    /\ At("load")
    /\ Allocate(Head(todo).block) \/ Null(Head(todo).block)
    /\ todo' = Tail(todo)
    /\ UNCHANGED <<cmd, heap, fault, done>>

JsonPrint ==
    /\ At("print")
    /\ LET s == Head(todo)
       IN  /\ fault' = IF Dangles(s.from) THEN "dangling" ELSE "none"
           /\ \/ ptr[s.from] = "live" /\ Allocate(s.block)
              \/ ptr[s.from] # "live" /\ Null(s.block)
    /\ todo' = Tail(todo)
    /\ UNCHANGED <<cmd, heap, done>>

UseBlock ==
    /\ At("need") \/ At("take") \/ At("copy")
    /\ LET s == Head(todo)
       IN  fault' = IF Dangles(s.block) THEN "dangling"
                    ELSE IF s.do # "take" /\ ptr[s.block] = "null" THEN "null"
                    ELSE "none"
    /\ todo' = Tail(todo)
    /\ UNCHANGED <<cmd, ptr, has, heap, free, short, done>>

\* The tests of buffer and root, and a text that is empty without a payload.
ExitOnNull ==
    /\ \/ At("exit")
       \/ At("copy") /\ ptr[Head(todo).block] = "null"
    /\ LET b == Head(todo).block
       IN  todo' = IF ptr[b] = "null" THEN AfterExit(b) ELSE Tail(todo)
    /\ UNCHANGED <<cmd, ptr, has, heap, free, fault, short, done>>

\* Variant: the memory is given back even if the pointer is NULL.
FreeBlockAnyway ==
    /\ At("drop")
    /\ LET b == Head(todo).block
       IN  /\ fault' = IF Dangles(b) THEN "dangling" ELSE "none"
           /\ free' = free + Size[b]
           /\ has' = [has EXCEPT ![b] = 0]
           /\ ptr' = [ptr EXCEPT ![b] = "freed"]
    /\ todo' = Tail(todo)
    /\ UNCHANGED <<cmd, heap, short, done>>

\* free and cJSON_Delete do nothing with NULL.
FreeBlock ==
    /\ At("drop")
    /\ LET b == Head(todo).block
       IN  /\ fault' = IF Dangles(b) THEN "dangling" ELSE "none"
           /\ \/ /\ ptr[b] = "live" /\ free' = free + has[b]
                 /\ has' = [has EXCEPT ![b] = 0]
                 /\ ptr' = [ptr EXCEPT ![b] = "freed"]
              \/ ptr[b] # "live" /\ UNCHANGED <<ptr, has, free>>
    /\ todo' = Tail(todo)
    /\ UNCHANGED <<cmd, heap, short, done>>

\* The handler returns.
Return ==
    /\ cmd # None /\ todo = <<>> /\ fault = "none"
    /\ cmd' = None /\ ptr' = NoPtr /\ has' = NoMemory /\ done' = done + 1
    /\ UNCHANGED <<todo, heap, free, fault, short>>

\* A panic, esp_restart, or a reset for another reason: the heap is new.
Reset ==
    /\ heap' \in 0 .. MaxHeap /\ free' = heap'
    /\ cmd' = None /\ todo' = <<>> /\ ptr' = NoPtr /\ has' = NoMemory
    /\ fault' = "none" /\ short' = FALSE /\ done' = 0

Next ==
    \/ \E c \in Command : WsHandler(c)
    \/ Malloc \/ ReadData \/ JsonPrint \/ UseBlock \/ ExitOnNull \/ FreeBlock
    \/ Return
    \/ Reset

Spec == Init /\ [][Next]_vars

-----------------------------------------------------------------------------
(* Properties.                                                             *)

Live == {b \in Block : ptr[b] = "live"}

\* The sum of f over the blocks.
Sum(f) == f["payload"] + f["buffer"] + f["root"] + f["path"] + f["list"]
            + f["info"] + f["send"] + f["text"] + f["answer"]

SizeOf(S) == Sum([b \in Block |-> IF b \in S THEN Size[b] ELSE 0])
Taken     == Sum(has)

\* What a command never gives back.
LostBlocks(c) ==
    {"path"} \cup
    CASE c \in {"read", "nodata", "refused", "reinit"} -> {"answer"}
      [] c = "scan"   -> {"list", "answer"}
      [] c = "joined" -> {"info", "answer"}
      [] c = "save"   -> {"text", "answer"}
      [] c = "delete" -> {}
      [] OTHER        -> {"root"}

MostLost == Max({SizeOf(LostBlocks(c)) : c \in Command})

\* What a command has at most at a time: everything its program allocates.
Blocks(c) == {Program(c)[i].block : i \in 1 .. Len(Program(c))}
MostUsed  == Max({SizeOf(Blocks(c)) : c \in Command})

(***************************************************************************)
(* The types; nothing is freed that was not allocated.                     *)
(***************************************************************************)
TypeOK ==
    /\ cmd \in Command \cup {None}
    /\ ptr \in [Block -> {"unset", "null", "live", "freed"}]
    /\ heap \in 0 .. MaxHeap /\ free \in 0 .. heap
    /\ has \in [Block -> 0 .. MaxHeap]
    /\ Taken <= heap - free
    /\ fault \in {"none", "null", "dangling"}
    /\ short \in BOOLEAN
    /\ done \in 0 .. MaxDone

(***************************************************************************)
(* No handler uses or frees a block before it is allocated or after it is  *)
(* freed, whichever allocations fail: also a save uses the parsed request  *)
(* after root_send is made, and a test its names before it is deleted      *)
(* (config_mode.h:103-128).                                                *)
(***************************************************************************)
NothingDangles == fault # "dangling"

(***************************************************************************)
(* What a command that was worked off leaves behind is the path, and the   *)
(* texts and trees that were printed or sent, never more; with enough      *)
(* memory it is all of them (config_mode.h:87, 96, 103, 119, 130).         *)
(***************************************************************************)
LossIsKnown ==
    cmd # None /\ todo = <<>> /\ fault = "none" =>
        /\ Live \subseteq LostBlocks(cmd)
        /\ ~short => Live = LostBlocks(cmd)

(***************************************************************************)
(* Memory runs short, and a panic for want of it comes, only after so many *)
(* commands that what they lost leaves less than one command uses.         *)
(***************************************************************************)
ShortNeedsCommands ==
    /\ short => done * MostLost + MostUsed > heap
    /\ fault = "null" => short \/ cmd = "read"

(***************************************************************************)
(* Every command takes memory for good: a boot serves no more commands     *)
(* than there is room for their paths until memory runs short.             *)
(***************************************************************************)
CommandsAreNumbered == ~short => done * Size["path"] <= heap - free

=============================================================================
