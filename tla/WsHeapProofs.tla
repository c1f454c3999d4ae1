---------------------------- MODULE WsHeapProofs ----------------------------
(***************************************************************************)
(* The invariants of WsHeap, for every size of the blocks and of the heap. *)
(*                                                                         *)
(* A program, or what is left of one, is sound for the blocks made so far  *)
(* if it uses what is made, drops last, and may be left early only where   *)
(* that leaves nothing behind.  Nine lemmas show it of ten programs,       *)
(* step by step, and two that taking a step and leaving early keep it.     *)
(* From there on no action looks at a program again.                       *)
(***************************************************************************)
EXTENDS WsHeap, SequenceTheorems, TLAPS

-----------------------------------------------------------------------------
(* Sums over the blocks.                                                   *)

\* The sum of numbers is a number, no less than each,
LEMMA SumType ==
    ASSUME NEW f \in [Block -> Nat]
    PROVE  Sum(f) \in Nat
BY DEF Sum, Block

LEMMA SumElement ==
    ASSUME NEW f \in [Block -> Nat], NEW b \in Block
    PROVE  f[b] <= Sum(f)
BY DEF Sum, Block

\* changes by as much as one of them changes,
LEMMA SumUpdate ==
    ASSUME NEW f \in [Block -> Nat], NEW g \in [Block -> Nat],
           NEW b \in Block, \A c \in Block : c # b => g[c] = f[c]
    PROVE  Sum(g) = (Sum(f) - f[b]) + g[b]
BY DEF Sum, Block

\* and is monotone.
LEMMA SumOrder ==
    ASSUME NEW f \in [Block -> Nat], NEW g \in [Block -> Nat],
           \A b \in Block : f[b] <= g[b]
    PROVE  Sum(f) <= Sum(g)
BY DEF Sum, Block

LEMMA SumZero == Sum(NoMemory) = 0
BY DEF Sum, NoMemory, Block

\* One of the commands has the largest value, so Max is what it says.
LEMMA Largest ==
    ASSUME NEW F \in [Command -> Nat]
    PROVE  \E c \in Command : \A d \in Command : F[d] <= F[c]
BY DEF Command

LEMMA LostSet == \A c \in Command : LostBlocks(c) \subseteq Block
BY DEF LostBlocks, Command, Block

LEMMA SizeOfType ==
    ASSUME NEW S
    PROVE  /\ [b \in Block |-> IF b \in S THEN Size[b] ELSE 0]
                 \in [Block -> Nat]
           /\ SizeOf(S) \in Nat
<1>1. [b \in Block |-> IF b \in S THEN Size[b] ELSE 0] \in [Block -> Nat]
  BY WsHeapConstants
<1> QED BY <1>1, SumType DEF SizeOf

LEMMA LargestOf ==
    ASSUME NEW F \in [Command -> Nat]
    PROVE  LET m == Max({F[c] : c \in Command})
           IN  m \in Nat /\ \A c \in Command : F[c] <= m
<1> DEFINE S == {F[c] : c \in Command}
<1>1. PICK c \in Command : \A d \in Command : F[d] <= F[c]
  BY Largest
<1>2. F[c] \in S /\ \A y \in S : F[c] >= y
  BY <1>1
<1>3. \A y \in S : y \in Nat
  OBVIOUS
<1> HIDE DEF S
<1>4. Max(S) \in S /\ \A y \in S : Max(S) >= y
  BY <1>2 DEF Max
<1> QED BY <1>3, <1>4 DEF S

LEMMA MostLostBounds ==
    /\ MostLost \in Nat
    /\ \A c \in Command : SizeOf(LostBlocks(c)) <= MostLost
<1> DEFINE F == [c \in Command |-> SizeOf(LostBlocks(c))]
<1>1. F \in [Command -> Nat]
  BY SizeOfType
<1>2. {F[c] : c \in Command} = {SizeOf(LostBlocks(c)) : c \in Command}
  OBVIOUS
<1>3. \A c \in Command : F[c] = SizeOf(LostBlocks(c))
  OBVIOUS
<1> HIDE DEF F
<1> QED BY <1>1, <1>2, <1>3, LargestOf DEF MostLost

LEMMA MostUsedBounds ==
    /\ MostUsed \in Nat
    /\ \A c \in Command : SizeOf(Blocks(c)) <= MostUsed
<1> DEFINE F == [c \in Command |-> SizeOf(Blocks(c))]
<1>1. F \in [Command -> Nat]
  BY SizeOfType
<1>2. {F[c] : c \in Command} = {SizeOf(Blocks(c)) : c \in Command}
  OBVIOUS
<1>3. \A c \in Command : F[c] = SizeOf(Blocks(c))
  OBVIOUS
<1> HIDE DEF F
<1> QED BY <1>1, <1>2, <1>3, LargestOf DEF MostUsed

\* One more command loses as much again.
LEMMA ProductNext ==
    ASSUME NEW n \in Nat, NEW x \in Nat
    PROVE  n * x \in Nat /\ (n + 1) * x = n * x + x
OBVIOUS

-----------------------------------------------------------------------------
(* Sound programs.                                                         *)

StepType == [do : {"new", "load", "print", "need", "take", "copy", "exit",
                   "drop", "restart"}, block : Block, from : Block]

\* A step makes block b, drops it, or needs it made and not dropped.
Makes(s, b) == s.do \in {"new", "load", "print"} /\ s.block = b
Drops(s, b) == s.do = "drop" /\ s.block = b
Uses(s, b)  == \/ s.do = "print" /\ s.from = b
               \/ /\ s.do \in {"need", "take", "copy", "exit", "drop"}
                  /\ s.block = b
NeedsAnswer(s) == s.do = "need" /\ s.block = "answer"

\* Made by one of the first n steps; dropped by any.
MadeIn(p, n, b) == \E j \in 1 .. n : Makes(p[j], b)
DroppedIn(p, b) == \E j \in 1 .. Len(p) : Drops(p[j], b)

\* What AfterExit(b) frees.
Rest(b) == IF b = "buffer" THEN {"payload"} ELSE {"buffer", "payload"}

(***************************************************************************)
(* What a program p of command c, or what is left of it, keeps to when the *)
(* blocks K are made already.                                              *)
(***************************************************************************)
\* What is used was made.
UsedWhenMade(p, K) ==
    \A i \in 1 .. Len(p), b \in Block :
        Uses(p[i], b) => b \in K \/ MadeIn(p, i - 1, b)

\* No block is made twice.
MadeOnce(p, K) ==
    \A i \in 1 .. Len(p), b \in Block :
        Makes(p[i], b) => b \notin K /\ ~MadeIn(p, i - 1, b)

\* What is dropped is neither used nor made from there on.
DroppedLast(p) ==
    \A i, j \in 1 .. Len(p), b \in Block :
        i < j /\ Drops(p[i], b) => ~Uses(p[j], b) /\ ~Makes(p[j], b)

\* Where the program may be left only what is freed then, what is NULL and
\* the path are there, and nothing was dropped.
LeftEarly(p, K) ==
    \A i \in 1 .. Len(p) : p[i].do \in {"exit", "copy"} =>
        /\ p[i].block \in {"payload", "buffer", "root"}
        /\ \A j \in 1 .. i - 1 : p[j].do # "drop"
        /\ \A b \in Rest(p[i].block) : b \in K \/ MadeIn(p, i - 1, b)
        /\ \A b \in Block : b \in K \/ MadeIn(p, i - 1, b) =>
               b \in Rest(p[i].block) \cup {p[i].block, "path"}

\* Only a read may get NULL while there is memory, and it needs the answer.
AnswerNeeded(p, c) ==
    \A i \in 1 .. Len(p) :
        /\ p[i].do = "load" => /\ c = "read" /\ p[i].block = "answer"
                               /\ \E j \in i + 1 .. Len(p) : NeedsAnswer(p[j])
        /\ p[i].do = "print" => p[i].from # "answer"

\* What is made is dropped later or known to be lost, and not both.
Accounted(p, c) ==
    \A i \in 1 .. Len(p), b \in Block :
        /\ Makes(p[i], b) => b \in LostBlocks(c) \/ DroppedIn(p, b)
        /\ Drops(p[i], b) => b \notin LostBlocks(c)

\* What is made is among the blocks of the command.
Within(p, c) ==
    \A i \in 1 .. Len(p), b \in Block : Makes(p[i], b) => b \in Blocks(c)

\* What the command is known to lose is made.
Complete(p, c) ==
    \A b \in LostBlocks(c) : MadeIn(p, Len(p), b)

Sound(p, K, c) ==
    /\ p \in Seq(StepType)
    /\ UsedWhenMade(p, K)
    /\ MadeOnce(p, K)
    /\ DroppedLast(p)
    /\ LeftEarly(p, K)
    /\ AnswerNeeded(p, c)
    /\ Accounted(p, c)
    /\ Within(p, c)

(***************************************************************************)
(* The inductive invariant.                                                *)
(***************************************************************************)
\* Allocated or NULL, and not freed.
Known == {b \in Block : ptr[b] \in {"null", "live"}}

\* The types, but for what the sums are needed for.
Types ==
    /\ cmd \in Command \cup {None}
    /\ ptr \in [Block -> {"unset", "null", "live", "freed"}]
    /\ heap \in 0 .. MaxHeap /\ free \in Nat
    /\ has \in [Block -> Nat]
    /\ fault \in {"none", "null", "dangling"}
    /\ short \in BOOLEAN
    /\ done \in 0 .. MaxDone

\* What is left of a program is sound for the blocks made so far.
Control ==
    /\ cmd = None => /\ todo = <<>> /\ fault = "none"
                     /\ ptr = NoPtr /\ has = NoMemory
    /\ cmd # None => Sound(todo, Known, cmd) /\ done < MaxDone

\* What is allocated will be freed or is known to be lost, and with enough
\* memory all that is known to be lost is made in the end.
Leftover ==
    cmd # None =>
        /\ \A b \in Live : b \in LostBlocks(cmd) \/ DroppedIn(todo, b)
        /\ ~short => \A b \in LostBlocks(cmd) :
                         b \in Known \/ MadeIn(todo, Len(todo), b)
        /\ Known \subseteq Blocks(cmd)

\* With enough memory only the answer of a read can be NULL, and then the
\* handler does not return.
NullIsShort ==
    /\ ~short => \A b \in Block : ptr[b] = "null" =>
           /\ cmd = "read" /\ b = "answer"
           /\ \/ fault # "none"
              \/ \E i \in 1 .. Len(todo) : NeedsAnswer(todo[i])
    /\ fault = "null" => short \/ cmd = "read"

\* What is taken and what is free fit; with enough memory the blocks are
\* whole.
Memory ==
    /\ free + Taken <= heap
    /\ ~short => \A b \in Block :
                     has[b] = IF ptr[b] = "live" THEN Size[b] ELSE 0

\* What the commands so far lost, between the least and the most.
Books ==
    /\ ~short => /\ done * Size["path"] + Taken <= heap - free
                 /\ heap - free <= done * MostLost + Taken
    /\ short => done * MostLost + MostUsed > heap

IInv == /\ Types
        /\ Control
        /\ Leftover
        /\ NullIsShort
        /\ NothingDangles
        /\ Memory
        /\ Books

-----------------------------------------------------------------------------
(* The programs are sound.                                                 *)

\* The fields of the steps.
LEMMA Attributes ==
    /\ \A b : New(b).do = "new" /\ New(b).block = b
    /\ \A b : Load(b).do = "load" /\ Load(b).block = b
    /\ \A t, b : /\ Printed(t, b).do = "print"
                 /\ Printed(t, b).block = b /\ Printed(t, b).from = t
    /\ \A b : Need(b).do = "need" /\ Need(b).block = b
    /\ \A b : Take(b).do = "take" /\ Take(b).block = b
    /\ \A b : Copy(b).do = "copy" /\ Copy(b).block = b
    /\ \A b : Exit(b).do = "exit" /\ Exit(b).block = b
    /\ \A b : Drop(b).do = "drop" /\ Drop(b).block = b
    /\ Restart.do = "restart"
BY DEF New, Load, Printed, Need, Take, Copy, Exit, Drop, Restart, Step

\* The places of a program, for the provers to go through.
LEMMA Indices ==
    \A n \in 0 .. 18 : \A i \in 1 .. n :
        \/ i = 1 \/ i = 2 \/ i = 3 \/ i = 4 \/ i = 5 \/ i = 6
        \/ i = 7 \/ i = 8 \/ i = 9 \/ i = 10 \/ i = 11 \/ i = 12
        \/ i = 13 \/ i = 14 \/ i = 15 \/ i = 16 \/ i = 17 \/ i = 18
OBVIOUS

\* The steps that all programs begin with.
Begins(p) ==
    /\ p[1] = New("payload") /\ p[2] = New("buffer")
    /\ p[3] = Exit("buffer") /\ p[4] = Copy("payload")
    /\ p[5] = New("root") /\ p[6] = New("path")
    /\ p[7] = Exit("root") /\ p[8] = Need("root")

\* Programs are sequences of steps.
LEMMA StepsTyped ==
    /\ \A b \in Block : /\ New(b) \in StepType /\ Load(b) \in StepType
                        /\ Need(b) \in StepType /\ Take(b) \in StepType
                        /\ Copy(b) \in StepType /\ Exit(b) \in StepType
                        /\ Drop(b) \in StepType
    /\ \A t, b \in Block : Printed(t, b) \in StepType
    /\ Restart \in StepType
BY DEF New, Load, Printed, Need, Take, Copy, Exit, Drop, Restart, Step,
       StepType, Block

LEMMA StepsType == \A c \in Command : Steps(c) \in Seq(StepType)
<1> USE StepsTyped
<1>1. SendMessage \in Seq(StepType)
  BY DEF SendMessage, Block
<1>2. ReadSteps \in Seq(StepType)
  BY <1>1 DEF ReadSteps, Block
<1>3. ScanSteps \in Seq(StepType)
  BY <1>1 DEF ScanSteps, Block
<1>4. ASSUME NEW q \in Seq(StepType) PROVE TestSteps(q) \in Seq(StepType)
  BY <1>1, <1>4 DEF TestSteps, Block
<1>5. <<New("info"), Take("info")>> \in Seq(StepType)
      /\ <<>> \in Seq(StepType) /\ <<Restart>> \in Seq(StepType)
  BY DEF Block
<1>6. SaveSteps \in Seq(StepType)
  BY <1>1 DEF SaveSteps, Block
<1>7. ReinitSteps \in Seq(StepType)
  BY <1>1 DEF ReinitSteps, Block
<1>8. DeleteSteps \in Seq(StepType)
  BY DEF DeleteSteps, Block
<1> QED
  BY <1>2, <1>3, <1>4, <1>5, <1>6, <1>7, <1>8 DEF Steps, Command

LEMMA ProgramType == \A c \in Command : Program(c) \in Seq(StepType)
<1>1. Entry \in Seq(StepType)
  BY StepsTyped DEF Entry, Block
<1>2. Leave \in Seq(StepType)
  BY StepsTyped DEF Leave, AfterExit, Block
<1> QED BY <1>1, <1>2, StepsType DEF Program

LEMMA ProgramWithin == \A c \in Command : Within(Program(c), c)
BY DEF Within, Blocks, Makes

LEMMA ReadSound ==
    /\ Sound(Program("read"), {}, "read")
    /\ Complete(Program("read"), "read")
<1> DEFINE P == Program("read")
<1>1. /\ Len(P) = 13 /\ P[9] = Drop("root")
      /\ P[10] = Load("answer") /\ P[11] = Need("answer")
      /\ P[12] = Drop("buffer") /\ P[13] = Drop("payload")
  BY DEF Program, Steps, ReadSteps, SendMessage, Entry, Leave,
         AfterExit
<1>2. Begins(P)
  BY DEF Begins, Program, Steps, ReadSteps, SendMessage, Entry,
         Leave, AfterExit
<1>3. LostBlocks("read") = {"path", "answer"}
  BY DEF LostBlocks
<1>4. P \in Seq(StepType) /\ Within(P, "read")
  BY ProgramType, ProgramWithin DEF Command
<1> HIDE DEF P
<1> USE <1>1, <1>2, Attributes, Indices DEF Begins
<1>5. UsedWhenMade(P, {})
  BY DEF UsedWhenMade, Uses, Makes, MadeIn
<1>6. MadeOnce(P, {})
  BY DEF MadeOnce, Makes, MadeIn
<1>7. DroppedLast(P)
  BY DEF DroppedLast, Drops, Uses, Makes
<1>8. LeftEarly(P, {})
  BY DEF LeftEarly, Makes, MadeIn, Rest
<1>9. AnswerNeeded(P, "read")
  BY DEF AnswerNeeded, NeedsAnswer
<1>10. Accounted(P, "read")
  BY <1>3 DEF Accounted, Makes, Drops, DroppedIn
<1>11. Complete(P, "read")
  BY <1>3 DEF Complete, Makes, MadeIn
<1> QED
  BY <1>4, <1>5, <1>6, <1>7, <1>8, <1>9, <1>10, <1>11 DEF P, Sound

LEMMA ScanSound ==
    /\ Sound(Program("scan"), {}, "scan")
    /\ Complete(Program("scan"), "scan")
<1> DEFINE P == Program("scan")
<1>1. /\ Len(P) = 14 /\ P[9] = Drop("root") /\ P[10] = New("list")
      /\ P[11] = Printed("list", "answer") /\ P[12] = Need("answer")
      /\ P[13] = Drop("buffer") /\ P[14] = Drop("payload")
  BY DEF Program, Steps, ScanSteps, SendMessage, Entry, Leave,
         AfterExit
<1>2. Begins(P)
  BY DEF Begins, Program, Steps, ScanSteps, SendMessage, Entry,
         Leave, AfterExit
<1>3. LostBlocks("scan") = {"path", "list", "answer"}
  BY DEF LostBlocks
<1>4. P \in Seq(StepType) /\ Within(P, "scan")
  BY ProgramType, ProgramWithin DEF Command
<1> HIDE DEF P
<1> USE <1>1, <1>2, Attributes, Indices DEF Begins
<1>5. UsedWhenMade(P, {})
  BY DEF UsedWhenMade, Uses, Makes, MadeIn
<1>6. MadeOnce(P, {})
  BY DEF MadeOnce, Makes, MadeIn
<1>7. DroppedLast(P)
  BY DEF DroppedLast, Drops, Uses, Makes
<1>8. LeftEarly(P, {})
  BY DEF LeftEarly, Makes, MadeIn, Rest
<1>9. AnswerNeeded(P, "scan")
  BY DEF AnswerNeeded, NeedsAnswer
<1>10. Accounted(P, "scan")
  BY <1>3 DEF Accounted, Makes, Drops, DroppedIn
<1>11. Complete(P, "scan")
  BY <1>3 DEF Complete, Makes, MadeIn
<1> QED
  BY <1>4, <1>5, <1>6, <1>7, <1>8, <1>9, <1>10, <1>11 DEF P, Sound

LEMMA JoinedSound ==
    /\ Sound(Program("joined"), {}, "joined")
    /\ Complete(Program("joined"), "joined")
<1> DEFINE P == Program("joined")
<1>1. /\ Len(P) = 18 /\ P[9] = Need("root") /\ P[10] = Drop("root")
      /\ P[11] = New("send") /\ P[12] = New("info")
      /\ P[13] = Take("info") /\ P[14] = Printed("send", "answer")
      /\ P[15] = Drop("send") /\ P[16] = Need("answer")
      /\ P[17] = Drop("buffer") /\ P[18] = Drop("payload")
  BY DEF Program, Steps, TestSteps, SendMessage, Entry, Leave,
         AfterExit
<1>2. Begins(P)
  BY DEF Begins, Program, Steps, TestSteps, SendMessage, Entry,
         Leave, AfterExit
<1>3. LostBlocks("joined") = {"path", "info", "answer"}
  BY DEF LostBlocks
<1>4. P \in Seq(StepType) /\ Within(P, "joined")
  BY ProgramType, ProgramWithin DEF Command
<1> HIDE DEF P
<1> USE <1>1, <1>2, Attributes, Indices DEF Begins
<1>5. UsedWhenMade(P, {})
  BY DEF UsedWhenMade, Uses, Makes, MadeIn
<1>6. MadeOnce(P, {})
  BY DEF MadeOnce, Makes, MadeIn
<1>7. DroppedLast(P)
  BY DEF DroppedLast, Drops, Uses, Makes
<1>8. LeftEarly(P, {})
  BY DEF LeftEarly, Makes, MadeIn, Rest
<1>9. AnswerNeeded(P, "joined")
  BY DEF AnswerNeeded, NeedsAnswer
<1>10. Accounted(P, "joined")
  BY <1>3 DEF Accounted, Makes, Drops, DroppedIn
<1>11. Complete(P, "joined")
  BY <1>3 DEF Complete, Makes, MadeIn
<1> QED
  BY <1>4, <1>5, <1>6, <1>7, <1>8, <1>9, <1>10, <1>11 DEF P, Sound

LEMMA TestSound ==
    ASSUME NEW c \in {"nodata", "refused"}
    PROVE  Sound(Program(c), {}, c) /\ Complete(Program(c), c)
<1> DEFINE P == Program(c)
<1>1. /\ Len(P) = 16 /\ P[9] = Need("root") /\ P[10] = Drop("root")
      /\ P[11] = New("send") /\ P[12] = Printed("send", "answer")
      /\ P[13] = Drop("send") /\ P[14] = Need("answer")
      /\ P[15] = Drop("buffer") /\ P[16] = Drop("payload")
  BY DEF Program, Steps, TestSteps, SendMessage, Entry, Leave,
         AfterExit
<1>2. Begins(P)
  BY DEF Begins, Program, Steps, TestSteps, SendMessage, Entry,
         Leave, AfterExit
<1>3. LostBlocks(c) = {"path", "answer"}
  BY DEF LostBlocks
<1>4. P \in Seq(StepType) /\ Within(P, c)
  BY ProgramType, ProgramWithin DEF Command
<1> HIDE DEF P
<1> USE <1>1, <1>2, Attributes, Indices DEF Begins
<1>5. UsedWhenMade(P, {})
  BY DEF UsedWhenMade, Uses, Makes, MadeIn
<1>6. MadeOnce(P, {})
  BY DEF MadeOnce, Makes, MadeIn
<1>7. DroppedLast(P)
  BY DEF DroppedLast, Drops, Uses, Makes
<1>8. LeftEarly(P, {})
  BY DEF LeftEarly, Makes, MadeIn, Rest
<1>9. AnswerNeeded(P, c)
  BY DEF AnswerNeeded, NeedsAnswer
<1>10. Accounted(P, c)
  BY <1>3 DEF Accounted, Makes, Drops, DroppedIn
<1>11. Complete(P, c)
  BY <1>3 DEF Complete, Makes, MadeIn
<1> QED
  BY <1>4, <1>5, <1>6, <1>7, <1>8, <1>9, <1>10, <1>11 DEF P, Sound

LEMMA SaveSound ==
    /\ Sound(Program("save"), {}, "save")
    /\ Complete(Program("save"), "save")
<1> DEFINE P == Program("save")
<1>1. /\ Len(P) = 17 /\ P[9] = New("send")
      /\ P[10] = Printed("root", "text") /\ P[11] = Take("text")
      /\ P[12] = Printed("send", "answer") /\ P[13] = Drop("send")
      /\ P[14] = Drop("root") /\ P[15] = Need("answer")
      /\ P[16] = Drop("buffer") /\ P[17] = Drop("payload")
  BY DEF Program, Steps, SaveSteps, SendMessage, Entry, Leave,
         AfterExit
<1>2. Begins(P)
  BY DEF Begins, Program, Steps, SaveSteps, SendMessage, Entry,
         Leave, AfterExit
<1>3. LostBlocks("save") = {"path", "text", "answer"}
  BY DEF LostBlocks
<1>4. P \in Seq(StepType) /\ Within(P, "save")
  BY ProgramType, ProgramWithin DEF Command
<1> HIDE DEF P
<1> USE <1>1, <1>2, Attributes, Indices DEF Begins
<1>5. UsedWhenMade(P, {})
  BY DEF UsedWhenMade, Uses, Makes, MadeIn
<1>6. MadeOnce(P, {})
  BY DEF MadeOnce, Makes, MadeIn
<1>7. DroppedLast(P)
  BY DEF DroppedLast, Drops, Uses, Makes
<1>8. LeftEarly(P, {})
  BY DEF LeftEarly, Makes, MadeIn, Rest
<1>9. AnswerNeeded(P, "save")
  BY DEF AnswerNeeded, NeedsAnswer
<1>10. Accounted(P, "save")
  BY <1>3 DEF Accounted, Makes, Drops, DroppedIn
<1>11. Complete(P, "save")
  BY <1>3 DEF Complete, Makes, MadeIn
<1> QED
  BY <1>4, <1>5, <1>6, <1>7, <1>8, <1>9, <1>10, <1>11 DEF P, Sound

LEMMA ReinitSound ==
    /\ Sound(Program("reinit"), {}, "reinit")
    /\ Complete(Program("reinit"), "reinit")
<1> DEFINE P == Program("reinit")
<1>1. /\ Len(P) = 15 /\ P[9] = Drop("root") /\ P[10] = New("send")
      /\ P[11] = Printed("send", "answer") /\ P[12] = Drop("send")
      /\ P[13] = Need("answer") /\ P[14] = Drop("buffer")
      /\ P[15] = Drop("payload")
  BY DEF Program, Steps, ReinitSteps, SendMessage, Entry, Leave,
         AfterExit
<1>2. Begins(P)
  BY DEF Begins, Program, Steps, ReinitSteps, SendMessage, Entry,
         Leave, AfterExit
<1>3. LostBlocks("reinit") = {"path", "answer"}
  BY DEF LostBlocks
<1>4. P \in Seq(StepType) /\ Within(P, "reinit")
  BY ProgramType, ProgramWithin DEF Command
<1> HIDE DEF P
<1> USE <1>1, <1>2, Attributes, Indices DEF Begins
<1>5. UsedWhenMade(P, {})
  BY DEF UsedWhenMade, Uses, Makes, MadeIn
<1>6. MadeOnce(P, {})
  BY DEF MadeOnce, Makes, MadeIn
<1>7. DroppedLast(P)
  BY DEF DroppedLast, Drops, Uses, Makes
<1>8. LeftEarly(P, {})
  BY DEF LeftEarly, Makes, MadeIn, Rest
<1>9. AnswerNeeded(P, "reinit")
  BY DEF AnswerNeeded, NeedsAnswer
<1>10. Accounted(P, "reinit")
  BY <1>3 DEF Accounted, Makes, Drops, DroppedIn
<1>11. Complete(P, "reinit")
  BY <1>3 DEF Complete, Makes, MadeIn
<1> QED
  BY <1>4, <1>5, <1>6, <1>7, <1>8, <1>9, <1>10, <1>11 DEF P, Sound

LEMMA DeleteSound ==
    /\ Sound(Program("delete"), {}, "delete")
    /\ Complete(Program("delete"), "delete")
<1> DEFINE P == Program("delete")
<1>1. /\ Len(P) = 13 /\ P[9] = Need("root") /\ P[10] = Need("path")
      /\ P[11] = Drop("root") /\ P[12] = Drop("buffer")
      /\ P[13] = Drop("payload")
  BY DEF Program, Steps, DeleteSteps, Entry, Leave,
         AfterExit
<1>2. Begins(P)
  BY DEF Begins, Program, Steps, DeleteSteps, Entry,
         Leave, AfterExit
<1>3. LostBlocks("delete") = {"path"}
  BY DEF LostBlocks
<1>4. P \in Seq(StepType) /\ Within(P, "delete")
  BY ProgramType, ProgramWithin DEF Command
<1> HIDE DEF P
<1> USE <1>1, <1>2, Attributes, Indices DEF Begins
<1>5. UsedWhenMade(P, {})
  BY DEF UsedWhenMade, Uses, Makes, MadeIn
<1>6. MadeOnce(P, {})
  BY DEF MadeOnce, Makes, MadeIn
<1>7. DroppedLast(P)
  BY DEF DroppedLast, Drops, Uses, Makes
<1>8. LeftEarly(P, {})
  BY DEF LeftEarly, Makes, MadeIn, Rest
<1>9. AnswerNeeded(P, "delete")
  BY DEF AnswerNeeded, NeedsAnswer
<1>10. Accounted(P, "delete")
  BY <1>3 DEF Accounted, Makes, Drops, DroppedIn
<1>11. Complete(P, "delete")
  BY <1>3 DEF Complete, Makes, MadeIn
<1> QED
  BY <1>4, <1>5, <1>6, <1>7, <1>8, <1>9, <1>10, <1>11 DEF P, Sound

LEMMA CloseSound ==
    /\ Sound(Program("close"), {}, "close")
    /\ Complete(Program("close"), "close")
<1> DEFINE P == Program("close")
<1>1. /\ Len(P) = 11 /\ P[9] = Restart /\ P[10] = Drop("buffer")
      /\ P[11] = Drop("payload")
  BY DEF Program, Steps, Entry, Leave,
         AfterExit
<1>2. Begins(P)
  BY DEF Begins, Program, Steps, Entry,
         Leave, AfterExit
<1>3. LostBlocks("close") = {"path", "root"}
  BY DEF LostBlocks
<1>4. P \in Seq(StepType) /\ Within(P, "close")
  BY ProgramType, ProgramWithin DEF Command
<1> HIDE DEF P
<1> USE <1>1, <1>2, Attributes, Indices DEF Begins
<1>5. UsedWhenMade(P, {})
  BY DEF UsedWhenMade, Uses, Makes, MadeIn
<1>6. MadeOnce(P, {})
  BY DEF MadeOnce, Makes, MadeIn
<1>7. DroppedLast(P)
  BY DEF DroppedLast, Drops, Uses, Makes
<1>8. LeftEarly(P, {})
  BY DEF LeftEarly, Makes, MadeIn, Rest
<1>9. AnswerNeeded(P, "close")
  BY DEF AnswerNeeded, NeedsAnswer
<1>10. Accounted(P, "close")
  BY <1>3 DEF Accounted, Makes, Drops, DroppedIn
<1>11. Complete(P, "close")
  BY <1>3 DEF Complete, Makes, MadeIn
<1> QED
  BY <1>4, <1>5, <1>6, <1>7, <1>8, <1>9, <1>10, <1>11 DEF P, Sound

LEMMA OtherSound ==
    /\ Sound(Program("other"), {}, "other")
    /\ Complete(Program("other"), "other")
<1> DEFINE P == Program("other")
<1>1. /\ Len(P) = 10 /\ P[9] = Drop("buffer")
      /\ P[10] = Drop("payload")
  BY DEF Program, Steps, Entry, Leave,
         AfterExit
<1>2. Begins(P)
  BY DEF Begins, Program, Steps, Entry,
         Leave, AfterExit
<1>3. LostBlocks("other") = {"path", "root"}
  BY DEF LostBlocks
<1>4. P \in Seq(StepType) /\ Within(P, "other")
  BY ProgramType, ProgramWithin DEF Command
<1> HIDE DEF P
<1> USE <1>1, <1>2, Attributes, Indices DEF Begins
<1>5. UsedWhenMade(P, {})
  BY DEF UsedWhenMade, Uses, Makes, MadeIn
<1>6. MadeOnce(P, {})
  BY DEF MadeOnce, Makes, MadeIn
<1>7. DroppedLast(P)
  BY DEF DroppedLast, Drops, Uses, Makes
<1>8. LeftEarly(P, {})
  BY DEF LeftEarly, Makes, MadeIn, Rest
<1>9. AnswerNeeded(P, "other")
  BY DEF AnswerNeeded, NeedsAnswer
<1>10. Accounted(P, "other")
  BY <1>3 DEF Accounted, Makes, Drops, DroppedIn
<1>11. Complete(P, "other")
  BY <1>3 DEF Complete, Makes, MadeIn
<1> QED
  BY <1>4, <1>5, <1>6, <1>7, <1>8, <1>9, <1>10, <1>11 DEF P, Sound

-----------------------------------------------------------------------------
(* What is left of a sound program is sound.                               *)

\* Reading a program without its first step.
LEMMA TailReads ==
    ASSUME NEW p \in Seq(StepType), p # <<>>
    PROVE  /\ Tail(p) \in Seq(StepType) /\ Head(p) \in StepType
           /\ Len(p) \in Nat \ {0} /\ Len(Tail(p)) = Len(p) - 1
           /\ Head(p) = p[1]
           /\ \A i \in 1 .. Len(p) - 1 : Tail(p)[i] = p[i + 1]
           /\ \A i \in 1 .. Len(p) : p[i] \in StepType
<1>1. Len(p) \in Nat /\ Len(p) # 0
  BY EmptySeq, LenProperties
<1> QED BY <1>1, HeadTailProperties, ElementOfSeq

\* A step makes or drops what it says, and nothing else.
LEMMA SoundTail ==
    ASSUME NEW c, NEW p, NEW K, NEW L, Sound(p, K, c), p # <<>>,
           \A b \in Block : b \in L => b \in K \/ Makes(Head(p), b),
           \A b \in Block : b \in K \/ Makes(Head(p), b) =>
                                b \in L \/ Drops(Head(p), b)
    PROVE  Sound(Tail(p), L, c)
<1> DEFINE t == Tail(p)
           n == Len(p)
<1>1. /\ t \in Seq(StepType) /\ n \in Nat \ {0} /\ Len(t) = n - 1
      /\ Head(p) = p[1] /\ \A i \in 1 .. n - 1 : t[i] = p[i + 1]
  BY TailReads DEF Sound
<1> HIDE DEF t
<1>2. \A i \in 1 .. n - 1 : i + 1 \in 1 .. n /\ t[i] = p[i + 1]
  BY <1>1
<1>3. 1 \in 1 .. n
  BY <1>1
<1>4. ASSUME NEW i \in 1 .. n - 1, NEW b, MadeIn(p, i, b)
      PROVE  Makes(p[1], b) \/ MadeIn(t, i - 1, b)
  <2>1. PICK j \in 1 .. i : Makes(p[j], b)
    BY <1>4 DEF MadeIn
  <2>2. CASE j = 1
    BY <2>1, <2>2
  <2>3. CASE j # 1
    <3>1. j - 1 \in 1 .. i - 1 /\ j - 1 \in 1 .. n - 1 /\ (j - 1) + 1 = j
      BY <2>3, <1>1
    <3>2. t[j - 1] = p[j]
      BY <3>1, <1>2
    <3> QED BY <2>1, <3>1, <3>2 DEF MadeIn
  <2> QED BY <2>2, <2>3
<1>5. ASSUME NEW i \in 1 .. n - 1, NEW b, MadeIn(t, i - 1, b)
      PROVE  MadeIn(p, i, b)
  <2>1. PICK j \in 1 .. i - 1 : Makes(t[j], b)
    BY <1>5 DEF MadeIn
  <2>2. j + 1 \in 1 .. i /\ t[j] = p[j + 1]
    BY <1>1, <1>2
  <2> QED BY <2>1, <2>2 DEF MadeIn
<1>6. ASSUME NEW i \in 1 .. n - 1, NEW b, Makes(p[1], b)
      PROVE  MadeIn(p, i, b)
  BY <1>6 DEF MadeIn
<1>7. UsedWhenMade(t, L)
  <2> SUFFICES ASSUME NEW i \in 1 .. n - 1, NEW b \in Block, Uses(t[i], b)
               PROVE  b \in L \/ MadeIn(t, i - 1, b)
    BY <1>1 DEF UsedWhenMade
  <2>1. i + 1 \in 1 .. n /\ t[i] = p[i + 1] /\ (i + 1) - 1 = i /\ 1 < i + 1
    BY <1>2
  <2>2. b \in K \/ MadeIn(p, i, b)
    BY <2>1 DEF Sound, UsedWhenMade
  <2>3. ~Drops(p[1], b)
    BY <2>1, <1>3 DEF Sound, DroppedLast
  <2> QED BY <2>2, <2>3, <1>1, <1>4
<1>8. MadeOnce(t, L)
  <2> SUFFICES ASSUME NEW i \in 1 .. n - 1, NEW b \in Block, Makes(t[i], b)
               PROVE  b \notin L /\ ~MadeIn(t, i - 1, b)
    BY <1>1 DEF MadeOnce
  <2>1. i + 1 \in 1 .. n /\ t[i] = p[i + 1] /\ (i + 1) - 1 = i
    BY <1>2
  <2>2. b \notin K /\ ~MadeIn(p, i, b)
    BY <2>1 DEF Sound, MadeOnce
  <2> QED BY <2>2, <1>1, <1>5, <1>6
<1>9. DroppedLast(t)
  BY <1>1, <1>2 DEF Sound, DroppedLast
<1>10. LeftEarly(t, L)
  <2> SUFFICES ASSUME NEW i \in 1 .. n - 1, t[i].do \in {"exit", "copy"}
               PROVE
        /\ t[i].block \in {"payload", "buffer", "root"}
        /\ \A j \in 1 .. i - 1 : t[j].do # "drop"
        /\ \A b \in Rest(t[i].block) : b \in L \/ MadeIn(t, i - 1, b)
        /\ \A b \in Block : b \in L \/ MadeIn(t, i - 1, b) =>
               b \in Rest(t[i].block) \cup {t[i].block, "path"}
    BY <1>1 DEF LeftEarly
  <2>1. i + 1 \in 1 .. n /\ t[i] = p[i + 1] /\ (i + 1) - 1 = i
    BY <1>2
  <2>2. /\ t[i].block \in {"payload", "buffer", "root"}
        /\ \A j \in 1 .. i : p[j].do # "drop"
        /\ \A b \in Rest(t[i].block) : b \in K \/ MadeIn(p, i, b)
        /\ \A b \in Block : b \in K \/ MadeIn(p, i, b) =>
               b \in Rest(t[i].block) \cup {t[i].block, "path"}
    BY <2>1 DEF Sound, LeftEarly
  <2>3. \A j \in 1 .. i - 1 : t[j].do # "drop"
    <3> SUFFICES ASSUME NEW j \in 1 .. i - 1 PROVE t[j].do # "drop"
      OBVIOUS
    <3>1. j + 1 \in 1 .. i /\ t[j] = p[j + 1]
      BY <1>1, <1>2
    <3> QED BY <3>1, <2>2
  <2>4. \A b : ~Drops(p[1], b)
    BY <2>2 DEF Drops
  <2>5. Rest(t[i].block) \subseteq Block
    BY DEF Rest, Block
  <2>6. \A b \in Rest(t[i].block) : b \in L \/ MadeIn(t, i - 1, b)
    BY <2>2, <2>4, <2>5, <1>1, <1>4
  <2>7. \A b \in Block : b \in L \/ MadeIn(t, i - 1, b) =>
               b \in Rest(t[i].block) \cup {t[i].block, "path"}
    BY <2>2, <1>1, <1>5, <1>6
  <2> QED BY <2>2, <2>3, <2>6, <2>7
<1>11. AnswerNeeded(t, c)
  <2> SUFFICES ASSUME NEW i \in 1 .. n - 1
               PROVE
        /\ t[i].do = "load" => /\ c = "read" /\ t[i].block = "answer"
                               /\ \E j \in i + 1 .. n - 1 : NeedsAnswer(t[j])
        /\ t[i].do = "print" => t[i].from # "answer"
    BY <1>1 DEF AnswerNeeded
  <2>1. i + 1 \in 1 .. n /\ t[i] = p[i + 1]
    BY <1>2
  <2>2. ASSUME t[i].do = "load"
        PROVE  \E j \in i + 1 .. n - 1 : NeedsAnswer(t[j])
    <3>1. PICK j \in i + 2 .. n : NeedsAnswer(p[j])
      BY <2>1, <2>2 DEF Sound, AnswerNeeded
    <3>2. j - 1 \in i + 1 .. n - 1 /\ t[j - 1] = p[j]
      BY <1>1, <1>2
    <3> QED BY <3>1, <3>2
  <2> QED BY <2>1, <2>2 DEF Sound, AnswerNeeded
<1>12. Accounted(t, c)
  <2> SUFFICES ASSUME NEW i \in 1 .. n - 1, NEW b \in Block
               PROVE
        /\ Makes(t[i], b) => b \in LostBlocks(c) \/ DroppedIn(t, b)
        /\ Drops(t[i], b) => b \notin LostBlocks(c)
    BY <1>1 DEF Accounted
  <2>1. i + 1 \in 1 .. n /\ t[i] = p[i + 1] /\ 1 < i + 1
    BY <1>2
  <2>2. ASSUME Makes(t[i], b), DroppedIn(p, b)
        PROVE  DroppedIn(t, b)
    <3>1. PICK j \in 1 .. n : Drops(p[j], b)
      BY <2>2 DEF DroppedIn
    <3>2. j # 1
      BY <3>1, <2>1, <2>2, <1>3 DEF Sound, DroppedLast
    <3>3. j - 1 \in 1 .. n - 1 /\ t[j - 1] = p[j]
      BY <3>2, <1>1, <1>2
    <3> QED BY <3>1, <3>3, <1>1 DEF DroppedIn
  <2> QED BY <2>1, <2>2 DEF Sound, Accounted
<1>13. Within(t, c)
  BY <1>1, <1>2 DEF Sound, Within
<1> QED
  BY <1>1, <1>7, <1>8, <1>9, <1>10, <1>11, <1>12, <1>13 DEF Sound, t

\* What is done after an early exit is sound.
LEMMA SoundRest ==
    ASSUME NEW c \in Command, NEW K, NEW a \in {"payload", "buffer", "root"},
           Rest(a) \subseteq K
    PROVE  Sound(AfterExit(a), K, c)
<1> DEFINE p == AfterExit(a)
<1>1. p \in Seq(StepType)
  BY StepsTyped DEF AfterExit, Block
<1>2. \/ Len(p) = 1 /\ p[1] = Drop("payload") /\ a = "buffer"
      \/ /\ Len(p) = 2 /\ p[1] = Drop("buffer") /\ p[2] = Drop("payload")
         /\ a # "buffer"
  BY DEF AfterExit
<1>3. /\ "payload" \in K
      /\ a # "buffer" => "buffer" \in K
  BY DEF Rest
<1>4. "payload" \notin LostBlocks(c) /\ "buffer" \notin LostBlocks(c)
  BY DEF LostBlocks
<1> HIDE DEF p
<1>5. ASSUME NEW i \in 1 .. Len(p)
      PROVE  \/ /\ p[i].do = "drop" /\ p[i].block = "payload"
                /\ i = Len(p)
             \/ /\ p[i].do = "drop" /\ p[i].block = "buffer"
                /\ a # "buffer" /\ i # Len(p)
  <2>1. CASE Len(p) = 1 /\ p[1] = Drop("payload")
    <3>1. i = 1
      BY <2>1
    <3> QED BY <2>1, <3>1, Attributes
  <2>2. CASE /\ Len(p) = 2 /\ p[1] = Drop("buffer")
             /\ p[2] = Drop("payload") /\ a # "buffer"
    <3>1. i = 1 \/ i = 2
      BY <2>2
    <3> QED BY <2>2, <3>1, Attributes
  <2> QED BY <1>2, <2>1, <2>2
<1>6. UsedWhenMade(p, K) /\ MadeOnce(p, K)
  BY <1>3, <1>5 DEF UsedWhenMade, MadeOnce, Uses, Makes
<1>7. DroppedLast(p)
  <2>1. Len(p) \in {1, 2} /\ "payload" # "buffer"
    BY <1>2
  <2>2. \A i, j \in 1 .. Len(p) :
            i < j => p[i].block = "buffer" /\ p[j].block = "payload"
                     /\ p[j].do = "drop"
    BY <2>1, <1>5
  <2> QED BY <2>1, <2>2 DEF DroppedLast, Uses, Makes, Drops
<1>8. LeftEarly(p, K) /\ AnswerNeeded(p, c) /\ Within(p, c)
  BY <1>5 DEF LeftEarly, AnswerNeeded, Within, Makes
<1>9. Accounted(p, c)
  BY <1>4, <1>5 DEF Accounted, Makes, Drops
<1> QED BY <1>1, <1>6, <1>7, <1>8, <1>9 DEF Sound, p

LEMMA SoundPrograms ==
    \A c \in Command : Sound(Program(c), {}, c) /\ Complete(Program(c), c)
BY ReadSound, ScanSound, JoinedSound, TestSound, SaveSound,
   ReinitSound, DeleteSound, CloseSound, OtherSound DEF Command

-----------------------------------------------------------------------------
(* Steps.                                                                  *)

\* What is in a program is its first step or in the rest.
LEMMA InTail ==
    ASSUME NEW p \in Seq(StepType), p # <<>>, NEW b
    PROVE  /\ DroppedIn(p, b) => Drops(Head(p), b) \/ DroppedIn(Tail(p), b)
           /\ MadeIn(p, Len(p), b) =>
                  Makes(Head(p), b) \/ MadeIn(Tail(p), Len(Tail(p)), b)
           /\ (\E i \in 1 .. Len(p) : NeedsAnswer(p[i])) =>
                  \/ NeedsAnswer(Head(p))
                  \/ \E i \in 1 .. Len(Tail(p)) : NeedsAnswer(Tail(p)[i])
<1> DEFINE t == Tail(p)
           n == Len(p)
<1>1. /\ n \in Nat \ {0} /\ Len(t) = n - 1
      /\ Head(p) = p[1] /\ \A i \in 1 .. n - 1 : t[i] = p[i + 1]
  BY TailReads
<1> HIDE DEF t
<1>2. ASSUME NEW i \in 1 .. n, i # 1
      PROVE  i - 1 \in 1 .. Len(t) /\ t[i - 1] = p[i]
  BY <1>1, <1>2
<1>3. DroppedIn(p, b) => Drops(Head(p), b) \/ DroppedIn(t, b)
  BY <1>1, <1>2 DEF DroppedIn
<1>4. MadeIn(p, n, b) => Makes(Head(p), b) \/ MadeIn(t, Len(t), b)
  BY <1>1, <1>2 DEF MadeIn
<1>5. (\E i \in 1 .. n : NeedsAnswer(p[i])) =>
          NeedsAnswer(Head(p)) \/ \E i \in 1 .. Len(t) : NeedsAnswer(t[i])
  BY <1>1, <1>2
<1> QED BY <1>3, <1>4, <1>5 DEF t

\* What the invariant says of the step at the head.
LEMMA HeadFacts ==
    ASSUME IInv, todo # <<>>
    PROVE  LET s == Head(todo) IN
           /\ cmd \in Command /\ s \in StepType
           /\ todo \in Seq(StepType) /\ Tail(todo) \in Seq(StepType)
           /\ \A b \in Block : Uses(s, b) => b \in Known
           /\ \A b \in Block : Makes(s, b) =>
                  /\ b \notin Known /\ b \in Blocks(cmd)
                  /\ b \in LostBlocks(cmd) \/ DroppedIn(todo, b)
           /\ \A b \in Block : Drops(s, b) => b \notin LostBlocks(cmd)
           /\ s.do = "load" =>
                  /\ cmd = "read" /\ s.block = "answer"
                  /\ \E i \in 1 .. Len(Tail(todo)) : NeedsAnswer(Tail(todo)[i])
           /\ s.do = "print" => s.from # "answer"
           /\ s.do \in {"exit", "copy"} =>
                  /\ s.block \in {"payload", "buffer", "root"}
                  /\ Rest(s.block) \subseteq Known
                  /\ Known \subseteq Rest(s.block) \cup {s.block, "path"}
<1>1. cmd # None /\ cmd \in Command /\ Sound(todo, Known, cmd)
  BY DEF IInv, Types, Control
<1>2. /\ todo \in Seq(StepType) /\ Tail(todo) \in Seq(StepType)
      /\ Head(todo) \in StepType
      /\ Head(todo) = todo[1] /\ 1 \in 1 .. Len(todo)
      /\ Len(todo) \in Nat /\ Len(Tail(todo)) = Len(todo) - 1
      /\ \A i \in 1 .. Len(todo) - 1 : Tail(todo)[i] = todo[i + 1]
  BY <1>1, TailReads DEF Sound
<1>3. \A b : ~MadeIn(todo, 1 - 1, b)
  BY DEF MadeIn
<1>4. \A b \in Block : Uses(todo[1], b) => b \in Known
  BY <1>1, <1>2, <1>3 DEF Sound, UsedWhenMade
<1>5. \A b \in Block : Makes(todo[1], b) =>
          /\ b \notin Known /\ b \in Blocks(cmd)
          /\ b \in LostBlocks(cmd) \/ DroppedIn(todo, b)
  BY <1>1, <1>2 DEF Sound, MadeOnce, Within, Accounted
<1>6. \A b \in Block : Drops(todo[1], b) => b \notin LostBlocks(cmd)
  BY <1>1, <1>2 DEF Sound, Accounted
<1>7. ASSUME todo[1].do = "load"
      PROVE  /\ cmd = "read" /\ todo[1].block = "answer"
             /\ \E i \in 1 .. Len(Tail(todo)) : NeedsAnswer(Tail(todo)[i])
  <2>1. /\ cmd = "read" /\ todo[1].block = "answer"
        /\ \E j \in 1 + 1 .. Len(todo) : NeedsAnswer(todo[j])
    BY <1>1, <1>2, <1>7 DEF Sound, AnswerNeeded
  <2>2. PICK j \in 1 + 1 .. Len(todo) : NeedsAnswer(todo[j])
    BY <2>1
  <2>3. j - 1 \in 1 .. Len(todo) - 1 /\ Tail(todo)[j - 1] = todo[j]
    BY <1>2
  <2> QED BY <2>1, <2>2, <2>3, <1>2
<1>8. todo[1].do = "print" => todo[1].from # "answer"
  BY <1>1, <1>2 DEF Sound, AnswerNeeded
<1>9. ASSUME todo[1].do \in {"exit", "copy"}
      PROVE  /\ todo[1].block \in {"payload", "buffer", "root"}
             /\ Rest(todo[1].block) \subseteq Known
             /\ Known \subseteq Rest(todo[1].block)
                                    \cup {todo[1].block, "path"}
  <2>1. /\ todo[1].block \in {"payload", "buffer", "root"}
        /\ \A b \in Rest(todo[1].block) : b \in Known \/ MadeIn(todo, 1 - 1, b)
        /\ \A b \in Block : b \in Known \/ MadeIn(todo, 1 - 1, b) =>
               b \in Rest(todo[1].block) \cup {todo[1].block, "path"}
    BY <1>1, <1>2, <1>9 DEF Sound, LeftEarly
  <2>2. Known \subseteq Block
    BY DEF Known
  <2> QED BY <2>1, <2>2, <1>3
<1> QED BY <1>1, <1>2, <1>4, <1>5, <1>6, <1>7, <1>8, <1>9

(***************************************************************************)
(* A step that is taken, whatever it does, leaves a sound rest.            *)
(***************************************************************************)
LEMMA Advance ==
    ASSUME IInv, todo # <<>>, todo' = Tail(todo),
           UNCHANGED <<cmd, done>>, short' = FALSE => short = FALSE,
           \A b \in Block : b \in Known' =>
               b \in Known \/ Makes(Head(todo), b),
           \A b \in Block : b \in Known \/ Makes(Head(todo), b) =>
               b \in Known' \/ Drops(Head(todo), b),
           \A b \in Live' :
               \/ b \in Live /\ ~Drops(Head(todo), b)
               \/ Makes(Head(todo), b)
    PROVE  Control' /\ Leftover'
<1> DEFINE s == Head(todo)
<1>1. /\ cmd \in Command /\ cmd # None /\ todo \in Seq(StepType)
      /\ Sound(todo, Known, cmd) /\ done < MaxDone
  BY HeadFacts DEF IInv, Control, Types
<1>2. Sound(Tail(todo), Known', cmd)
  BY <1>1, SoundTail
<1>3. Control'
  BY <1>1, <1>2 DEF Control
<1>4. Live' \subseteq Block /\ Live \subseteq Block
  BY DEF Live
<1>5. \A b \in Live' : b \in LostBlocks(cmd) \/ DroppedIn(todo', b)
  <2> SUFFICES ASSUME NEW b \in Live', b \notin LostBlocks(cmd)
               PROVE  DroppedIn(Tail(todo), b)
    OBVIOUS
  <2>1. b \in Block
    BY <1>4
  <2>2. CASE b \in Live /\ ~Drops(s, b)
    BY <2>2, <1>1, InTail DEF IInv, Leftover
  <2>3. CASE Makes(s, b)
    <3>1. DroppedIn(todo, b)
      BY <2>1, <2>3, HeadFacts
    <3>2. ~Drops(s, b)
      BY <2>3 DEF Makes, Drops
    <3> QED BY <3>1, <3>2, <1>1, InTail
  <2> QED BY <2>2, <2>3
<1>6. ASSUME short' = FALSE, NEW b \in LostBlocks(cmd)
      PROVE  b \in Known' \/ MadeIn(todo', Len(todo'), b)
  <2>1. b \in Block
    BY <1>1, <1>6, LostSet
  <2>2. ~Drops(s, b)
    BY <2>1, <1>6, HeadFacts
  <2>3. b \in Known \/ MadeIn(todo, Len(todo), b)
    BY <1>1, <1>6 DEF IInv, Leftover
  <2>4. MadeIn(todo, Len(todo), b) =>
            Makes(s, b) \/ MadeIn(Tail(todo), Len(Tail(todo)), b)
    BY <1>1, InTail
  <2> QED BY <2>1, <2>2, <2>3, <2>4
<1>7. Known' \subseteq Blocks(cmd)
  <2>1. Known' \subseteq Block
    BY DEF Known
  <2>2. Known \subseteq Blocks(cmd)
    BY <1>1 DEF IInv, Leftover
  <2> QED BY <2>1, <2>2, HeadFacts
<1>8. ~short' => short' = FALSE
  OBVIOUS
<1> QED BY <1>3, <1>5, <1>6, <1>7, <1>8 DEF Leftover

\* The sets of blocks in terms of the pointers.
LEMMA KnownFacts ==
    ASSUME Types
    PROVE  /\ \A b \in Block : b \in Known <=> ptr[b] \in {"null", "live"}
           /\ \A b \in Block : b \in Known => ~Dangles(b)
           /\ \A b \in Block : b \in Live <=> ptr[b] = "live"
BY DEF Types, Known, Live, Dangles

\* What an allocation may come to.
LEMMA Allocated ==
    ASSUME Types, NEW b \in Block, Allocate(b) \/ Null(b)
    PROVE  \E p \in {"null", "live"}, n \in Nat :
               /\ Get(b, p, n) /\ n <= free
               /\ \/ short' = short /\ p = "live" /\ n = Size[b]
                  \/ short' = short /\ p = "null" /\ n = 0 /\ ~Allocate(b)
                  \/ short' = TRUE /\ Size[b] > free
<1> DEFINE Comes(p, n) ==
               /\ Get(b, p, n) /\ n <= free
               /\ \/ short' = short /\ p = "live" /\ n = Size[b]
                  \/ short' = short /\ p = "null" /\ n = 0 /\ ~Allocate(b)
                  \/ short' = TRUE /\ Size[b] > free
<1>1. Size[b] \in Nat /\ free \in Nat /\ short \in BOOLEAN /\ 0 <= free
  BY WsHeapConstants DEF Types
<1> SUFFICES \E p \in {"null", "live"}, n \in Nat : Comes(p, n)
  OBVIOUS
<1>2. CASE ~Allocate(b)
  <2>1. Get(b, "null", 0) /\ short' = short
    BY <1>2 DEF Null
  <2>2. Comes("null", 0)
    BY <2>1, <1>1, <1>2
  <2> HIDE DEF Comes
  <2> QED BY <2>2
<1>3. CASE Allocate(b) /\ Size[b] <= free
  <2>1. Get(b, "live", Size[b]) /\ short' = short
    BY <1>1, <1>3 DEF Allocate
  <2>2. Comes("live", Size[b])
    BY <2>1, <1>3
  <2> HIDE DEF Comes
  <2> QED BY <2>2, <1>1
<1>4. CASE Allocate(b) /\ Size[b] > free
  <2>1. short' = TRUE
    BY <1>4 DEF Allocate
  <2>2. CASE Get(b, "null", 0)
    <3>1. Comes("null", 0)
      BY <2>1, <2>2, <1>1, <1>4
    <3> HIDE DEF Comes
    <3> QED BY <3>1
  <2>3. CASE \E n \in 0 .. free, p \in {"null", "live"} : Get(b, p, n)
    <3>1. PICK n \in 0 .. free, p \in {"null", "live"} : Get(b, p, n)
      BY <2>3
    <3>2. n \in Nat /\ n <= free
      BY <1>1
    <3>3. Comes(p, n)
      BY <2>1, <3>1, <3>2, <1>4
    <3> HIDE DEF Comes
    <3> QED BY <3>2, <3>3
  <2> QED BY <2>2, <2>3, <1>1, <1>4 DEF Allocate
<1>5. Size[b] <= free \/ Size[b] > free
  BY <1>1
<1> HIDE DEF Comes
<1> QED BY <1>2, <1>3, <1>4, <1>5

\* A step that makes block b.
LEMMA MakeStep ==
    ASSUME IInv, todo # <<>>, NEW b \in Block, Makes(Head(todo), b),
           \/ Allocate(b)
           \/ Null(b) /\ (short = FALSE => Head(todo).do = "load"),
           todo' = Tail(todo), fault = "none", fault' = "none",
           UNCHANGED <<cmd, heap, done>>
    PROVE  IInv'
<1> DEFINE s == Head(todo)
<1>1. PICK p \in {"null", "live"}, n \in Nat :
          /\ Get(b, p, n) /\ n <= free
          /\ \/ short' = short /\ p = "live" /\ n = Size[b]
             \/ short' = short /\ p = "null" /\ n = 0 /\ ~Allocate(b)
             \/ short' = TRUE /\ Size[b] > free
  BY Allocated DEF IInv
<1>2. /\ cmd \in Command /\ todo \in Seq(StepType)
      /\ b \notin Known /\ b \in Blocks(cmd)
  BY HeadFacts
<1>3. /\ ptr \in [Block -> {"unset", "null", "live", "freed"}]
      /\ has \in [Block -> Nat] /\ free \in Nat
      /\ heap \in 0 .. MaxHeap /\ done \in 0 .. MaxDone
      /\ short \in BOOLEAN /\ Size \in [Block -> Nat \ {0}]
      /\ MaxHeap \in Nat /\ MaxDone \in Nat
  BY WsHeapConstants DEF IInv, Types
<1>4. ptr' = [ptr EXCEPT ![b] = p]
  BY <1>1 DEF Get
<1>5. ptr' \in [Block -> {"unset", "null", "live", "freed"}]
      /\ ptr'[b] = p /\ \A c \in Block : c # b => ptr'[c] = ptr[c]
  BY <1>3, <1>4
<1>6. has' = [has EXCEPT ![b] = n] /\ free' = free - n
  BY <1>1 DEF Get
<1>7. /\ has' \in [Block -> Nat] /\ has'[b] = n
      /\ \A c \in Block : c # b => has'[c] = has[c]
  BY <1>3, <1>6
<1>8. Taken \in Nat /\ Taken' = (Taken - has[b]) + n
  <2>1. Sum(has) \in Nat
    BY <1>3, SumType
  <2>2. Sum(has') = (Sum(has) - has[b]) + has'[b]
    BY <1>3, <1>7, SumUpdate
  <2> QED BY <2>1, <2>2, <1>7 DEF Taken
<1>9. free' \in Nat
  BY <1>1, <1>3, <1>6
<1>10. short' \in BOOLEAN /\ (short' = FALSE => short = FALSE)
  BY <1>1, <1>3
<1>11. Types'
  BY <1>3, <1>5, <1>7, <1>9, <1>10 DEF IInv, Types
<1>12. ptr[b] # "live" /\ ptr[b] # "null"
  BY <1>2, KnownFacts DEF IInv
<1>13. Control' /\ Leftover'
  <2>1. \A c \in Block : c \in Known' <=> c \in Known \/ c = b
    BY <1>5, KnownFacts DEF Known, IInv
  <2>2. \A c \in Block : Makes(s, c) <=> c = b
    BY DEF Makes
  <2>3. \A c \in Live' : (c \in Live /\ c # b) \/ c = b
    BY <1>5 DEF Live
  <2>4. \A c : ~Drops(s, c)
    BY DEF Makes, Drops
  <2>5. \A c \in Live' : c \in Block
    BY DEF Live
  <2> QED BY <2>1, <2>2, <2>3, <2>4, <2>5, <1>10, Advance
<1>14. NullIsShort'
  <2>1. ASSUME short' = FALSE, NEW c \in Block, ptr'[c] = "null"
        PROVE  /\ cmd' = "read" /\ c = "answer"
               /\ \E i \in 1 .. Len(todo') : NeedsAnswer(todo'[i])
    <3>1. CASE c = b
      <4>1. s.do = "load"
        BY <3>1, <2>1, <1>1, <1>5, <1>10
      <4> QED BY <3>1, <4>1, HeadFacts DEF Makes
    <3>2. CASE c # b
      <4>1. ptr[c] = "null" /\ short = FALSE
        BY <3>2, <2>1, <1>5, <1>10
      <4>2. /\ cmd = "read" /\ c = "answer"
            /\ \E i \in 1 .. Len(todo) : NeedsAnswer(todo[i])
        BY <4>1 DEF IInv, NullIsShort
      <4>3. ~NeedsAnswer(s)
        BY DEF Makes, NeedsAnswer
      <4> QED BY <4>2, <4>3, <1>2, InTail
    <3> QED BY <3>1, <3>2
  <2> QED BY <2>1, <1>10 DEF NullIsShort
<1>15. NothingDangles'
  BY DEF NothingDangles
<1>16. Memory'
  <2>1. free' + Taken' <= heap'
    <3>1. free + Taken <= heap /\ has[b] \in Nat /\ heap \in Nat
      BY <1>3 DEF IInv, Memory
    <3> QED BY <3>1, <1>3, <1>6, <1>8
  <2>2. ASSUME short' = FALSE, NEW c \in Block
        PROVE  has'[c] = IF ptr'[c] = "live" THEN Size[c] ELSE 0
    <3>1. CASE c = b
      BY <3>1, <2>2, <1>1, <1>5, <1>7
    <3>2. CASE c # b
      BY <3>2, <2>2, <1>5, <1>7, <1>10 DEF IInv, Memory
    <3> QED BY <3>1, <3>2
  <2> QED BY <2>1, <2>2, <1>10 DEF Memory
<1>17. Books'
  <2>1. /\ done * Size["path"] \in Nat /\ done * MostLost \in Nat
        /\ MostLost \in Nat /\ MostUsed \in Nat /\ heap \in Nat
    <3>1. MostLost \in Nat /\ MostUsed \in Nat
      BY MostLostBounds, MostUsedBounds
    <3>2. Size["path"] \in Nat /\ done \in Nat /\ heap \in Nat
      BY <1>3 DEF Block
    <3> QED BY <3>1, <3>2, ProductNext
  <2>2. CASE short' = FALSE
    <3>1. has[b] = 0 /\ done * Size["path"] + Taken <= heap - free
          /\ heap - free <= done * MostLost + Taken
      BY <2>2, <1>10, <1>12 DEF IInv, Memory, Books
    <3>2. Taken' = Taken + n /\ heap' - free' = (heap - free) + n
      BY <3>1, <2>1, <1>3, <1>6, <1>8
    <3>3. /\ done' * Size["path"] + Taken' <= heap' - free'
          /\ heap' - free' <= done' * MostLost + Taken'
      <4>1. /\ heap - free \in Int /\ heap' - free' \in Int /\ n \in Nat
            /\ Taken \in Nat /\ Taken' \in Nat /\ done' = done
        BY <1>3, <1>6, <1>8, <3>1
      <4> QED BY <3>1, <3>2, <2>1, <4>1
    <3> QED BY <2>2, <3>3 DEF Books
  <2>3. CASE short = TRUE
    <3>1. done' * MostLost + MostUsed > heap'
      BY <2>3 DEF IInv, Books
    <3>2. short' = TRUE
      BY <2>3, <1>10
    <3> QED BY <3>1, <3>2 DEF Books
  <2>4. CASE short' = TRUE /\ short = FALSE
    <3>1. has[b] = 0 /\ heap - free <= done * MostLost + Taken
          /\ Size[b] > free
      BY <2>4, <1>1, <1>12 DEF IInv, Memory, Books
    <3>2. Taken + Size[b] <= SizeOf(Blocks(cmd))
      <4> DEFINE f == [has EXCEPT ![b] = Size[b]]
                 g == [c \in Block |-> IF c \in Blocks(cmd)
                                       THEN Size[c] ELSE 0]
      <4>1. /\ f \in [Block -> Nat] /\ f[b] = Size[b]
            /\ \A c \in Block : c # b => f[c] = has[c]
        BY <1>3
      <4>2. g \in [Block -> Nat]
        BY SizeOfType
      <4>3. ASSUME NEW c \in Block PROVE f[c] <= g[c]
        <5>1. CASE c = b
          BY <5>1, <1>2, <1>3, <4>1
        <5>2. CASE c # b
          <6>1. has[c] = IF ptr[c] = "live" THEN Size[c] ELSE 0
            BY <2>4 DEF IInv, Memory
          <6>2. ptr[c] = "live" => c \in Blocks(cmd)
            BY <1>2, KnownFacts, WsHeapConstants
               DEF IInv, Leftover
          <6> QED BY <5>2, <6>1, <6>2, <1>3, <4>1
        <5> QED BY <5>1, <5>2
      <4> HIDE DEF f, g
      <4>4. Sum(f) <= Sum(g)
        BY <4>1, <4>2, <4>3, SumOrder
      <4>5. Sum(f) = (Sum(has) - has[b]) + f[b]
        BY <4>1, <1>3, SumUpdate
      <4>6. Sum(f) = Taken + Size[b]
        BY <4>1, <4>5, <3>1, <1>3, <1>8 DEF Taken
      <4> QED BY <4>4, <4>6 DEF g, SizeOf
    <3>3. SizeOf(Blocks(cmd)) <= MostUsed /\ SizeOf(Blocks(cmd)) \in Nat
      BY <1>2, MostUsedBounds, SizeOfType
    <3>4. done * MostLost + MostUsed > heap
      BY <3>1, <3>2, <3>3, <2>1, <1>3, <1>8
    <3> QED BY <3>4, <2>4 DEF Books
  <2> QED BY <2>2, <2>3, <2>4, <1>3, <1>10
<1> QED BY <1>11, <1>13, <1>14, <1>15, <1>16, <1>17 DEF IInv

\* An action at the head of the program.
LEMMA AtFacts ==
    ASSUME IInv, NEW do, At(do)
    PROVE  fault = "none" /\ todo # <<>> /\ Head(todo).do = do
           /\ Head(todo).block \in Block /\ Head(todo).from \in Block
BY HeadFacts DEF At, StepType

LEMMA MallocStep ==
    ASSUME IInv, Malloc
    PROVE  IInv'
<1> DEFINE b == Head(todo).block
<1>1. At("new") /\ Allocate(b) /\ todo' = Tail(todo)
      /\ UNCHANGED <<cmd, heap, fault, done>>
  BY DEF Malloc
<1>2. /\ fault = "none" /\ todo # <<>> /\ Head(todo).do = "new"
      /\ b \in Block
  BY <1>1, AtFacts
<1>3. Makes(Head(todo), b)
  BY <1>2 DEF Makes
<1> HIDE DEF b
<1> QED BY <1>1, <1>2, <1>3, MakeStep

LEMMA ReadDataStep ==
    ASSUME IInv, ReadData
    PROVE  IInv'
<1> DEFINE b == Head(todo).block
<1>1. At("load") /\ (Allocate(b) \/ Null(b)) /\ todo' = Tail(todo)
      /\ UNCHANGED <<cmd, heap, fault, done>>
  BY DEF ReadData
<1>2. /\ fault = "none" /\ todo # <<>> /\ Head(todo).do = "load"
      /\ b \in Block
  BY <1>1, AtFacts
<1>3. Makes(Head(todo), b)
  BY <1>2 DEF Makes
<1> HIDE DEF b
<1> QED BY <1>1, <1>2, <1>3, MakeStep

LEMMA JsonPrintStep ==
    ASSUME IInv, JsonPrint
    PROVE  IInv'
<1> DEFINE b == Head(todo).block
           t == Head(todo).from
<1>1. /\ At("print") /\ todo' = Tail(todo) /\ UNCHANGED <<cmd, heap, done>>
      /\ fault' = IF Dangles(t) THEN "dangling" ELSE "none"
      /\ \/ ptr[t] = "live" /\ Allocate(b)
         \/ ptr[t] # "live" /\ Null(b)
  BY DEF JsonPrint
<1>2. /\ fault = "none" /\ todo # <<>> /\ Head(todo).do = "print"
      /\ b \in Block /\ t \in Block
  BY <1>1, AtFacts
<1>3. Makes(Head(todo), b) /\ Uses(Head(todo), t)
  BY <1>2 DEF Makes, Uses
<1>4. t \in Known /\ t # "answer"
  BY <1>2, <1>3, HeadFacts
<1>5. ~Dangles(t) /\ ptr[t] \in {"null", "live"}
  BY <1>2, <1>4, KnownFacts DEF IInv
<1>6. ptr[t] # "live" => short # FALSE
  BY <1>2, <1>4, <1>5 DEF IInv, NullIsShort
<1> HIDE DEF b, t
<1> QED BY <1>1, <1>2, <1>3, <1>5, <1>6, MakeStep

\* A step that changes no memory.
LEMMA QuietMemory ==
    ASSUME IInv, UNCHANGED <<cmd, ptr, has, heap, free, short, done>>
    PROVE  /\ Known' = Known /\ Live' = Live
           /\ Memory' /\ Books'
           /\ fault' \in {"none", "null", "dangling"} => Types'
<1>1. Known' = Known /\ Live' = Live
  BY DEF Known, Live
<1>2. Memory'
  BY DEF IInv, Memory, Taken
<1>3. Books'
  BY DEF IInv, Books, Taken
<1>4. fault' \in {"none", "null", "dangling"} => Types'
  BY DEF IInv, Types
<1> QED BY <1>1, <1>2, <1>3, <1>4

LEMMA UseBlockStep ==
    ASSUME IInv, UseBlock
    PROVE  IInv'
<1> DEFINE s == Head(todo)
           b == Head(todo).block
<1>1. /\ todo' = Tail(todo)
      /\ UNCHANGED <<cmd, ptr, has, heap, free, short, done>>
      /\ At("need") \/ At("take") \/ At("copy")
      /\ fault' = IF Dangles(b) THEN "dangling"
                  ELSE IF s.do # "take" /\ ptr[b] = "null" THEN "null"
                  ELSE "none"
  BY DEF UseBlock
<1>2. /\ fault = "none" /\ todo # <<>> /\ s.do \in {"need", "take", "copy"}
      /\ b \in Block
  BY <1>1, AtFacts
<1>3. Uses(s, b) /\ \A c : ~Makes(s, c) /\ ~Drops(s, c)
  BY <1>2 DEF Uses, Makes, Drops
<1>4. b \in Known /\ todo \in Seq(StepType)
  BY <1>2, <1>3, HeadFacts
<1>5. ~Dangles(b)
  BY <1>2, <1>4, KnownFacts DEF IInv
<1>6. fault' = IF s.do # "take" /\ ptr[b] = "null" THEN "null" ELSE "none"
  BY <1>1, <1>5
<1>7. Types' /\ Memory' /\ Books' /\ Known' = Known /\ Live' = Live
  BY <1>1, <1>6, QuietMemory
<1>8. Control' /\ Leftover'
  BY <1>1, <1>2, <1>3, <1>7, Advance
<1>9. NothingDangles'
  BY <1>6 DEF NothingDangles
<1>10. ASSUME short = FALSE, NEW c \in Block, ptr[c] = "null"
       PROVE  /\ cmd = "read" /\ c = "answer"
              /\ \/ fault' # "none"
                 \/ \E i \in 1 .. Len(todo') : NeedsAnswer(todo'[i])
  <2>1. /\ cmd = "read" /\ c = "answer"
        /\ \E i \in 1 .. Len(todo) : NeedsAnswer(todo[i])
    BY <1>2, <1>10 DEF IInv, NullIsShort
  <2>2. NeedsAnswer(s) => fault' # "none"
    BY <2>1, <1>6, <1>10 DEF NeedsAnswer
  <2> QED BY <2>1, <2>2, <1>1, <1>2, <1>4, InTail
<1>11. fault' = "null" => short \/ cmd = "read"
  <2>1. fault' = "null" => ptr[b] = "null"
    BY <1>6
  <2>2. short \in BOOLEAN
    BY DEF IInv, Types
  <2> QED BY <2>1, <2>2, <1>2, <1>10
<1>12. NullIsShort'
  <2>1. short \in BOOLEAN
    BY DEF IInv, Types
  <2> QED BY <2>1, <1>1, <1>10, <1>11 DEF NullIsShort
<1> QED BY <1>7, <1>8, <1>9, <1>12 DEF IInv

\* What is left after an exit drops all that is dropped then.
LEMMA RestDropped ==
    ASSUME NEW a \in {"payload", "buffer", "root"}, NEW b \in Rest(a)
    PROVE  DroppedIn(AfterExit(a), b)
<1> DEFINE p == AfterExit(a)
<1>1. CASE a = "buffer"
  <2>1. Len(p) = 1 /\ p[1] = Drop("payload") /\ b = "payload"
    BY <1>1 DEF AfterExit, Rest
  <2> HIDE DEF p
  <2>2. 1 \in 1 .. Len(p) /\ Drops(p[1], b)
    BY <2>1, Attributes DEF Drops
  <2> QED BY <2>2 DEF DroppedIn, p
<1>2. CASE a # "buffer"
  <2>1. /\ Len(p) = 2 /\ p[1] = Drop("buffer") /\ p[2] = Drop("payload")
        /\ b = "buffer" \/ b = "payload"
    BY <1>2 DEF AfterExit, Rest
  <2> HIDE DEF p
  <2>2. 1 \in 1 .. Len(p) /\ 2 \in 1 .. Len(p)
        /\ (Drops(p[1], b) \/ Drops(p[2], b))
    BY <2>1, Attributes DEF Drops
  <2> QED BY <2>2 DEF DroppedIn, p
<1> QED BY <1>1, <1>2

LEMMA ExitOnNullStep ==
    ASSUME IInv, ExitOnNull
    PROVE  IInv'
<1> DEFINE s == Head(todo)
           b == Head(todo).block
<1>1. /\ \/ At("exit")
         \/ At("copy") /\ ptr[b] = "null"
      /\ todo' = IF ptr[b] = "null" THEN AfterExit(b) ELSE Tail(todo)
      /\ UNCHANGED <<cmd, ptr, has, heap, free, fault, short, done>>
  BY DEF ExitOnNull
<1>2. /\ fault = "none" /\ todo # <<>> /\ s.do \in {"exit", "copy"}
      /\ b \in Block
  BY <1>1, AtFacts
<1>3. \A c : ~Makes(s, c) /\ ~Drops(s, c) /\ ~NeedsAnswer(s)
  BY <1>2 DEF Makes, Drops, NeedsAnswer
<1>4. /\ cmd \in Command /\ todo \in Seq(StepType)
      /\ b \in {"payload", "buffer", "root"} /\ Rest(b) \subseteq Known
      /\ Known \subseteq Rest(b) \cup {b, "path"}
  BY <1>2, HeadFacts
<1>5. Types' /\ Memory' /\ Books' /\ Known' = Known /\ Live' = Live
  BY <1>1, <1>2, QuietMemory
<1>6. NothingDangles'
  BY <1>1, <1>2 DEF NothingDangles
<1>7. CASE ptr[b] # "null"
  <2>1. Control' /\ Leftover'
    BY <1>1, <1>2, <1>3, <1>5, <1>7, Advance
  <2>2. ASSUME short = FALSE, NEW c \in Block, ptr[c] = "null"
        PROVE  /\ cmd = "read" /\ c = "answer"
               /\ \E i \in 1 .. Len(todo') : NeedsAnswer(todo'[i])
    <3>1. /\ cmd = "read" /\ c = "answer"
          /\ \E i \in 1 .. Len(todo) : NeedsAnswer(todo[i])
      BY <1>2, <2>2 DEF IInv, NullIsShort
    <3> QED BY <3>1, <1>1, <1>2, <1>3, <1>4, <1>7, InTail
  <2>3. short \in BOOLEAN
    BY DEF IInv, Types
  <2>4. NullIsShort'
    BY <2>2, <2>3, <1>1, <1>2 DEF NullIsShort
  <2> QED BY <2>1, <2>4, <1>5, <1>6 DEF IInv
<1>8. CASE ptr[b] = "null"
  <2>1. short # FALSE
    BY <1>2, <1>4, <1>8 DEF IInv, NullIsShort
  <2>2. short = TRUE
    BY <2>1 DEF IInv, Types
  <2>3. todo' = AfterExit(b)
    BY <1>1, <1>8
  <2>4. cmd # None /\ done < MaxDone
    BY <1>2, <1>4 DEF IInv, Control
  <2>5. Control'
    <3>1. Sound(todo', Known', cmd')
      BY <1>1, <1>4, <1>5, <2>3, SoundRest
    <3> QED BY <3>1, <2>4, <1>1 DEF Control
  <2>6. Leftover'
    <3>1. ASSUME NEW c \in Live
          PROVE  c \in LostBlocks(cmd) \/ DroppedIn(todo', c)
      <4>1. c \in Block /\ c \in Known /\ c # b
        BY <1>8, KnownFacts DEF IInv, Live
      <4>2. c \in Rest(b) \/ c = "path"
        BY <4>1, <1>4
      <4>3. c = "path" => c \in LostBlocks(cmd)
        BY DEF LostBlocks
      <4>4. c \in Rest(b) => DroppedIn(todo', c)
        BY <2>3, <1>4, RestDropped
      <4> QED BY <4>2, <4>3, <4>4
    <3>2. Known \subseteq Blocks(cmd)
      BY <2>4 DEF IInv, Leftover
    <3> QED BY <3>1, <3>2, <2>2, <1>1, <1>5 DEF Leftover
  <2>7. NullIsShort'
    BY <2>2, <1>1, <1>2 DEF NullIsShort
  <2> QED BY <2>5, <2>6, <2>7, <1>5, <1>6 DEF IInv
<1> QED BY <1>7, <1>8

LEMMA FreeBlockStep ==
    ASSUME IInv, FreeBlock
    PROVE  IInv'
<1> DEFINE s == Head(todo)
           b == Head(todo).block
<1>1. /\ At("drop") /\ todo' = Tail(todo)
      /\ UNCHANGED <<cmd, heap, short, done>>
      /\ fault' = IF Dangles(b) THEN "dangling" ELSE "none"
      /\ \/ /\ ptr[b] = "live" /\ free' = free + has[b]
            /\ has' = [has EXCEPT ![b] = 0]
            /\ ptr' = [ptr EXCEPT ![b] = "freed"]
         \/ ptr[b] # "live" /\ UNCHANGED <<ptr, has, free>>
  BY DEF FreeBlock
<1>2. fault = "none" /\ todo # <<>> /\ s.do = "drop" /\ b \in Block
  BY <1>1, AtFacts
<1>3. /\ Uses(s, b) /\ \A c : Drops(s, c) <=> c = b
      /\ ~NeedsAnswer(s) /\ \A c : ~Makes(s, c)
  BY <1>2 DEF Uses, Drops, Makes, NeedsAnswer
<1>4. b \in Known /\ todo \in Seq(StepType)
  BY <1>2, <1>3, HeadFacts
<1>5. fault' = "none"
  BY <1>1, <1>2, <1>4, KnownFacts DEF IInv
<1>6. /\ ptr \in [Block -> {"unset", "null", "live", "freed"}]
      /\ has \in [Block -> Nat] /\ free \in Nat
      /\ heap \in Nat /\ done \in Nat /\ short \in BOOLEAN
      /\ MostLost \in Nat /\ Size["path"] \in Nat
  BY WsHeapConstants, MostLostBounds DEF IInv, Types, Block
<1>7. NothingDangles'
  BY <1>5 DEF NothingDangles
<1>8. ASSUME \A c \in Block : ptr'[c] = "null" => ptr[c] = "null"
      PROVE  NullIsShort'
  <2>1. ASSUME short = FALSE, NEW c \in Block, ptr[c] = "null"
        PROVE  /\ cmd = "read" /\ c = "answer"
               /\ \E i \in 1 .. Len(todo') : NeedsAnswer(todo'[i])
    <3>1. /\ cmd = "read" /\ c = "answer"
          /\ \E i \in 1 .. Len(todo) : NeedsAnswer(todo[i])
      BY <1>2, <2>1 DEF IInv, NullIsShort
    <3> QED BY <3>1, <1>1, <1>2, <1>3, <1>4, InTail
  <2> QED BY <2>1, <1>1, <1>5, <1>6, <1>8 DEF NullIsShort
<1>9. CASE ptr[b] # "live"
  <2>1. UNCHANGED <<cmd, ptr, has, heap, free, short, done>>
    BY <1>1, <1>9
  <2>2. Types' /\ Memory' /\ Books' /\ Known' = Known /\ Live' = Live
    BY <2>1, <1>5, QuietMemory
  <2>3. b \notin Live
    BY <1>9 DEF Live
  <2>4. Control' /\ Leftover'
    BY <2>1, <2>2, <2>3, <1>1, <1>2, <1>3, Advance
  <2>5. NullIsShort'
    BY <2>1, <1>8
  <2> QED BY <2>2, <2>4, <2>5, <1>7 DEF IInv
<1>10. CASE ptr[b] = "live"
  <2>1. free' = free + has[b]
        /\ has' = [has EXCEPT ![b] = 0]
        /\ ptr' = [ptr EXCEPT ![b] = "freed"]
    BY <1>1, <1>10
  <2>2. /\ ptr' \in [Block -> {"unset", "null", "live", "freed"}]
        /\ ptr'[b] = "freed"
        /\ \A c \in Block : c # b => ptr'[c] = ptr[c]
    BY <2>1, <1>2, <1>6
  <2>3. /\ has' \in [Block -> Nat] /\ has'[b] = 0
        /\ \A c \in Block : c # b => has'[c] = has[c]
    BY <2>1, <1>2, <1>6
  <2>4. /\ Taken \in Nat /\ Taken' \in Nat /\ has[b] \in Nat
        /\ Taken' = Taken - has[b]
    <3>1. Sum(has') = (Sum(has) - has[b]) + has'[b]
      BY <2>3, <1>2, <1>6, SumUpdate
    <3>2. Sum(has) \in Nat /\ Sum(has') \in Nat /\ has[b] \in Nat
      BY <2>3, <1>2, <1>6, SumType
    <3> QED BY <3>1, <3>2, <2>3 DEF Taken
  <2>5. free' \in Nat
    BY <2>1, <2>4, <1>6
  <2>6. Types'
    BY <2>2, <2>3, <2>5, <1>1, <1>5 DEF IInv, Types
  <2>7. Control' /\ Leftover'
    <3>1. \A c \in Block : c \in Known' <=> c \in Known /\ c # b
      BY <2>2, KnownFacts DEF Known, IInv
    <3>2. \A c \in Live' : c \in Block /\ c \in Live /\ c # b
      BY <2>2 DEF Live
    <3> QED BY <3>1, <3>2, <1>1, <1>2, <1>3, Advance
  <2>8. NullIsShort'
    BY <2>2, <1>2, <1>8
  <2>9. Memory'
    <3>1. free' + Taken' <= heap'
      <4>1. free + Taken <= heap
        BY DEF IInv, Memory
      <4>2. heap' = heap /\ free \in Nat /\ heap \in Nat
        BY <1>1, <1>6
      <4>3. free' = free + has[b]
        BY <2>1
      <4> QED BY <4>1, <4>2, <4>3, <2>4
    <3>2. ASSUME short = FALSE, NEW c \in Block
          PROVE  has'[c] = IF ptr'[c] = "live" THEN Size[c] ELSE 0
      BY <3>2, <2>2, <2>3 DEF IInv, Memory
    <3> QED BY <3>1, <3>2, <1>1, <1>6 DEF Memory
  <2>10. Books'
    <3>1. heap' - free' = (heap - free) - has[b] /\ heap - free \in Int
      BY <2>1, <2>4, <1>1, <1>6
    <3>2. done * Size["path"] \in Nat /\ done * MostLost \in Nat
      BY <1>6, ProductNext
    <3>3. short = FALSE => /\ done * Size["path"] + Taken <= heap - free
                           /\ heap - free <= done * MostLost + Taken
      BY DEF IInv, Books
    <3>4. short = FALSE => /\ done * Size["path"] + Taken' <= heap' - free'
                           /\ heap' - free' <= done * MostLost + Taken'
      BY <3>1, <3>2, <3>3, <2>4
    <3>5. short = TRUE => done * MostLost + MostUsed > heap
      BY DEF IInv, Books
    <3> QED BY <3>4, <3>5, <1>1, <1>6 DEF Books
  <2> QED BY <2>6, <2>7, <2>8, <2>9, <2>10, <1>7 DEF IInv
<1> QED BY <1>9, <1>10

\* A command that is worked off lost what it is known to lose.
LEMMA WorkedOff ==
    ASSUME IInv, cmd # None, todo = <<>>, fault = "none"
    PROVE  /\ Live \subseteq LostBlocks(cmd)
           /\ short = FALSE => Live = LostBlocks(cmd)
<1>1. Len(todo) = 0
  OBVIOUS
<1>2. \A b : ~DroppedIn(todo, b) /\ ~MadeIn(todo, Len(todo), b)
  BY <1>1 DEF DroppedIn, MadeIn
<1>3. Live \subseteq LostBlocks(cmd)
  BY <1>2 DEF IInv, Leftover
<1>4. ASSUME short = FALSE, NEW b \in LostBlocks(cmd) PROVE b \in Live
  <2>1. b \in Known
    BY <1>2, <1>4 DEF IInv, Leftover
  <2>2. b \in Block /\ ptr[b] \in {"null", "live"}
    BY <2>1 DEF Known
  <2>3. ptr[b] # "null"
    BY <2>2, <1>1, <1>4 DEF IInv, NullIsShort
  <2> QED BY <2>2, <2>3 DEF Live
<1> QED BY <1>3, <1>4

LEMMA ReturnStep ==
    ASSUME IInv, Return
    PROVE  IInv'
<1>1. /\ cmd # None /\ todo = <<>> /\ fault = "none"
      /\ cmd' = None /\ ptr' = NoPtr /\ has' = NoMemory /\ done' = done + 1
      /\ todo' = todo /\ heap' = heap /\ free' = free /\ fault' = fault
      /\ short' = short
  BY DEF Return
<1>2. /\ cmd \in Command /\ done < MaxDone /\ done \in Nat
      /\ heap \in Nat /\ free \in Nat /\ short \in BOOLEAN
      /\ has \in [Block -> Nat] /\ MaxDone \in Nat
  BY <1>1, WsHeapConstants DEF IInv, Types, Control
<1>3. Types'
  BY <1>1, <1>2 DEF IInv, Types, NoPtr, NoMemory
<1>4. Control'
  BY <1>1 DEF Control
<1>5. Leftover'
  BY <1>1 DEF Leftover
<1>6. NullIsShort'
  <2>1. \A b \in Block : ptr'[b] # "null"
    BY <1>1 DEF NoPtr
  <2> QED BY <2>1, <1>1 DEF NullIsShort
<1>7. NothingDangles'
  BY <1>1 DEF NothingDangles
<1>8. Taken \in Nat /\ Taken' = 0
  BY <1>1, <1>2, SumType, SumZero DEF Taken
<1>9. Memory'
  <2>1. free' + Taken' <= heap'
    <3>1. free + Taken <= heap
      BY DEF IInv, Memory
    <3> QED BY <3>1, <1>1, <1>2, <1>8
  <2>2. \A b \in Block :
            has'[b] = IF ptr'[b] = "live" THEN Size[b] ELSE 0
    BY <1>1 DEF NoPtr, NoMemory
  <2> QED BY <2>1, <2>2 DEF Memory
<1>10. Books'
  <2>1. /\ MostLost \in Nat /\ MostUsed \in Nat /\ Size["path"] \in Nat
        /\ SizeOf(LostBlocks(cmd)) <= MostLost
        /\ SizeOf(LostBlocks(cmd)) \in Nat
    BY <1>2, MostLostBounds, MostUsedBounds, SizeOfType, WsHeapConstants
       DEF Block
  <2>2. /\ done * MostLost \in Nat /\ done * Size["path"] \in Nat
        /\ (done + 1) * MostLost = done * MostLost + MostLost
        /\ (done + 1) * Size["path"] = done * Size["path"] + Size["path"]
    BY <2>1, <1>2, ProductNext
  <2>3. CASE short = FALSE
    <3>1. Live = LostBlocks(cmd)
      BY <2>3, <1>1, WorkedOff
    <3>2. Taken = SizeOf(LostBlocks(cmd))
      <4>1. \A b \in Block :
                has[b] = IF b \in LostBlocks(cmd) THEN Size[b] ELSE 0
        BY <2>3, <3>1 DEF IInv, Memory, Live
      <4>2. has = [b \in Block |->
                      IF b \in LostBlocks(cmd) THEN Size[b] ELSE 0]
        BY <4>1, <1>2
      <4> QED BY <4>2 DEF Taken, SizeOf
    <3>3. Size["path"] <= Taken
      <4>1. "path" \in Live /\ "path" \in Block
        BY <3>1 DEF LostBlocks, Block
      <4>2. has["path"] = Size["path"]
        BY <4>1, <2>3 DEF IInv, Memory, Live
      <4> QED BY <4>1, <4>2, <1>2, SumElement DEF Taken
    <3>4. /\ done * Size["path"] + Taken <= heap - free
          /\ heap - free <= done * MostLost + Taken
      BY <2>3 DEF IInv, Books
    <3>5. /\ (done + 1) * Size["path"] + 0 <= heap - free
          /\ heap - free <= (done + 1) * MostLost + 0
      BY <3>2, <3>3, <3>4, <2>1, <2>2, <1>2, <1>8
    <3> QED BY <3>5, <2>3, <1>1, <1>8 DEF Books
  <2>4. CASE short = TRUE
    <3>1. done * MostLost + MostUsed > heap
      BY <2>4 DEF IInv, Books
    <3>2. (done + 1) * MostLost + MostUsed > heap
      BY <3>1, <2>1, <2>2, <1>2
    <3> QED BY <3>2, <2>4, <1>1 DEF Books
  <2> QED BY <2>3, <2>4, <1>2
<1> QED BY <1>3, <1>4, <1>5, <1>6, <1>7, <1>9, <1>10 DEF IInv

\* A program begins sound, with nothing made.
LEMMA WsHandlerStep ==
    ASSUME IInv, NEW c \in Command, WsHandler(c)
    PROVE  IInv'
<1>1. /\ cmd = None /\ done < MaxDone
      /\ cmd' = c /\ todo' = Program(c)
      /\ UNCHANGED <<ptr, has, heap, free, fault, short, done>>
  BY DEF WsHandler
<1>2. ptr = NoPtr /\ fault = "none" /\ c # None
  BY <1>1, WsHeapConstants DEF IInv, Control
<1>3. Known' = {} /\ Live' = {}
  BY <1>1, <1>2 DEF Known, Live, NoPtr
<1>4. Sound(Program(c), {}, c) /\ Complete(Program(c), c)
  BY SoundPrograms
<1>5. Types'
  BY <1>1 DEF IInv, Types
<1>6. Control'
  BY <1>1, <1>2, <1>3, <1>4 DEF Control
<1>7. Leftover'
  BY <1>1, <1>3, <1>4 DEF Leftover, Complete
<1>8. NullIsShort'
  <2>1. \A b \in Block : ptr'[b] # "null"
    BY <1>1, <1>2 DEF NoPtr
  <2> QED BY <2>1, <1>1, <1>2 DEF NullIsShort
<1>9. NothingDangles' /\ Memory' /\ Books'
  BY <1>1 DEF IInv, NothingDangles, Memory, Books, Taken
<1> QED BY <1>5, <1>6, <1>7, <1>8, <1>9 DEF IInv

\* A boot, the first or after a reset.
LEMMA InitInv == Init => IInv
<1> SUFFICES ASSUME Init PROVE IInv
  OBVIOUS
<1>1. /\ heap \in 0 .. MaxHeap /\ free = heap
      /\ cmd = None /\ todo = <<>> /\ ptr = NoPtr /\ has = NoMemory
      /\ fault = "none" /\ short = FALSE /\ done = 0
  BY DEF Init
<1>2. heap \in Nat /\ MostLost \in Nat /\ Size["path"] \in Nat
      /\ MaxDone \in Nat /\ Taken = 0
  BY <1>1, WsHeapConstants, MostLostBounds, SumZero DEF Taken, Block
<1>3. Types
  <2>1. ptr \in [Block -> {"unset", "null", "live", "freed"}]
    BY <1>1 DEF NoPtr
  <2>2. has \in [Block -> Nat]
    BY <1>1 DEF NoMemory
  <2>3. heap \in 0 .. MaxHeap /\ free \in Nat /\ done \in 0 .. MaxDone
    BY <1>1, <1>2
  <2>4. /\ cmd \in Command \cup {None} /\ short \in BOOLEAN
        /\ fault \in {"none", "null", "dangling"}
    BY <1>1
  <2> QED BY <2>1, <2>2, <2>3, <2>4 DEF Types
<1>4. Control /\ Leftover /\ NothingDangles
  BY <1>1 DEF Control, Leftover, NothingDangles
<1>5. \A b \in Block : ptr[b] = "unset" /\ has[b] = 0
  BY <1>1 DEF NoPtr, NoMemory
<1>6. NullIsShort
  BY <1>1, <1>5 DEF NullIsShort
<1>7. Memory
  BY <1>1, <1>2, <1>5 DEF Memory
<1>8. Books
  <2>1. done * Size["path"] = 0 /\ done * MostLost = 0
    BY <1>1, <1>2
  <2> QED BY <2>1, <1>1, <1>2 DEF Books
<1> QED BY <1>3, <1>4, <1>6, <1>7, <1>8 DEF IInv

LEMMA ResetStep ==
    ASSUME Reset
    PROVE  IInv'
<1>1. Init'
  BY DEF Reset, Init
<1>2. Init' => IInv'
  BY InitInv, PTL
<1> QED BY <1>1, <1>2

LEMMA StutterStep ==
    ASSUME IInv, UNCHANGED vars
    PROVE  IInv'
<1>1. UNCHANGED <<cmd, todo, ptr, has, heap, free, fault, short, done>>
  BY DEF vars
<1>2. Types' /\ Memory' /\ Books' /\ Known' = Known /\ Live' = Live
  <2>1. fault' \in {"none", "null", "dangling"}
    BY <1>1 DEF IInv, Types
  <2> QED BY <1>1, <2>1, QuietMemory
<1>3. Control' /\ Leftover'
  BY <1>1, <1>2 DEF IInv, Control, Leftover
<1>4. NullIsShort' /\ NothingDangles'
  BY <1>1 DEF IInv, NullIsShort, NothingDangles
<1> QED BY <1>2, <1>3, <1>4 DEF IInv

(***************************************************************************)
(* Every step keeps the invariant.                                         *)
(***************************************************************************)
LEMMA NextInv == IInv /\ [Next]_vars => IInv'
<1> SUFFICES ASSUME IInv, [Next]_vars PROVE IInv'
  OBVIOUS
<1>1. ASSUME NEW c \in Command, WsHandler(c) PROVE IInv'
  BY <1>1, WsHandlerStep
<1>2. CASE Malloc
  BY <1>2, MallocStep
<1>3. CASE ReadData
  BY <1>3, ReadDataStep
<1>4. CASE JsonPrint
  BY <1>4, JsonPrintStep
<1>5. CASE UseBlock
  BY <1>5, UseBlockStep
<1>6. CASE ExitOnNull
  BY <1>6, ExitOnNullStep
<1>7. CASE FreeBlock
  BY <1>7, FreeBlockStep
<1>8. CASE Return
  BY <1>8, ReturnStep
<1>9. CASE Reset
  BY <1>9, ResetStep
<1>10. CASE UNCHANGED vars
  BY <1>10, StutterStep
<1> QED
  BY <1>1, <1>2, <1>3, <1>4, <1>5, <1>6, <1>7, <1>8, <1>9, <1>10 DEF Next

LEMMA SpecInv == Spec => []IInv
BY InitInv, NextInv, PTL DEF Spec

-----------------------------------------------------------------------------
(* The theorems.                                                           *)

(***************************************************************************)
(* Types and memory: what is taken of the heap and what is free make no    *)
(* more than the heap: nothing is given back that was not taken            *)
(* (config_mode.h:60-193).                                                 *)
(***************************************************************************)
THEOREM TypeCorrect == Spec => []TypeOK
<1>1. IInv => TypeOK
  <2> SUFFICES ASSUME IInv PROVE TypeOK
    OBVIOUS
  <2>1. /\ has \in [Block -> Nat] /\ heap \in 0 .. MaxHeap /\ free \in Nat
        /\ MaxHeap \in Nat /\ free + Taken <= heap
    BY WsHeapConstants DEF IInv, Types, Memory
  <2>2. Taken \in Nat /\ \A b \in Block : has[b] <= Taken
    BY <2>1, SumType, SumElement DEF Taken
  <2>3. Taken <= heap - free /\ free \in 0 .. heap
    BY <2>1, <2>2
  <2>4. \A b \in Block : has[b] \in 0 .. MaxHeap
    BY <2>1, <2>2
  <2>5. has \in [Block -> 0 .. MaxHeap]
    BY <2>1, <2>4
  <2> QED BY <2>1, <2>3, <2>5 DEF IInv, Types, TypeOK
<1> QED BY <1>1, SpecInv, PTL

(***************************************************************************)
(* No handler uses or frees what is not allocated, whichever allocations   *)
(* fail and however long the device runs (config_mode.h:60-193).           *)
(***************************************************************************)
THEOREM NothingEverDangles == Spec => []NothingDangles
<1>1. IInv => NothingDangles
  BY DEF IInv
<1> QED BY <1>1, SpecInv, PTL

(***************************************************************************)
(* What a command leaves behind is what it is known to lose, for all sizes *)
(* of the blocks and of the heap (config_mode.h:87, 96, 103, 119, 130).    *)
(***************************************************************************)
THEOREM LossAlwaysKnown == Spec => []LossIsKnown
<1>1. IInv => LossIsKnown
  <2> SUFFICES ASSUME IInv, cmd # None, todo = <<>>, fault = "none"
               PROVE  /\ Live \subseteq LostBlocks(cmd)
                      /\ ~short => Live = LostBlocks(cmd)
    BY DEF LossIsKnown
  <2>1. short \in BOOLEAN
    BY DEF IInv, Types
  <2> QED BY <2>1, WorkedOff
<1> QED BY <1>1, SpecInv, PTL

(***************************************************************************)
(* Memory runs short only after so many commands that what they lost       *)
(* leaves less than one command uses, and so does a panic for want of it;  *)
(* a read panics without its file, too (config_mode.h:84-90, 183-189).     *)
(***************************************************************************)
THEOREM ShortOnlyAfterCommands == Spec => []ShortNeedsCommands
<1>1. IInv => ShortNeedsCommands
  BY DEF IInv, NullIsShort, Books, ShortNeedsCommands
<1> QED BY <1>1, SpecInv, PTL

(***************************************************************************)
(* A boot serves no more commands than there is room for their paths until *)
(* memory runs short: path is allocated by each and freed by none          *)
(* (config_mode.h:87).                                                     *)
(***************************************************************************)
THEOREM CommandsNumbered == Spec => []CommandsAreNumbered
<1>1. IInv => CommandsAreNumbered
  <2> SUFFICES ASSUME IInv, ~short PROVE done * Size["path"] <= heap - free
    BY DEF CommandsAreNumbered
  <2>1. /\ done \in Nat /\ heap \in Nat /\ free \in Nat
        /\ has \in [Block -> Nat] /\ Size["path"] \in Nat
    BY WsHeapConstants DEF IInv, Types, Block
  <2>2. Taken \in Nat /\ done * Size["path"] \in Nat
    BY <2>1, SumType, ProductNext DEF Taken
  <2>3. done * Size["path"] + Taken <= heap - free
    BY DEF IInv, Books
  <2> QED BY <2>1, <2>2, <2>3
<1> QED BY <1>1, SpecInv, PTL

=============================================================================
