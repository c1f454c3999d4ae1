-------------------------- MODULE ConfigStoreProofs --------------------------
(***************************************************************************)
(* Proofs about ConfigStore, for any number of browsers, configurations    *)
(* and failures: the page survives, only deletion makes a device on which  *)
(* nothing failed panic, and the commands implement ConfigRegister.        *)
(*                                                                         *)
(* The refinement takes a request's effect at its answer: until then the   *)
(* register holds what the file held when the request was taken.  It needs *)
(* what is known of the file on the way there: WorkOK.                     *)
(***************************************************************************)
EXTENDS ConfigStore, TLAPS

\* While a store is worked on, its request is still there, and the file holds
\* what the answer will say, a damaged configuration, or what it held before.
WorkOK ==
    /\ at \in {"write", "nvs", "reply"} =>
           req[cur] # None /\ req[cur].op \in {"save", "reinit"}
    /\ at = "write" => file = Damaged
    /\ at = "nvs" => req[cur].op = "reinit"
    /\ at = "reply" /\ req[cur].op = "save" =>
           \/ err = "ok" /\ file \in {req[cur].config, Damaged}
           \/ err = "notok" /\ file = before
    /\ at \in {"nvs", "reply"} /\ req[cur].op = "reinit" =>
           file \in {Erased, Damaged, before}

MountedOK == faults = 0 /\ at # "boot" => mounted

FaultFree == MountedOK /\ OnlyDeletionPanics /\ PageSurvives

IInv == TypeOK /\ WorkOK /\ FaultFree

-----------------------------------------------------------------------------

\* The fields of a request.
LEMMA RequestFields ==
    ASSUME NEW r \in Request
    PROVE  /\ r.op \in {"read", "get", "save", "reinit", "delete"}
           /\ r.op = "save" => r.config \in Config
           /\ r.op = "reinit" => r.config = Erased
           /\ r.op = "delete" => r.path \in DOMAIN PathLength
BY DEF Request

\* The page's name does not fit into delete_files's buffer.
LEMMA PageNotDeleted ==
    ASSUME NEW path
    PROVE  ~Deletes(path, "Configurationpage.html")
BY DEF Deletes, PathLength

\* What the sending of an answer does to the types.
LEMMA SendType ==
    ASSUME TypeOK, NEW c \in Client, NEW a \in Answers, Send(c, a)
    PROVE  /\ req' \in [Client -> Request \cup {None}]
           /\ rep' \in [Client -> Answers]
BY DEF TypeOK, Send

LEMMA InitIInv == Init => IInv
<1> SUFFICES ASSUME Init
             PROVE  IInv
  OBVIOUS
<1>1. TypeOK
  <2>1. /\ req \in [Client -> Request \cup {None}]
        /\ rep \in [Client -> Answers]
    BY DEF Init, Answers
  <2>2. page \in BOOLEAN /\ mounted \in BOOLEAN /\ panic \in BOOLEAN
    BY DEF Init
  <2> QED
    BY <2>1, <2>2, ConfigStoreConstants DEF Init, TypeOK, Content
<1>2. WorkOK /\ FaultFree
  BY DEF Init, WorkOK, FaultFree, MountedOK, OnlyDeletionPanics, PageSurvives
<1> QED
  BY <1>1, <1>2 DEF IInv

\* Types: every answer is a content or a word, every request is one of Request.
LEMMA NextTypeOK == IInv /\ Next => TypeOK'
<1> SUFFICES ASSUME IInv, Next
             PROVE  TypeOK'
  OBVIOUS
<1> USE ConfigStoreConstants
<1>1. CASE InitSpiffs
  <2>1. page' \in BOOLEAN /\ mounted' \in BOOLEAN
    BY <1>1 DEF IInv, TypeOK, InitSpiffs
  <2> QED
    BY <1>1, <2>1 DEF IInv, TypeOK, Content, InitSpiffs, Fault
<1>2. ASSUME NEW c \in Client, GetPage(c)
      PROVE  TypeOK'
  <2>1. /\ req' \in [Client -> Request \cup {None}]
        /\ rep' \in [Client -> Answers]
    BY <1>2, SendType DEF IInv, GetPage, Answers
  <2> QED
    BY <1>2, <2>1 DEF IInv, TypeOK, GetPage, Fault
<1>3. ASSUME NEW c \in Client, ReadConfig(c)
      PROVE  TypeOK'
  <2>1. file \in Answers
    BY DEF IInv, TypeOK, Answers
  <2>2. /\ req' \in [Client -> Request \cup {None}]
        /\ rep' \in [Client -> Answers]
    <3>1. CASE Send(c, file)
      BY <2>1, <3>1, SendType DEF IInv
    <3>2. CASE UNCHANGED <<req, rep>>
      BY <3>2 DEF IInv, TypeOK
    <3> QED
      BY <1>3, <3>1, <3>2 DEF ReadConfig
  <2>3. panic' \in BOOLEAN
    BY <1>3 DEF IInv, TypeOK, ReadConfig
  <2> QED
    BY <1>3, <2>2, <2>3 DEF IInv, TypeOK, ReadConfig, Fault
<1>4. ASSUME NEW c \in Client, OpenStore(c)
      PROVE  TypeOK'
  BY <1>4 DEF IInv, TypeOK, Content, OpenStore, Fault
<1>5. ASSUME NEW c \in Client, DeleteFile(c)
      PROVE  TypeOK'
  <2>1. /\ req' \in [Client -> Request \cup {None}]
        /\ rep' \in [Client -> Answers]
    BY <1>5, SendType DEF IInv, DeleteFile, Answers
  <2>2. page' \in BOOLEAN
    BY <1>5 DEF IInv, TypeOK, DeleteFile
  <2> QED
    BY <1>5, <2>1, <2>2 DEF IInv, TypeOK, Content, DeleteFile, Fault
<1>6. ASSUME NEW c \in Client, DropRequest(c)
      PROVE  TypeOK'
  <2>1. /\ req' \in [Client -> Request \cup {None}]
        /\ rep' \in [Client -> Answers]
    <3>1. CASE Send(c, None)
      BY <3>1, SendType DEF IInv, Answers
    <3>2. CASE UNCHANGED <<req, rep>>
      BY <3>2 DEF IInv, TypeOK
    <3> QED
      BY <1>6, <3>1, <3>2 DEF DropRequest
  <2>2. panic' \in BOOLEAN
    BY <1>6 DEF IInv, TypeOK, DropRequest
  <2> QED
    BY <1>6, <2>1, <2>2 DEF IInv, TypeOK, DropRequest, Fault
<1>7. CASE WriteStore
  <2>1. req[cur] \in Request /\ req[cur].config \in Content
    BY <1>7, RequestFields DEF IInv, TypeOK, WorkOK, WriteStore, Content
  <2> QED
    BY <1>7, <2>1 DEF IInv, TypeOK, WriteStore, Fault
<1>8. CASE StoreCons
  BY <1>8 DEF IInv, TypeOK, Content, StoreCons, Fault
<1>9. CASE Reply
  <2>1. err \in Answers
    BY DEF IInv, TypeOK, Answers
  <2>2. /\ req' \in [Client -> Request \cup {None}]
        /\ rep' \in [Client -> Answers]
    <3>1. CASE Send(cur, err)
      BY <2>1, <3>1, SendType DEF IInv, TypeOK
    <3>2. CASE UNCHANGED <<req, rep>>
      BY <3>2 DEF IInv, TypeOK
    <3> QED
      BY <1>9, <3>1, <3>2 DEF Reply
  <2>3. panic' \in BOOLEAN
    BY <1>9, Zenon DEF IInv, TypeOK, Reply
  <2> QED
    BY <1>9, <2>2, <2>3 DEF IInv, TypeOK, Reply, Fault
<1>10. ASSUME NEW c \in Client, Ask(c)
      PROVE  TypeOK'
  BY <1>10 DEF IInv, TypeOK, Answers, Ask
<1>11. CASE Reset
  <2>1. /\ req' \in [Client -> Request \cup {None}]
        /\ rep' \in [Client -> Answers]
    BY <1>11, Zenon DEF Reset, Answers
  <2>2. mounted' \in BOOLEAN /\ panic' \in BOOLEAN
    BY <1>11, Zenon DEF Reset
  <2> QED
    BY <1>11, <2>1, <2>2 DEF IInv, TypeOK, Reset
<1> QED
  BY <1>1, <1>2, <1>3, <1>4, <1>5, <1>6, <1>7, <1>8, <1>9, <1>10, <1>11
     DEF Next, Serve, Finish, PanicReset

\* What is known of a store that is being worked on.
LEMMA NextWorkOK == IInv /\ Next => WorkOK'
<1> SUFFICES ASSUME IInv, Next
             PROVE  WorkOK'
  OBVIOUS
<1> USE ConfigStoreConstants DEF IInv, TypeOK, WorkOK
<1>1. CASE InitSpiffs
  BY <1>1 DEF InitSpiffs
<1>2. ASSUME NEW c \in Client, GetPage(c)
      PROVE  WorkOK'
  BY <1>2 DEF GetPage, Send, Takes
<1>3. ASSUME NEW c \in Client, ReadConfig(c)
      PROVE  WorkOK'
  BY <1>3 DEF ReadConfig, Send, Takes
<1>4. ASSUME NEW c \in Client, OpenStore(c)
      PROVE  WorkOK'
  BY <1>4, RequestFields DEF OpenStore, Takes
<1>5. ASSUME NEW c \in Client, DeleteFile(c)
      PROVE  WorkOK'
  BY <1>5 DEF DeleteFile, Send, Takes
<1>6. ASSUME NEW c \in Client, DropRequest(c)
      PROVE  WorkOK'
  BY <1>6 DEF DropRequest, Send
<1>7. CASE WriteStore
  BY <1>7, RequestFields DEF WriteStore
<1>8. CASE StoreCons
  BY <1>8 DEF StoreCons
<1>9. CASE Reply
  BY <1>9 DEF Reply, Send
<1>10. ASSUME NEW c \in Client, Ask(c)
      PROVE  WorkOK'
  BY <1>10 DEF Ask
<1>11. CASE Reset
  BY <1>11 DEF Reset
<1> QED
  BY <1>1, <1>2, <1>3, <1>4, <1>5, <1>6, <1>7, <1>8, <1>9, <1>10, <1>11
     DEF Next, Serve, Finish, PanicReset

\* While nothing fails, the file system is mounted and the page stays.
LEMMA NextFaultFree == IInv /\ Next => FaultFree'
<1> SUFFICES ASSUME IInv, Next
             PROVE  FaultFree'
  OBVIOUS
<1> USE ConfigStoreConstants
<1>1. CASE InitSpiffs
  BY <1>1 DEF IInv, TypeOK, FaultFree, MountedOK, OnlyDeletionPanics,
     PageSurvives, InitSpiffs, Fault
<1>2. ASSUME NEW c \in Client, GetPage(c)
      PROVE  FaultFree'
  BY <1>2 DEF IInv, TypeOK, FaultFree, MountedOK, OnlyDeletionPanics,
     PageSurvives, GetPage, Fault
<1>3. ASSUME NEW c \in Client, ReadConfig(c)
      PROVE  FaultFree'
  BY <1>3 DEF IInv, TypeOK, FaultFree, MountedOK, OnlyDeletionPanics,
     PageSurvives, ReadConfig, Fault, Takes
<1>4. ASSUME NEW c \in Client, ~panic, OpenStore(c)
      PROVE  FaultFree'
  BY <1>4 DEF IInv, TypeOK, FaultFree, MountedOK, OnlyDeletionPanics,
     PageSurvives, OpenStore, Fault, Takes
<1>5. ASSUME NEW c \in Client, DeleteFile(c)
      PROVE  FaultFree'
  BY <1>5, PageNotDeleted DEF IInv, TypeOK, FaultFree, MountedOK,
     OnlyDeletionPanics, PageSurvives, DeleteFile, Fault
<1>6. ASSUME NEW c \in Client, DropRequest(c)
      PROVE  FaultFree'
  BY <1>6 DEF IInv, TypeOK, FaultFree, MountedOK, OnlyDeletionPanics,
     PageSurvives, DropRequest, Fault
<1>7. CASE ~panic /\ WriteStore
  BY <1>7 DEF IInv, TypeOK, FaultFree, MountedOK, OnlyDeletionPanics,
     PageSurvives, WriteStore, Fault
<1>8. CASE StoreCons
  BY <1>8 DEF IInv, TypeOK, FaultFree, MountedOK, OnlyDeletionPanics,
     PageSurvives, StoreCons, Fault
<1>9. CASE Reply
  BY <1>9 DEF IInv, TypeOK, FaultFree, MountedOK, OnlyDeletionPanics,
     PageSurvives, Reply, Fault
<1>10. ASSUME NEW c \in Client, Ask(c)
      PROVE  FaultFree'
  BY <1>10 DEF IInv, FaultFree, MountedOK, OnlyDeletionPanics, PageSurvives,
     Ask
<1>11. CASE Reset
  BY <1>11 DEF IInv, FaultFree, MountedOK, OnlyDeletionPanics, PageSurvives,
     Reset
<1> QED
  BY <1>1, <1>2, <1>3, <1>4, <1>5, <1>6, <1>7, <1>8, <1>9, <1>10, <1>11
     DEF Next, Serve, Finish, PanicReset

LEMMA StutterIInv == IInv /\ UNCHANGED vars => IInv'
BY DEF IInv, vars, TypeOK, WorkOK, FaultFree, MountedOK, OnlyDeletionPanics,
   PageSurvives

\* The inductive invariant holds in every reachable state.
THEOREM Invariance == Spec => []IInv
<1>1. IInv /\ [Next]_vars => IInv'
  BY NextTypeOK, NextWorkOK, NextFaultFree, StutterIInv DEF IInv
<1> QED
  BY InitIInv, <1>1, PTL DEF Spec

\* The files, the requests and the answers keep their types.
THEOREM TypeCorrect == Spec => []TypeOK
<1>1. IInv => TypeOK
  BY DEF IInv
<1> QED
  BY Invariance, <1>1, PTL

\* A device on which nothing failed panics over its configuration file only
\* after a deletion: a save cut short by a reset is still read and sent
\* (spiffs_manager.h:104-134, config_mode.h:84-90).
THEOREM OnlyDeletionPanicsCorrect == Spec => []OnlyDeletionPanics
<1>1. IInv => OnlyDeletionPanics
  BY DEF IInv, FaultFree
<1> QED
  BY Invariance, <1>1, PTL

\* While nothing fails no sequence of requests removes the page
\* (spiffs_manager.h:149-160).
THEOREM PageSurvivesCorrect == Spec => []PageSurvives
<1>1. IInv => PageSurvives
  BY DEF IInv, FaultFree
<1> QED
  BY Invariance, <1>1, PTL

-----------------------------------------------------------------------------
(* The refinement.                                                         *)

LEMMA InitRefines == IInv /\ Init => Register!Init
BY DEF Init, Register!Init, IInv, TypeOK, Content, Register!Value

\* Every step is one of the register's, or none: the value changes when a
\* store is answered or a reset ends it, and when a file is deleted.
LEMMA NextRefines == IInv /\ IInv' /\ Next => [Register!Next]_Register!vars
<1> SUFFICES ASSUME IInv, IInv', Next
             PROVE  [Register!Next]_Register!vars
  OBVIOUS
<1> USE ConfigStoreConstants DEF IInv, TypeOK, WorkOK, Register!vars
<1>1. CASE InitSpiffs
  <2>1. Register!Format \/ UNCHANGED Register!vars
    BY <1>1 DEF InitSpiffs, Register!Format
  <2> QED
    BY <1>1, <2>1 DEF Register!Next
<1>2. ASSUME NEW c \in Client, GetPage(c)
      PROVE  [Register!Next]_Register!vars
  <2>1. Register!Get(c) \/ UNCHANGED Register!vars
    BY <1>2 DEF GetPage, Register!Get, Register!Answer, Send, Takes,
       Register!Waits
  <2> QED
    BY <1>2, <2>1 DEF Register!Next
<1>3. ASSUME NEW c \in Client, ReadConfig(c)
      PROVE  [Register!Next]_Register!vars
  <2>1. Register!Read(c) \/ UNCHANGED Register!vars
    BY <1>3 DEF ReadConfig, Register!Read, Register!Answer, Send, Takes,
       Register!Waits
  <2> QED
    BY <1>3, <2>1 DEF Register!Next
<1>4. ASSUME NEW c \in Client, OpenStore(c)
      PROVE  [Register!Next]_Register!vars
  BY <1>4 DEF OpenStore, Takes
<1>5. ASSUME NEW c \in Client, DeleteFile(c)
      PROVE  [Register!Next]_Register!vars
  <2>1. Register!Delete(c) \/ UNCHANGED Register!vars
    BY <1>5 DEF DeleteFile, Deletes, Register!Delete, Register!Answer, Send,
       Takes, Register!Waits
  <2> QED
    BY <1>5, <2>1 DEF Register!Next
<1>6. ASSUME NEW c \in Client, DropRequest(c)
      PROVE  [Register!Next]_Register!vars
  <2>1. Register!Drop(c) \/ UNCHANGED Register!vars
    BY <1>6 DEF DropRequest, Register!Drop, Register!Answer, Send,
       Register!Waits
  <2> QED
    BY <1>6, <2>1 DEF Register!Next
<1>7. CASE WriteStore
  BY <1>7 DEF WriteStore
<1>8. CASE StoreCons
  BY <1>8 DEF StoreCons
<1>9. CASE Reply
  <2>1. (Register!Save(cur) \/ Register!Reinit(cur)) \/ UNCHANGED Register!vars
    BY <1>9 DEF Reply, Register!Save, Register!Reinit, Register!Answer, Send,
       Register!Waits
  <2> QED
    BY <1>9, <2>1 DEF Register!Next
<1>10. ASSUME NEW c \in Client, Ask(c)
      PROVE  [Register!Next]_Register!vars
  <2>1. Register!Ask(c) \/ UNCHANGED Register!vars
    BY <1>10 DEF Ask, Register!Ask
  <2> QED
    BY <1>10, <2>1 DEF Register!Next
<1>11. CASE Reset
  <2>1. Register!Reset \/ UNCHANGED Register!vars
    BY <1>11 DEF Reset, Register!Reset, Register!Waits
  <2> QED
    BY <1>11, <2>1 DEF Register!Next
<1> QED
  BY <1>1, <1>2, <1>3, <1>4, <1>5, <1>6, <1>7, <1>8, <1>9, <1>10, <1>11
     DEF Next, Serve, Finish, PanicReset

\* The commands implement the register: requests take effect one at a time
\* and as a whole, and what was answered is not undone.
THEOREM RegisterCorrect == Spec => IsRegister
<1>1. IInv /\ Init => Register!Init
  BY InitRefines
<1>2. IInv /\ IInv' /\ [Next]_vars => [Register!Next]_Register!vars
  <2>1. CASE UNCHANGED vars
    BY <2>1 DEF vars, Register!vars
  <2> QED
    BY <2>1, NextRefines
<1> QED
  BY Invariance, <1>1, <1>2, PTL DEF Spec, IsRegister, Register!Spec

=============================================================================
