-------------------------- MODULE GatewayLossProofs --------------------------
(***************************************************************************)
(* Entries of a ready NVS partition are lost only after a failed library   *)
(* call, for any queue length and number of failures; what init_nvs erases *)
(* because it finds no free pages is not meant.  The argument: until a     *)
(* call fails, app_main's init_nvs has made the partition ready before any *)
(* other task runs, and a ready partition is not erased.  From the same    *)
(* invariant: until a call fails, every save is in the flash when it       *)
(* returns.                                                                *)
(***************************************************************************)
EXTENDS GatewayProofs

\* What is saved is a value.
ValuesOK == \A t \in Task : call[t].fn \in Savers => call[t].val \in Value

\* Without a failed call the partition is ready from init_nvs on, only
\* init_nvs erases, once, and what the flash holds can be read.
NoFaultOK ==
    faults = 0 =>
        /\ \/ part = "ready"
           \/ app = "init_nvs" /\ call["main"].at # "returned"
        /\ \A t \in Task : call[t].at = "erase" => part = "uninit"
        /\ pages = "full" => part = "uninit" /\ call["main"].at # "reinit"
        /\ \A k \in Key : flash[k] # NoEntry => staged[k] # NoEntry

LInv == IInv /\ ValuesOK /\ NoFaultOK

-----------------------------------------------------------------------------

\* While the partition is not ready, and nothing failed, only app_main runs.
LEMMA OnlyMain ==
    ASSUME IInv, NoFaultOK, faults = 0, part = "uninit",
           NEW t \in Task, call[t].at # "idle"
    PROVE  t = "main" /\ call[t].fn = InitNvs
<1>1. app = "init_nvs"
  BY DEF NoFaultOK
<1>2. btn = "none" /\ saved_data = NoEntry
  BY <1>1 DEF IInv, ModeOK
<1>3. ~server
  BY <1>2, Names DEF IInv, ModeOK
<1> QED
  BY <1>1, <1>2, <1>3, GatewayConstants DEF IInv, FramesOK

\* A library call keeps the values of the frames.
LEMMA CallValues ==
    ASSUME IInv, ValuesOK, NEW t \in Task, NvsCall(t)
    PROVE  ValuesOK'
<1>1. NvsStep(t)
  BY DEF NvsCall
<1> USE DEF IInv, TypeOK, NvsTypeOK, Frame
<1>2. /\ \A u \in Task \ {t} : call'[u] = call[u]
      /\ call'[t].fn = call[t].fn
  BY <1>1, NvsStepFrame
<1>3. ASSUME call[t].fn \in Savers
      PROVE  call'[t].val = call[t].val
  <2>1. /\ call[t].fn # InitNvs /\ call[t].fn # GetU32 /\ call[t].fn # GetStr
    BY <1>3, Fns
  <2>2. \A p : Goto(t, p) => call'[t].val = call[t].val
    BY DEF Goto
  <2>3. \A r : Returns(t, r, call[t].val) => call'[t].val = call[t].val
    BY DEF Returns
  <2>4. GivesUp(t) => call'[t].val = call[t].val
    BY <2>1, <2>3 DEF GivesUp, FailValue
  <2>5. CASE OpenOk(t)
    <3> DEFINE p == IF call[t].fn \in Savers THEN "set" ELSE "get"
    <3>1. call' = [call EXCEPT ![t] = [call[t] EXCEPT !.handle = t, !.at = p]]
      BY <2>5 DEF OpenOk
    <3> HIDE DEF p
    <3> QED
      BY <3>1
  <2>6. CASE OpenFails(t)
    <3>1. \A h :
            call' = [call EXCEPT ![t] = [@ EXCEPT !.handle = h, !.at = "set"]]
              => call'[t].val = call[t].val
      OBVIOUS
    <3> QED
      BY <2>4, <2>6, <3>1 DEF OpenFails
  <2>7. CASE \/ FlashInitOk(t) \/ FlashInitNoFreePages(t) \/ FlashInitError(t)
             \/ FlashErase(t) \/ SetOk(t) \/ SetFails(t)
    BY <2>2, <2>3, <2>4, <2>7
       DEF FlashInitOk, FlashInitNoFreePages, FlashInitError, FlashErase,
           SetOk, SetFails
  <2>8. CASE CommitOk(t) \/ CommitFails(t) \/ GetFails(t) \/ GetNoMemory(t)
    BY <2>3, <2>4, <2>8 DEF CommitOk, CommitFails, GetFails, GetNoMemory
  <2>9. ~GetOk(t)
    BY <1>3, Fns DEF GetOk, PointsOK, Getters, Savers
  <2> QED
    BY <1>1, <2>5, <2>6, <2>7, <2>8, <2>9 DEF NvsStep
<1> QED
  BY <1>2, <1>3 DEF ValuesOK

\* A frame comes to its erase only from nvs_flash_init without free pages.
LEMMA NvsStepErase ==
    ASSUME NvsTypeOK, NEW t \in Task, NvsStep(t), call'[t].at = "erase"
    PROVE  part = "uninit" /\ UNCHANGED part
<1> USE DEF NvsTypeOK, Frame
<1>1. \A p : Goto(t, p) => call'[t].at = p
  BY DEF Goto
<1>2. \A r, v : Returns(t, r, v) => call'[t].at = "returned"
  BY DEF Returns
<1>3. ~GivesUp(t)
  BY <1>2 DEF GivesUp
<1>4. ~OpenOk(t)
  <2> SUFFICES ASSUME OpenOk(t) PROVE FALSE
    OBVIOUS
  <2> DEFINE p == IF call[t].fn \in Savers THEN "set" ELSE "get"
  <2>1. call' = [call EXCEPT ![t] = [call[t] EXCEPT !.handle = t, !.at = p]]
    BY DEF OpenOk
  <2>2. p # "erase"
    OBVIOUS
  <2> HIDE DEF p
  <2> QED
    BY <2>1, <2>2
<1>5. ~OpenFails(t)
  <2> SUFFICES ASSUME OpenFails(t) PROVE FALSE
    OBVIOUS
  <2>1. PICK h : call' = [call EXCEPT ![t] = [call[t] EXCEPT !.handle = h,
                                                             !.at = "set"]]
    BY <1>3 DEF OpenFails
  <2> QED
    BY <2>1
<1>6. ~FlashInitOk(t)
  BY <1>1, <1>2 DEF FlashInitOk
<1>7. ~FlashInitError(t)
  BY <1>1, <1>3 DEF FlashInitError
<1>8. ~FlashErase(t)
  BY <1>1 DEF FlashErase
<1>9. ~SetOk(t) /\ ~SetFails(t)
  BY <1>1, <1>3 DEF SetOk, SetFails
<1>10. ~CommitOk(t) /\ ~CommitFails(t)
  BY <1>2, <1>3 DEF CommitOk, CommitFails
<1>11. ~GetOk(t) /\ ~GetFails(t) /\ ~GetNoMemory(t)
  BY <1>2, <1>3 DEF GetOk, GetFails, GetNoMemory
<1>12. FlashInitNoFreePages(t)
  BY <1>4, <1>5, <1>6, <1>7, <1>8, <1>9, <1>10, <1>11 DEF NvsStep
<1> QED
  BY <1>12 DEF FlashInitNoFreePages

\* Before the partition is ready: the steps of init_nvs.
LEMMA InitNvsLoss ==
    ASSUME IInv, NoFaultOK, NEW t \in Task, NvsCall(t), part = "uninit",
           faults = 0, faults' = 0
    PROVE  NoFaultOK'
<1> USE DEF IInv, TypeOK, NvsTypeOK, Frame
<1>1. NvsStep(t) /\ UNCHANGED app
  BY DEF NvsCall, appVars
<1>2. /\ \A u \in Task \ {t} : call'[u] = call[u]
      /\ call[t].at \notin {"idle", "returned"}
  BY <1>1, NvsStepFrame
<1>3. t = "main" /\ call[t].fn = InitNvs /\ app = "init_nvs"
  BY <1>2, OnlyMain DEF NoFaultOK
<1>4. \A u \in Task \ {t} : call'[u].at = "idle"
  BY <1>2, <1>3, OnlyMain
<1>5. \A p : Goto(t, p) => call'[t].at = p
  BY DEF Goto
<1>6. \A r, v : Returns(t, r, v) => call'[t].at = "returned"
  BY DEF Returns
<1>7. CASE FlashInitOk(t)
  <2>1. pages = "good" /\ part' = "ready" /\ UNCHANGED <<pages, flash, staged>>
    BY <1>7 DEF FlashInitOk
  <2>2. call'[t].at = "returned"
    BY <1>3, <1>6, <1>7 DEF FlashInitOk
  <2> QED
    BY <1>4, <2>1, <2>2, <1>3 DEF NoFaultOK
<1>8. CASE FlashInitNoFreePages(t)
  <2>1. UNCHANGED <<part, pages, flash, staged>>
    BY <1>8 DEF FlashInitNoFreePages
  <2>2. call'[t].at = "erase"
    BY <1>3, <1>5, <1>8, Fns DEF FlashInitNoFreePages, InitNvs, GetStr
  <2> QED
    BY <1>1, <1>3, <1>4, <2>1, <2>2 DEF NoFaultOK
<1>9. CASE FlashInitError(t)
  BY <1>3, <1>9 DEF FlashInitError, NoFaultOK, Fault
<1>10. CASE FlashErase(t)
  <2>1. /\ part' = "uninit" /\ pages' = "good"
        /\ flash' = [k \in Key |-> NoEntry]
        /\ Goto(t, "reinit")
    BY <1>10 DEF FlashErase, Fault
  <2>2. call'[t].at = "reinit"
    BY <1>5, <2>1
  <2> QED
    BY <1>1, <1>3, <1>4, <2>1, <2>2 DEF NoFaultOK
<1>11. /\ ~OpenOk(t) /\ ~OpenFails(t) /\ ~SetOk(t) /\ ~SetFails(t)
       /\ ~CommitOk(t) /\ ~CommitFails(t) /\ ~GetOk(t) /\ ~GetFails(t)
       /\ ~GetNoMemory(t)
  BY <1>3, Fns
     DEF PointsOK, OpenOk, OpenFails, SetOk, SetFails, CommitOk, CommitFails,
         GetOk, GetFails, GetNoMemory, Getters, InitNvs, GetU32, GetStr
<1> QED
  BY <1>1, <1>7, <1>8, <1>9, <1>10, <1>11 DEF NvsStep

\* Once it is ready: no erase, and no entry is overwritten by none.
LEMMA ReadyLoss ==
    ASSUME IInv, ValuesOK, NoFaultOK, NEW t \in Task, NvsCall(t),
           part = "ready", faults = 0
    PROVE  /\ NoFaultOK'
           /\ \A k \in Key : flash[k] # NoEntry => flash'[k] # NoEntry
<1> USE DEF IInv, TypeOK, NvsTypeOK, Frame
<1>1. NvsStep(t)
  BY DEF NvsCall
<1>2. \A u \in Task \ {t} : call'[u] = call[u]
  BY <1>1, NvsStepFrame
<1>3. call[t].at # "erase"
  BY DEF NoFaultOK
<1>4. part' = "ready"
  BY <1>1, <1>3, NvsStepPart
<1>5. UNCHANGED pages
  BY <1>1, <1>3
     DEF NvsStep, FlashInitOk, FlashInitNoFreePages, FlashInitError,
         FlashErase, OpenOk, OpenFails, SetOk, SetFails, CommitOk,
         CommitFails, GetOk, GetFails, GetNoMemory
<1>6. \A u \in Task : call'[u].at # "erase"
  BY <1>1, <1>2, NvsStepErase DEF NoFaultOK
<1>7. /\ \A k \in Key : flash[k] # NoEntry => flash'[k] # NoEntry
      /\ \A k \in Key : flash'[k] # NoEntry => staged'[k] # NoEntry
  <2>1. call[t].fn \in Savers => call[t].val # NoEntry
    BY Names DEF ValuesOK
  <2>2. \A k \in Key : flash[k] # NoEntry => staged[k] # NoEntry
    BY DEF NoFaultOK
  <2>3. CASE flash' = flash /\ staged' = staged
    BY <2>2, <2>3
  <2>4. CASE /\ call[t].fn \in Savers
             /\ staged' = [staged EXCEPT ![call[t].key] = call[t].val]
             /\ flash' \in {flash, [flash EXCEPT ![call[t].key] = call[t].val]}
    BY <2>1, <2>2, <2>4
  <2>5. CASE /\ staged' = staged
             /\ flash' = [flash EXCEPT ![call[t].key] = staged[call[t].key]]
    BY <2>2, <2>5
  <2> QED
    BY <1>1, <1>3, <2>3, <2>4, <2>5, NvsStepFlash
<1> QED
  BY <1>4, <1>5, <1>6, <1>7 DEF NoFaultOK

LEMMA CallLoss ==
    ASSUME LInv, NEW t \in Task, NvsCall(t)
    PROVE  NoFaultOK'
<1>1. faults' \in {faults, faults + 1} /\ faults \in Nat
  BY NvsStepFaults, NvsConstants DEF LInv, IInv, TypeOK, NvsTypeOK, NvsCall
<1>2. faults' = 0 => faults = 0
  BY <1>1
<1>3. part \in {"ready", "uninit"}
  BY DEF LInv, IInv, TypeOK, NvsTypeOK
<1> QED
  BY <1>2, <1>3, InitNvsLoss, ReadyLoss DEF LInv, NoFaultOK

-----------------------------------------------------------------------------
(* The steps outside the NVS functions.                                    *)

LEMMA IdleFn == IdleFrame.fn \notin Savers
<1>1. PICK k \in Key : k = CHOOSE j \in Key : TRUE
  BY NvsConstants
<1>2. [NewFrame(InitNvs, k, NoEntry) EXCEPT !.at = "idle"].fn = InitNvs
  BY DEF NewFrame
<1> QED
  BY <1>1, <1>2, Fns DEF IdleFrame

\* Such a step changes at most one frame, and no frame while only app_main's
\* init_nvs may run.
LEMMA OtherLoss ==
    ASSUME ValuesOK, NoFaultOK, NEW t \in Task, faults' = 0 => faults = 0,
           UNCHANGED <<flash, staged, part, pages>>,
           \A u \in Task \ {t} : call'[u] = call[u],
           \/ call'[t] = call[t]
           \/ /\ call'[t].at # "erase"
              /\ call'[t].fn \in Savers => call'[t].val \in Value,
           faults = 0 /\ part # "ready" => UNCHANGED <<app, call>>
    PROVE  ValuesOK' /\ NoFaultOK'
<1>1. ValuesOK'
  BY DEF ValuesOK
<1>2. SUFFICES ASSUME faults' = 0 PROVE NoFaultOK'
  BY <1>1 DEF NoFaultOK
<1>3. CASE part = "ready"
  <2>1. \A u \in Task : call'[u].at # "erase"
    BY <1>2, <1>3 DEF NoFaultOK
  <2> QED
    BY <1>2, <1>3, <2>1 DEF NoFaultOK
<1>4. CASE part # "ready"
  BY <1>2, <1>4 DEF NoFaultOK
<1> QED
  BY <1>3, <1>4

\* A task enters a function with a value to save, or leaves one.
LEMMA EnterLoss ==
    ASSUME IInv, ValuesOK, NoFaultOK, NEW t \in Task,
           NEW fn \in Functions, NEW k \in Key, NEW v \in Entry,
           Enter(t, fn, k, v), fn \in Savers => v \in Value,
           UNCHANGED <<flash, staged, part, pages, open, leaked>>,
           faults' \in 0 .. MaxFaults, faults' = 0 => faults = 0,
           app # "init_nvs"
    PROVE  ValuesOK' /\ NoFaultOK'
<1>1. /\ \A u \in Task \ {t} : call'[u] = call[u]
      /\ call'[t].at = "init" /\ call'[t].fn = fn /\ call'[t].val = v
  BY EnterKeeps DEF IInv, TypeOK
<1> QED
  BY <1>1, OtherLoss DEF NoFaultOK

LEMMA LeaveLoss ==
    ASSUME IInv, ValuesOK, NoFaultOK, NEW t \in Task, NEW fn, Consume(t, fn),
           UNCHANGED <<flash, staged, part, pages, faults>>,
           t = "main" \/ app # "init_nvs"
    PROVE  ValuesOK' /\ NoFaultOK'
<1> USE DEF IInv, TypeOK, NvsTypeOK
<1>1. /\ \A u \in Task \ {t} : call'[u] = call[u]
      /\ call'[t] = IdleFrame
      /\ call[t].at = "returned"
  BY DEF Consume, Returned
<1>2. faults = 0 => part = "ready"
  BY <1>1 DEF NoFaultOK
<1>3. call'[t].at # "erase" /\ call'[t].fn \notin Savers
  BY <1>1, IdleFrameType, IdleFn
<1> QED
  BY <1>1, <1>2, <1>3, OtherLoss

\* Before a failed call the boot begins with an erase of unusable pages, or
\* with a partition that can be made ready.
LEMMA BootLoss ==
    ASSUME call = BootFrames, BootApp, part = "uninit", staged = flash
    PROVE  ValuesOK /\ NoFaultOK
<1>1. call["main"] = NewFrame(InitNvs, CONFIG, NoEntry)
  BY Names DEF BootFrames
<1>2. call["main"].at = "init" /\ call["main"].fn \notin Savers
  BY <1>1, Fns DEF NewFrame
<1>3. \A t \in Task \ {"main"} : call[t] = IdleFrame
  BY DEF BootFrames
<1>4. \A t \in Task : call[t].at # "erase" /\ call[t].fn \notin Savers
  BY <1>2, <1>3, IdleFrameType, IdleFn
<1> QED
  BY <1>2, <1>4 DEF ValuesOK, NoFaultOK, BootApp

LEMMA RebootLoss ==
    ASSUME Reboot
    PROVE  ValuesOK' /\ NoFaultOK'
<1>1. call' = BootFrames /\ part' = "uninit" /\ staged' = flash'
  BY DEF Reboot, NvsReset
<1>2. (call = BootFrames)' /\ BootApp'
  BY <1>1 DEF Reboot, BootApp, BootFrames
<1>3. (call = BootFrames /\ BootApp /\ part = "uninit" /\ staged = flash
         => ValuesOK /\ NoFaultOK)'
  BY BootLoss, PTL
<1> QED
  BY <1>1, <1>2, <1>3

LEMMA AppLoss ==
    ASSUME LInv,
           \/ AppInitDone \/ AppWifiInit \/ AppGpioInit \/ AppGotMode
           \/ AppSetupMode \/ AppOtherMode
    PROVE  ValuesOK' /\ NoFaultOK'
<1> USE Names DEF LInv
<1>1. (Fault \/ faults' = faults) =>
          faults' \in 0 .. MaxFaults /\ (faults' = 0 => faults = 0)
  BY NvsConstants DEF Fault, IInv, TypeOK, NvsTypeOK
<1>2. CASE AppInitDone
  BY <1>2, LeaveLoss DEF AppInitDone
<1>3. CASE AppGotMode
  BY <1>3, LeaveLoss DEF AppGotMode
<1>4. CASE AppGpioInit
  BY <1>1, <1>4, EnterLoss, Fns DEF AppGpioInit, Entry
<1>5. CASE AppWifiInit \/ AppSetupMode \/ AppOtherMode
  <2>1. /\ UNCHANGED <<flash, staged, part, pages, call>>
        /\ Fault \/ faults' = faults
        /\ app # "init_nvs"
    BY <1>5 DEF AppWifiInit, AppSetupMode, AppOtherMode, nvsVars
  <2> QED
    BY <1>1, <2>1, OtherLoss DEF NoFaultOK
<1> QED
  BY <1>2, <1>3, <1>4, <1>5

LEMMA BtnLoss ==
    ASSUME LInv, Release \/ BtnReceive \/ BtnSaved \/ BtnSavedAgain
    PROVE  ValuesOK' /\ NoFaultOK'
<1> USE Names DEF LInv
<1>1. CASE Release
  BY <1>1, OtherLoss DEF Release, nvsVars
<1>2. app = "init_nvs" => btn = "none"
  BY DEF IInv, ModeOK
<1>3. faults \in 0 .. MaxFaults
  BY DEF IInv, TypeOK, NvsTypeOK
<1>4. CASE BtnReceive \/ BtnSaved
  BY <1>2, <1>3, <1>4, EnterLoss, Fns
     DEF BtnReceive, BtnSaved, SaveSetupMode, Entry
<1>5. CASE BtnSavedAgain
  BY <1>2, <1>5, LeaveLoss DEF BtnSavedAgain
<1> QED
  BY <1>1, <1>4, <1>5

LEMMA HttpLoss ==
    ASSUME LInv,
           \/ StationJoins \/ HttpReinit \/ HttpReinitDone \/ HttpClose
           \/ HttpCloseSaved \/ HttpCloseRead
    PROVE  ValuesOK' /\ NoFaultOK'
<1> USE Names DEF LInv
<1>1. server \/ wifi => app # "init_nvs"
  BY DEF IInv, ModeOK
<1>2. \A fn : Returned("httpd", fn) => server
  BY DEF Returned, IInv, FramesOK
<1>3. faults \in 0 .. MaxFaults
  BY DEF IInv, TypeOK, NvsTypeOK
<1>4. CASE StationJoins
  <2>1. faults' = 0 => faults = 0
    BY <1>3, <1>4 DEF StationJoins, Fault
  <2> QED
    BY <1>1, <1>4, <2>1, OtherLoss DEF StationJoins
<1>5. CASE HttpReinit \/ HttpClose
  BY <1>1, <1>3, <1>5, EnterLoss, Fns DEF HttpReinit, HttpClose, Entry
<1>6. CASE HttpCloseSaved
  BY <1>1, <1>2, <1>3, <1>6, EnterLoss, Fns DEF HttpCloseSaved, Entry
<1>7. CASE HttpReinitDone
  BY <1>1, <1>2, <1>7, LeaveLoss DEF HttpReinitDone, Consume
<1>8. CASE HttpCloseRead
  BY <1>1, <1>2, <1>8, LeaveLoss DEF HttpCloseRead, Consume
<1> QED
  BY <1>4, <1>5, <1>6, <1>7, <1>8

-----------------------------------------------------------------------------

LEMMA InitLoss == Init => LInv
BY InitInv, BootLoss DEF Init, NvsInit, LInv

LEMMA NextLoss == LInv /\ [Next]_vars => LInv'
<1>1. ASSUME LInv, Next PROVE ValuesOK' /\ NoFaultOK'
  <2>1. ASSUME NEW t \in Task, NvsCall(t) PROVE ValuesOK' /\ NoFaultOK'
    BY <1>1, <2>1, CallValues, CallLoss DEF LInv
  <2>2. CASE MainStep
    BY <1>1, <2>1, <2>2, Names, AppLoss DEF MainStep
  <2>3. CASE GpioStep
    BY <1>1, <2>1, <2>3, Names, BtnLoss, RebootLoss DEF GpioStep, BtnRestart
  <2>4. CASE HttpStep
    BY <1>1, <2>1, <2>4, Names, HttpLoss, RebootLoss
       DEF HttpStep, HttpRestart
  <2>5. CASE HttpRequest \/ StationJoins
    BY <1>1, <2>5, HttpLoss DEF HttpRequest
  <2>6. CASE Release
    BY <1>1, <2>6, BtnLoss
  <2>7. CASE PanicReboot \/ PowerCut
    BY <2>7, RebootLoss DEF PanicReboot, PowerCut
  <2> QED
    BY <1>1, <2>2, <2>3, <2>4, <2>5, <2>6, <2>7 DEF Next
<1>2. ASSUME LInv, UNCHANGED vars PROVE ValuesOK' /\ NoFaultOK'
  BY <1>2 DEF LInv, vars, nvsVars, appVars, ValuesOK, NoFaultOK
<1> QED
  BY <1>1, <1>2, NextInv DEF LInv

(***************************************************************************)
(* An entry disappears from a ready partition only after a library call    *)
(* has failed: init_nvs, the one function that may erase without one, runs *)
(* before the tasks that save (main.c:18, nvs_manager.h:7-14).             *)
(***************************************************************************)
THEOREM LossNeedsFault == Spec => LossNeedsAFault
<1> DEFINE A == \A k \in Key : part = "ready" /\ flash[k] # NoEntry
                               /\ flash'[k] = NoEntry => faults > 0
<1>1. ASSUME LInv, Next PROVE A
  <2>1. CASE flash' = flash
    BY <2>1
  <2>2. CASE \E t \in Task : NvsCall(t)
    <3>1. faults = 0 \/ faults > 0
      BY <1>1 DEF LInv, IInv, TypeOK, NvsTypeOK
    <3> QED
      BY <1>1, <2>2, <3>1, ReadyLoss DEF LInv
  <2>3. flash' = flash \/ \E t \in Task : NvsCall(t)
    BY <1>1, Names
       DEF Next, MainStep, GpioStep, HttpStep, HttpRequest, Reboot,
           NvsReset, PanicReboot, PowerCut, BtnRestart, HttpRestart, nvsVars,
           AppInitDone, AppWifiInit, AppGpioInit, AppGotMode, AppSetupMode,
           AppOtherMode, Release, BtnReceive, BtnSaved, BtnSavedAgain,
           StationJoins, HttpReinit, HttpReinitDone, HttpClose,
           HttpCloseSaved, HttpCloseRead
  <2> QED
    BY <2>1, <2>2, <2>3
<1>2. LInv /\ [Next]_vars => [A]_vars
  BY <1>1
<1>3. Spec => [][A]_vars
  BY InitLoss, NextLoss, <1>2, PTL DEF Spec
<1> QED
  BY <1>3 DEF LossNeedsAFault

-----------------------------------------------------------------------------
(* While nothing fails, every call goes its normal way.                    *)

SmoothOK == faults = 0 => \A t \in Task : Smooth(t)

\* init_nvs, alone, makes the partition ready; then no task erases, and no
\* two save the same key.
LEMMA CallSmooth ==
    ASSUME LInv, SmoothOK, NEW t \in Task, NvsCall(t)
    PROVE  SmoothOK'
<1> USE DEF LInv, IInv, TypeOK
<1>1. NvsStep(t)
  BY DEF NvsCall
<1>2. /\ \A u \in Task \ {t} : call'[u] = call[u]
      /\ call'[t].fn = call[t].fn
      /\ call[t].at \notin {"idle", "returned"}
  BY <1>1, NvsStepFrame
<1>3. SUFFICES ASSUME faults' = 0, NEW u \in Task PROVE Smooth(u)'
  BY DEF SmoothOK
<1>4. faults = 0 /\ faults' = faults
  BY <1>1, <1>3, NvsStepFaults, NvsConstants DEF NvsTypeOK
<1>5. Smooth(t) /\ Smooth(u)
  BY <1>4 DEF SmoothOK
<1>6. CASE part = "ready"
  <2>1. call[t].at # "erase"
    BY <1>4, <1>6 DEF NoFaultOK
  <2>2. CASE u = t
    BY <1>1, <1>4, <1>5, <1>6, <2>1, <2>2, NvsStepSmooth
  <2>3. CASE u # t /\ call[u].at = "idle"
    BY <1>2, <2>3 DEF Smooth
  <2>4. CASE u # t /\ call[u].at # "idle"
    <3>1. ASSUME call[t].fn \in Savers, call[u].fn \in Savers
          PROVE  call[t].key # call[u].key
      BY <1>2, <2>4, <3>1, Names, Fns, GatewayConstants DEF FramesOK
    <3> QED
      BY <1>1, <1>5, <2>1, <2>4, <3>1, NvsStepOthersSmooth
  <2> QED
    BY <2>2, <2>3, <2>4
<1>7. CASE part # "ready"
  <2>1. part = "uninit"
    BY <1>7 DEF NvsTypeOK
  <2>2. CASE u = t
    <3>1. call'[u].fn = InitNvs
      BY <1>2, <1>4, <2>1, <2>2, OnlyMain
    <3>2. PointsOK'
      BY <1>1, NvsStepPoints
    <3>3. call'[u].at \notin {"set", "commit", "get"}
      BY <3>1, <3>2, Fns DEF PointsOK, Getters, InitNvs, GetU32, GetStr
    <3> QED
      BY <3>1, <3>3, Fns DEF Smooth
  <2>3. CASE u # t
    <3>1. call'[u].at = "idle"
      BY <1>2, <1>4, <2>1, <2>3, OnlyMain
    <3> QED
      BY <3>1 DEF Smooth
  <2> QED
    BY <2>2, <2>3
<1> QED
  BY <1>6, <1>7

\* A task calls a function or takes its result, or the frames stay.
LEMMA OtherSmooth ==
    ASSUME SmoothOK, NEW t \in Task, faults' = 0 => faults = 0,
           UNCHANGED <<flash, staged, open>>,
           \A u \in Task \ {t} : call'[u] = call[u],
           call'[t] = call[t] \/ call'[t].at \in {"idle", "init"}
    PROVE  SmoothOK'
<1>1. ASSUME NEW u \in Task, Smooth(u) PROVE Smooth(u)'
  <2>1. CASE call'[u] = call[u]
    BY <1>1, <2>1 DEF Smooth, Accessing
  <2>2. CASE call'[u].at \in {"idle", "init"}
    BY <2>2 DEF Smooth
  <2> QED
    BY <2>1, <2>2
<1> QED
  BY <1>1 DEF SmoothOK

\* The frames of a boot have opened nothing.
LEMMA BootFramesAt ==
    \A t \in Task : BootFrames[t].at \in {"idle", "init"}
<1>1. NewFrame(InitNvs, CONFIG, NoEntry).at = "init"
  BY DEF NewFrame
<1> QED
  BY <1>1, IdleFrameType DEF BootFrames

LEMMA RebootSmooth ==
    ASSUME Reboot
    PROVE  SmoothOK'
<1>1. call' = BootFrames
  BY DEF Reboot
<1>2. \A t \in Task : call'[t].at \in {"idle", "init"}
  BY <1>1, BootFramesAt
<1> QED
  BY <1>2 DEF SmoothOK, Smooth

LEMMA InitSmooth == Init => SmoothOK
<1>1. SUFFICES ASSUME Init PROVE SmoothOK
  OBVIOUS
<1>2. \A t \in Task : call[t].at \in {"idle", "init"}
  BY <1>1, BootFramesAt DEF Init
<1> QED
  BY <1>2 DEF SmoothOK, Smooth

LEMMA EnterSmooth ==
    ASSUME LInv, SmoothOK, NEW t \in Task, UNCHANGED <<flash, staged, open>>,
           faults' = 0 => faults = 0,
           \/ \E fn : Consume(t, fn)
           \/ \E fn, k, v : Enter(t, fn, k, v)
           \/ call' = call
    PROVE  SmoothOK'
<1> USE DEF LInv, IInv, TypeOK, NvsTypeOK
<1>1. CASE \E fn : Consume(t, fn)
  <2>1. call' = [call EXCEPT ![t] = IdleFrame]
    BY <1>1 DEF Consume
  <2>2. /\ \A u \in Task \ {t} : call'[u] = call[u]
        /\ call'[t].at = "idle"
    BY <2>1, IdleFrameType
  <2> QED
    BY <2>2, OtherSmooth
<1>2. CASE \E fn, k, v : Enter(t, fn, k, v)
  <2>1. PICK fn, k, v : call' = [call EXCEPT ![t] = NewFrame(fn, k, v)]
    BY <1>2 DEF Enter
  <2>2. NewFrame(fn, k, v).at = "init"
    BY DEF NewFrame
  <2>3. /\ \A u \in Task \ {t} : call'[u] = call[u]
        /\ call'[t].at = "init"
    BY <2>1, <2>2
  <2> QED
    BY <2>3, OtherSmooth
<1>3. CASE call' = call
  BY <1>3, OtherSmooth
<1> QED
  BY <1>1, <1>2, <1>3

LEMMA AppSmooth ==
    ASSUME LInv, SmoothOK,
           \/ AppInitDone \/ AppWifiInit \/ AppGpioInit \/ AppGotMode
           \/ AppSetupMode \/ AppOtherMode
    PROVE  SmoothOK'
<1>1. (Fault \/ faults' = faults) => (faults' = 0 => faults = 0)
  BY NvsConstants DEF Fault, LInv, IInv, TypeOK, NvsTypeOK
<1>2. UNCHANGED <<flash, staged, open>> /\ (Fault \/ faults' = faults)
  BY DEF AppInitDone, AppWifiInit, AppGpioInit, AppGotMode, AppSetupMode,
         AppOtherMode, nvsVars
<1>3. \/ \E fn : Consume("main", fn)
      \/ \E fn, k, v : Enter("main", fn, k, v)
      \/ call' = call
  BY DEF AppInitDone, AppWifiInit, AppGpioInit, AppGotMode, AppSetupMode,
         AppOtherMode, nvsVars
<1> QED
  BY <1>1, <1>2, <1>3, EnterSmooth, Names

LEMMA BtnSmooth ==
    ASSUME LInv, SmoothOK, Release \/ BtnReceive \/ BtnSaved \/ BtnSavedAgain
    PROVE  SmoothOK'
<1>1. UNCHANGED <<flash, staged, open, faults>>
  BY DEF Release, BtnReceive, BtnSaved, BtnSavedAgain, nvsVars
<1>2. \/ \E fn : Consume("gpio_task", fn)
      \/ \E fn, k, v : Enter("gpio_task", fn, k, v)
      \/ call' = call
  BY DEF Release, BtnReceive, BtnSaved, BtnSavedAgain, SaveSetupMode, nvsVars
<1> QED
  BY <1>1, <1>2, EnterSmooth, Names

LEMMA HttpSmooth ==
    ASSUME LInv, SmoothOK,
           \/ StationJoins \/ HttpReinit \/ HttpReinitDone \/ HttpClose
           \/ HttpCloseSaved \/ HttpCloseRead
    PROVE  SmoothOK'
<1>1. (Fault \/ faults' = faults) => (faults' = 0 => faults = 0)
  BY NvsConstants DEF Fault, LInv, IInv, TypeOK, NvsTypeOK
<1>2. UNCHANGED <<flash, staged, open>> /\ (Fault \/ faults' = faults)
  BY DEF StationJoins, HttpReinit, HttpReinitDone, HttpClose, HttpCloseSaved,
         HttpCloseRead
<1>3. \/ \E fn : Consume("httpd", fn)
      \/ \E fn, k, v : Enter("httpd", fn, k, v)
      \/ call' = call
  BY DEF StationJoins, HttpReinit, HttpReinitDone, HttpClose, HttpCloseSaved,
         HttpCloseRead
<1> QED
  BY <1>1, <1>2, <1>3, EnterSmooth, Names

LEMMA NextSmooth == LInv /\ SmoothOK /\ [Next]_vars => SmoothOK'
<1>1. ASSUME LInv, SmoothOK, Next PROVE SmoothOK'
  <2>1. CASE MainStep
    BY <1>1, <2>1, Names, CallSmooth, AppSmooth DEF MainStep
  <2>2. CASE GpioStep
    BY <1>1, <2>2, Names, CallSmooth, BtnSmooth, RebootSmooth
       DEF GpioStep, BtnRestart
  <2>3. CASE HttpStep
    BY <1>1, <2>3, Names, CallSmooth, HttpSmooth, RebootSmooth
       DEF HttpStep, HttpRestart
  <2>4. CASE HttpRequest \/ StationJoins
    BY <1>1, <2>4, HttpSmooth DEF HttpRequest
  <2>5. CASE Release
    BY <1>1, <2>5, BtnSmooth
  <2>6. CASE PanicReboot \/ PowerCut
    BY <2>6, RebootSmooth DEF PanicReboot, PowerCut
  <2> QED
    BY <1>1, <2>1, <2>2, <2>3, <2>4, <2>5, <2>6 DEF Next
<1>2. ASSUME SmoothOK, UNCHANGED vars PROVE SmoothOK'
  BY <1>2 DEF vars, nvsVars, appVars, SmoothOK, Smooth, Accessing
<1> QED
  BY <1>1, <1>2

(***************************************************************************)
(* While no library call has failed, every save that a task makes reports  *)
(* success and is in the flash when it does (nvs_manager.h:65-101,         *)
(* 139-179), saved_data_in_flash included, whatever the other tasks save   *)
(* meanwhile and whenever the device is reset.                             *)
(***************************************************************************)
THEOREM FaultlessSavesDurable == Spec => []FaultlessSavesAreDurable
<1>1. SmoothOK => FaultlessSavesAreDurable
  BY DEF SmoothOK, Smooth, FaultlessSavesAreDurable
<1> QED
  BY InitLoss, NextLoss, InitSmooth, NextSmooth, <1>1, PTL DEF Spec

=============================================================================
