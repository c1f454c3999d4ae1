---------------------------- MODULE GatewayProofs ----------------------------
(***************************************************************************)
(* The inductive invariant of Gateway and what follows from it, for every  *)
(* number of failing calls, every queue length and every set of values.    *)
(***************************************************************************)
EXTENDS Gateway, NvsManagerProofs

Cleared == flash[CONFIG] \in {0, NoEntry}

Busy == btn \in {"save", "save_again", "restart"}

\* Which task is in which function, and when.
FramesOK ==
    /\ call["main"].at # "idle" =>
           \/ app = "init_nvs" /\ call["main"].fn = InitNvs
           \/ app = "get_mode" /\ call["main"].fn = GetU32
                               /\ call["main"].key = CONFIG
    /\ call["gpio_task"].at # "idle" =>
           /\ btn \in {"save", "save_again"}
           /\ call["gpio_task"].fn = SaveU32
           /\ call["gpio_task"].key = CONFIG
           /\ call["gpio_task"].val = 0
    /\ call["httpd"].at # "idle" => server /\ call["httpd"].key \in {MODE, CONS}

\* The server runs in set-up mode only, on a partition that was ready when
\* the driver started, and only an erase makes it not ready.
ModeOK ==
    /\ saved_data # NoEntry => app \in {"switch", "done"}
    /\ app \in {"init_nvs", "wifi_init", "gpio_init"} => btn = "none"
    /\ server => wifi
    /\ wifi => saved_data = 0 /\ (part = "ready" \/ Cleared)

\* What app_main reads is in the flash or is being overwritten by gpio_task.
ReadOK ==
    /\ staged[CONFIG] \in {flash[CONFIG], 0}
    /\ app = "get_mode" /\ call["main"].at = "returned"
         /\ call["main"].val \in Value \ {0}
           => flash[CONFIG] = call["main"].val \/ Busy
    /\ StaleModeIsRestarted

\* A save of gpio_task fails only after a failed call or an erase.
SaveOK ==
    /\ call["gpio_task"].at = "open" => part = "ready" \/ Cleared
    /\ call["gpio_task"].at = "reinit" => Cleared
    /\ call["gpio_task"].at = "returned" /\ call["gpio_task"].ret = "ok"
           => Cleared
    /\ call["main"].handle # "gpio_task"

\* httpd holds the handle of gpio_task by accident.
Alias == call["httpd"].handle = "gpio_task"

\* The save in progress cannot succeed any more.
Lost ==
    \/ call["gpio_task"].at \in {"set", "commit"} /\ "gpio_task" \notin open
    \/ call["gpio_task"].at = "returned" /\ call["gpio_task"].ret = "fail"

\* While the flash holds another mode, every save that came to nothing, and
\* the handle that may still be closed under one, has cost a failed call.
FaultsOK ==
    ~Cleared =>
        /\ Alias => faults >= 1
        /\ btn = "save" /\ Lost => faults >= 1 /\ (Alias => faults >= 2)
        /\ btn = "save_again" => faults >= 1 /\ (Alias => faults >= 2)
        /\ btn = "save_again" /\ Lost => faults >= 2
        /\ btn = "restart" => faults >= 2

IInv == TypeOK /\ PointsOK /\ SetIsStaged /\ FramesOK /\ ModeOK /\ ReadOK
          /\ SaveOK /\ FaultsOK

-----------------------------------------------------------------------------

LEMMA Names ==
    /\ "main" \in Task /\ "gpio_task" \in Task /\ "httpd" \in Task
    /\ CONFIG \in Key /\ MODE \in Key /\ CONS \in Key
    /\ CONFIG \notin {MODE, CONS}
    /\ 0 \in Value /\ 1 \in Value /\ NoEntry \notin Value
BY GatewayConstants, NvsConstants DEF CONFIG, MODE, CONS

LEMMA Fns ==
    /\ InitNvs \in Functions /\ GetU32 \in Functions /\ SaveU32 \in Functions
    /\ GetStr \in Functions /\ SaveStr \in Functions
    /\ InitNvs \notin Savers /\ GetU32 \notin Savers /\ GetStr \notin Savers
    /\ SaveU32 \in Savers /\ SaveU32 # SaveStr
    /\ GetU32 # SaveStr /\ InitNvs # SaveStr
BY DEF Functions, Savers, Getters, InitNvs, GetU32, SaveU32, GetStr, SaveStr

(* Each key has one writer: gpio_task saves Gateway_mode, httpd the others.*)
LEMMA FramesOneSaver ==
    ASSUME NvsTypeOK, FramesOK
    PROVE  OneSaver
<1>1. \A t \in Task : t \in {"main", "gpio_task", "httpd"}
  BY GatewayConstants
<1>2. ~Saving("main")
  BY Fns DEF FramesOK, Saving
<1>3. Saving("gpio_task") => call["gpio_task"].key = CONFIG
  BY DEF FramesOK, Saving
<1>4. Saving("httpd") => call["httpd"].key # CONFIG
  BY Names DEF FramesOK, Saving
<1> QED
  BY <1>1, <1>2, <1>3, <1>4 DEF OneSaver

(* What a library call does to the mode the next boot will find.           *)
LEMMA ModeStep ==
    ASSUME NvsTypeOK, PointsOK, SetIsStaged, FramesOK,
           NEW t \in Task, NvsStep(t)
    PROVE  \/ flash'[CONFIG] = flash[CONFIG] /\ staged'[CONFIG] = staged[CONFIG]
           \/ /\ call[t].at = "erase"
              /\ flash'[CONFIG] = NoEntry /\ staged'[CONFIG] = NoEntry
           \/ /\ t = "gpio_task" /\ Saving(t)
              /\ flash'[CONFIG] \in {flash[CONFIG], 0} /\ staged'[CONFIG] = 0
<1> USE Names DEF NvsTypeOK, Frame
<1>1. ASSUME call[t].fn \in Savers, call[t].at \in {"set", "commit"},
             call[t].key = CONFIG
      PROVE  t = "gpio_task" /\ call[t].val = 0 /\ call[t].fn = SaveU32
    BY <1>1, Fns, GatewayConstants DEF FramesOK
<1>2. CASE flash' = flash /\ staged' = staged
  BY <1>2
<1>3. CASE /\ call[t].at = "erase"
           /\ flash' = [k \in Key |-> NoEntry]
           /\ staged' = [k \in Key |-> NoEntry]
  BY <1>3
<1>4. CASE /\ call[t].at = "set" /\ call[t].fn \in Savers
           /\ staged' = [staged EXCEPT ![call[t].key] = call[t].val]
           /\ flash' \in {flash, [flash EXCEPT ![call[t].key] = call[t].val]}
  <2>1. CASE call[t].key = CONFIG
    <3>1. t = "gpio_task" /\ call[t].val = 0
      BY <1>1, <1>4, <2>1
    <3>2. staged'[CONFIG] = 0 /\ flash'[CONFIG] \in {flash[CONFIG], 0}
      BY <1>4, <2>1, <3>1
    <3> QED
      BY <1>4, <3>1, <3>2 DEF Saving
  <2>2. CASE call[t].key # CONFIG
    BY <1>4, <2>2
  <2> QED
    BY <2>1, <2>2
<1>5. CASE /\ call[t].at = "commit" /\ call[t].fn \in Savers
           /\ call[t].handle \in open
           /\ staged' = staged
           /\ flash' = [flash EXCEPT ![call[t].key] = staged[call[t].key]]
  <2>1. CASE call[t].key = CONFIG
    <3>1. t = "gpio_task" /\ call[t].val = 0 /\ call[t].fn = SaveU32
      BY <1>1, <1>5, <2>1
    <3>2. staged[CONFIG] = 0
      BY <1>5, <2>1, <3>1 DEF PointsOK, SetIsStaged
    <3>3. flash'[CONFIG] = 0
      BY <1>5, <2>1, <3>2
    <3> QED
      BY <1>5, <3>1, <3>2, <3>3 DEF Saving
  <2>2. CASE call[t].key # CONFIG
    BY <1>5, <2>2
  <2> QED
    BY <2>1, <2>2
<1> QED
  BY <1>2, <1>3, <1>4, <1>5, NvsStepFlash

(* No library call writes a non-zero mode.                                 *)
LEMMA ClearedStep ==
    ASSUME NvsTypeOK, PointsOK, SetIsStaged, FramesOK,
           NEW t \in Task, NvsStep(t), Cleared
    PROVE  Cleared'
BY ModeStep DEF Cleared

-----------------------------------------------------------------------------
(* A step of a task inside an NVS function.                                *)

LEMMA CallFrames ==
    ASSUME NvsTypeOK, PointsOK, FramesOK, NEW t \in Task, NvsCall(t)
    PROVE  FramesOK'
<1>1. UNCHANGED <<app, btn, server>> /\ NvsStep(t)
  BY DEF NvsCall, appVars
<1>2. /\ \A u \in Task \ {t} : call'[u] = call[u]
      /\ call'[t].fn = call[t].fn
      /\ call'[t].key = call[t].key
      /\ call[t].at \notin {"idle", "returned"}
      /\ call[t].fn = SaveU32 => call'[t].val = call[t].val
  BY <1>1, NvsStepFrame
<1>3. CASE t = "main"
  BY <1>1, <1>2, <1>3, Names DEF FramesOK
<1>4. CASE t = "gpio_task"
  BY <1>1, <1>2, <1>4, Names DEF FramesOK
<1>5. CASE t = "httpd"
  BY <1>1, <1>2, <1>5, Names DEF FramesOK
<1> QED
  BY <1>3, <1>4, <1>5, GatewayConstants

LEMMA CallMode ==
    ASSUME IInv, NEW t \in Task, NvsCall(t)
    PROVE  ModeOK'
<1> USE DEF IInv, TypeOK
<1>1. UNCHANGED <<app, btn, saved_data, server, wifi>> /\ NvsStep(t)
  BY DEF NvsCall, appVars
<1>2. Cleared => Cleared'
  BY <1>1, ClearedStep
<1>3. part = "ready" => part' = "ready" \/ Cleared'
  BY <1>1, NvsStepPart, Names DEF Cleared
<1> QED
  BY <1>1, <1>2, <1>3 DEF ModeOK

LEMMA CallRead ==
    ASSUME IInv, NEW t \in Task, NvsCall(t)
    PROVE  ReadOK'
<1> USE DEF IInv, TypeOK
<1>1. UNCHANGED <<app, saved_data, btn>> /\ NvsStep(t)
  BY DEF NvsCall, appVars
<1>2. \/ flash'[CONFIG] = flash[CONFIG] /\ staged'[CONFIG] = staged[CONFIG]
      \/ /\ call[t].at = "erase"
         /\ flash'[CONFIG] = NoEntry /\ staged'[CONFIG] = NoEntry
      \/ /\ t = "gpio_task" /\ Saving(t)
         /\ flash'[CONFIG] \in {flash[CONFIG], 0} /\ staged'[CONFIG] = 0
  BY <1>1, ModeStep
<1>3. staged'[CONFIG] \in {flash'[CONFIG], 0}
  BY <1>2 DEF ReadOK
<1>4. /\ \A u \in Task \ {t} : call'[u] = call[u]
      /\ call'[t].fn = call[t].fn
      /\ call'[t].key = call[t].key
      /\ call[t].at \notin {"idle", "returned"}
  BY <1>1, NvsStepFrame
<1>5. flash'[CONFIG] # flash[CONFIG] => Busy \/ t = "main" \/ saved_data = 0
  BY <1>2, <1>4, GatewayConstants DEF Saving, FramesOK, ModeOK, Busy
<1>6. t = "main" => saved_data = NoEntry
  BY <1>4 DEF FramesOK, ModeOK
<1>7. StaleModeIsRestarted'
  BY <1>1, <1>5, <1>6, Names DEF StaleModeIsRestarted, ReadOK, Busy
<1>8. ASSUME app = "get_mode", call'["main"].at = "returned",
             call'["main"].val \in Value \ {0}
      PROVE  flash'[CONFIG] = call'["main"].val \/ Busy'
  <2>1. CASE t = "main"
    <3>1. call["main"].fn = GetU32 /\ call["main"].key = CONFIG
      BY <1>4, <1>8, <2>1 DEF FramesOK
    <3>2. /\ call'["main"].val = staged[CONFIG]
          /\ UNCHANGED <<flash, staged>>
      BY <1>1, <1>8, <2>1, <3>1, GetU32Step
    <3> QED
      BY <1>8, <3>2 DEF ReadOK
  <2>2. CASE t # "main"
    <3>1. call'["main"] = call["main"]
      BY <1>4, <2>2, Names
    <3>2. saved_data = NoEntry
      BY <1>8 DEF ModeOK
    <3>3. flash[CONFIG] = call["main"].val \/ Busy
      BY <1>8, <3>1 DEF ReadOK
    <3> QED
      BY <1>1, <1>5, <2>2, <3>1, <3>2, <3>3, Names DEF Busy
  <2> QED
    BY <2>1, <2>2
<1> QED
  BY <1>1, <1>3, <1>7, <1>8 DEF ReadOK

LEMMA CallSave ==
    ASSUME IInv, NEW t \in Task, NvsCall(t)
    PROVE  SaveOK'
<1> USE DEF IInv, TypeOK
<1>1. NvsStep(t)
  BY DEF NvsCall
<1>2. /\ \A u \in Task \ {t} : call'[u] = call[u]
      /\ call'[t].fn = call[t].fn
      /\ call'[t].key = call[t].key
      /\ call[t].at \notin {"idle", "returned"}
  BY <1>1, NvsStepFrame
<1>3. Cleared => Cleared'
  BY <1>1, ClearedStep
<1>4. part = "ready" => part' = "ready" \/ Cleared'
  BY <1>1, NvsStepPart, Names DEF Cleared
<1>5. CASE t = "gpio_task"
  <2>1. call[t].fn = SaveU32 /\ call[t].key = CONFIG /\ call[t].val = 0
    BY <1>2, <1>5 DEF FramesOK
  <2>2. /\ call'[t].at = "open" => part' = "ready"
        /\ call'[t].at = "reinit" => flash' = [k \in Key |-> NoEntry]
    BY <1>1, <2>1, SaveU32Step
  <2>3. call'[t].at = "reinit" => Cleared'
    BY <2>2, Names DEF Cleared
  <2>4. SaveInv
    BY FramesOneSaver DEF SaveInv
  <2>5. call'[t].at = "returned" /\ call'[t].ret = "ok" => flash'[CONFIG] = 0
    BY <1>1, <2>1, <2>4, NvsStepDurable
  <2>6. call'["main"] = call["main"]
    BY <1>2, <1>5, Names
  <2> QED
    BY <1>5, <2>2, <2>3, <2>5, <2>6 DEF SaveOK, Cleared
<1>6. CASE t # "gpio_task"
  <2>1. call'["gpio_task"] = call["gpio_task"]
    BY <1>2, <1>6, Names
  <2>2. call'["main"].handle # "gpio_task"
    <3>1. CASE t = "main"
      <4>1. call[t].fn # SaveStr
        BY <1>2, <3>1, Fns DEF FramesOK
      <4>2. call'[t].handle \in {call[t].handle, NoHandle, t}
        BY <1>1, <4>1, NvsStepHandle
      <4> QED
        BY <3>1, <4>2, Names, NvsConstants DEF SaveOK
    <3>2. CASE t # "main"
      BY <1>2, <3>2, Names DEF SaveOK
    <3> QED
      BY <3>1, <3>2
  <2> QED
    BY <1>3, <1>4, <2>1, <2>2 DEF SaveOK
<1> QED
  BY <1>5, <1>6

LEMMA CallFaults ==
    ASSUME IInv, NEW t \in Task, NvsCall(t)
    PROVE  FaultsOK'
<1> USE DEF IInv, TypeOK, NvsTypeOK
<1>1. UNCHANGED btn /\ NvsStep(t)
  BY DEF NvsCall, appVars
<1>2. /\ \A u \in Task \ {t} : call'[u] = call[u]
      /\ call[t].at \notin {"idle", "returned"}
  BY <1>1, NvsStepFrame
<1>3. SUFFICES ASSUME ~Cleared' PROVE FaultsOK'
  BY DEF FaultsOK
<1>4. ~Cleared
  BY <1>1, <1>3, ClearedStep
<1>5. faults' \in {faults, faults + 1} /\ faults \in Nat
  BY <1>1, NvsStepFaults, NvsConstants
<1>6. flash' # [k \in Key |-> NoEntry]
  BY <1>3, Names DEF Cleared
<1>7. ASSUME NEW u \in open, u \notin open'
      PROVE  call[t].handle = u /\ call'[t].handle = NoHandle
  BY <1>1, <1>6, <1>7, NvsStepOpen
<1>8. NoHandle # "gpio_task" /\ "gpio_task" # "httpd" /\ "main" # "gpio_task"
  BY Names, NvsConstants
<1>9. CASE t = "gpio_task"
  <2>1. call[t].fn = SaveU32
    BY <1>2, <1>9 DEF FramesOK
  <2>2. /\ call'[t].at \in {"set", "commit"} => t \in open'
        /\ call'[t].at = "returned" /\ call'[t].ret = "fail" =>
               \/ faults' = faults + 1
               \/ call[t].at = "reinit"
               \/ call[t].at = "open" /\ part = "uninit"
               \/ call[t].at \in {"set", "commit"} /\ t \notin open
    BY <1>1, <2>1, SaveU32Step
  <2>3. Lost' => faults' = faults + 1 \/ Lost
    BY <1>4, <1>9, <2>2 DEF Lost, SaveOK
  <2>4. Alias' <=> Alias
    BY <1>2, <1>9, <1>8, Names DEF Alias
  <2> QED
    BY <1>1, <1>4, <1>5, <2>3, <2>4 DEF FaultsOK
<1>10. CASE t = "main"
  <2>1. call'["gpio_task"] = call["gpio_task"]
    BY <1>2, <1>8, <1>10, Names
  <2>2. Alias' <=> Alias
    BY <1>2, <1>10, Names DEF Alias
  <2>3. Lost' => Lost
    BY <1>7, <1>10, <2>1 DEF Lost, SaveOK
  <2> QED
    BY <1>1, <1>4, <1>5, <2>2, <2>3 DEF FaultsOK
<1>11. CASE t = "httpd"
  <2>1. call'["gpio_task"] = call["gpio_task"]
    BY <1>2, <1>8, <1>11, Names
  <2>2. part = "ready"
    BY <1>2, <1>4, <1>11 DEF FramesOK, ModeOK
  <2>3. Alias' => Alias \/ faults' = faults + 1
    BY <1>1, <1>8, <1>11, <2>2, NvsStepHandle DEF Alias
  <2>4. Lost' => Lost \/ (Alias /\ ~Alias')
    BY <1>7, <1>8, <1>11, <2>1 DEF Lost, Alias
  <2> QED
    BY <1>1, <1>4, <1>5, <2>3, <2>4 DEF FaultsOK
<1> QED
  BY <1>9, <1>10, <1>11, GatewayConstants

(* Every library call of every task preserves the invariant.               *)
LEMMA CallInv ==
    ASSUME IInv, NEW t \in Task, NvsCall(t)
    PROVE  IInv'
<1>1. NvsStep(t) /\ UNCHANGED appVars
  BY DEF NvsCall
<1>2. SaveInv
  BY FramesOneSaver DEF SaveInv, IInv, TypeOK
<1>3. NvsTypeOK' /\ PointsOK' /\ SetIsStaged'
  BY <1>1, <1>2, NvsStepSaveInv DEF SaveInv
<1>4. TypeOK'
  BY <1>1, <1>3 DEF TypeOK, IInv, appVars
<1> QED
  BY <1>3, <1>4, CallFrames, CallMode, CallRead, CallSave, CallFaults
     DEF IInv, TypeOK

-----------------------------------------------------------------------------
(* The steps outside the NVS functions.                                    *)

\* A boot, of whatever the flash holds and whatever has failed before.
Boot == call = BootFrames /\ BootApp /\ NvsTypeOK /\ staged = flash

LEMMA BootInv == Boot => IInv
<1> SUFFICES ASSUME Boot PROVE IInv
  OBVIOUS
<1> USE DEF Boot
<1>1. call["main"] = NewFrame(InitNvs, CONFIG, NoEntry)
  BY Names DEF BootFrames
<1>2. /\ call["main"].at = "init" /\ call["main"].fn = InitNvs
      /\ call["main"].handle = NoHandle
  BY <1>1 DEF NewFrame
<1>3. /\ call["gpio_task"] = IdleFrame
      /\ call["httpd"] = IdleFrame
  BY Names DEF BootFrames
<1>4. /\ call["gpio_task"].at = "idle" /\ call["httpd"].at = "idle"
      /\ call["httpd"].handle = NoHandle
  BY <1>3, IdleFrameType
<1>5. \A t \in Task : call[t].at \in {"init", "idle"}
  BY <1>2, <1>4, GatewayConstants
<1>6. TypeOK
  <2>1. 0 \in 0 .. QueueLength
    BY GatewayConstants
  <2>2. NoEntry \in Entry
    BY DEF Entry
  <2> QED
    BY <2>1, <2>2 DEF TypeOK, BootApp
<1>7. PointsOK /\ SetIsStaged
  BY <1>5 DEF PointsOK, SetIsStaged
<1>8. FramesOK /\ ModeOK
  BY <1>2, <1>4 DEF FramesOK, ModeOK, BootApp
<1>9. ReadOK
  BY <1>2, Names DEF ReadOK, StaleModeIsRestarted, BootApp
<1>10. NoHandle # "gpio_task"
  BY Names, NvsConstants
<1>11. SaveOK /\ FaultsOK
  BY <1>2, <1>4, <1>10 DEF SaveOK, FaultsOK, Alias, Lost, BootApp
<1> QED
  BY <1>6, <1>7, <1>8, <1>9, <1>11 DEF IInv

LEMMA BootFramesType == BootFrames \in [Task -> Frame]
<1>1. NewFrame(InitNvs, CONFIG, NoEntry) \in Frame
  BY NewFrameType, Names, Fns DEF Entry
<1> QED
  BY <1>1, IdleFrameType DEF BootFrames

LEMMA InitInv == Init => IInv
<1>1. SUFFICES ASSUME Init PROVE IInv
  OBVIOUS
<1>2. faults \in 0 .. MaxFaults
  BY <1>1, NvsConstants DEF Init, NvsInit
<1>3. NvsTypeOK
  BY <1>1, <1>2, BootFramesType DEF Init, NvsInit, NvsTypeOK
<1> QED
  BY <1>1, <1>3, BootInv DEF Boot, Init, NvsInit

LEMMA RebootInv ==
    ASSUME IInv, Reboot
    PROVE  IInv'
<1>1. call' = BootFrames
  BY DEF Reboot
<1>2. NvsTypeOK'
  BY <1>1, BootFramesType DEF Reboot, NvsReset, IInv, TypeOK, NvsTypeOK
<1>3. Boot'
  BY <1>1, <1>2 DEF Boot, Reboot, NvsReset, BootApp, BootFrames
<1>4. Boot' => IInv'
  BY BootInv, PTL
<1> QED
  BY <1>3, <1>4

\* Some step leaves the calls, the flash and the partition alone.
LEMMA QuietKeeps ==
    ASSUME IInv, faults' \in 0 .. MaxFaults,
           UNCHANGED <<flash, staged, part, pages, open, leaked, call>>
    PROVE  NvsTypeOK' /\ PointsOK' /\ SetIsStaged'
BY DEF IInv, TypeOK, NvsTypeOK, PointsOK, SetIsStaged

\* The parts of the invariant that speak of the frames, where a step changes
\* the frame of one task and nothing else of the NVS functions.
LEMMA FramePartsMain ==
    ASSUME IInv, UNCHANGED <<flash, staged, part, open, btn>>,
           faults \in Nat, faults' \in Nat, faults' >= faults,
           \A u \in Task \ {"main"} : call'[u] = call[u],
           call'["main"].handle = NoHandle
    PROVE  SaveOK' /\ FaultsOK'
<1>1. call'["gpio_task"] = call["gpio_task"] /\ call'["httpd"] = call["httpd"]
  BY Names
<1>2. NoHandle # "gpio_task"
  BY Names, NvsConstants
<1>3. SaveOK'
  BY <1>1, <1>2 DEF IInv, SaveOK, Cleared
<1>4. (Alias' <=> Alias) /\ (Lost' <=> Lost) /\ (Cleared' <=> Cleared)
  BY <1>1 DEF Alias, Lost, Cleared
<1>5. FaultsOK'
  BY <1>4 DEF IInv, FaultsOK
<1> QED
  BY <1>3, <1>5

LEMMA FaultsNat ==
    ASSUME NvsTypeOK, Fault \/ faults' = faults
    PROVE  /\ faults \in Nat /\ faults' \in Nat /\ faults' >= faults
           /\ faults' \in 0 .. MaxFaults
BY NvsConstants DEF NvsTypeOK, Fault

LEMMA AppInv ==
    ASSUME IInv,
           \/ AppInitDone \/ AppWifiInit \/ AppGpioInit \/ AppGotMode
           \/ AppSetupMode \/ AppOtherMode
    PROVE  IInv'
<1> USE Names DEF IInv, TypeOK
<1>1. CASE AppInitDone
  <2>1. /\ NvsTypeOK' /\ PointsOK' /\ SetIsStaged'
        /\ \A u \in Task \ {"main"} : call'[u] = call[u]
        /\ call'["main"].at = "idle" /\ call'["main"].handle = NoHandle
    BY <1>1, LeaveKeeps DEF AppInitDone, Consume
  <2>2. SaveOK' /\ FaultsOK'
    BY <1>1, <2>1, FaultsNat, FramePartsMain DEF AppInitDone
  <2>3. FramesOK'
    BY <1>1, <2>1 DEF AppInitDone, FramesOK
  <2>4. ModeOK' /\ ReadOK'
    BY <1>1, <2>1 DEF AppInitDone, ModeOK, ReadOK, StaleModeIsRestarted, Busy,
                      Cleared
  <2> QED
    BY <1>1, <2>1, <2>2, <2>3, <2>4 DEF AppInitDone
<1>2. CASE AppWifiInit
  <2>1. /\ faults \in Nat /\ faults' \in Nat /\ faults' >= faults
        /\ faults' \in 0 .. MaxFaults
    BY <1>2, FaultsNat DEF AppWifiInit
  <2>2. NvsTypeOK' /\ PointsOK' /\ SetIsStaged'
    BY <1>2, <2>1, QuietKeeps DEF AppWifiInit
  <2>3. FramesOK'
    BY <1>2 DEF AppWifiInit, FramesOK
  <2>4. ModeOK' /\ ReadOK'
    BY <1>2 DEF AppWifiInit, ModeOK, ReadOK, StaleModeIsRestarted, Busy,
                Cleared
  <2>5. SaveOK'
    BY <1>2 DEF AppWifiInit, SaveOK, Cleared
  <2>6. FaultsOK'
    BY <1>2, <2>1 DEF AppWifiInit, FaultsOK, Alias, Lost, Cleared
  <2>7. TypeOK'
    BY <1>2, <2>2 DEF AppWifiInit
  <2> QED
    BY <2>2, <2>3, <2>4, <2>5, <2>6, <2>7
<1>3. CASE AppGpioInit
  <2>1. /\ faults \in Nat /\ faults' \in Nat /\ faults' >= faults
        /\ faults' \in 0 .. MaxFaults
    BY <1>3, FaultsNat DEF AppGpioInit
  <2>2. /\ NvsTypeOK' /\ PointsOK' /\ SetIsStaged'
        /\ \A u \in Task \ {"main"} : call'[u] = call[u]
        /\ call'["main"].fn = GetU32 /\ call'["main"].key = CONFIG
        /\ call'["main"].at = "init" /\ call'["main"].handle = NoHandle
    BY <1>3, <2>1, EnterKeeps, Fns DEF AppGpioInit, Entry
  <2>3. btn = "none" /\ btn' \in {"none", "wait"} /\ app' = "get_mode"
    BY <1>3 DEF AppGpioInit, ModeOK
  <2>4. FramesOK'
    BY <1>3, <2>2, <2>3 DEF AppGpioInit, FramesOK
  <2>5. ModeOK' /\ ReadOK'
    BY <1>3, <2>2, <2>3 DEF AppGpioInit, ModeOK, ReadOK, StaleModeIsRestarted,
                            Cleared
  <2>6. NoHandle # "gpio_task"
    BY NvsConstants
  <2>7. call'["gpio_task"] = call["gpio_task"] /\ call'["httpd"] = call["httpd"]
    BY <2>2
  <2>8. SaveOK' /\ FaultsOK'
    BY <1>3, <2>1, <2>2, <2>3, <2>6, <2>7
       DEF AppGpioInit, SaveOK, FaultsOK, Alias, Lost, Cleared
  <2>9. TypeOK'
    BY <1>3, <2>2, <2>3 DEF AppGpioInit
  <2> QED
    BY <2>2, <2>4, <2>5, <2>8, <2>9
<1>4. CASE AppGotMode
  <2>1. /\ NvsTypeOK' /\ PointsOK' /\ SetIsStaged'
        /\ \A u \in Task \ {"main"} : call'[u] = call[u]
        /\ call'["main"].at = "idle" /\ call'["main"].handle = NoHandle
    BY <1>4, LeaveKeeps DEF AppGotMode, Consume
  <2>2. SaveOK' /\ FaultsOK'
    BY <1>4, <2>1, FaultsNat, FramePartsMain DEF AppGotMode
  <2>3. FramesOK'
    BY <1>4, <2>1 DEF AppGotMode, FramesOK
  <2>4. call["main"].at = "returned" /\ saved_data' = call["main"].val
    BY <1>4 DEF AppGotMode, Consume, Returned
  <2>5. saved_data' \in Entry
    BY <2>4 DEF NvsTypeOK, Frame
  <2>6. StaleModeIsRestarted'
    BY <1>4, <2>4 DEF AppGotMode, ReadOK, StaleModeIsRestarted, Busy
  <2>7. ModeOK' /\ ReadOK'
    BY <1>4, <2>1, <2>6 DEF AppGotMode, ModeOK, ReadOK, Cleared
  <2> QED
    BY <1>4, <2>1, <2>2, <2>3, <2>5, <2>7 DEF AppGotMode
<1>5. CASE AppSetupMode
  <2>1. /\ faults \in Nat /\ faults' \in Nat /\ faults' >= faults
        /\ faults' \in 0 .. MaxFaults
    BY <1>5, FaultsNat DEF AppSetupMode
  <2>2. NvsTypeOK' /\ PointsOK' /\ SetIsStaged'
    BY <1>5, <2>1, QuietKeeps DEF AppSetupMode
  <2>3. FramesOK'
    BY <1>5 DEF AppSetupMode, FramesOK
  <2>4. ModeOK' /\ ReadOK'
    BY <1>5 DEF AppSetupMode, ModeOK, ReadOK, StaleModeIsRestarted, Busy,
                Cleared
  <2>5. SaveOK'
    BY <1>5 DEF AppSetupMode, SaveOK, Cleared
  <2>6. FaultsOK'
    BY <1>5, <2>1 DEF AppSetupMode, FaultsOK, Alias, Lost, Cleared
  <2>7. TypeOK'
    BY <1>5, <2>2 DEF AppSetupMode
  <2> QED
    BY <2>2, <2>3, <2>4, <2>5, <2>6, <2>7
<1>6. CASE AppOtherMode
  <2>1. NvsTypeOK' /\ PointsOK' /\ SetIsStaged'
    BY <1>6, QuietKeeps DEF AppOtherMode, nvsVars, NvsTypeOK
  <2>2. FramesOK' /\ ModeOK' /\ ReadOK' /\ SaveOK'
    BY <1>6 DEF AppOtherMode, nvsVars, FramesOK, ModeOK, ReadOK,
                StaleModeIsRestarted, Busy, SaveOK, Cleared
  <2>3. FaultsOK'
    BY <1>6 DEF AppOtherMode, nvsVars, FaultsOK, Alias, Lost, Cleared
  <2> QED
    BY <1>6, <2>1, <2>2, <2>3 DEF AppOtherMode
<1> QED
  BY <1>1, <1>2, <1>3, <1>4, <1>5, <1>6

LEMMA BtnInv ==
    ASSUME IInv, Release \/ BtnReceive \/ BtnSaved \/ BtnSavedAgain
    PROVE  IInv'
<1> USE Names DEF IInv, TypeOK
<1>1. NoHandle # "gpio_task" /\ faults \in Nat
  BY NvsConstants DEF NvsTypeOK
<1>2. CASE Release
  <2>1. NvsTypeOK' /\ PointsOK' /\ SetIsStaged'
    BY <1>2, QuietKeeps DEF Release, nvsVars, NvsTypeOK
  <2>2. FramesOK' /\ ModeOK' /\ ReadOK' /\ SaveOK'
    BY <1>2 DEF Release, nvsVars, FramesOK, ModeOK, ReadOK,
                StaleModeIsRestarted, Busy, SaveOK, Cleared
  <2>3. FaultsOK'
    BY <1>2 DEF Release, nvsVars, FaultsOK, Alias, Lost, Cleared
  <2>4. queue' \in 0 .. QueueLength
    BY <1>2, GatewayConstants DEF Release
  <2> QED
    BY <1>2, <2>1, <2>2, <2>3, <2>4 DEF Release
<1>3. ASSUME BtnReceive \/ BtnSaved
      PROVE  /\ NvsTypeOK' /\ PointsOK' /\ SetIsStaged'
             /\ FramesOK' /\ SaveOK'
             /\ call'["main"] = call["main"]
             /\ call'["httpd"] = call["httpd"]
             /\ ~Lost'
  <2>1. /\ Enter("gpio_task", SaveU32, CONFIG, 0)
        /\ UNCHANGED <<flash, staged, part, pages, open, leaked, faults>>
        /\ btn' \in {"save", "save_again"}
        /\ UNCHANGED <<app, server>>
    BY <1>3 DEF BtnReceive, BtnSaved, SaveSetupMode
  <2>2. /\ NvsTypeOK' /\ PointsOK' /\ SetIsStaged'
        /\ \A u \in Task \ {"gpio_task"} : call'[u] = call[u]
        /\ call'["gpio_task"].fn = SaveU32
        /\ call'["gpio_task"].key = CONFIG
        /\ call'["gpio_task"].val = 0
        /\ call'["gpio_task"].at = "init"
    BY <2>1, EnterKeeps, Fns DEF Entry, NvsTypeOK
  <2>3. call'["main"] = call["main"] /\ call'["httpd"] = call["httpd"]
    BY <2>2
  <2> QED
    BY <2>1, <2>2, <2>3 DEF FramesOK, SaveOK, Lost
<1>4. CASE BtnReceive
  <2>1. ModeOK' /\ ReadOK'
    BY <1>3, <1>4 DEF BtnReceive, ModeOK, ReadOK, StaleModeIsRestarted, Busy,
                      Cleared
  <2>2. FaultsOK'
    BY <1>3, <1>4 DEF BtnReceive, FaultsOK, Alias, Cleared
  <2>3. queue' \in 0 .. QueueLength
    BY <1>4, GatewayConstants DEF BtnReceive
  <2> QED
    BY <1>3, <1>4, <2>1, <2>2, <2>3 DEF BtnReceive
<1>5. ASSUME Returned("gpio_task", SaveU32)
      PROVE  Cleared \/ Lost
  BY <1>5 DEF Returned, SaveOK, Lost, NvsTypeOK, Frame
<1>6. CASE BtnSaved
  <2>1. ModeOK' /\ ReadOK'
    BY <1>3, <1>6 DEF BtnSaved, ModeOK, ReadOK, StaleModeIsRestarted, Busy,
                      Cleared
  <2>2. Cleared \/ Lost
    BY <1>5, <1>6 DEF BtnSaved
  <2>3. FaultsOK'
    BY <1>3, <1>6, <2>2 DEF BtnSaved, FaultsOK, Alias, Cleared
  <2> QED
    BY <1>3, <1>6, <2>1, <2>3 DEF BtnSaved
<1>7. CASE BtnSavedAgain
  <2>1. /\ NvsTypeOK' /\ PointsOK' /\ SetIsStaged'
        /\ \A u \in Task \ {"gpio_task"} : call'[u] = call[u]
        /\ call'["gpio_task"].at = "idle"
    BY <1>7, LeaveKeeps DEF BtnSavedAgain, Consume
  <2>2. call'["main"] = call["main"] /\ call'["httpd"] = call["httpd"]
    BY <2>1
  <2>3. FramesOK' /\ ModeOK' /\ ReadOK' /\ SaveOK'
    BY <1>7, <2>1, <2>2
       DEF BtnSavedAgain, FramesOK, ModeOK, ReadOK, StaleModeIsRestarted,
           Busy, SaveOK, Cleared
  <2>4. Cleared \/ Lost
    BY <1>5, <1>7 DEF BtnSavedAgain, Consume
  <2>5. FaultsOK'
    BY <1>7, <2>2, <2>4 DEF BtnSavedAgain, FaultsOK, Alias, Cleared
  <2> QED
    BY <1>7, <2>1, <2>3, <2>5 DEF BtnSavedAgain
<1> QED
  BY <1>2, <1>4, <1>6, <1>7

LEMMA HttpInv ==
    ASSUME IInv,
           \/ StationJoins \/ HttpReinit \/ HttpReinitDone \/ HttpClose
           \/ HttpCloseSaved \/ HttpCloseRead
    PROVE  IInv'
<1> USE Names DEF IInv, TypeOK
<1>1. NoHandle # "gpio_task" /\ faults \in Nat
  BY NvsConstants DEF NvsTypeOK
<1>2. CASE StationJoins
  <2>1. /\ faults \in Nat /\ faults' \in Nat /\ faults' >= faults
        /\ faults' \in 0 .. MaxFaults
    BY <1>2, FaultsNat DEF StationJoins
  <2>2. NvsTypeOK' /\ PointsOK' /\ SetIsStaged'
    BY <1>2, <2>1, QuietKeeps DEF StationJoins
  <2>3. FramesOK' /\ ModeOK' /\ ReadOK' /\ SaveOK'
    BY <1>2 DEF StationJoins, FramesOK, ModeOK, ReadOK, StaleModeIsRestarted,
                Busy, SaveOK, Cleared
  <2>4. FaultsOK'
    BY <1>2, <2>1 DEF StationJoins, FaultsOK, Alias, Lost, Cleared
  <2>5. TypeOK'
    BY <1>2, <2>2 DEF StationJoins
  <2> QED
    BY <2>2, <2>3, <2>4, <2>5
<1>3. ASSUME /\ UNCHANGED <<flash, staged, part, pages, open, leaked, faults>>
             /\ UNCHANGED <<app, saved_data, queue, isr, btn, wifi, server,
                            panic>>
             /\ NvsTypeOK' /\ PointsOK' /\ SetIsStaged'
             /\ \A u \in Task \ {"httpd"} : call'[u] = call[u]
             /\ call'["httpd"].handle = NoHandle
             /\ call'["httpd"].at # "idle" =>
                    server /\ call'["httpd"].key \in {MODE, CONS}
      PROVE  /\ FramesOK' /\ ModeOK' /\ ReadOK' /\ SaveOK' /\ FaultsOK'
             /\ PointsOK' /\ SetIsStaged'
  <2>1. /\ call'["main"] = call["main"]
        /\ call'["gpio_task"] = call["gpio_task"]
    BY <1>3
  <2>2. FramesOK' /\ ModeOK' /\ ReadOK' /\ SaveOK'
    BY <1>3, <2>1 DEF FramesOK, ModeOK, ReadOK, StaleModeIsRestarted, Busy,
                      SaveOK, Cleared
  <2>3. ~Alias' /\ (Lost' <=> Lost) /\ (Cleared' <=> Cleared)
    BY <1>1, <1>3, <2>1 DEF Alias, Lost, Cleared
  <2>4. FaultsOK'
    BY <1>3, <2>3 DEF FaultsOK
  <2> QED
    BY <1>3, <2>2, <2>4
<1>4. ASSUME NEW fn \in Functions, NEW k \in {MODE, CONS}, NEW v \in Entry,
             Enter("httpd", fn, k, v), server,
             UNCHANGED <<flash, staged, part, pages, open, leaked, faults>>
      PROVE  /\ NvsTypeOK' /\ PointsOK' /\ SetIsStaged'
             /\ \A u \in Task \ {"httpd"} : call'[u] = call[u]
             /\ call'["httpd"].handle = NoHandle
             /\ call'["httpd"].key = k
  <2>1. k \in Key /\ faults' \in 0 .. MaxFaults
    BY <1>4 DEF NvsTypeOK
  <2> QED
    BY <1>4, <2>1, EnterKeeps
<1>5. CASE HttpReinit
  <2>1. /\ NvsTypeOK' /\ PointsOK' /\ SetIsStaged'
        /\ \A u \in Task \ {"httpd"} : call'[u] = call[u]
        /\ call'["httpd"].handle = NoHandle
        /\ call'["httpd"].key = CONS
    BY <1>4, <1>5, Fns DEF HttpReinit, Entry
  <2> QED
    BY <1>3, <1>5, <2>1 DEF HttpReinit
<1>6. CASE HttpClose
  <2>1. /\ NvsTypeOK' /\ PointsOK' /\ SetIsStaged'
        /\ \A u \in Task \ {"httpd"} : call'[u] = call[u]
        /\ call'["httpd"].handle = NoHandle
        /\ call'["httpd"].key = MODE
    BY <1>4, <1>6, Fns DEF HttpClose, Entry
  <2> QED
    BY <1>3, <1>6, <2>1 DEF HttpClose
<1>7. CASE HttpCloseSaved
  <2>1. server
    BY <1>7 DEF HttpCloseSaved, Returned, FramesOK
  <2>2. /\ NvsTypeOK' /\ PointsOK' /\ SetIsStaged'
        /\ \A u \in Task \ {"httpd"} : call'[u] = call[u]
        /\ call'["httpd"].handle = NoHandle
        /\ call'["httpd"].key = MODE
    BY <1>4, <1>7, <2>1, Fns DEF HttpCloseSaved, Entry
  <2> QED
    BY <1>3, <1>7, <2>1, <2>2 DEF HttpCloseSaved
<1>8. CASE HttpReinitDone
  <2>1. /\ NvsTypeOK' /\ PointsOK' /\ SetIsStaged'
        /\ \A u \in Task \ {"httpd"} : call'[u] = call[u]
        /\ call'["httpd"].at = "idle" /\ call'["httpd"].handle = NoHandle
    BY <1>8, LeaveKeeps DEF HttpReinitDone, Consume
  <2> QED
    BY <1>3, <1>8, <2>1 DEF HttpReinitDone
<1>9. CASE HttpCloseRead
  <2>1. /\ NvsTypeOK' /\ PointsOK' /\ SetIsStaged'
        /\ \A u \in Task \ {"httpd"} : call'[u] = call[u]
        /\ call'["httpd"].at = "idle" /\ call'["httpd"].handle = NoHandle
    BY <1>9, LeaveKeeps DEF HttpCloseRead, Consume
  <2> QED
    BY <1>3, <1>9, <2>1 DEF HttpCloseRead
<1> QED
  BY <1>2, <1>5, <1>6, <1>7, <1>8, <1>9

LEMMA NextInv == IInv /\ [Next]_vars => IInv'
<1>1. ASSUME IInv, Next PROVE IInv'
  <2>1. CASE MainStep
    BY <1>1, <2>1, Names, CallInv, AppInv DEF MainStep
  <2>2. CASE GpioStep
    BY <1>1, <2>2, Names, CallInv, BtnInv, RebootInv DEF GpioStep, BtnRestart
  <2>3. CASE HttpStep
    BY <1>1, <2>3, Names, CallInv, HttpInv, RebootInv DEF HttpStep, HttpRestart
  <2>4. CASE HttpRequest \/ StationJoins
    BY <1>1, <2>4, HttpInv DEF HttpRequest
  <2>5. CASE Release
    BY <1>1, <2>5, BtnInv
  <2>6. CASE PanicReboot \/ PowerCut
    BY <1>1, <2>6, RebootInv DEF PanicReboot, PowerCut
  <2> QED
    BY <1>1, <2>1, <2>2, <2>3, <2>4, <2>5, <2>6 DEF Next
<1>2. ASSUME IInv, UNCHANGED vars PROVE IInv'
  BY <1>2 DEF IInv, vars, nvsVars, appVars, TypeOK, NvsTypeOK, PointsOK,
       SetIsStaged, FramesOK, ModeOK, ReadOK, StaleModeIsRestarted, Busy,
       SaveOK, FaultsOK, Alias, Lost, Cleared
<1> QED
  BY <1>1, <1>2

(***************************************************************************)
(* The variables of the three tasks and of the NVS calls keep their types. *)
(***************************************************************************)
THEOREM TypeCorrect == Spec => []TypeOK
<1>1. IInv => TypeOK
  BY DEF IInv
<1> QED
  BY InitInv, NextInv, <1>1, PTL DEF Spec

(***************************************************************************)
(* A mode other than set-up that app_main acts on is the one in the flash, *)
(* or the button's restart is on its way (main.c:28, Setup_mode_button.h:  *)
(* 30-37).                                                                 *)
(***************************************************************************)
THEOREM StaleModeRestarted == Spec => []StaleModeIsRestarted
<1>1. IInv => StaleModeIsRestarted
  BY DEF IInv, ReadOK
<1> QED
  BY InitInv, NextInv, <1>1, PTL DEF Spec

(***************************************************************************)
(* At gpio_task's esp_restart the flash holds no mode other than set-up    *)
(* unless two calls of the NVS library have failed (Setup_mode_button.h:   *)
(* 32-37).                                                                 *)
(***************************************************************************)
THEOREM PressSurvivesOneFault == Spec => []OneFaultKeepsThePress
<1>1. IInv => OneFaultKeepsThePress
  BY NvsConstants
     DEF IInv, TypeOK, NvsTypeOK, FaultsOK, OneFaultKeepsThePress, Cleared
<1> QED
  BY InitInv, NextInv, <1>1, PTL DEF Spec

(***************************************************************************)
(* No step of any task writes a non-zero mode once the flash holds none:   *)
(* set-up mode is never left (config_mode.h:153 against main.c:28).        *)
(***************************************************************************)
THEOREM SetupModeAbsorbing == Spec => SetupModeIsAbsorbing
<1> DEFINE A == flash[CONFIG] \in {0, NoEntry}
                  => flash'[CONFIG] \in {0, NoEntry}
<1>1. ASSUME IInv, Next PROVE A
  <2>1. CASE flash' = flash
    BY <2>1
  <2>2. CASE \E t \in Task : NvsStep(t)
    BY <1>1, <2>2, ClearedStep DEF IInv, TypeOK, Cleared
  <2>3. flash' = flash \/ \E t \in Task : NvsStep(t)
    BY <1>1, Names
       DEF Next, MainStep, GpioStep, HttpStep, HttpRequest, NvsCall, Reboot,
           NvsReset, PanicReboot, PowerCut, BtnRestart, HttpRestart, nvsVars,
           AppInitDone, AppWifiInit, AppGpioInit, AppGotMode, AppSetupMode,
           AppOtherMode, Release, BtnReceive, BtnSaved, BtnSavedAgain,
           StationJoins, HttpReinit, HttpReinitDone, HttpClose,
           HttpCloseSaved, HttpCloseRead
  <2> QED
    BY <2>1, <2>2, <2>3
<1>2. IInv /\ [Next]_vars => [A]_vars
  BY <1>1
<1>3. Spec => [][A]_vars
  BY InitInv, NextInv, <1>2, PTL DEF Spec
<1> QED
  BY <1>3 DEF SetupModeIsAbsorbing

-----------------------------------------------------------------------------
(* The gateway's calls are calls of the store.                             *)

\* The HTTP server's task is in a function only where its code waits for one.
HttpWaits ==
    http \notin {"reinit", "close_save", "close_read"} =>
        call["httpd"].at = "idle"

StoreInv == OpenNeedsReady /\ HttpWaits

LEMMA StoreInit == Init => StoreInv
<1>1. SUFFICES ASSUME Init PROVE StoreInv
  OBVIOUS
<1>2. call["httpd"] = IdleFrame
  BY <1>1, Names DEF Init, BootFrames
<1> QED
  BY <1>1, <1>2, IdleFrameType
     DEF Init, NvsInit, StoreInv, OpenNeedsReady, HttpWaits

LEMMA StoreReboot ==
    ASSUME Reboot
    PROVE  StoreInv' /\ Store!Reset
<1>1. /\ call' = BootFrames /\ open' = {} /\ http' = "idle"
      /\ flash' = flash /\ staged' = flash
  BY DEF Reboot, NvsReset
<1>2. call'["httpd"] = IdleFrame
  BY <1>1, Names DEF BootFrames
<1>3. StoreInv'
  BY <1>1, <1>2, IdleFrameType DEF StoreInv, OpenNeedsReady, HttpWaits
<1>4. [t \in Task |-> Job(call'[t])] = [t \in Task |-> Job(BootFrames[t])]
  BY <1>1
<1>5. (part' = "ready" \/ pages' = "good") \in BOOLEAN
  OBVIOUS
<1> QED
  BY <1>1, <1>3, <1>4, <1>5 DEF Store!Reset

\* A task calls the next function, or takes its result, or does neither.
LEMMA StoreEnter ==
    ASSUME IInv, Store!Running, NEW t \in Task, NEW fn \in Functions,
           NEW k \in Key, NEW v \in Entry, <<t, fn, k>> \in GatewayCalls,
           v \in Value <=> fn \in Savers, call[t].at \in {"idle", "returned"},
           Enter(t, fn, k, v), UNCHANGED <<flash, staged, part, pages>>
    PROVE  Store!Next /\ \A u \in Task \ {t} : call'[u] = call[u]
<1>1. Jobs' = [Jobs EXCEPT ![t] = [fn |-> fn, key |-> k, val |-> v,
                                   phase |-> "starting"]]
  BY EnterJob DEF IInv, TypeOK, NvsTypeOK
<1>2. Jobs[t].phase \in {"idle", "ok", "fail"}
  BY JobPhase DEF IInv, TypeOK, NvsTypeOK
<1>3. fn \in Store!Savers \cup Store!Getters \cup {InitNvs}
  BY DEF Functions, Savers, Getters, Store!Savers, Store!Getters
<1>4. Store!Start(t)
  BY <1>1, <1>2, <1>3
     DEF Store!Start, Store!In, Store!Savers, Savers, Entry, Jobs
<1>5. \A u \in Task \ {t} : call'[u] = call[u]
  BY DEF IInv, TypeOK, NvsTypeOK, Enter
<1> QED
  BY <1>4, <1>5 DEF Store!Next

LEMMA StoreLeave ==
    ASSUME IInv, Store!Running, NEW t \in Task, NEW fn, Consume(t, fn),
           UNCHANGED <<flash, staged, part, pages>>
    PROVE  /\ Store!Next
           /\ call'[t].at = "idle" /\ \A u \in Task \ {t} : call'[u] = call[u]
<1>1. Jobs' = [Jobs EXCEPT ![t] = [phase |-> "idle"]]
  BY LeaveJob DEF IInv, TypeOK, NvsTypeOK, Consume
<1>2. Jobs[t].phase \in {"ok", "fail"}
  BY JobPhase DEF IInv, TypeOK, NvsTypeOK, Consume, Returned
<1>3. Store!Finish(t)
  BY <1>1, <1>2 DEF Store!Finish, Store!In, Store!Idle, Jobs
<1>4. /\ call'[t].at = "idle"
      /\ \A u \in Task \ {t} : call'[u] = call[u]
  BY IdleFrameType DEF IInv, TypeOK, NvsTypeOK, Consume
<1> QED
  BY <1>3, <1>4 DEF Store!Next

LEMMA StoreQuiet ==
    ASSUME StoreInv, UNCHANGED <<flash, staged, part, pages, open, call, http>>
    PROVE  StoreInv' /\ UNCHANGED Store!vars
BY DEF StoreInv, OpenNeedsReady, HttpWaits, Store!vars

\* The steps of a call do not depend on the calls that may be made.
LEMMA WorkIsWork ==
    ASSUME NEW t \in Task, Calling!Work(t)
    PROVE  Store!Work(t)
BY DEF Calling!Work, Calling!Condemn, Calling!Erase, Calling!Proceed,
       Calling!Write, Calling!SkipWrite, Calling!InitDone, Calling!Saved,
       Calling!Read, Calling!Fail, Calling!Abort, Calling!In, Calling!Moves,
       Calling!Savers, Calling!Getters, Calling!Empty, Calling!Default,
       Store!Work, Store!Condemn, Store!Erase, Store!Proceed,
       Store!Write, Store!SkipWrite, Store!InitDone, Store!Saved,
       Store!Read, Store!Fail, Store!Abort, Store!In, Store!Moves,
       Store!Savers, Store!Getters, Store!Empty, Store!Default

LEMMA StoreCall ==
    ASSUME IInv, StoreInv, Store!Running, NEW t \in Task, NvsCall(t)
    PROVE  StoreInv' /\ [Store!Next]_Store!vars
<1>1. NvsStep(t) /\ UNCHANGED http
  BY DEF NvsCall, appVars
<1>2. OpenNeedsReady'
  BY <1>1, NvsStepReady DEF IInv, TypeOK, StoreInv
<1>3. /\ \A u \in Task \ {t} : call'[u] = call[u]
      /\ call[t].at # "idle"
  BY <1>1, NvsStepFrame DEF IInv, TypeOK
<1>4. HttpWaits'
  BY <1>1, <1>3, Names DEF StoreInv, HttpWaits
<1>5. \/ Calling!Work(t)
      \/ UNCHANGED <<flash, staged, part = "ready" \/ pages = "good", Jobs>>
  BY <1>1, NvsStepWork DEF IInv, TypeOK, StoreInv
<1>6. CASE Calling!Work(t)
  BY <1>2, <1>4, <1>6, WorkIsWork DEF StoreInv, Store!Next
<1>7. CASE UNCHANGED <<flash, staged, part = "ready" \/ pages = "good", Jobs>>
  BY <1>2, <1>4, <1>7 DEF StoreInv, Store!vars, Jobs
<1> QED
  BY <1>5, <1>6, <1>7

LEMMA StoreApp ==
    ASSUME IInv, StoreInv, Store!Running,
           \/ AppInitDone \/ AppWifiInit \/ AppGpioInit \/ AppGotMode
           \/ AppSetupMode \/ AppOtherMode
    PROVE  StoreInv' /\ [Store!Next]_Store!vars
<1>1. CASE AppInitDone \/ AppGotMode
  <2>1. PICK fn : Consume("main", fn)
    BY <1>1 DEF AppInitDone, AppGotMode
  <2>2. UNCHANGED <<flash, staged, part, pages, open, http>>
    BY <1>1 DEF AppInitDone, AppGotMode
  <2>3. Store!Next /\ \A u \in Task \ {"main"} : call'[u] = call[u]
    BY <2>1, <2>2, StoreLeave, Names
  <2> QED
    BY <2>2, <2>3, Names DEF StoreInv, OpenNeedsReady, HttpWaits
<1>2. CASE AppGpioInit
  <2>1. /\ Enter("main", GetU32, CONFIG, NoEntry)
        /\ UNCHANGED <<flash, staged, part, pages, open, http>>
        /\ app = "gpio_init"
    BY <1>2 DEF AppGpioInit
  <2>2. call["main"].at = "idle"
    BY <2>1 DEF IInv, FramesOK
  <2>3. Store!Next /\ \A u \in Task \ {"main"} : call'[u] = call[u]
    BY <2>1, <2>2, StoreEnter, Names, Fns DEF GatewayCalls, Entry
  <2> QED
    BY <2>1, <2>3, Names DEF StoreInv, OpenNeedsReady, HttpWaits
<1>3. CASE AppWifiInit \/ AppSetupMode \/ AppOtherMode
  BY <1>3, StoreQuiet DEF AppWifiInit, AppSetupMode, AppOtherMode, nvsVars
<1> QED
  BY <1>1, <1>2, <1>3

LEMMA StoreBtn ==
    ASSUME IInv, StoreInv, Store!Running,
           Release \/ BtnReceive \/ BtnSaved \/ BtnSavedAgain
    PROVE  StoreInv' /\ [Store!Next]_Store!vars
<1>1. CASE Release
  BY <1>1, StoreQuiet DEF Release, nvsVars
<1>2. CASE BtnReceive \/ BtnSaved
  <2>1. /\ Enter("gpio_task", SaveU32, CONFIG, 0)
        /\ UNCHANGED <<flash, staged, part, pages, open, http>>
    BY <1>2 DEF BtnReceive, BtnSaved, SaveSetupMode
  <2>2. call["gpio_task"].at \in {"idle", "returned"}
    BY <1>2 DEF BtnReceive, BtnSaved, Returned, IInv, FramesOK
  <2>3. Store!Next /\ \A u \in Task \ {"gpio_task"} : call'[u] = call[u]
    BY <2>1, <2>2, StoreEnter, Names, Fns DEF GatewayCalls, Entry
  <2> QED
    BY <2>1, <2>3, Names DEF StoreInv, OpenNeedsReady, HttpWaits
<1>3. CASE BtnSavedAgain
  <2>1. /\ Consume("gpio_task", SaveU32)
        /\ UNCHANGED <<flash, staged, part, pages, open, http>>
    BY <1>3 DEF BtnSavedAgain
  <2>2. Store!Next /\ \A u \in Task \ {"gpio_task"} : call'[u] = call[u]
    BY <2>1, StoreLeave, Names
  <2> QED
    BY <2>1, <2>2, Names DEF StoreInv, OpenNeedsReady, HttpWaits
<1> QED
  BY <1>1, <1>2, <1>3

LEMMA StoreHttp ==
    ASSUME IInv, StoreInv, Store!Running,
           \/ StationJoins \/ HttpReinit \/ HttpReinitDone \/ HttpClose
           \/ HttpCloseSaved \/ HttpCloseRead
    PROVE  StoreInv' /\ [Store!Next]_Store!vars
<1>1. CASE StationJoins
  BY <1>1, StoreQuiet DEF StationJoins
<1>2. CASE HttpReinit \/ HttpClose \/ HttpCloseSaved
  <2>1. /\ \/ Enter("httpd", SaveU32, CONS, 0)
           \/ Enter("httpd", SaveStr, MODE, 1)
           \/ Enter("httpd", GetStr, MODE, NoEntry)
        /\ UNCHANGED <<flash, staged, part, pages, open>>
        /\ http' \in {"reinit", "close_save", "close_read"}
    BY <1>2 DEF HttpReinit, HttpClose, HttpCloseSaved
  <2>2. call["httpd"].at \in {"idle", "returned"}
    BY <1>2
       DEF HttpReinit, HttpClose, HttpCloseSaved, Returned, StoreInv,
           HttpWaits
  <2>3. ASSUME NEW fn \in Functions, NEW k \in Key, NEW v \in Entry,
               <<"httpd", fn, k>> \in GatewayCalls,
               v \in Value <=> fn \in Savers, Enter("httpd", fn, k, v)
        PROVE  Store!Next
    BY <2>1, <2>2, <2>3, StoreEnter, Names
  <2>4. /\ <<"httpd", SaveU32, CONS>> \in GatewayCalls
        /\ <<"httpd", SaveStr, MODE>> \in GatewayCalls
        /\ <<"httpd", GetStr, MODE>> \in GatewayCalls
    BY DEF GatewayCalls
  <2>5. Store!Next
    <3>1. 0 \in Entry /\ 1 \in Entry /\ NoEntry \in Entry
      BY Names DEF Entry
    <3>2. CASE Enter("httpd", SaveU32, CONS, 0)
      BY <2>3, <2>4, <3>1, <3>2, Names, Fns
    <3>3. CASE Enter("httpd", SaveStr, MODE, 1)
      <4>1. SaveStr \in Savers
        BY DEF Savers
      <4> QED
        BY <2>3, <2>4, <3>1, <3>3, <4>1, Names, Fns
    <3>4. CASE Enter("httpd", GetStr, MODE, NoEntry)
      BY <2>3, <2>4, <3>1, <3>4, Names, Fns
    <3> QED
      BY <2>1, <3>2, <3>3, <3>4
  <2> QED
    BY <2>1, <2>5 DEF StoreInv, OpenNeedsReady, HttpWaits
<1>3. CASE HttpReinitDone \/ HttpCloseRead
  <2>1. PICK fn : Consume("httpd", fn)
    BY <1>3 DEF HttpReinitDone, HttpCloseRead
  <2>2. UNCHANGED <<flash, staged, part, pages, open>>
    BY <1>3 DEF HttpReinitDone, HttpCloseRead
  <2>3. Store!Next /\ call'["httpd"].at = "idle"
    BY <2>1, <2>2, StoreLeave, Names
  <2> QED
    BY <2>2, <2>3 DEF StoreInv, OpenNeedsReady, HttpWaits
<1> QED
  BY <1>1, <1>2, <1>3

LEMMA StoreInitial == Init => Store!Init
<1>1. SUFFICES ASSUME Init PROVE Store!Init
  OBVIOUS
<1>2. [t \in Task |-> Job(call[t])] = [t \in Task |-> Job(BootFrames[t])]
  BY <1>1 DEF Init
<1>3. (part = "ready" \/ pages = "good") \in BOOLEAN
  OBVIOUS
<1> QED
  BY <1>1, <1>2, <1>3 DEF Init, NvsInit, Store!Init, Entry

LEMMA StoreNext ==
    IInv /\ StoreInv /\ [Next]_vars
        => StoreInv' /\ [Store!Next]_Store!vars
<1>1. ASSUME UNCHANGED vars, StoreInv
      PROVE  StoreInv' /\ UNCHANGED Store!vars
  BY <1>1, StoreQuiet DEF vars, nvsVars, appVars
<1>2. ASSUME IInv, StoreInv, Next
      PROVE  StoreInv' /\ [Store!Next]_Store!vars
  <2>1. CASE Reboot
    BY <2>1, StoreReboot DEF Store!Next
  <2>2. CASE Running /\ ~Reboot
    <3>1. \A u \in Task : ~Aborted(u)
      BY <2>2 DEF Running, Panicking
    <3>2. Store!Running
      BY <1>2, <3>1, JobPhase
         DEF Store!Running, Store!In, Jobs, IInv, TypeOK, NvsTypeOK
    <3>3. CASE MainStep
      BY <1>2, <3>2, <3>3, StoreCall, StoreApp, Names DEF MainStep
    <3>4. CASE GpioStep
      BY <1>2, <2>2, <3>2, <3>4, StoreCall, StoreBtn, Names
         DEF GpioStep, BtnRestart
    <3>5. CASE HttpStep
      BY <1>2, <2>2, <3>2, <3>5, StoreCall, StoreHttp, Names
         DEF HttpStep, HttpRestart
    <3>6. CASE HttpRequest \/ StationJoins
      BY <1>2, <3>2, <3>6, StoreHttp DEF HttpRequest
    <3>7. CASE Release
      BY <1>2, <3>2, <3>7, StoreBtn
    <3> QED
      BY <1>2, <2>2, <3>3, <3>4, <3>5, <3>6, <3>7
         DEF Next, PanicReboot, PowerCut
  <2> QED
    BY <1>2, <2>1, <2>2 DEF Next, PanicReboot, PowerCut
<1> QED
  BY <1>1, <1>2

(***************************************************************************)
(* The gateway's three tasks use NVS as the store that nvs_manager.h       *)
(* promises: every library call, failure and reset of the device is a step *)
(* of it, and each key is saved by one task.                               *)
(***************************************************************************)
THEOREM StoreCorrect == Spec => IsStore
<1>1. IInv /\ StoreInv /\ [Next]_vars
        => StoreInv' /\ [Store!Next]_Store!vars
  BY StoreNext
<1> QED
  BY InitInv, NextInv, StoreInit, StoreInitial, <1>1, PTL
     DEF Spec, IsStore, Store!Spec

-----------------------------------------------------------------------------
(* Handles.                                                                *)

\* get_saved_data_from_flash is called by the "close" command only.
OnlyCloseReads ==
    call["httpd"].at # "idle" /\ call["httpd"].fn = GetStr
        => http = "close_read"

LeakInv == LeakEndsInRestart /\ OnlyCloseReads

LEMMA CallLeak ==
    ASSUME IInv, LeakInv, NEW t \in Task, NvsCall(t)
    PROVE  LeakInv'
<1>1. NvsStep(t) /\ UNCHANGED http
  BY DEF NvsCall, appVars
<1>2. /\ \A u \in Task \ {t} : call'[u] = call[u]
      /\ call'[t].fn = call[t].fn /\ call[t].at # "idle"
  BY <1>1, NvsStepFrame DEF IInv, TypeOK
<1>3. /\ open' \subseteq open \cup {t}
      /\ leaked => leaked'
      /\ leaked' => leaked \/ call[t].fn = GetStr
      /\ t \in open' => \/ Accessing(t)'
                        \/ t \in open /\ ~Accessing(t)
                        \/ leaked' /\ call[t].fn = GetStr
  BY <1>1, NvsStepAccess DEF IInv, TypeOK
<1>4. call[t].fn = GetStr => t = "httpd" /\ http = "close_read"
  <2>1. GetStr # InitNvs /\ GetStr # GetU32 /\ GetStr # SaveU32
    BY DEF GetStr, InitNvs, GetU32, SaveU32
  <2> QED
    BY <1>2, <2>1, GatewayConstants DEF IInv, FramesOK, LeakInv, OnlyCloseReads
<1>5. leaked' => http' \in {"close_read", "delay"}
  BY <1>1, <1>3, <1>4 DEF LeakInv, LeakEndsInRestart
<1>6. ASSUME NEW u \in open', ~Accessing(u)'
      PROVE  leaked' /\ u = "httpd"
  <2>1. CASE u \in open /\ ~Accessing(u)
    BY <1>3, <2>1 DEF LeakInv, LeakEndsInRestart
  <2>2. CASE ~(u \in open /\ ~Accessing(u))
    <3>1. u = t
      BY <1>2, <1>3, <1>6, <2>2 DEF IInv, TypeOK, NvsTypeOK, Accessing
    <3> QED
      BY <1>3, <1>4, <1>6, <2>2, <3>1
  <2> QED
    BY <2>1, <2>2
<1>7. OnlyCloseReads'
  BY <1>1, <1>2, Names DEF LeakInv, OnlyCloseReads
<1> QED
  BY <1>5, <1>6, <1>7 DEF LeakInv, LeakEndsInRestart

\* A step that calls, or takes the result of, or does neither.
LEMMA OtherLeak ==
    ASSUME LeakInv, open \in SUBSET Task, NEW t \in Task,
           UNCHANGED <<open, leaked>>,
           \A u \in Task \ {t} : call'[u] = call[u],
           call'[t] = call[t] \/ ~Accessing(t),
           leaked => http' \in {"close_read", "delay"},
           OnlyCloseReads'
    PROVE  LeakInv'
BY DEF LeakInv, LeakEndsInRestart, Accessing

LEMMA AppLeak ==
    ASSUME IInv, LeakInv,
           \/ AppInitDone \/ AppWifiInit \/ AppGpioInit \/ AppGotMode
           \/ AppSetupMode \/ AppOtherMode
    PROVE  LeakInv'
<1> USE Names DEF IInv, TypeOK, NvsTypeOK
<1>1. UNCHANGED <<open, leaked, http>>
  BY DEF AppInitDone, AppWifiInit, AppGpioInit, AppGotMode, AppSetupMode,
         AppOtherMode, nvsVars
<1>2. \A u \in Task \ {"main"} : call'[u] = call[u]
  BY DEF AppInitDone, AppWifiInit, AppGpioInit, AppGotMode, AppSetupMode,
         AppOtherMode, nvsVars, Consume, Enter
<1>3. call'["main"] = call["main"] \/ ~Accessing("main")
  BY DEF AppInitDone, AppWifiInit, AppGpioInit, AppGotMode, AppSetupMode,
         AppOtherMode, nvsVars, Consume, Returned, FramesOK, Accessing
<1>4. OnlyCloseReads'
  BY <1>1, <1>2 DEF LeakInv, OnlyCloseReads
<1> QED
  BY <1>1, <1>2, <1>3, <1>4, OtherLeak DEF LeakInv, LeakEndsInRestart

LEMMA BtnLeak ==
    ASSUME IInv, LeakInv, Release \/ BtnReceive \/ BtnSaved \/ BtnSavedAgain
    PROVE  LeakInv'
<1> USE Names DEF IInv, TypeOK, NvsTypeOK
<1>1. UNCHANGED <<open, leaked, http>>
  BY DEF Release, BtnReceive, BtnSaved, BtnSavedAgain, nvsVars
<1>2. \A u \in Task \ {"gpio_task"} : call'[u] = call[u]
  BY DEF Release, BtnReceive, BtnSaved, BtnSavedAgain, nvsVars, Consume,
         SaveSetupMode, Enter
<1>3. call'["gpio_task"] = call["gpio_task"] \/ ~Accessing("gpio_task")
  BY DEF Release, BtnReceive, BtnSaved, BtnSavedAgain, nvsVars, Consume,
         Returned, FramesOK, Accessing
<1>4. OnlyCloseReads'
  BY <1>1, <1>2 DEF LeakInv, OnlyCloseReads
<1> QED
  BY <1>1, <1>2, <1>3, <1>4, OtherLeak DEF LeakInv, LeakEndsInRestart

LEMMA HttpLeak ==
    ASSUME IInv, HttpWaits, LeakInv,
           \/ StationJoins \/ HttpReinit \/ HttpReinitDone \/ HttpClose
           \/ HttpCloseSaved \/ HttpCloseRead
    PROVE  LeakInv'
<1> USE Names DEF IInv, TypeOK, NvsTypeOK
<1>1. UNCHANGED <<open, leaked>>
  BY DEF StationJoins, HttpReinit, HttpReinitDone, HttpClose, HttpCloseSaved,
         HttpCloseRead
<1>2. \A u \in Task \ {"httpd"} : call'[u] = call[u]
  BY DEF StationJoins, HttpReinit, HttpReinitDone, HttpClose, HttpCloseSaved,
         HttpCloseRead, Consume, Enter
<1>3. call'["httpd"] = call["httpd"] \/ ~Accessing("httpd")
  BY DEF StationJoins, HttpReinit, HttpReinitDone, HttpClose, HttpCloseSaved,
         HttpCloseRead, Consume, Returned, HttpWaits, Accessing
<1>4. leaked => http' \in {"close_read", "delay"}
  BY DEF StationJoins, HttpReinit, HttpReinitDone, HttpClose, HttpCloseSaved,
         HttpCloseRead, LeakInv, LeakEndsInRestart
<1>5. OnlyCloseReads'
  <2>1. CASE StationJoins
    BY <2>1 DEF StationJoins, LeakInv, OnlyCloseReads
  <2>2. CASE HttpReinit \/ HttpClose
    <3>1. \/ call'["httpd"] = NewFrame(SaveU32, CONS, 0)
          \/ call'["httpd"] = NewFrame(SaveStr, MODE, 1)
      BY <2>2 DEF HttpReinit, HttpClose, Enter
    <3>2. call'["httpd"].fn \in {SaveU32, SaveStr}
      BY <3>1 DEF NewFrame
    <3> QED
      BY <3>2 DEF OnlyCloseReads, GetStr, SaveU32, SaveStr
  <2>3. CASE HttpCloseSaved
    BY <2>3 DEF HttpCloseSaved, OnlyCloseReads
  <2>4. CASE HttpReinitDone \/ HttpCloseRead
    <3>1. call'["httpd"] = IdleFrame
      BY <2>4 DEF HttpReinitDone, HttpCloseRead, Consume
    <3> QED
      BY <3>1, IdleFrameType DEF OnlyCloseReads
  <2> QED
    BY <2>1, <2>2, <2>3, <2>4
<1> QED
  BY <1>1, <1>2, <1>3, <1>4, <1>5, OtherLeak

LEMMA RebootLeak ==
    ASSUME Reboot
    PROVE  LeakInv'
<1>1. call'["httpd"] = IdleFrame
  BY Names DEF Reboot, BootFrames
<1> QED
  BY <1>1, IdleFrameType
     DEF Reboot, NvsReset, LeakInv, LeakEndsInRestart, OnlyCloseReads

LEMMA InitLeak == Init => LeakInv
<1>1. SUFFICES ASSUME Init PROVE LeakInv
  OBVIOUS
<1>2. call["httpd"] = IdleFrame
  BY <1>1, Names DEF Init, BootFrames
<1> QED
  BY <1>1, <1>2, IdleFrameType
     DEF Init, NvsInit, LeakInv, LeakEndsInRestart, OnlyCloseReads

LEMMA NextLeak == IInv /\ StoreInv /\ LeakInv /\ [Next]_vars => LeakInv'
<1>1. ASSUME IInv, StoreInv, LeakInv, Next PROVE LeakInv'
  <2>1. CASE MainStep
    BY <1>1, <2>1, Names, CallLeak, AppLeak DEF MainStep
  <2>2. CASE GpioStep
    BY <1>1, <2>2, Names, CallLeak, BtnLeak, RebootLeak
       DEF GpioStep, BtnRestart
  <2>3. CASE HttpStep
    BY <1>1, <2>3, Names, CallLeak, HttpLeak, RebootLeak
       DEF HttpStep, HttpRestart, StoreInv
  <2>4. CASE HttpRequest \/ StationJoins
    BY <1>1, <2>4, HttpLeak DEF HttpRequest, StoreInv
  <2>5. CASE Release
    BY <1>1, <2>5, BtnLeak
  <2>6. CASE PanicReboot \/ PowerCut
    BY <2>6, RebootLeak DEF PanicReboot, PowerCut
  <2> QED
    BY <1>1, <2>1, <2>2, <2>3, <2>4, <2>5, <2>6 DEF Next
<1>2. ASSUME LeakInv, UNCHANGED vars PROVE LeakInv'
  BY <1>2 DEF vars, nvsVars, appVars, LeakInv, LeakEndsInRestart,
              OnlyCloseReads, Accessing
<1> QED
  BY <1>1, <1>2

(***************************************************************************)
(* A handle that get_saved_data_from_flash leaves open is the HTTP         *)
(* server's, and its task restarts the device next (nvs_manager.h:37-58,   *)
(* config_mode.h:151-158); every other open handle is in the hands of a    *)
(* call that will close it.                                                *)
(***************************************************************************)
THEOREM LeakEnds == Spec => []LeakEndsInRestart
<1>1. IInv /\ StoreInv /\ [Next]_vars => StoreInv'
  BY StoreNext
<1>2. LeakInv => LeakEndsInRestart
  BY DEF LeakInv
<1> QED
  BY InitInv, NextInv, StoreInit, <1>1, InitLeak, NextLeak, <1>2, PTL
     DEF Spec

=============================================================================
