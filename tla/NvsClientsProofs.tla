-------------------------- MODULE NvsClientsProofs --------------------------
(***************************************************************************)
(* The invariants of NvsClients and the theorems that a save reported as   *)
(* done is in the flash, that one function only leaves handles open, and   *)
(* that the functions are a store, for any tasks, keys, values and calls   *)
(* in which each key has one writer.                                       *)
(***************************************************************************)
EXTENDS NvsClients, NvsManagerProofs

\* A call in progress is one that may be made.
CallsOnly ==
    \A t \in Task : call[t].at # "idle" =>
        <<t, call[t].fn, call[t].key>> \in Calls

IInv == NvsTypeOK /\ PointsOK /\ SetIsStaged /\ OpenNeedsReady /\ CallsOnly

(* Two saves of one key would be two writers of it.                        *)
LEMMA CallsOnlyOneSaver ==
    ASSUME NvsTypeOK, CallsOnly
    PROVE  OneSaver
<1>1. SUFFICES ASSUME NEW t \in Task, NEW u \in Task, t # u,
                      Saving(t), Saving(u), call[t].key = call[u].key
               PROVE  FALSE
  BY DEF OneSaver
<1>2. call[t].key \in Key
  BY DEF NvsTypeOK, Frame
<1>3. t \in Writers(call[t].key)
  BY <1>1 DEF CallsOnly, Saving, Writers
<1>4. u \in Writers(call[t].key)
  BY <1>1 DEF CallsOnly, Saving, Writers
<1> QED
  BY <1>1, <1>2, <1>3, <1>4, OneWriterPerKey

LEMMA IdleFramesInv ==
    ASSUME call = [t \in Task |-> IdleFrame]
    PROVE  /\ call \in [Task -> Frame]
           /\ PointsOK /\ SetIsStaged /\ CallsOnly
<1>1. call \in [Task -> Frame]
  BY IdleFrameType
<1>2. \A t \in Task : call[t].at = "idle"
  BY IdleFrameType
<1> QED
  BY <1>1, <1>2 DEF PointsOK, SetIsStaged, CallsOnly

LEMMA InitInv == Init => IInv
<1>1. SUFFICES ASSUME Init PROVE IInv
  OBVIOUS
<1>2. call = [t \in Task |-> IdleFrame]
  BY <1>1 DEF Init
<1>3. faults \in 0 .. MaxFaults
  BY <1>1, NvsConstants DEF Init, NvsInit
<1>4. call \in [Task -> Frame] /\ PointsOK /\ SetIsStaged /\ CallsOnly
  BY <1>2, IdleFramesInv
<1>5. NvsTypeOK
  BY <1>1, <1>3, <1>4 DEF Init, NvsInit, NvsTypeOK
<1>6. OpenNeedsReady
  BY <1>1 DEF Init, NvsInit, OpenNeedsReady
<1> QED
  BY <1>4, <1>5, <1>6 DEF IInv

LEMMA ResetInv ==
    ASSUME IInv, Reset
    PROVE  IInv'
<1>1. call' = [t \in Task |-> IdleFrame]
  BY DEF Reset
<1>2. call' \in [Task -> Frame]
  BY <1>1, IdleFrameType
<1>3. \A t \in Task : call'[t].at = "idle"
  BY <1>1, IdleFrameType
<1>4. NvsTypeOK'
  BY <1>2 DEF Reset, NvsReset, IInv, NvsTypeOK
<1>5. OpenNeedsReady'
  BY DEF Reset, NvsReset, OpenNeedsReady
<1> QED
  BY <1>3, <1>4, <1>5 DEF IInv, PointsOK, SetIsStaged, CallsOnly

LEMMA BeginInv ==
    ASSUME IInv, NEW t \in Task, Begin(t)
    PROVE  IInv'
<1>1. PICK fn \in Functions, k \in Key, v \in Entry :
        <<t, fn, k>> \in Calls /\ Enter(t, fn, k, v)
  BY DEF Begin, Entry
<1>2. /\ NvsTypeOK' /\ PointsOK' /\ SetIsStaged'
      /\ \A u \in Task \ {t} : call'[u] = call[u]
      /\ call'[t].fn = fn /\ call'[t].key = k
  BY <1>1, EnterKeeps DEF IInv, Begin, NvsTypeOK
<1>3. CallsOnly'
  BY <1>1, <1>2 DEF IInv, CallsOnly
<1>4. OpenNeedsReady'
  BY DEF IInv, Begin, OpenNeedsReady
<1> QED
  BY <1>2, <1>3, <1>4 DEF IInv

LEMMA FinishInv ==
    ASSUME IInv, NEW t \in Task, Finish(t)
    PROVE  IInv'
<1>1. /\ NvsTypeOK' /\ PointsOK' /\ SetIsStaged'
      /\ \A u \in Task \ {t} : call'[u] = call[u]
      /\ call'[t].at = "idle"
  BY LeaveKeeps DEF IInv, Finish
<1>2. CallsOnly'
  BY <1>1 DEF IInv, CallsOnly
<1>3. OpenNeedsReady'
  BY DEF IInv, Finish, OpenNeedsReady
<1> QED
  BY <1>1, <1>2, <1>3 DEF IInv

LEMMA CallInv ==
    ASSUME IInv, NEW t \in Task, NvsStep(t)
    PROVE  IInv'
<1>1. SaveInv
  BY CallsOnlyOneSaver DEF IInv, SaveInv
<1>2. SaveInv'
  BY <1>1, NvsStepSaveInv
<1>3. /\ \A u \in Task \ {t} : call'[u] = call[u]
      /\ call'[t].fn = call[t].fn
      /\ call'[t].key = call[t].key
      /\ call[t].at \notin {"idle", "returned"}
  BY <1>1, NvsStepFrame DEF SaveInv
<1>4. CallsOnly'
  BY <1>3 DEF IInv, CallsOnly
<1>5. OpenNeedsReady'
  BY NvsStepReady DEF IInv
<1> QED
  BY <1>2, <1>4, <1>5 DEF IInv, SaveInv

LEMMA NextInv == IInv /\ [Next]_nvsVars => IInv'
<1>1. ASSUME IInv, Next PROVE IInv'
  <2>1. CASE Reset
    BY <1>1, <2>1, ResetInv
  <2>2. CASE \E t \in Task : Step(t)
    BY <1>1, <2>2, BeginInv, CallInv, FinishInv DEF Step
  <2> QED
    BY <1>1, <2>1, <2>2 DEF Next
<1>2. ASSUME IInv, UNCHANGED nvsVars PROVE IInv'
  BY <1>2 DEF IInv, nvsVars, NvsTypeOK, PointsOK, SetIsStaged, CallsOnly,
              OpenNeedsReady
<1> QED
  BY <1>1, <1>2

(***************************************************************************)
(* The variables of nvs_manager.h's calls keep their types under every     *)
(* interleaving, failure and reset.                                        *)
(***************************************************************************)
THEOREM TypeCorrect == Spec => []TypeOK
<1>1. IInv => TypeOK
  BY DEF IInv, TypeOK
<1> QED
  BY InitInv, NextInv, <1>1, PTL DEF Spec

(***************************************************************************)
(* save_data_u32_in_flash returns ESP_OK only when the flash holds the     *)
(* value it was given (nvs_manager.h:139-179), whatever the other tasks do.*)
(***************************************************************************)
THEOREM SaveU32Durable == Spec => SaveU32OkIsDurable
<1> DEFINE A == \A t \in Task : ReturnsOk(t, SaveU32) =>
                    flash'[call[t].key] = call[t].val
<1>1. ASSUME IInv, Next PROVE A
  <2>1. SUFFICES ASSUME NEW t \in Task, ReturnsOk(t, SaveU32)
                 PROVE  flash'[call[t].key] = call[t].val
    OBVIOUS
  <2>2. call'[t].at = "returned" /\ call[t].at # "returned"
    BY <2>1 DEF ReturnsOk
  <2>3. IdleFrame.at = "idle"
    BY IdleFrameType
  <2>4. ~Reset
    BY <2>2, <2>3 DEF Reset
  <2>5. PICK u \in Task : Step(u)
    BY <1>1, <2>4 DEF Next
  <2>6. ~Begin(u)
    <3>1. SUFFICES ASSUME Begin(u) PROVE FALSE
      OBVIOUS
    <3>2. PICK fn, k, v : call' = [call EXCEPT ![u] = NewFrame(fn, k, v)]
      BY <3>1 DEF Begin, Enter
    <3>3. NewFrame(fn, k, v).at = "init"
      BY DEF NewFrame
    <3> QED
      BY <1>1, <2>2, <3>2, <3>3 DEF IInv, NvsTypeOK
  <2>7. ~Finish(u)
    BY <1>1, <2>2, <2>3 DEF Finish, IInv, NvsTypeOK
  <2>8. NvsStep(u)
    BY <2>5, <2>6, <2>7 DEF Step
  <2>9. SaveInv
    BY <1>1, CallsOnlyOneSaver DEF IInv, SaveInv
  <2>10. t = u
    BY <2>2, <2>8, <2>9, NvsStepFrame DEF SaveInv
  <2> QED
    BY <2>1, <2>8, <2>9, <2>10, NvsStepDurable DEF ReturnsOk
<1>2. IInv /\ [Next]_nvsVars => [A]_nvsVars
  BY <1>1
<1>3. Spec => [][A]_nvsVars
  BY InitInv, NextInv, <1>2, PTL DEF Spec
<1> QED
  BY <1>3 DEF SaveU32OkIsDurable

-----------------------------------------------------------------------------
(* Handles.                                                                *)

\* A step of a call.
LEMMA CallLeak ==
    ASSUME IInv, OnlyGetStrLeaks, NEW t \in Task, NvsStep(t)
    PROVE  OnlyGetStrLeaks'
<1>1. /\ open' \subseteq open \cup {t}
      /\ leaked => leaked'
      /\ t \in open' => \/ Accessing(t)'
                        \/ t \in open /\ ~Accessing(t)
                        \/ leaked' /\ call[t].fn = GetStr
  BY NvsStepAccess DEF IInv
<1>2. /\ \A u \in Task \ {t} : call'[u] = call[u]
      /\ call[t].at # "idle"
  BY NvsStepFrame DEF IInv
<1>3. SUFFICES ASSUME NEW u \in open', ~Accessing(u)'
               PROVE  leaked' /\ \E k \in Key : <<u, GetStr, k>> \in Calls
  BY DEF OnlyGetStrLeaks
<1>4. CASE u \in open /\ ~Accessing(u)
  BY <1>1, <1>4 DEF OnlyGetStrLeaks
<1>5. CASE ~(u \in open /\ ~Accessing(u))
  <2>1. u = t
    BY <1>1, <1>2, <1>3, <1>5 DEF IInv, NvsTypeOK, Accessing
  <2>2. leaked' /\ call[t].fn = GetStr
    BY <1>1, <1>3, <1>5, <2>1
  <2>3. <<t, GetStr, call[t].key>> \in Calls /\ call[t].key \in Key
    BY <1>2, <2>2 DEF IInv, CallsOnly, NvsTypeOK, Frame
  <2> QED
    BY <2>1, <2>2, <2>3
<1> QED
  BY <1>4, <1>5

\* Every other step leaves the handles alone, and the frame it changes, if
\* any, is not between nvs_open and nvs_close.
LEMMA OtherLeak ==
    ASSUME IInv, OnlyGetStrLeaks, NEW t \in Task, Begin(t) \/ Finish(t)
    PROVE  OnlyGetStrLeaks'
<1>1. \A u \in Task \ {t} : call'[u] = call[u]
  BY DEF Begin, Finish, Enter, IInv, NvsTypeOK
<1>2. UNCHANGED <<open, leaked>> /\ ~Accessing(t)
  BY DEF Begin, Finish, Accessing
<1> QED
  BY <1>1, <1>2 DEF OnlyGetStrLeaks, IInv, NvsTypeOK, Accessing

LEMMA NextLeak ==
    IInv /\ OnlyGetStrLeaks /\ [Next]_nvsVars => OnlyGetStrLeaks'
<1>1. ASSUME IInv, OnlyGetStrLeaks, Next PROVE OnlyGetStrLeaks'
  <2>1. CASE Reset
    BY <2>1 DEF Reset, NvsReset, OnlyGetStrLeaks
  <2>2. CASE \E t \in Task : Step(t)
    BY <1>1, <2>2, CallLeak, OtherLeak DEF Step
  <2> QED
    BY <1>1, <2>1, <2>2 DEF Next
<1>2. ASSUME OnlyGetStrLeaks, UNCHANGED nvsVars PROVE OnlyGetStrLeaks'
  BY <1>2 DEF nvsVars, OnlyGetStrLeaks, Accessing
<1> QED
  BY <1>1, <1>2

(***************************************************************************)
(* Every handle in the library is in the hands of a call that is past its  *)
(* nvs_open, or of a task that calls get_saved_data_from_flash after that  *)
(* function has left one open (nvs_manager.h:37-58), whatever fails and    *)
(* however the calls of other tasks fall between.                          *)
(***************************************************************************)
THEOREM LeaksCorrect == Spec => []OnlyGetStrLeaks
<1>1. Init => OnlyGetStrLeaks
  BY DEF Init, NvsInit, OnlyGetStrLeaks
<1> QED
  BY InitInv, NextInv, NextLeak, <1>1, PTL DEF Spec

-----------------------------------------------------------------------------
(* The functions are a store.                                              *)

\* The steps of a call are the same whatever the calls that may be made.
LEMMA WorkIsWork ==
    ASSUME NEW t \in Task, Calling!Work(t)
    PROVE  Store!Work(t)
BY DEF Calling!Work, Calling!Condemn, Calling!Erase, Calling!Proceed,
       Calling!Write, Calling!SkipWrite, Calling!InitDone, Calling!Saved,
       Calling!Read, Calling!Fail, Calling!Abort, Calling!In, Calling!Moves,
       Calling!Savers, Calling!Getters, Calling!Empty, Calling!Default,
       Store!Work, Store!Condemn, Store!Erase, Store!Proceed,
       Store!Write, Store!SkipWrite, Store!InitDone, Store!Saved,
       Store!Read, Store!Fail, Store!Abort, Store!In, Store!Moves,
       Store!Savers, Store!Getters, Store!Empty, Store!Default

LEMMA InitRefines == Init => Store!Init
<1>1. SUFFICES ASSUME Init PROVE Store!Init
  OBVIOUS
<1>2. call = [t \in Task |-> IdleFrame]
  BY <1>1 DEF Init
<1>3. [t \in Task |-> Job(call[t])] = [t \in Task |-> Job(IdleFrame)]
  BY <1>2
<1>4. (part = "ready" \/ pages = "good") \in BOOLEAN
  OBVIOUS
<1> QED
  BY <1>1, <1>3, <1>4 DEF Init, NvsInit, Store!Init, Entry

LEMMA ResetRefines ==
    ASSUME Reset
    PROVE  Store!Reset
<1>1. call' = [t \in Task |-> IdleFrame]
  BY DEF Reset
<1>2. [t \in Task |-> Job(call'[t])] = [t \in Task |-> Job(IdleFrame)]
  BY <1>1
<1>3. (part' = "ready" \/ pages' = "good") \in BOOLEAN
  OBVIOUS
<1>4. flash' = flash /\ staged' = flash
  BY DEF Reset, NvsReset
<1> QED
  BY <1>2, <1>3, <1>4 DEF Store!Reset

LEMMA BeginRefines ==
    ASSUME IInv, NEW t \in Task, Begin(t)
    PROVE  Store!Start(t)
<1>1. PICK fn \in Functions, k \in Key, v \in Entry :
        /\ <<t, fn, k>> \in Calls
        /\ v \in Value <=> fn \in Savers
        /\ Enter(t, fn, k, v)
  BY NvsConstants DEF Begin, Entry
<1>2. Jobs' = [Jobs EXCEPT ![t] = [fn |-> fn, key |-> k, val |-> v,
                                   phase |-> "starting"]]
  BY <1>1, EnterJob DEF IInv, NvsTypeOK
<1>3. Jobs[t].phase = "idle"
  BY JobPhase DEF IInv, NvsTypeOK, Begin
<1>4. UNCHANGED <<flash, staged, part, pages>>
  BY DEF Begin
<1>5. fn \in Store!Savers \cup Store!Getters \cup {InitNvs}
  BY <1>1 DEF Functions, Savers, Getters, Store!Savers, Store!Getters
<1> QED
  BY <1>1, <1>2, <1>3, <1>4, <1>5
     DEF Store!Start, Store!In, Store!Savers, Savers, Entry, Jobs

LEMMA FinishRefines ==
    ASSUME IInv, NEW t \in Task, Finish(t)
    PROVE  Store!Finish(t)
<1>1. Jobs' = [Jobs EXCEPT ![t] = [phase |-> "idle"]]
  BY LeaveJob DEF IInv, NvsTypeOK, Finish
<1>2. Jobs[t].phase \in {"ok", "fail"}
  BY JobPhase DEF IInv, NvsTypeOK, Finish
<1> QED
  BY <1>1, <1>2 DEF Finish, Store!Finish, Store!In, Store!Idle, Jobs

LEMMA NextRefines == IInv /\ [Next]_nvsVars => [Store!Next]_Store!vars
<1>1. ASSUME UNCHANGED nvsVars
      PROVE  UNCHANGED Store!vars
  BY <1>1 DEF nvsVars, Store!vars
<1>2. CASE Reset
  BY <1>2, ResetRefines DEF Store!Next
<1>3. ASSUME IInv, NEW t \in Task, Step(t)
      PROVE  [Store!Next]_Store!vars
  <2>1. Store!Running
    <3>1. \A u \in Task : ~Aborted(u)
      BY <1>3 DEF Step
    <3>2. \A u \in Task : Jobs[u].phase # "stuck"
      BY <1>3, <3>1, JobPhase DEF IInv, NvsTypeOK
    <3> QED
      BY <3>2 DEF Store!Running, Store!In, Jobs
  <2>2. CASE Begin(t)
    BY <1>3, <2>1, <2>2, BeginRefines DEF Store!Next
  <2>3. CASE Finish(t)
    BY <1>3, <2>1, <2>3, FinishRefines DEF Store!Next
  <2>4. CASE NvsStep(t)
    <3>1. \/ Calling!Work(t)
          \/ UNCHANGED <<flash, staged, part = "ready" \/ pages = "good",
                         Jobs>>
      BY <1>3, <2>4, NvsStepWork DEF IInv
    <3>2. CASE Calling!Work(t)
      BY <2>1, <3>2, WorkIsWork DEF Store!Next
    <3>3. CASE UNCHANGED <<flash, staged, part = "ready" \/ pages = "good",
                           Jobs>>
      BY <3>3 DEF Store!vars, Jobs
    <3> QED
      BY <3>1, <3>2, <3>3
  <2> QED
    BY <1>3, <2>2, <2>3, <2>4 DEF Step
<1> QED
  BY <1>1, <1>2, <1>3 DEF Next

(***************************************************************************)
(* The functions of nvs_manager.h implement the store, for any tasks that  *)
(* make any calls in which each key has one writer, under any interleaving *)
(* of their library calls, failures and resets.                            *)
(***************************************************************************)
THEOREM StoreCorrect == Spec => IsStore
<1>1. IInv /\ [Next]_nvsVars => [Store!Next]_Store!vars
  BY NextRefines
<1> QED
  BY InitInv, NextInv, InitRefines, <1>1, PTL DEF Spec, IsStore, Store!Spec

=============================================================================
