-------------------------- MODULE NvsManagerProofs --------------------------
(***************************************************************************)
(* What every library call of nvs_manager.h preserves, proved once for the *)
(* modules that let tasks call its functions.                              *)
(***************************************************************************)
EXTENDS NvsManager, TLAPS

(* The frame a task enters a function with, and the frame of a task that   *)
(* has called nothing, are frames.                                         *)
LEMMA NewFrameType ==
    ASSUME NEW fn \in Functions, NEW k \in Key, NEW v \in Entry
    PROVE  NewFrame(fn, k, v) \in Frame
BY NvsConstants DEF NewFrame, Frame, Points, Handle

LEMMA IdleFrameType ==
    /\ IdleFrame \in Frame
    /\ IdleFrame.at = "idle"
    /\ IdleFrame.handle = NoHandle
<1>1. PICK k \in Key : k = CHOOSE j \in Key : TRUE
  BY NvsConstants
<1>2. NewFrame(InitNvs, k, NoEntry) \in Frame
  BY NewFrameType DEF Functions, Entry
<1> DEFINE f == [NewFrame(InitNvs, k, NoEntry) EXCEPT !.at = "idle"]
<1>3. f \in Frame /\ f.at = "idle" /\ f.handle = NoHandle
  BY <1>2 DEF Frame, Points, NewFrame
<1> QED
  BY <1>1, <1>3 DEF IdleFrame

(* Leaving a function keeps the frames well formed.                        *)
LEMMA ReturnsType ==
    ASSUME call \in [Task -> Frame], NEW t \in Task, NEW r \in {"ok", "fail"},
           NEW v \in Entry, Returns(t, r, v)
    PROVE  call' \in [Task -> Frame]
<1> DEFINE c == [call[t] EXCEPT !.at = "returned", !.ret = r, !.val = v,
                                !.handle = NoHandle]
<1>1. c \in Frame
  BY DEF Frame, Points, Handle
<1>2. call' = [call EXCEPT ![t] = c]
  BY DEF Returns
<1> QED
  BY <1>1, <1>2

LEMMA GivesUpType ==
    ASSUME call \in [Task -> Frame], NEW t \in Task, GivesUp(t)
    PROVE  call' \in [Task -> Frame]
<1>1. FailValue(call[t]) \in Entry
  BY NvsConstants DEF FailValue, Entry, Frame
<1> QED
  BY <1>1, ReturnsType DEF GivesUp

LEMMA GotoType ==
    ASSUME call \in [Task -> Frame], NEW t \in Task, NEW p \in Points,
           Goto(t, p)
    PROVE  call' \in [Task -> Frame]
BY DEF Goto, Frame

LEMMA FaultType ==
    ASSUME faults \in 0 .. MaxFaults, Fault
    PROVE  faults' \in 0 .. MaxFaults
BY NvsConstants DEF Fault

(* Every library call of every function keeps the type invariant.          *)
LEMMA NvsStepType ==
    ASSUME NvsTypeOK, NEW t \in Task, NvsStep(t)
    PROVE  NvsTypeOK'
<1> USE DEF NvsTypeOK
<1>1. CASE FlashInitOk(t)
  BY <1>1, ReturnsType, GotoType DEF FlashInitOk, Points, Frame
<1>2. CASE FlashInitNoFreePages(t)
  BY <1>2, GotoType DEF FlashInitNoFreePages, Points
<1>3. CASE FlashInitError(t)
  BY <1>3, GotoType, GivesUpType, FaultType DEF FlashInitError, Points
<1>4. CASE FlashErase(t)
  BY <1>4, GotoType, FaultType DEF FlashErase, Points, Entry
<1>5. CASE OpenOk(t)
  <2> DEFINE p == IF call[t].fn \in Savers THEN "set" ELSE "get"
             c == [call[t] EXCEPT !.handle = t, !.at = p]
  <2>1. p \in Points
    BY DEF Points
  <2>2. c \in Frame
    <3> HIDE DEF p
    <3> QED
      BY <2>1 DEF Frame, Handle
  <2>3. call' = [call EXCEPT ![t] = c]
    BY <1>5 DEF OpenOk
  <2>4. call' \in [Task -> Frame]
    BY <2>2, <2>3
  <2> QED
    BY <1>5, <2>4 DEF OpenOk
<1>6. CASE OpenFails(t)
  <2>1. faults' \in 0 .. MaxFaults
    BY <1>6, FaultType DEF OpenFails
  <2>2. call' \in [Task -> Frame]
    <3>1. CASE GivesUp(t)
      BY <3>1, GivesUpType
    <3>2. ASSUME NEW h \in Handle,
                 call' = [call EXCEPT ![t] = [@ EXCEPT !.handle = h,
                                                       !.at = "set"]]
          PROVE  call' \in [Task -> Frame]
      <4>1. [call[t] EXCEPT !.handle = h, !.at = "set"] \in Frame
        BY DEF Frame, Points
      <4> QED
        BY <3>2, <4>1
    <3> QED
      BY <1>6, <3>1, <3>2 DEF OpenFails
  <2> QED
    BY <1>6, <2>1, <2>2 DEF OpenFails
<1>7. CASE SetOk(t)
  <2>1. call[t].val \in Entry /\ call[t].key \in Key
    BY DEF Frame
  <2> QED
    BY <1>7, <2>1, GotoType DEF SetOk, Points
<1>8. CASE SetFails(t)
  BY <1>8, GotoType, GivesUpType, FaultType DEF SetFails, Close, Points
<1>9. CASE CommitOk(t)
  <2>1. call[t].val \in Entry /\ call[t].key \in Key
    BY DEF Frame
  <2> QED
    BY <1>9, <2>1, ReturnsType DEF CommitOk, Close
<1>10. CASE CommitFails(t)
  BY <1>10, GivesUpType, FaultType DEF CommitFails, Close
<1>11. CASE GetOk(t)
  <2>1. staged[call[t].key] \in Entry
    BY DEF Frame
  <2> QED
    BY <1>11, <2>1, ReturnsType DEF GetOk, Close
<1>12. CASE GetFails(t)
  BY <1>12, GivesUpType, FaultType DEF GetFails, Close
<1>13. CASE GetNoMemory(t)
  BY <1>13, GivesUpType, FaultType DEF GetNoMemory, Close
<1> QED
  BY <1>1, <1>2, <1>3, <1>4, <1>5, <1>6, <1>7, <1>8, <1>9, <1>10, <1>11,
     <1>12, <1>13 DEF NvsStep

(***************************************************************************)
(* A save between its library calls.                                       *)
(***************************************************************************)

Saving(t) == call[t].fn \in Savers /\ call[t].at \notin {"idle", "returned"}

\* No two calls in progress save the same key.
OneSaver ==
    \A t, u \in Task :
        t # u /\ Saving(t) /\ Saving(u) => call[t].key # call[u].key

\* init_nvs opens nothing, only the functions that save set and commit, only
\* the others get, and save_data_u32_in_flash uses the handle it opened.
PointsOK ==
    \A t \in Task :
        /\ call[t].at = "open" => call[t].fn # InitNvs
        /\ call[t].at \in {"set", "commit"} => call[t].fn \in Savers
        /\ call[t].at = "get" => call[t].fn \in Getters
        /\ call[t].fn = SaveU32 /\ call[t].at \in {"set", "commit"}
               => call[t].handle = t

\* What save_data_u32_in_flash has set and not committed is still staged, or
\* its handle has been closed under it.
SetIsStaged ==
    \A t \in Task :
        call[t].fn = SaveU32 /\ call[t].at = "commit" /\ t \in open
            => staged[call[t].key] = call[t].val

SaveInv == NvsTypeOK /\ OneSaver /\ PointsOK /\ SetIsStaged

(* A library call of t leaves the frames of the others alone and keeps t   *)
(* in the function, with the key, that it was called with.                 *)
LEMMA NvsStepFrame ==
    ASSUME NvsTypeOK, PointsOK, NEW t \in Task, NvsStep(t)
    PROVE  /\ \A u \in Task \ {t} : call'[u] = call[u]
           /\ call'[t].fn = call[t].fn
           /\ call'[t].key = call[t].key
           /\ call[t].at \notin {"idle", "returned"}
           /\ call[t].fn = SaveU32 => call'[t].val = call[t].val
<1> USE DEF NvsTypeOK, Frame
<1>1. \A p : Goto(t, p) =>
        /\ \A u \in Task \ {t} : call'[u] = call[u]
        /\ call'[t] = [call[t] EXCEPT !.at = p]
  BY DEF Goto
<1>2. \A r, v : Returns(t, r, v) =>
        /\ \A u \in Task \ {t} : call'[u] = call[u]
        /\ call'[t].fn = call[t].fn
        /\ call'[t].key = call[t].key
        /\ call'[t].val = v
  BY DEF Returns
<1>3. GivesUp(t) =>
        /\ \A u \in Task \ {t} : call'[u] = call[u]
        /\ call'[t].fn = call[t].fn
        /\ call'[t].key = call[t].key
        /\ call[t].fn = SaveU32 => call'[t].val = call[t].val
  BY <1>2 DEF GivesUp, FailValue, SaveU32, GetU32, GetStr
<1>4. CASE FlashInitOk(t)
  BY <1>4, <1>1, <1>2 DEF FlashInitOk
<1>5. CASE FlashInitNoFreePages(t)
  BY <1>5, <1>1 DEF FlashInitNoFreePages
<1>6. CASE FlashInitError(t)
  BY <1>6, <1>1, <1>3 DEF FlashInitError
<1>7. CASE FlashErase(t)
  BY <1>7, <1>1 DEF FlashErase
<1>8. CASE OpenOk(t)
  <2> DEFINE p == IF call[t].fn \in Savers THEN "set" ELSE "get"
  <2>1. call' = [call EXCEPT ![t] = [call[t] EXCEPT !.handle = t, !.at = p]]
    BY <1>8 DEF OpenOk
  <2> HIDE DEF p
  <2> QED
    BY <1>8, <2>1 DEF OpenOk
<1>9. CASE OpenFails(t)
  <2>1. ASSUME NEW h \in Handle,
               call' = [call EXCEPT ![t] = [call[t] EXCEPT !.handle = h,
                                                           !.at = "set"]]
        PROVE  /\ \A u \in Task \ {t} : call'[u] = call[u]
               /\ call'[t].fn = call[t].fn
               /\ call'[t].key = call[t].key
    BY <2>1
  <2>2. \/ GivesUp(t)
        \/ call[t].fn = SaveStr /\ \E h \in Handle :
              call' = [call EXCEPT ![t] = [call[t] EXCEPT !.handle = h,
                                                          !.at = "set"]]
    BY <1>9 DEF OpenFails
  <2>3. call[t].at = "open"
    BY <1>9 DEF OpenFails
  <2>4. CASE GivesUp(t)
    BY <1>3, <2>3, <2>4
  <2>5. CASE ~GivesUp(t)
    <3>1. PICK h \in Handle :
            call' = [call EXCEPT ![t] = [call[t] EXCEPT !.handle = h,
                                                        !.at = "set"]]
      BY <2>2, <2>5
    <3>2. call[t].fn # SaveU32
      BY <2>2, <2>5 DEF SaveStr, SaveU32
    <3> QED
      BY <2>1, <2>3, <3>1, <3>2
  <2> QED
    BY <2>4, <2>5
<1>10. CASE SetOk(t)
  <2>1. Goto(t, "commit") /\ call[t].at = "set"
    BY <1>10 DEF SetOk
  <2> QED
    BY <1>1, <2>1
<1>11. CASE SetFails(t)
  BY <1>11, <1>1, <1>3 DEF SetFails
<1>12. CASE CommitOk(t)
  BY <1>12, <1>2 DEF CommitOk
<1>13. CASE CommitFails(t)
  BY <1>13, <1>3 DEF CommitFails
<1>14. CASE GetOk(t)
  <2>1. call[t].fn # SaveU32
    BY <1>14 DEF GetOk, PointsOK, Getters, GetU32, GetStr, SaveU32
  <2> QED
    BY <1>14, <1>2, <2>1 DEF GetOk
<1>15. CASE GetFails(t)
  BY <1>15, <1>3 DEF GetFails
<1>16. CASE GetNoMemory(t)
  BY <1>16, <1>3 DEF GetNoMemory
<1> QED
  BY <1>4, <1>5, <1>6, <1>7, <1>8, <1>9, <1>10, <1>11, <1>12, <1>13, <1>14,
     <1>15, <1>16 DEF NvsStep

(* An action of t moves its call along the function.                       *)
LEMMA NvsStepPoints ==
    ASSUME NvsTypeOK, PointsOK, NEW t \in Task, NvsStep(t)
    PROVE  PointsOK'
<1> USE DEF NvsTypeOK, Frame
<1>1. /\ \A u \in Task \ {t} : call'[u] = call[u]
      /\ call'[t].fn = call[t].fn
  BY NvsStepFrame
<1>2. SUFFICES
        /\ call'[t].at = "open" => call[t].fn # InitNvs
        /\ call'[t].at \in {"set", "commit"} => call[t].fn \in Savers
        /\ call'[t].at = "get" => call[t].fn \in Getters
        /\ call[t].fn = SaveU32 /\ call'[t].at \in {"set", "commit"}
               => call'[t].handle = t
  BY <1>1 DEF PointsOK
<1>3. \A p : Goto(t, p) => call'[t].at = p /\ call'[t].handle = call[t].handle
  BY DEF Goto
<1>4. \A r, v : Returns(t, r, v) => call'[t].at = "returned"
  BY DEF Returns
<1>5. GivesUp(t) => call'[t].at = "returned"
  BY <1>4 DEF GivesUp
<1>6. CASE FlashInitOk(t)
  <2>1. \/ call'[t].at = "returned"
        \/ call'[t].at = "open" /\ call[t].fn # InitNvs
    BY <1>6, <1>3, <1>4 DEF FlashInitOk
  <2> QED
    BY <2>1
<1>7. CASE FlashInitNoFreePages(t)
  <2>1. call'[t].at \in {"reinit", "erase"}
    BY <1>7, <1>3 DEF FlashInitNoFreePages
  <2> QED
    BY <2>1
<1>8. CASE FlashInitError(t)
  <2>1. \/ call'[t].at \in {"returned", "abort"}
        \/ call'[t].at = "open" /\ call[t].fn = GetStr
    BY <1>8, <1>3, <1>5 DEF FlashInitError
  <2> QED
    BY <2>1 DEF GetStr, InitNvs
<1>9. CASE FlashErase(t)
  <2>1. call'[t].at \in {"reinit", "abort"}
    BY <1>9, <1>3 DEF FlashErase
  <2> QED
    BY <2>1
<1>10. CASE OpenOk(t)
  <2> DEFINE p == IF call[t].fn \in Savers THEN "set" ELSE "get"
  <2>1. call' = [call EXCEPT ![t] = [call[t] EXCEPT !.handle = t, !.at = p]]
    BY <1>10 DEF OpenOk
  <2>2. call'[t].at = p /\ call'[t].handle = t
    <3> HIDE DEF p
    <3> QED
      BY <2>1
  <2>3. call[t].fn \in Savers \/ call[t].fn \in Getters
    BY <1>10 DEF OpenOk, PointsOK, Functions
  <2> QED
    BY <2>2, <2>3
<1>11. CASE OpenFails(t)
  <2>1. \/ call'[t].at = "returned"
        \/ call'[t].at = "set" /\ call[t].fn = SaveStr
    <3>1. ASSUME NEW h \in Handle,
                 call' = [call EXCEPT ![t] = [call[t] EXCEPT !.handle = h,
                                                             !.at = "set"]]
          PROVE  call'[t].at = "set"
      BY <3>1
    <3>2. \/ GivesUp(t)
          \/ call[t].fn = SaveStr /\ \E h \in Handle :
                call' = [call EXCEPT ![t] = [call[t] EXCEPT !.handle = h,
                                                            !.at = "set"]]
      BY <1>11 DEF OpenFails
    <3> QED
      BY <1>5, <3>1, <3>2
  <2> QED
    BY <2>1 DEF SaveStr, SaveU32, Savers
<1>12. CASE SetOk(t) \/ SetFails(t)
  <2>1. /\ call[t].at = "set"
        /\ \/ call'[t].at = "returned"
           \/ call'[t].at = "commit" /\ call'[t].handle = call[t].handle
    BY <1>12, <1>3, <1>5 DEF SetOk, SetFails
  <2> QED
    BY <2>1 DEF PointsOK
<1>13. CASE \/ CommitOk(t) \/ CommitFails(t)
            \/ GetOk(t) \/ GetFails(t) \/ GetNoMemory(t)
  <2>1. call'[t].at = "returned"
    BY <1>13, <1>4, <1>5
       DEF CommitOk, CommitFails, GetOk, GetFails, GetNoMemory
  <2> QED
    BY <2>1
<1> QED
  BY <1>6, <1>7, <1>8, <1>9, <1>10, <1>11, <1>12, <1>13 DEF NvsStep

(* No step of one task makes a second task save the key that a save in     *)
(* progress holds.                                                         *)
LEMMA NvsStepOneSaver ==
    ASSUME NvsTypeOK, PointsOK, OneSaver, NEW t \in Task, NvsStep(t)
    PROVE  OneSaver'
<1>1. \A u \in Task : /\ call'[u].fn = call[u].fn
                      /\ call'[u].key = call[u].key
                      /\ Saving(u)' => Saving(u)
  BY NvsStepFrame DEF Saving
<1> QED
  BY <1>1 DEF OneSaver

(* What a save has set stays staged until its commit: another task's set   *)
(* is of another key, and an erase closes every handle.                    *)
LEMMA NvsStepStaged ==
    ASSUME SaveInv, NEW t \in Task, NvsStep(t)
    PROVE  SetIsStaged'
<1> USE DEF SaveInv, NvsTypeOK, Frame
<1>1. PointsOK'
  BY NvsStepPoints
<1>2. /\ \A u \in Task \ {t} : call'[u] = call[u]
      /\ call'[t].fn = call[t].fn
      /\ call'[t].key = call[t].key
      /\ call[t].fn = SaveU32 => call'[t].val = call[t].val
  BY NvsStepFrame
<1>3. \A p : Goto(t, p) => call'[t].at = p
  BY DEF Goto
<1>4. \A r, v : Returns(t, r, v) => call'[t].at = "returned"
  BY DEF Returns
<1>5. GivesUp(t) => call'[t].at = "returned"
  BY <1>4 DEF GivesUp
<1>6. CASE SetOk(t)
  <2>1. /\ call[t].at = "set"
        /\ staged' = [staged EXCEPT ![call[t].key] = call[t].val]
        /\ open' = open
    BY <1>6 DEF SetOk
  <2>2. Saving(t)
    BY <2>1 DEF Saving, PointsOK
  <2>3. ASSUME NEW u \in Task \ {t}, call[u].fn = SaveU32,
               call[u].at = "commit"
        PROVE  staged'[call[u].key] = staged[call[u].key]
    <3>1. Saving(u)
      BY <2>3 DEF Saving, Savers
    <3> QED
      BY <2>1, <2>2, <3>1 DEF OneSaver
  <2>4. staged'[call[t].key] = call[t].val
    BY <2>1
  <2> QED
    BY <1>2, <2>1, <2>3, <2>4 DEF SetIsStaged
<1>7. CASE /\ staged' = staged
           /\ open' \in SUBSET (open \cup {t})
           /\ call'[t].at # "commit"
  BY <1>2, <1>7 DEF SetIsStaged
<1>8. CASE open' = {}
  BY <1>8 DEF SetIsStaged
<1>9. CASE FlashErase(t)
  BY <1>9, <1>3, <1>7, <1>8 DEF FlashErase
<1>10. CASE SetFails(t)
  <2>1. staged' = staged /\ open' \in SUBSET open
    BY <1>10 DEF SetFails, Close
  <2>2. call'[t].at = "commit" => call[t].fn = SaveStr
    BY <1>10, <1>3, <1>5 DEF SetFails
  <2> QED
    BY <1>2, <2>1, <2>2 DEF SetIsStaged, SaveStr, SaveU32
<1>11. CASE \/ FlashInitOk(t) \/ FlashInitNoFreePages(t)
            \/ FlashInitError(t)
  BY <1>11, <1>3, <1>4, <1>5, <1>7
     DEF FlashInitOk, FlashInitNoFreePages, FlashInitError
<1>12. CASE OpenOk(t) \/ OpenFails(t)
  <2>1. /\ staged' = staged
        /\ open' \in SUBSET (open \cup {t})
        /\ call[t].at = "open"
    BY <1>12 DEF OpenOk, OpenFails
  <2>2. call'[t].at # "commit"
    <3>1. ASSUME NEW h \in Handle, NEW p \in {"set", "get"},
                 call' = [call EXCEPT ![t] = [call[t] EXCEPT !.handle = h,
                                                             !.at = p]]
          PROVE  call'[t].at # "commit"
      BY <3>1
    <3>2. CASE OpenOk(t)
      <4> DEFINE p == IF call[t].fn \in Savers THEN "set" ELSE "get"
      <4>1. p \in {"set", "get"} /\ t \in Handle
        BY DEF Handle
      <4>2. call' = [call EXCEPT ![t] = [call[t] EXCEPT !.handle = t,
                                                        !.at = p]]
        BY <3>2 DEF OpenOk
      <4> HIDE DEF p
      <4> QED
        BY <3>1, <4>1, <4>2
    <3>3. CASE OpenFails(t)
      BY <1>5, <3>1, <3>3 DEF OpenFails
    <3> QED
      BY <1>12, <3>2, <3>3
  <2> QED
    BY <1>7, <2>1, <2>2
<1>13. CASE \/ CommitOk(t) \/ CommitFails(t)
            \/ GetOk(t) \/ GetFails(t) \/ GetNoMemory(t)
  <2>1. call'[t].at = "returned" /\ staged' = staged
    BY <1>13, <1>4, <1>5
       DEF CommitOk, CommitFails, GetOk, GetFails, GetNoMemory
  <2>2. open' \in SUBSET open
    BY <1>13 DEF CommitOk, CommitFails, GetOk, GetFails, GetNoMemory, Close
  <2> QED
    BY <1>7, <2>1, <2>2
<1> QED
  BY <1>6, <1>9, <1>10, <1>11, <1>12, <1>13 DEF NvsStep

(* All of it together.                                                     *)
LEMMA NvsStepSaveInv ==
    ASSUME SaveInv, NEW t \in Task, NvsStep(t)
    PROVE  SaveInv'
BY NvsStepType, NvsStepPoints, NvsStepOneSaver, NvsStepStaged DEF SaveInv

(* save_data_u32_in_flash returns ESP_OK only from the commit that put its *)
(* value into the flash.                                                   *)
LEMMA NvsStepDurable ==
    ASSUME SaveInv, NEW t \in Task, NvsStep(t), call[t].fn = SaveU32,
           call'[t].at = "returned", call'[t].ret = "ok"
    PROVE  flash'[call[t].key] = call[t].val
<1> USE DEF SaveInv, NvsTypeOK, Frame
<1>1. \A p : Goto(t, p) => call'[t].at = p
  BY DEF Goto
<1>2. ~GivesUp(t)
  BY DEF GivesUp, Returns
<1>3. call[t].fn \notin Getters /\ call[t].fn # InitNvs /\ call[t].fn # SaveStr
  BY DEF SaveU32, Getters, GetU32, GetStr, InitNvs, SaveStr
<1>4. ~GetOk(t)
  BY <1>3 DEF GetOk, PointsOK
<1>5. ~OpenOk(t)
  <2>1. SUFFICES ASSUME OpenOk(t) PROVE FALSE
    OBVIOUS
  <2> DEFINE p == IF call[t].fn \in Savers THEN "set" ELSE "get"
  <2>2. call' = [call EXCEPT ![t] = [call[t] EXCEPT !.handle = t, !.at = p]]
    BY <2>1 DEF OpenOk
  <2>3. p # "returned"
    OBVIOUS
  <2> HIDE DEF p
  <2> QED
    BY <2>2, <2>3
<1>6. ~OpenFails(t)
  BY <1>2, <1>3 DEF OpenFails
<1>7. ~(SetOk(t) \/ SetFails(t) \/ FlashErase(t))
  BY <1>1, <1>2, <1>3 DEF SetOk, SetFails, FlashErase
<1>8. ~(FlashInitOk(t) \/ FlashInitNoFreePages(t) \/ FlashInitError(t))
  BY <1>1, <1>2, <1>3 DEF FlashInitOk, FlashInitNoFreePages, FlashInitError
<1>9. CommitOk(t)
  BY <1>2, <1>4, <1>5, <1>6, <1>7, <1>8
     DEF NvsStep, CommitFails, GetFails, GetNoMemory
<1>10. /\ call[t].at = "commit"
       /\ call[t].handle \in open
       /\ flash' = [flash EXCEPT ![call[t].key] = staged[call[t].key]]
  BY <1>9 DEF CommitOk
<1>11. staged[call[t].key] = call[t].val
  BY <1>10 DEF PointsOK, SetIsStaged
<1> QED
  BY <1>10, <1>11

(***************************************************************************)
(* What a library call does to each part of the state, for the proofs of   *)
(* modules that know which task calls what.                                *)
(***************************************************************************)

LEMMA NvsStepFlash ==
    ASSUME NvsTypeOK, PointsOK, NEW t \in Task, NvsStep(t)
    PROVE  \/ flash' = flash /\ staged' = staged
           \/ /\ call[t].at = "erase"
              /\ flash' = [k \in Key |-> NoEntry]
              /\ staged' = [k \in Key |-> NoEntry]
           \/ /\ call[t].at = "set" /\ call[t].fn \in Savers
              /\ staged' = [staged EXCEPT ![call[t].key] = call[t].val]
              /\ flash' \in {flash,
                             [flash EXCEPT ![call[t].key] = call[t].val]}
           \/ /\ call[t].at = "commit" /\ call[t].fn \in Savers
              /\ call[t].handle \in open
              /\ staged' = staged
              /\ flash' = [flash EXCEPT ![call[t].key] = staged[call[t].key]]
<1>1. CASE FlashErase(t)
  BY <1>1 DEF FlashErase
<1>2. CASE SetOk(t)
  BY <1>2 DEF SetOk, PointsOK
<1>3. CASE CommitOk(t)
  BY <1>3 DEF CommitOk, PointsOK
<1>4. CASE ~(FlashErase(t) \/ SetOk(t) \/ CommitOk(t))
  BY <1>4 DEF NvsStep, FlashInitOk, FlashInitNoFreePages, FlashInitError,
       OpenOk, OpenFails, SetFails, CommitFails, GetOk, GetFails, GetNoMemory
<1> QED
  BY <1>1, <1>2, <1>3, <1>4

\* A handle is closed by an erase or through a frame that holds it.
LEMMA NvsStepOpen ==
    ASSUME NvsTypeOK, NEW t \in Task, NvsStep(t), NEW u \in open,
           u \notin open'
    PROVE  \/ call[t].at = "erase" /\ flash' = [k \in Key |-> NoEntry]
           \/ call[t].handle = u /\ call'[t].handle = NoHandle
<1>1. \A r, v : Returns(t, r, v) => call'[t].handle = NoHandle
  BY DEF Returns, NvsTypeOK, Frame
<1>2. GivesUp(t) => call'[t].handle = NoHandle
  BY <1>1 DEF GivesUp
<1>3. CASE FlashErase(t)
  BY <1>3 DEF FlashErase
<1>4. CASE SetFails(t) \/ CommitOk(t) \/ CommitFails(t)
  BY <1>1, <1>2, <1>4 DEF SetFails, CommitOk, CommitFails, Close
<1>5. CASE GetOk(t) \/ GetFails(t) \/ GetNoMemory(t)
  BY <1>1, <1>2, <1>5 DEF GetOk, GetFails, GetNoMemory, Close
<1>6. CASE \/ FlashInitOk(t) \/ FlashInitNoFreePages(t) \/ FlashInitError(t)
           \/ OpenOk(t) \/ OpenFails(t) \/ SetOk(t)
  BY <1>6 DEF FlashInitOk, FlashInitNoFreePages, FlashInitError, OpenOk,
              OpenFails, SetOk
<1> QED
  BY <1>3, <1>4, <1>5, <1>6 DEF NvsStep

\* A call of the library fails at most once.
LEMMA NvsStepFaults ==
    ASSUME NvsTypeOK, NEW t \in Task, NvsStep(t)
    PROVE  faults' \in {faults, faults + 1}
BY DEF NvsStep, FlashInitOk, FlashInitNoFreePages, FlashInitError, FlashErase,
       OpenOk, OpenFails, SetOk, SetFails, CommitOk, CommitFails, GetOk,
       GetFails, GetNoMemory, Fault

\* Only an erase makes the partition not ready.
LEMMA NvsStepPart ==
    ASSUME NvsTypeOK, NEW t \in Task, NvsStep(t), part = "ready",
           part' # "ready"
    PROVE  call[t].at = "erase" /\ flash' = [k \in Key |-> NoEntry]
BY DEF NvsStep, FlashInitOk, FlashInitNoFreePages, FlashInitError, FlashErase,
       OpenOk, OpenFails, SetOk, SetFails, CommitOk, CommitFails, GetOk,
       GetFails, GetNoMemory

\* A frame comes to hold another task's handle only in saved_data_in_flash,
\* by a failed nvs_open or on a partition that is not ready.
LEMMA NvsStepHandle ==
    ASSUME NvsTypeOK, NEW t \in Task, NvsStep(t)
    PROVE  \/ call'[t].handle \in {call[t].handle, NoHandle, t}
           \/ /\ call[t].fn = SaveStr
              /\ part = "uninit" \/ faults' = faults + 1
<1> USE DEF NvsTypeOK, Frame
<1>1. \A p : Goto(t, p) => call'[t].handle = call[t].handle
  BY DEF Goto
<1>2. \A r, v : Returns(t, r, v) => call'[t].handle = NoHandle
  BY DEF Returns
<1>3. GivesUp(t) => call'[t].handle = NoHandle
  BY <1>2 DEF GivesUp
<1>4. CASE OpenOk(t)
  <2> DEFINE p == IF call[t].fn \in Savers THEN "set" ELSE "get"
  <2>1. call' = [call EXCEPT ![t] = [call[t] EXCEPT !.handle = t, !.at = p]]
    BY <1>4 DEF OpenOk
  <2> HIDE DEF p
  <2> QED
    BY <2>1
<1>5. CASE OpenFails(t)
  <2>1. GivesUp(t) \/ call[t].fn = SaveStr
    BY <1>5 DEF OpenFails
  <2>2. call[t].fn = SaveStr => part = "uninit" \/ faults' = faults + 1
    BY <1>5 DEF OpenFails, OpenRefused, Fault, SaveStr, Getters, GetU32, GetStr
  <2> QED
    BY <1>3, <2>1, <2>2
<1>6. CASE \/ FlashInitOk(t) \/ FlashInitNoFreePages(t) \/ FlashInitError(t)
           \/ FlashErase(t)
  BY <1>1, <1>2, <1>3, <1>6
     DEF FlashInitOk, FlashInitNoFreePages, FlashInitError, FlashErase
<1>7. CASE SetOk(t) \/ SetFails(t) \/ CommitOk(t) \/ CommitFails(t)
  BY <1>1, <1>2, <1>3, <1>7 DEF SetOk, SetFails, CommitOk, CommitFails
<1>8. CASE GetOk(t) \/ GetFails(t) \/ GetNoMemory(t)
  BY <1>2, <1>3, <1>8 DEF GetOk, GetFails, GetNoMemory
<1> QED
  BY <1>4, <1>5, <1>6, <1>7, <1>8 DEF NvsStep

\* The steps of save_data_u32_in_flash.
LEMMA SaveU32Step ==
    ASSUME NvsTypeOK, PointsOK, NEW t \in Task, NvsStep(t),
           call[t].fn = SaveU32
    PROVE  /\ call'[t].at = "open" => part' = "ready"
           /\ call'[t].at = "reinit" => flash' = [k \in Key |-> NoEntry]
           /\ call'[t].at \in {"set", "commit"} => t \in open'
           /\ call'[t].at = "returned" /\ call'[t].ret = "fail" =>
                  \/ faults' = faults + 1
                  \/ call[t].at = "reinit"
                  \/ call[t].at = "open" /\ part = "uninit"
                  \/ call[t].at \in {"set", "commit"} /\ t \notin open
<1> USE DEF NvsTypeOK, Frame
<1>1. \A p : Goto(t, p) => call'[t].at = p
  BY DEF Goto
<1>2. \A r, v : Returns(t, r, v) => call'[t].at = "returned"
                                     /\ call'[t].ret = r
  BY DEF Returns
<1>3. GivesUp(t) => call'[t].at = "returned"
  BY <1>2 DEF GivesUp
<1>4. /\ call[t].fn \notin Getters /\ call[t].fn \in Savers
      /\ call[t].fn # InitNvs /\ call[t].fn # SaveStr /\ call[t].fn # GetStr
  BY DEF SaveU32, Getters, GetU32, GetStr, InitNvs, SaveStr, Savers
<1>5. CASE FlashInitOk(t)
  BY <1>1, <1>4, <1>5 DEF FlashInitOk
<1>6. CASE FlashInitNoFreePages(t)
  BY <1>1, <1>4, <1>6 DEF FlashInitNoFreePages
<1>7. CASE FlashInitError(t)
  BY <1>3, <1>4, <1>7 DEF FlashInitError, Fault
<1>8. CASE FlashErase(t)
  BY <1>1, <1>8 DEF FlashErase
<1>9. CASE OpenOk(t)
  <2>1. call' = [call EXCEPT ![t] = [call[t] EXCEPT !.handle = t,
                                                    !.at = "set"]]
    BY <1>4, <1>9 DEF OpenOk
  <2>2. call'[t].at = "set"
    BY <2>1
  <2> QED
    BY <1>9, <2>2 DEF OpenOk
<1>10. CASE OpenFails(t)
  <2>1. GivesUp(t) /\ call[t].at = "open"
    BY <1>4, <1>10 DEF OpenFails
  <2>2. part = "uninit" \/ faults' = faults + 1
    BY <1>4, <1>10 DEF OpenFails, OpenRefused, Fault
  <2> QED
    BY <1>3, <2>1, <2>2
<1>11. CASE SetOk(t)
  <2>1. call[t].handle = t
    BY <1>11 DEF SetOk, PointsOK
  <2> QED
    BY <1>1, <1>11, <2>1 DEF SetOk, Writable
<1>12. CASE SetFails(t)
  <2>1. call[t].handle = t /\ call[t].at = "set"
    BY <1>12 DEF SetFails, PointsOK
  <2>2. GivesUp(t)
    BY <1>4, <1>12 DEF SetFails
  <2>3. t \notin open \/ faults' = faults + 1
    BY <1>4, <1>12, <2>1 DEF SetFails, Writable, Fault
  <2> QED
    BY <1>3, <2>1, <2>2, <2>3
<1>13. CASE CommitOk(t)
  BY <1>2, <1>13 DEF CommitOk
<1>14. CASE CommitFails(t)
  <2>1. call[t].handle = t /\ call[t].at = "commit"
    BY <1>14 DEF CommitFails, PointsOK
  <2> QED
    BY <1>3, <1>14, <2>1 DEF CommitFails, Fault
<1>15. ~(GetOk(t) \/ GetFails(t) \/ GetNoMemory(t))
  BY <1>4 DEF GetOk, GetFails, GetNoMemory, PointsOK
<1> QED
  BY <1>5, <1>6, <1>7, <1>8, <1>9, <1>10, <1>11, <1>12, <1>13, <1>14, <1>15
     DEF NvsStep

\* get_saved_data_32_from_flash returns 0 or what it read.
LEMMA GetU32Step ==
    ASSUME NvsTypeOK, PointsOK, NEW t \in Task, NvsStep(t),
           call[t].fn = GetU32, call'[t].at = "returned"
    PROVE  \/ call'[t].val = 0
           \/ /\ call'[t].val = staged[call[t].key]
              /\ UNCHANGED <<flash, staged>>
<1> USE DEF NvsTypeOK, Frame
<1>1. \A p : Goto(t, p) => call'[t].at = p
  BY DEF Goto
<1>2. \A r, v : Returns(t, r, v) => call'[t].val = v
  BY DEF Returns
<1>3. GivesUp(t) => call'[t].val = 0
  BY <1>2 DEF GivesUp, FailValue, GetU32, GetStr
<1>4. /\ call[t].fn # InitNvs /\ call[t].fn # SaveStr
      /\ call[t].fn # GetStr /\ call[t].fn # SaveU32
  BY DEF InitNvs, SaveStr, GetStr, SaveU32, GetU32
<1>5. ~OpenOk(t)
  <2>1. SUFFICES ASSUME OpenOk(t) PROVE FALSE
    OBVIOUS
  <2> DEFINE p == IF call[t].fn \in Savers THEN "set" ELSE "get"
  <2>2. call' = [call EXCEPT ![t] = [call[t] EXCEPT !.handle = t, !.at = p]]
    BY <2>1 DEF OpenOk
  <2>3. p # "returned"
    OBVIOUS
  <2> HIDE DEF p
  <2> QED
    BY <2>2, <2>3
<1>6. CASE GetOk(t)
  BY <1>2, <1>6 DEF GetOk
<1>7. CASE GivesUp(t)
  BY <1>3, <1>7
<1>8. CASE ~GetOk(t) /\ ~GivesUp(t)
  <2>1. CommitOk(t)
    BY <1>1, <1>4, <1>5, <1>8
       DEF NvsStep, FlashInitOk, FlashInitNoFreePages, FlashInitError,
           FlashErase, OpenFails, SetOk, SetFails, CommitFails, GetFails,
           GetNoMemory
  <2>2. call[t].fn \in Savers
    BY <2>1 DEF CommitOk, PointsOK
  <2> QED
    BY <2>2 DEF Savers, GetU32, SaveU32, SaveStr
<1> QED
  BY <1>6, <1>7, <1>8

(***************************************************************************)
(* What a library call is to the store that the functions promise: a step  *)
(* of the call's work there, or nothing.                                   *)
(***************************************************************************)

\* Calls and Boot do not occur in the steps of a call.
Calling == INSTANCE NvsStore
               WITH value  <- staged,
                    usable <- part = "ready" \/ pages = "good",
                    job    <- [t \in Task |-> Job(call[t])],
                    Boot   <- [t \in Task |-> Job(IdleFrame)],
                    Calls  <- {}

Jobs == [t \in Task |-> Job(call[t])]

\* The library has handles open only in a partition that is ready.
OpenNeedsReady == open # {} => part = "ready"

LEMMA NvsStepReady ==
    ASSUME NvsTypeOK, OpenNeedsReady, NEW t \in Task, NvsStep(t)
    PROVE  OpenNeedsReady'
BY DEF OpenNeedsReady, NvsStep, FlashInitOk, FlashInitNoFreePages,
       FlashInitError, FlashErase, OpenOk, OpenFails, SetOk, SetFails,
       CommitOk, CommitFails, GetOk, GetFails, GetNoMemory, Close

(***************************************************************************)
(* What becomes of handles.                                                *)
(***************************************************************************)

\* A handle that a call leaves open is its own task's, and the call is still
\* between opening and closing it, or get_saved_data_from_flash leaks it; or
\* an earlier call left it open.
LEMMA NvsStepAccess ==
    ASSUME NvsTypeOK, PointsOK, NEW t \in Task, NvsStep(t)
    PROVE  /\ open' \subseteq open \cup {t}
           /\ leaked => leaked'
           /\ leaked' => leaked \/ call[t].fn = GetStr
           /\ t \in open' => \/ Accessing(t)'
                             \/ t \in open /\ ~Accessing(t)
                             \/ leaked' /\ call[t].fn = GetStr
<1> USE DEF NvsTypeOK, Frame
<1>1. CASE OpenOk(t)
  <2> DEFINE p == IF call[t].fn \in Savers THEN "set" ELSE "get"
  <2>1. call' = [call EXCEPT ![t] = [call[t] EXCEPT !.handle = t, !.at = p]]
    BY <1>1 DEF OpenOk
  <2>2. p \in {"set", "commit", "get"}
    OBVIOUS
  <2> HIDE DEF p
  <2>3. Accessing(t)'
    BY <2>1, <2>2 DEF Accessing
  <2> QED
    BY <1>1, <2>3 DEF OpenOk
<1>2. CASE SetOk(t)
  <2>1. Accessing(t) => Accessing(t)'
    BY <1>2 DEF SetOk, Goto, Accessing
  <2> QED
    BY <1>2, <2>1 DEF SetOk
<1>3. CASE SetFails(t)
  <2>1. UNCHANGED leaked /\ open' \subseteq open
    BY <1>3 DEF SetFails, Close
  <2>2. ASSUME t \in open', Accessing(t) PROVE Accessing(t)'
    <3>1. call[t].fn = SaveStr /\ Goto(t, "commit")
      BY <1>3, <2>2 DEF SetFails, Close, Accessing
    <3> QED
      BY <2>2, <3>1 DEF Goto, Accessing
  <2> QED
    BY <2>1, <2>2
<1>4. CASE CommitOk(t) \/ CommitFails(t) \/ GetOk(t) \/ GetNoMemory(t)
  <2>1. leaked' = leaked /\ open' = open \ {call[t].handle}
    BY <1>4 DEF CommitOk, CommitFails, GetOk, GetNoMemory, Close
  <2>2. Accessing(t) => t \notin open'
    BY <2>1 DEF Accessing
  <2> QED
    BY <2>1, <2>2
<1>5. CASE GetFails(t)
  <2>1. CASE call[t].fn = GetU32
    <3>1. leaked' = leaked /\ open' = open \ {call[t].handle}
      BY <1>5, <2>1 DEF GetFails, Close, GetU32, GetStr
    <3>2. Accessing(t) => t \notin open'
      BY <3>1 DEF Accessing
    <3> QED
      BY <3>1, <3>2
  <2>2. CASE call[t].fn = GetStr
    <3>1. /\ open' = open
          /\ leaked' = (leaked \/ call[t].handle \in open)
      BY <1>5, <2>2 DEF GetFails, GetU32, GetStr
    <3>2. t \in open /\ Accessing(t) => leaked'
      BY <3>1 DEF Accessing
    <3>3. leaked => leaked'
      BY <3>1
    <3> QED
      BY <2>2, <3>1, <3>2, <3>3
  <2> QED
    BY <1>5, <2>1, <2>2 DEF GetFails
<1>6. CASE FlashErase(t)
  <2>1. UNCHANGED leaked /\ call[t].at = "erase"
    BY <1>6 DEF FlashErase
  <2>2. open' = {} \/ open' = open
    BY <1>6 DEF FlashErase
  <2>3. ~Accessing(t)
    BY <2>1 DEF Accessing
  <2> QED
    BY <2>1, <2>2, <2>3
<1>7. CASE \/ FlashInitOk(t) \/ FlashInitNoFreePages(t) \/ FlashInitError(t)
           \/ OpenFails(t)
  <2>1. ~Accessing(t)
    BY <1>7 DEF FlashInitOk, FlashInitNoFreePages, FlashInitError, OpenFails,
                Accessing
  <2>2. leaked' = leaked /\ open' = open
    BY <1>7
       DEF FlashInitOk, FlashInitNoFreePages, FlashInitError, OpenFails
  <2> QED
    BY <2>1, <2>2
<1> QED
  BY <1>1, <1>2, <1>3, <1>4, <1>5, <1>6, <1>7 DEF NvsStep

(***************************************************************************)
(* A call of t to which nothing has happened.                              *)
(***************************************************************************)

Smooth(t) ==
    /\ call[t].at \in {"set", "commit", "get"} => Accessing(t) /\ t \in open
    /\ call[t].at = "commit" => staged[call[t].key] = call[t].val
    /\ call[t].at = "returned" /\ call[t].fn \in Savers =>
           call[t].ret = "ok" /\ flash[call[t].key] = call[t].val

\* It goes on so on a ready partition while the library does not fail.
LEMMA NvsStepSmooth ==
    ASSUME NvsTypeOK, PointsOK, NEW t \in Task, NvsStep(t), Smooth(t),
           part = "ready", call[t].at # "erase", faults' = faults
    PROVE  Smooth(t)'
<1> USE DEF NvsTypeOK, Frame
<1>1. \A p : Goto(t, p) =>
          call'[t].at = p /\ call'[t].handle = call[t].handle
          /\ call'[t].key = call[t].key /\ call'[t].val = call[t].val
  BY DEF Goto
<1>2. \A r, v : Returns(t, r, v) =>
          call'[t].at = "returned" /\ call'[t].ret = r /\ call'[t].val = v
  BY DEF Returns
<1>3. call'[t].fn = call[t].fn /\ call'[t].key = call[t].key
  BY NvsStepFrame
<1>4. ~Fault
  BY DEF Fault
<1>5. GivesUp(t) => call'[t].at = "returned"
  BY <1>2 DEF GivesUp
<1>6. CASE call[t].fn \in Savers
  <2>0. call[t].fn # InitNvs /\ call[t].fn \notin Getters
    BY <1>6 DEF Savers, Getters, InitNvs, SaveU32, SaveStr, GetU32, GetStr
  <2>1. CASE FlashInitOk(t)
    BY <1>1, <2>0, <2>1 DEF FlashInitOk, Smooth
  <2>2. CASE OpenOk(t)
    <3>1. call' = [call EXCEPT ![t] = [call[t] EXCEPT !.handle = t,
                                                      !.at = "set"]]
      BY <1>6, <2>2 DEF OpenOk
    <3>2. call'[t].at = "set" /\ call'[t].handle = t
      BY <3>1
    <3> QED
      BY <2>2, <3>2 DEF OpenOk, Smooth, Accessing
  <2>3. CASE SetOk(t)
    <3>1. call'[t].at = "commit" /\ call'[t].handle = call[t].handle
          /\ call'[t].val = call[t].val
      BY <1>1, <2>3 DEF SetOk
    <3>2. staged'[call[t].key] = call[t].val
      BY <2>3 DEF SetOk
    <3>3. call[t].handle = t /\ t \in open' /\ UNCHANGED open
      BY <2>3 DEF SetOk, Smooth, Accessing
    <3> QED
      BY <1>3, <3>1, <3>2, <3>3 DEF Smooth, Accessing
  <2>4. CASE CommitOk(t)
    <3>1. call'[t].at = "returned" /\ call'[t].ret = "ok"
          /\ call'[t].val = call[t].val
      BY <1>2, <2>4 DEF CommitOk
    <3>2. flash'[call[t].key] = call[t].val
      BY <2>4 DEF CommitOk, Smooth
    <3> QED
      BY <1>3, <3>1, <3>2 DEF Smooth
  <2>5. ~SetFails(t)
    BY <1>4, <1>6 DEF SetFails, Writable, Smooth, Accessing
  <2>6. ~CommitFails(t)
    BY <1>4 DEF CommitFails, Smooth, Accessing
  <2>7. ~OpenFails(t)
    BY <1>4, <2>0 DEF OpenFails, OpenRefused
  <2>8. /\ ~FlashInitNoFreePages(t) /\ ~FlashInitError(t) /\ ~FlashErase(t)
        /\ ~GetOk(t) /\ ~GetFails(t) /\ ~GetNoMemory(t)
    BY <2>0 DEF FlashInitNoFreePages, FlashInitError, FlashErase, PointsOK,
                GetOk, GetFails, GetNoMemory
  <2> QED
    BY <2>1, <2>2, <2>3, <2>4, <2>5, <2>6, <2>7, <2>8 DEF NvsStep
<1>7. CASE call[t].fn \notin Savers
  <2>1. CASE OpenOk(t)
    <3>1. call' = [call EXCEPT ![t] = [call[t] EXCEPT !.handle = t,
                                                      !.at = "get"]]
      BY <1>7, <2>1 DEF OpenOk
    <3>2. call'[t].at = "get" /\ call'[t].handle = t
      BY <3>1
    <3> QED
      BY <2>1, <3>2 DEF OpenOk, Smooth, Accessing
  <2>2. CASE FlashInitOk(t)
    BY <1>1, <1>2, <1>3, <1>7, <2>2 DEF FlashInitOk, Smooth
  <2>3. CASE OpenFails(t)
    <3>1. call[t].fn # SaveStr
      BY <1>7 DEF Savers
    <3> QED
      BY <1>3, <1>5, <1>7, <2>3, <3>1 DEF OpenFails, Smooth
  <2>4. CASE GetOk(t) \/ GetFails(t) \/ GetNoMemory(t)
    <3>1. call'[t].at = "returned"
      BY <1>2, <1>5, <2>4 DEF GetOk, GetFails, GetNoMemory
    <3> QED
      BY <1>3, <1>7, <3>1 DEF Smooth
  <2>5. /\ ~FlashInitNoFreePages(t) /\ ~FlashInitError(t) /\ ~FlashErase(t)
        /\ ~SetOk(t) /\ ~SetFails(t) /\ ~CommitOk(t) /\ ~CommitFails(t)
    BY <1>7 DEF FlashInitNoFreePages, FlashInitError, FlashErase, PointsOK,
                SetOk, SetFails, CommitOk, CommitFails
  <2> QED
    BY <2>1, <2>2, <2>3, <2>4, <2>5 DEF NvsStep
<1> QED
  BY <1>6, <1>7

\* And the other tasks do not disturb it, if they save other keys.
LEMMA NvsStepOthersSmooth ==
    ASSUME NvsTypeOK, PointsOK, NEW t \in Task, NvsStep(t), Smooth(t),
           NEW u \in Task \ {t}, Smooth(u), call[t].at # "erase",
           \/ call[t].fn \notin Savers
           \/ call[u].fn \notin Savers
           \/ call[t].key # call[u].key
    PROVE  Smooth(u)'
<1> USE DEF NvsTypeOK, Frame
<1>1. call'[u] = call[u]
  BY NvsStepFrame
<1>2. \/ flash' = flash /\ staged' = staged
      \/ /\ call[t].fn \in Savers
         /\ \A k \in Key \ {call[t].key} :
                flash'[k] = flash[k] /\ staged'[k] = staged[k]
  <2>1. \A v : \A k \in Key \ {call[t].key} :
            /\ [flash EXCEPT ![call[t].key] = v][k] = flash[k]
            /\ [staged EXCEPT ![call[t].key] = v][k] = staged[k]
    OBVIOUS
  <2> QED
    BY <2>1, NvsStepFlash
<1>3. call[u].fn \in Savers =>
          /\ staged'[call[u].key] = staged[call[u].key]
          /\ flash'[call[u].key] = flash[call[u].key]
  BY <1>2
<1>4. ASSUME u \in open, Accessing(u) PROVE u \in open'
  <2>1. SUFFICES ASSUME u \notin open' PROVE FALSE
    OBVIOUS
  <2>2. call[t].handle = u
    BY <1>4, <2>1, NvsStepOpen
  <2>3. call[t].at \in {"set", "commit", "get"}
    BY <1>4, <2>1
       DEF NvsStep, FlashInitOk, FlashInitNoFreePages, FlashInitError,
           FlashErase, OpenOk, OpenFails, SetOk, SetFails, CommitOk,
           CommitFails, GetOk, GetFails, GetNoMemory
  <2> QED
    BY <2>2, <2>3 DEF Smooth, Accessing
<1>5. call[u].at = "commit" => call[u].fn \in Savers
  BY DEF PointsOK
<1> QED
  BY <1>1, <1>3, <1>4, <1>5 DEF Smooth, Accessing

-----------------------------------------------------------------------------
\* A job is its frame's, and changes with it.
LEMMA JobOfFrame ==
    ASSUME NEW t \in Task, call[t].at # "idle"
    PROVE  /\ Jobs[t] = [fn |-> call[t].fn, key |-> call[t].key,
                         val |-> call[t].val, phase |-> Phase(call[t])]
           /\ Jobs[t] \in [fn : {call[t].fn}, key : {call[t].key},
                           val : {call[t].val}, phase : {Phase(call[t])}]
BY DEF Jobs, Job

LEMMA JobEnds ==
    ASSUME NEW t \in Task, call[t].at # "idle", call'[t].at # "idle",
           \A u \in Task \ {t} : call'[u] = call[u],
           call'[t].fn = call[t].fn, call'[t].key = call[t].key
    PROVE  Jobs' = [Jobs EXCEPT ![t] = [@ EXCEPT !.phase = Phase(call'[t]),
                                                 !.val = call'[t].val]]
<1>1. Jobs' = [u \in Task |-> Job(call'[u])]
  BY DEF Jobs, Job, Phase
<1>2. \A u \in Task \ {t} : Job(call'[u]) = Jobs[u]
  BY DEF Jobs
<1>3. Job(call'[t]) = [fn |-> call[t].fn, key |-> call[t].key,
                       val |-> call'[t].val, phase |-> Phase(call'[t])]
  BY DEF Job
<1>4. Job(call'[t]) = [Jobs[t] EXCEPT !.phase = Phase(call'[t]),
                                      !.val = call'[t].val]
  <2> DEFINE w == call'[t].val
             q == Phase(call'[t])
             j == Jobs[t]
  <2>1. /\ j \in [fn : {call[t].fn}, key : {call[t].key},
                  val : {call[t].val}, phase : {Phase(call[t])}]
        /\ j.fn = call[t].fn /\ j.key = call[t].key
    BY JobOfFrame
  <2>2. Job(call'[t]) = [fn |-> j.fn, key |-> j.key, val |-> w, phase |-> q]
    BY <1>3, <2>1
  <2> HIDE DEF w, q, j
  <2> DEFINE R == [fn : {call[t].fn}, key : {call[t].key},
                   val : {w}, phase : {q}]
  <2>3. [j EXCEPT !.phase = q, !.val = w]
          = [fn |-> j.fn, key |-> j.key, val |-> w, phase |-> q]
    <3>1. [j EXCEPT !.phase = q, !.val = w] \in R
      BY <2>1
    <3>2. [fn |-> j.fn, key |-> j.key, val |-> w, phase |-> q] \in R
      BY <2>1
    <3>3. \A x \in R, y \in R : x = y
      OBVIOUS
    <3> QED
      BY <3>1, <3>2, <3>3
  <2>4. Job(call'[t]) = [j EXCEPT !.phase = q, !.val = w]
    BY <2>2, <2>3
  <2> QED
    BY <2>4 DEF w, q, j
<1>5. DOMAIN Jobs = Task
  BY DEF Jobs
<1> QED
  BY <1>1, <1>2, <1>4, <1>5

LEMMA JobMoves ==
    ASSUME NEW t \in Task, call[t].at # "idle", call'[t].at # "idle",
           \A u \in Task \ {t} : call'[u] = call[u],
           call'[t].fn = call[t].fn, call'[t].key = call[t].key,
           call'[t].val = call[t].val
    PROVE  Jobs' = [Jobs EXCEPT ![t].phase = Phase(call'[t])]
<1>1. Jobs' = [Jobs EXCEPT ![t] = [@ EXCEPT !.phase = Phase(call'[t]),
                                            !.val = call'[t].val]]
  BY JobEnds
<1>2. [Jobs[t] EXCEPT !.phase = Phase(call'[t]), !.val = call'[t].val]
        = [Jobs[t] EXCEPT !.phase = Phase(call'[t])]
  <2> DEFINE w == call'[t].val
             q == Phase(call'[t])
             j == Jobs[t]
             R == [fn : {call[t].fn}, key : {call[t].key}, val : {w},
                   phase : {q}]
  <2>1. j \in [fn : {call[t].fn}, key : {call[t].key}, val : {w},
               phase : {Phase(call[t])}]
    BY JobOfFrame
  <2> HIDE DEF w, q, j
  <2>2. [j EXCEPT !.phase = q, !.val = w] \in R /\ [j EXCEPT !.phase = q] \in R
    BY <2>1
  <2>3. \A x \in R, y \in R : x = y
    OBVIOUS
  <2>4. [j EXCEPT !.phase = q, !.val = w] = [j EXCEPT !.phase = q]
    BY <2>2, <2>3
  <2> QED
    BY <2>4 DEF w, q, j
<1> QED
  BY <1>1, <1>2

LEMMA JobStays ==
    ASSUME NEW t \in Task, call[t].at # "idle", call'[t].at # "idle",
           \A u \in Task \ {t} : call'[u] = call[u],
           call'[t].fn = call[t].fn, call'[t].key = call[t].key,
           call'[t].val = call[t].val, Phase(call'[t]) = Phase(call[t])
    PROVE  Jobs' = Jobs
<1>1. Job(call'[t]) = Job(call[t])
  BY DEF Job
<1>2. \A u \in Task : Job(call'[u]) = Job(call[u])
  BY <1>1
<1> QED
  BY <1>2 DEF Jobs

(***************************************************************************)
(* Every library call is a step of the call's work in the store, or leaves *)
(* the store as it is: the refinement, for any module that knows the       *)
(* frames to be right.                                                     *)
(***************************************************************************)
LEMMA NvsStepWork ==
    ASSUME NvsTypeOK, PointsOK, SetIsStaged, OpenNeedsReady,
           NEW t \in Task, NvsStep(t)
    PROVE  \/ Calling!Work(t)
           \/ UNCHANGED <<flash, staged, part = "ready" \/ pages = "good",
                          Jobs>>
<1> DEFINE c == call[t]
           d == call'[t]
           U == part = "ready" \/ pages = "good"
<1>1. /\ \A u \in Task \ {t} : call'[u] = call[u]
      /\ call'[t].fn = call[t].fn
      /\ call'[t].key = call[t].key
      /\ call[t].at \notin {"idle", "returned"}
  BY NvsStepFrame
<1>2. call \in [Task -> Frame] /\ call' \in [Task -> Frame]
  BY NvsStepType DEF NvsTypeOK
<1>3. /\ Jobs[t].fn = call[t].fn /\ Jobs[t].key = call[t].key
      /\ Jobs[t].val = call[t].val /\ Jobs[t].phase = Phase(call[t])
  BY <1>1, JobOfFrame
<1>4. \A p : Goto(t, p) => call'[t].at = p /\ call'[t].val = call[t].val
  BY <1>2 DEF Goto, Frame
<1>5. \A r, v : Returns(t, r, v) => /\ call'[t].at = "returned"
                                    /\ call'[t].ret = r
                                    /\ call'[t].val = v
  BY <1>2 DEF Returns, Frame
<1>6. ASSUME GivesUp(t), call[t].at \in {"init", "reinit", "open", "set",
                                         "commit", "get"},
             UNCHANGED <<flash, staged, part, pages>>
      PROVE  Calling!Fail(t)
  <2>1. /\ call'[t].at = "returned" /\ call'[t].ret = "fail"
        /\ call'[t].val = FailValue(call[t])
    BY <1>5, <1>6 DEF GivesUp
  <2>2. Phase(call'[t]) = "fail"
    BY <2>1 DEF Phase
  <2>3. FailValue(call[t]) = Calling!Default(Jobs[t])
    BY <1>3 DEF FailValue, Calling!Default
  <2>4. Jobs' = [Jobs EXCEPT ![t] = [@ EXCEPT !.phase = Phase(call'[t]),
                                              !.val = call'[t].val]]
    BY <1>1, <2>1, JobEnds
  <2>5. Jobs' = [Jobs EXCEPT ![t] = [@ EXCEPT !.phase = "fail",
                                        !.val = Calling!Default(Jobs[t])]]
    BY <2>1, <2>2, <2>3, <2>4
  <2>6. Jobs[t].phase \in {"starting", "working", "closing"}
    BY <1>3, <1>6 DEF Phase
  <2> QED
    BY <1>6, <2>5, <2>6 DEF Calling!Fail, Calling!In, Jobs
<1>7. ASSUME NEW p \in Points \ {"idle", "returned"}, Goto(t, p)
      PROVE  /\ call'[t].at = p
             /\ Jobs' = [Jobs EXCEPT ![t].phase = Phase(call'[t])]
  BY <1>1, <1>4, <1>7, JobMoves
<1>8. ASSUME call'[t].at # "idle", call'[t].val = call[t].val,
             Phase(call'[t]) = Phase(call[t])
      PROVE  Jobs' = Jobs
  BY <1>1, <1>8, JobStays
<1>9. CASE FlashInitOk(t)
  <2>1. UNCHANGED <<flash, staged, U>> /\ U
    BY <1>9 DEF FlashInitOk
  <2>2. Jobs[t].phase = IF call[t].at = "init" THEN "starting" ELSE "working"
    BY <1>3, <1>9 DEF FlashInitOk, Phase
  <2>3. CASE call[t].fn = InitNvs /\ Returns(t, "ok", call[t].val)
    <3>1. Phase(call'[t]) = "ok"
      BY <1>5, <2>3 DEF Phase
    <3>2. Jobs' = [Jobs EXCEPT ![t].phase = "ok"]
      BY <1>1, <1>5, <2>3, <3>1, JobMoves
    <3>3. Calling!InitDone(t)
      BY <1>3, <2>1, <2>2, <2>3, <3>2
         DEF Calling!InitDone, Calling!In, Calling!Moves, Jobs
    <3> QED
      BY <3>3 DEF Calling!Work
  <2>4. CASE Goto(t, "open")
    <3>1. Phase(call'[t]) = "working"
      BY <1>4, <2>4 DEF Phase
    <3>2. Jobs' = [Jobs EXCEPT ![t].phase = "working"]
      BY <1>7, <2>4, <3>1 DEF Points
    <3>3. CASE call[t].at = "init"
      <4>1. Calling!Proceed(t)
        BY <2>1, <2>2, <3>2, <3>3
           DEF Calling!Proceed, Calling!In, Calling!Moves, Jobs
      <4> QED
        BY <4>1 DEF Calling!Work
    <3>4. CASE call[t].at # "init"
      BY <1>3, <1>4, <1>8, <2>1, <2>2, <2>4, <3>1, <3>4
    <3> QED
      BY <3>3, <3>4
  <2> QED
    BY <1>9, <2>3, <2>4 DEF FlashInitOk
<1>10. CASE FlashInitNoFreePages(t)
  <2> DEFINE p == IF call[t].fn = GetStr THEN "reinit" ELSE "erase"
  <2>1. UNCHANGED <<flash, staged, U>> /\ ~U
    BY <1>10 DEF FlashInitNoFreePages
  <2>2. Jobs[t].phase = "starting"
    BY <1>3, <1>10 DEF FlashInitNoFreePages, Phase
  <2>3. Goto(t, p) /\ p \in Points \ {"idle", "returned"}
    BY <1>10 DEF FlashInitNoFreePages, Points
  <2>4. /\ Jobs' = [Jobs EXCEPT ![t].phase = Phase(call'[t])]
        /\ call'[t].at = p
    <3> HIDE DEF p
    <3> QED
      BY <1>7, <2>3
  <2>5. CASE call[t].fn = GetStr
    <3>1. Phase(call'[t]) = "working"
      BY <2>4, <2>5 DEF Phase
    <3>2. Calling!Proceed(t)
      BY <2>1, <2>2, <2>4, <3>1
         DEF Calling!Proceed, Calling!In, Calling!Moves, Jobs
    <3> QED
      BY <3>2 DEF Calling!Work
  <2>6. CASE call[t].fn # GetStr
    <3>1. Phase(call'[t]) = "erasing"
      BY <2>4, <2>6 DEF Phase
    <3>2. Calling!Condemn(t)
      BY <1>3, <2>1, <2>2, <2>4, <2>6, <3>1
         DEF Calling!Condemn, Calling!In, Calling!Moves, Jobs
    <3> QED
      BY <3>2 DEF Calling!Work
  <2> QED
    BY <2>5, <2>6
<1>11. CASE FlashInitError(t)
  <2>1. UNCHANGED <<flash, staged, part, pages>>
    BY <1>11 DEF FlashInitError
  <2>2. call[t].at \in {"init", "reinit"}
    BY <1>11 DEF FlashInitError
  <2>3. Jobs[t].phase = IF call[t].at = "init" THEN "starting" ELSE "working"
    BY <1>3, <2>2 DEF Phase
  <2>4. CASE call[t].fn = SaveStr /\ Goto(t, "abort")
    <3>1. /\ Phase(call'[t]) = "stuck"
          /\ Jobs' = [Jobs EXCEPT ![t].phase = "stuck"]
      BY <1>7, <2>4 DEF Phase, Points
    <3>2. Calling!Abort(t)
      BY <1>3, <2>1, <2>3, <2>4, <3>1
         DEF Calling!Abort, Calling!In, Calling!Moves, Jobs
    <3> QED
      BY <3>2 DEF Calling!Work
  <2>5. CASE Goto(t, "open")
    <3>1. Phase(call'[t]) = "working"
      BY <1>4, <2>5 DEF Phase
    <3>2. Jobs' = [Jobs EXCEPT ![t].phase = "working"]
      BY <1>7, <2>5, <3>1 DEF Points
    <3>3. CASE call[t].at = "init"
      <4>1. Calling!Proceed(t)
        BY <2>1, <2>3, <3>2, <3>3
           DEF Calling!Proceed, Calling!In, Calling!Moves, Jobs
      <4> QED
        BY <4>1 DEF Calling!Work
    <3>4. CASE call[t].at # "init"
      BY <1>3, <1>4, <1>8, <2>1, <2>3, <2>5, <3>1, <3>4
    <3> QED
      BY <3>3, <3>4
  <2>6. CASE GivesUp(t)
    BY <1>6, <2>1, <2>2, <2>6 DEF Calling!Work
  <2> QED
    BY <1>11, <2>4, <2>5, <2>6 DEF FlashInitError
<1>12. CASE FlashErase(t)
  <2>1. call[t].at = "erase" /\ Jobs[t].phase = "erasing"
    BY <1>3, <1>12 DEF FlashErase, Phase
  <2>2. CASE Goto(t, "reinit") /\ flash' = [k \in Key |-> NoEntry]
               /\ staged' = [k \in Key |-> NoEntry] /\ pages' = "good"
    <3>1. /\ Phase(call'[t]) = "working"
          /\ Jobs' = [Jobs EXCEPT ![t].phase = "working"]
      BY <1>7, <2>2 DEF Phase, Points
    <3>2. Calling!Erase(t)
      BY <2>1, <2>2, <3>1
         DEF Calling!Erase, Calling!In, Calling!Moves, Calling!Empty, Jobs
    <3> QED
      BY <3>2 DEF Calling!Work
  <2>3. CASE Goto(t, "abort") /\ UNCHANGED <<flash, staged, part, pages>>
    <3>1. /\ Phase(call'[t]) = "stuck"
          /\ Jobs' = [Jobs EXCEPT ![t].phase = "stuck"]
      BY <1>7, <2>3 DEF Phase, Points
    <3>2. Calling!Abort(t)
      BY <2>1, <2>3, <3>1
         DEF Calling!Abort, Calling!In, Calling!Moves, Jobs
    <3> QED
      BY <3>2 DEF Calling!Work
  <2> QED
    BY <1>12, <2>2, <2>3 DEF FlashErase
<1>13. CASE OpenOk(t) \/ OpenFails(t)
  <2>1. UNCHANGED <<flash, staged, part, pages>> /\ call[t].at = "open"
    BY <1>13 DEF OpenOk, OpenFails
  <2>2. ASSUME NEW h, NEW p \in {"set", "get"},
               call' = [call EXCEPT ![t] = [call[t] EXCEPT !.handle = h,
                                                           !.at = p]]
        PROVE  Jobs' = Jobs
    <3>1. call'[t] = [call[t] EXCEPT !.handle = h, !.at = p]
      BY <1>2, <2>2
    <3>2. call'[t].at = p /\ call'[t].val = call[t].val
      BY <1>2, <3>1 DEF Frame
    <3>3. Phase(call'[t]) = Phase(call[t])
      BY <2>1, <3>2 DEF Phase
    <3> QED
      BY <1>8, <3>2, <3>3
  <2>3. CASE OpenOk(t)
    <3> DEFINE p == IF call[t].fn \in Savers THEN "set" ELSE "get"
    <3>1. /\ call' = [call EXCEPT ![t] = [call[t] EXCEPT !.handle = t,
                                                         !.at = p]]
          /\ p \in {"set", "get"}
      BY <2>3 DEF OpenOk
    <3> HIDE DEF p
    <3>2. Jobs' = Jobs
      BY <2>2, <3>1
    <3> QED
      BY <2>1, <3>2
  <2>4. CASE OpenFails(t)
    <3>1. CASE GivesUp(t)
      BY <1>6, <2>1, <3>1 DEF Calling!Work
    <3>2. CASE ~GivesUp(t)
      <4>1. PICK h \in Handle :
              call' = [call EXCEPT ![t] = [call[t] EXCEPT !.handle = h,
                                                          !.at = "set"]]
        BY <2>4, <3>2 DEF OpenFails
      <4>2. Jobs' = Jobs
        BY <2>2, <4>1
      <4> QED
        BY <2>1, <4>2
    <3> QED
      BY <3>1, <3>2
  <2> QED
    BY <1>13, <2>3, <2>4
<1>14. CASE SetOk(t)
  <2>1. /\ call[t].at = "set" /\ call[t].fn \in Savers
        /\ staged' = [staged EXCEPT ![call[t].key] = call[t].val]
        /\ flash' \in {flash, [flash EXCEPT ![call[t].key] = call[t].val]}
        /\ UNCHANGED <<part, pages>>
    BY <1>14 DEF SetOk, PointsOK
  <2>2. /\ Phase(call'[t]) = "closing"
        /\ Jobs' = [Jobs EXCEPT ![t].phase = "closing"]
    BY <1>7, <1>14 DEF SetOk, Phase, Points
  <2>3. Jobs[t].phase = "working"
    BY <1>3, <2>1 DEF Phase
  <2>4. Calling!Write(t)
    BY <1>3, <2>1, <2>2, <2>3
       DEF Calling!Write, Calling!In, Calling!Moves, Calling!Savers, Savers,
           Jobs
  <2> QED
    BY <2>4 DEF Calling!Work
<1>15. CASE SetFails(t)
  <2>1. UNCHANGED <<flash, staged, part, pages>> /\ call[t].at = "set"
    BY <1>15 DEF SetFails
  <2>2. CASE GivesUp(t)
    BY <1>6, <2>1, <2>2 DEF Calling!Work
  <2>3. CASE call[t].fn = SaveStr /\ Goto(t, "commit")
    <3>1. /\ Phase(call'[t]) = "closing"
          /\ Jobs' = [Jobs EXCEPT ![t].phase = "closing"]
      BY <1>7, <2>3 DEF Phase, Points
    <3>2. Jobs[t].phase = "working"
      BY <1>3, <2>1 DEF Phase
    <3>3. Calling!SkipWrite(t)
      BY <1>3, <2>1, <2>3, <3>1, <3>2
         DEF Calling!SkipWrite, Calling!In, Calling!Moves, Jobs
    <3> QED
      BY <3>3 DEF Calling!Work
  <2> QED
    BY <1>15, <2>2, <2>3 DEF SetFails
<1>16. CASE CommitOk(t)
  <2>1. /\ call[t].at = "commit" /\ call[t].handle \in open
        /\ flash' = [flash EXCEPT ![call[t].key] = staged[call[t].key]]
        /\ Returns(t, "ok", call[t].val)
        /\ UNCHANGED <<staged, part, pages>>
    BY <1>16 DEF CommitOk
  <2>2. U
    BY <2>1 DEF OpenNeedsReady
  <2>3. call[t].fn = SaveU32 => staged[call[t].key] = call[t].val
    BY <2>1 DEF PointsOK, SetIsStaged
  <2>4. Jobs[t].phase = "closing" /\ Phase(call'[t]) = "ok"
    BY <1>3, <1>5, <2>1 DEF Phase
  <2>5. Jobs' = [Jobs EXCEPT ![t].phase = "ok"]
    BY <1>1, <1>5, <2>1, <2>4, JobMoves
  <2>6. Calling!Saved(t)
    BY <1>3, <2>1, <2>2, <2>3, <2>4, <2>5
       DEF Calling!Saved, Calling!In, Calling!Moves, Jobs
  <2> QED
    BY <2>6 DEF Calling!Work
<1>17. CASE GetOk(t)
  <2>1. /\ call[t].at = "get" /\ call[t].fn \in Getters
        /\ call[t].handle \in open
        /\ staged[call[t].key] # NoEntry
        /\ Returns(t, "ok", staged[call[t].key])
        /\ UNCHANGED <<flash, staged, part, pages>>
    BY <1>17 DEF GetOk, PointsOK
  <2>2. U
    BY <2>1 DEF OpenNeedsReady
  <2>3. /\ Jobs[t].phase = "working" /\ Phase(call'[t]) = "ok"
        /\ call'[t].val = staged[call[t].key]
    BY <1>3, <1>5, <2>1 DEF Phase
  <2>4. Jobs' = [Jobs EXCEPT ![t] = [@ EXCEPT !.phase = Phase(call'[t]),
                                              !.val = call'[t].val]]
    BY <1>1, <1>5, <2>1, JobEnds
  <2>5. Jobs' = [Jobs EXCEPT ![t] = [@ EXCEPT !.phase = "ok",
                                         !.val = staged[Jobs[t].key]]]
    BY <1>3, <2>3, <2>4
  <2>6. Calling!Read(t)
    BY <1>3, <2>1, <2>2, <2>3, <2>5
       DEF Calling!Read, Calling!In, Calling!Getters, Getters, Jobs
  <2> QED
    BY <2>6 DEF Calling!Work
<1>18. CASE CommitFails(t) \/ GetFails(t) \/ GetNoMemory(t)
  <2>1. /\ GivesUp(t) /\ call[t].at \in {"commit", "get"}
        /\ UNCHANGED <<flash, staged, part, pages>>
    BY <1>18 DEF CommitFails, GetFails, GetNoMemory
  <2> QED
    BY <1>6, <2>1 DEF Calling!Work
<1> QED
  BY <1>9, <1>10, <1>11, <1>12, <1>13, <1>14, <1>15, <1>16, <1>17, <1>18
     DEF NvsStep

LEMMA JobSet ==
    ASSUME call \in [Task -> Frame], NEW t \in Task, NEW f,
           call' = [call EXCEPT ![t] = f]
    PROVE  Jobs' = [Jobs EXCEPT ![t] = Job(f)]
<1>1. Jobs' = [u \in Task |-> Job(call'[u])]
  BY DEF Jobs, Job, Phase
<1>2. \A u \in Task : call'[u] = IF u = t THEN f ELSE call[u]
  OBVIOUS
<1>3. \A u \in Task : Job(call'[u]) = IF u = t THEN Job(f) ELSE Jobs[u]
  BY <1>2 DEF Jobs
<1> QED
  BY <1>1, <1>3 DEF Jobs

LEMMA EnterJob ==
    ASSUME call \in [Task -> Frame], NEW t \in Task, NEW fn, NEW k, NEW v,
           Enter(t, fn, k, v)
    PROVE  Jobs' = [Jobs EXCEPT ![t] = [fn |-> fn, key |-> k, val |-> v,
                                        phase |-> "starting"]]
<1>1. Jobs' = [Jobs EXCEPT ![t] = Job(NewFrame(fn, k, v))]
  BY JobSet DEF Enter
<1>2. Job(NewFrame(fn, k, v)) = [fn |-> fn, key |-> k, val |-> v,
                                 phase |-> "starting"]
  BY DEF Job, Phase, NewFrame
<1> QED
  BY <1>1, <1>2

LEMMA LeaveJob ==
    ASSUME call \in [Task -> Frame], NEW t \in Task,
           call' = [call EXCEPT ![t] = IdleFrame]
    PROVE  Jobs' = [Jobs EXCEPT ![t] = [phase |-> "idle"]]
<1>1. Job(IdleFrame) = [phase |-> "idle"]
  BY IdleFrameType DEF Job
<1> QED
  BY <1>1, JobSet

LEMMA JobPhase ==
    ASSUME call \in [Task -> Frame], NEW t \in Task
    PROVE  /\ Jobs[t].phase = "stuck" => Aborted(t)
           /\ call[t].at = "idle" => Jobs[t].phase = "idle"
           /\ call[t].at = "returned" => Jobs[t].phase \in {"ok", "fail"}
<1>1. call[t].ret \in {"ok", "fail"}
  BY DEF Frame
<1>2. Jobs[t].phase = IF call[t].at = "idle" THEN "idle" ELSE Phase(call[t])
  BY DEF Jobs, Job
<1> QED
  BY <1>1, <1>2 DEF Phase, Aborted

(* Entering a function and leaving it.                                     *)

LEMMA EnterKeeps ==
    ASSUME NvsTypeOK, PointsOK, SetIsStaged, NEW t \in Task,
           NEW fn \in Functions, NEW k \in Key, NEW v \in Entry,
           Enter(t, fn, k, v), faults' \in 0 .. MaxFaults,
           UNCHANGED <<flash, staged, part, pages, open, leaked>>
    PROVE  /\ NvsTypeOK' /\ PointsOK' /\ SetIsStaged'
           /\ \A u \in Task \ {t} : call'[u] = call[u]
           /\ call'[t].fn = fn /\ call'[t].key = k /\ call'[t].val = v
           /\ call'[t].at = "init" /\ call'[t].handle = NoHandle
<1> USE DEF NvsTypeOK
<1>1. call' = [call EXCEPT ![t] = NewFrame(fn, k, v)]
  BY DEF Enter
<1>2. NewFrame(fn, k, v) \in Frame
  BY NewFrameType
<1>3. call' \in [Task -> Frame]
  BY <1>1, <1>2
<1>4. \A u \in Task \ {t} : call'[u] = call[u]
  BY <1>1
<1>5. call'[t] = NewFrame(fn, k, v)
  BY <1>1
<1>6. /\ call'[t].fn = fn /\ call'[t].key = k /\ call'[t].val = v
      /\ call'[t].at = "init" /\ call'[t].handle = NoHandle
  BY <1>5 DEF NewFrame
<1>7. PointsOK' /\ SetIsStaged'
  BY <1>4, <1>6 DEF PointsOK, SetIsStaged
<1> QED
  BY <1>3, <1>4, <1>6, <1>7

LEMMA LeaveKeeps ==
    ASSUME NvsTypeOK, PointsOK, SetIsStaged, NEW t \in Task,
           call' = [call EXCEPT ![t] = IdleFrame],
           UNCHANGED <<flash, staged, part, pages, open, leaked, faults>>
    PROVE  /\ NvsTypeOK' /\ PointsOK' /\ SetIsStaged'
           /\ \A u \in Task \ {t} : call'[u] = call[u]
           /\ call'[t].at = "idle" /\ call'[t].handle = NoHandle
<1> USE DEF NvsTypeOK
<1>1. call' \in [Task -> Frame]
  BY IdleFrameType
<1>2. \A u \in Task \ {t} : call'[u] = call[u]
  OBVIOUS
<1>3. call'[t].at = "idle" /\ call'[t].handle = NoHandle
  BY IdleFrameType
<1>4. PointsOK' /\ SetIsStaged'
  BY <1>2, <1>3 DEF PointsOK, SetIsStaged
<1> QED
  BY <1>1, <1>2, <1>3, <1>4

=============================================================================
