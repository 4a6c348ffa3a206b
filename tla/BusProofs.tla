----------------------------- MODULE BusProofs -----------------------------
(***************************************************************************)
(* Proofs about Bus, for any number of tasks and of calls: transfers are   *)
(* serialised, by the driver's mutex or by the one around it, and a call   *)
(* that returns success has moved its data or met one of the two cases in  *)
(* which the drivers cannot tell.                                          *)
(***************************************************************************)
EXTENDS Bus, TLAPS

-----------------------------------------------------------------------------
(* The invariant *)

Moving == {"drain", "status", "start", "wait"}
Inside == Moving \cup {"lock", "free", "deselect"}

\* What is held where.  In an sdio call p.mutex says nothing: it may have been given
\* by another call.
OuterHeld == HasOuter => \A t \in TASKS : pc[t] \in Inside => outer = t
InnerHeld == kind # "sdio" => \A t \in TASKS : pc[t] \in Moving \cup {"free"} => mutex = t

\* The handle is BUSY as long as a transfer has not been served.
BusyRuns == State = "BUSY" <=> hw # "none"

\* A transfer that the task itself has started, and nothing was under way before it.
Own(t) ==
  /\ hw = "moved" => moved[t]
  /\ hw = "nacked" => nacked[t]
  /\ sem => hw = "none" /\ (moved[t] \/ nacked[t] \/ (kind = "sdio" /\ ErrorCode))

Excused(t) == moved[t] \/ late[t] \/ nacked[t]

Tracked(t) ==
  /\ pc[t] \in {"status", "start"} => late[t] \/ (~sem /\ hw = "none")
  /\ pc[t] = "wait" => owner = t /\ (late[t] \/ Own(t))
  /\ pc[t] \in {"free", "deselect", "idle"} /\ rv[t] = "OK" => Excused(t)

Serial == OuterHeld /\ InnerHeld
Data == BusyRuns /\ \A t \in TASKS : Tracked(t)
IInv == TypeOK /\ Serial /\ Data

-----------------------------------------------------------------------------
(* Types *)

LEMMA InitTypeOK == Init => TypeOK
  <1>1. Init => calls \in [TASKS -> 0 .. MAX_CALLS] /\ pc \in [TASKS -> Steps]
    BY BusAssumption DEF Init, Steps
  <1> QED  BY <1>1, Zenon DEF Init, TypeOK

LEMMA ResultType ==
  \A value \in {"OK", "ETIMEDOUT"} : Result(value) \in {"OK", "ETIMEDOUT", "ERROR"}
  BY DEF Result

LEMMA LeaveType == \A t \in TASKS :
  TypeOK /\ Leave(t) => pc' \in [TASKS -> Steps]
  BY DEF TypeOK, Leave, Goto, Steps

LEMMA NextTypeOK == ASSUME TypeOK, [Next]_vars PROVE TypeOK'
  <1> USE DEF TypeOK, bus, history, Goto, Return, Steps
  <1>1. ASSUME NEW t \in TASKS, Call(t) PROVE TypeOK'
    BY <1>1, BusAssumption DEF Call
  <1>2. ASSUME NEW t \in TASKS, Select(t) PROVE TypeOK'
    BY <1>2 DEF Select
  <1>3. ASSUME NEW t \in TASKS, Refuse(t) PROVE TypeOK'
    BY <1>3, LeaveType DEF Refuse
  <1>4. ASSUME NEW t \in TASKS, TakeMutex(t) PROVE TypeOK'
    BY <1>4 DEF TakeMutex
  <1>5. ASSUME NEW t \in TASKS, MutexTimeout(t) PROVE TypeOK'
    BY <1>5, LeaveType DEF MutexTimeout
  <1>6. ASSUME NEW t \in TASKS, Drain(t) PROVE TypeOK'
    BY <1>6 DEF Drain
  <1>7. ASSUME NEW t \in TASKS, CardReady(t) \/ CardTimeout(t) PROVE TypeOK'
    BY <1>7 DEF CardReady, CardTimeout
  <1>8. ASSUME NEW t \in TASKS, StartOk(t) PROVE TypeOK'
    BY <1>8 DEF StartOk
  <1>9. ASSUME NEW t \in TASKS, StartError(t) \/ StartBusy(t) PROVE TypeOK'
    BY <1>9 DEF StartError, StartBusy
  <1>10. ASSUME NEW t \in TASKS, WaitDone(t) \/ WaitTimeout(t) PROVE TypeOK'
    <2>1. CASE WaitDone(t)
      BY <2>1, ResultType DEF WaitDone
    <2>2. CASE WaitTimeout(t)
      BY <2>2, ResultType DEF WaitTimeout
    <2> QED  BY <1>10, <2>1, <2>2
  <1>11. ASSUME NEW t \in TASKS, GiveMutex(t) PROVE TypeOK'
    BY <1>11, LeaveType DEF GiveMutex
  <1>12. ASSUME NEW t \in TASKS, Deselect(t) PROVE TypeOK'
    BY <1>12 DEF Deselect
  <1>13. ASSUME NEW how \in {"moved", "failed", "nacked"}, TransferEnds(how) PROVE TypeOK'
    BY <1>13 DEF TransferEnds
  <1>14. CASE Interrupt
    BY <1>14 DEF Interrupt
  <1>15. CASE UNCHANGED vars
    BY <1>15 DEF vars
  <1> QED
    BY <1>1, <1>2, <1>3, <1>4, <1>5, <1>6, <1>7, <1>8, <1>9, <1>10, <1>11, <1>12,
       <1>13, <1>14, <1>15 DEF Next, Transfer

-----------------------------------------------------------------------------
(* One transfer at a time *)

LEMMA SerialOneTransfer == ASSUME TypeOK, Serial PROVE OneTransfer
  <1>1. kind = "sdio" => HasOuter
    BY DEF HasOuter
  <1> QED
    BY <1>1 DEF OneTransfer, Serial, OuterHeld, InnerHeld, InTransfer, Inside, Moving

\* What a call holds changes only by its own steps.
LEMMA NextSerial == ASSUME TypeOK, Serial, [Next]_vars PROVE Serial'
  <1> USE DEF TypeOK, Serial, OuterHeld, InnerHeld, HasOuter, Inside, Moving,
              bus, history, Goto, Return
  <1>1. ASSUME NEW t \in TASKS, Call(t) \/ Drain(t) \/ CardReady(t) \/ CardTimeout(t)
        PROVE  Serial'
    BY <1>1 DEF Call, Drain, CardReady, CardTimeout
  <1>2. ASSUME NEW t \in TASKS, Select(t) PROVE Serial'
    BY <1>2, BusAssumption DEF Select
  <1>3. ASSUME NEW t \in TASKS, Refuse(t) \/ MutexTimeout(t) PROVE Serial'
    BY <1>3 DEF Refuse, MutexTimeout, Leave
  <1>4. ASSUME NEW t \in TASKS, TakeMutex(t) PROVE Serial'
    BY <1>4, BusAssumption DEF TakeMutex
  <1>5. ASSUME NEW t \in TASKS, StartOk(t) \/ StartError(t) \/ StartBusy(t)
        PROVE  Serial'
    BY <1>5 DEF StartOk, StartError, StartBusy
  <1>6. ASSUME NEW t \in TASKS, WaitDone(t) \/ WaitTimeout(t) PROVE Serial'
    BY <1>6 DEF WaitDone, WaitTimeout
  <1>7. ASSUME NEW t \in TASKS, GiveMutex(t) PROVE Serial'
    BY <1>7 DEF GiveMutex, Leave
  <1>8. ASSUME NEW t \in TASKS, Deselect(t) PROVE Serial'
    BY <1>8 DEF Deselect
  <1>9. ASSUME NEW how \in {"moved", "failed", "nacked"}, TransferEnds(how) PROVE Serial'
    BY <1>9 DEF TransferEnds
  <1>10. CASE Interrupt \/ UNCHANGED vars
    BY <1>10 DEF Interrupt, vars
  <1> QED
    BY <1>1, <1>2, <1>3, <1>4, <1>5, <1>6, <1>7, <1>8, <1>9, <1>10 DEF Next, Transfer

-----------------------------------------------------------------------------
(* Success means that the data was moved *)

LEMMA InitData == Init => Data
  BY DEF Init, Data, BusyRuns, Tracked

\* A step of a task that is not in a transfer, or that leaves semaphore, handle and
\* transfer alone, changes nothing for the others.
LEMMA OthersTracked ==
  ASSUME NEW t \in TASKS, NEW u \in TASKS, Tracked(u),
         pc'[u] = pc[u], rv'[u] = rv[u],
         moved'[u] = moved[u], late'[u] = late[u], nacked'[u] = nacked[u],
         \/ pc[u] \notin Moving
         \/ UNCHANGED <<kind, sem, hw, ErrorCode>> /\ (owner = u => owner' = u)
  PROVE  Tracked(u)'
  BY DEF Tracked, Own, Excused, Moving

LEMMA NextData ==
  ASSUME TypeOK, Serial, Data, [Next]_vars
  PROVE  Data'
  <1> USE DEF TypeOK, Data, bus, history, Goto, Return
  <1>0. \A t, u \in TASKS : pc[t] \in Moving /\ pc[u] \in Moving => t = u
    BY SerialOneTransfer DEF OneTransfer, InTransfer, Moving
  <1>1. ASSUME NEW t \in TASKS, Call(t) PROVE Data'
    <2>1. Tracked(t)'
      BY <1>1 DEF Call, Tracked
    <2>2. \A u \in TASKS \ {t} : Tracked(u)'
      BY <1>1, OthersTracked DEF Call
    <2> QED  BY <1>1, <2>1, <2>2 DEF Call, BusyRuns
  <1>2. ASSUME NEW t \in TASKS, Select(t) \/ TakeMutex(t) PROVE Data'
    <2>1. Tracked(t)'
      BY <1>2 DEF Select, TakeMutex, Tracked
    <2>2. \A u \in TASKS \ {t} : Tracked(u)'
      BY <1>2, OthersTracked DEF Select, TakeMutex
    <2> QED  BY <1>2, <2>1, <2>2 DEF Select, TakeMutex, BusyRuns
  <1>3. ASSUME NEW t \in TASKS, Refuse(t) \/ MutexTimeout(t) PROVE Data'
    <2>1. Tracked(t)'
      BY <1>3 DEF Refuse, MutexTimeout, Leave, Tracked
    <2>2. \A u \in TASKS \ {t} : Tracked(u)'
      BY <1>3, OthersTracked DEF Refuse, MutexTimeout, Leave
    <2> QED  BY <1>3, <2>1, <2>2 DEF Refuse, MutexTimeout, BusyRuns
  <1>4. ASSUME NEW t \in TASKS, Drain(t) PROVE Data'
    <2>1. Tracked(t)'
      BY <1>4 DEF Drain, Tracked, BusyRuns
    <2>2. \A u \in TASKS \ {t} : Tracked(u)'
      BY <1>0, <1>4, OthersTracked DEF Drain, Moving
    <2> QED  BY <1>4, <2>1, <2>2 DEF Drain, BusyRuns
  <1>5. ASSUME NEW t \in TASKS, CardReady(t) \/ CardTimeout(t) PROVE Data'
    <2>1. Tracked(t)'
      BY <1>5 DEF CardReady, CardTimeout, Tracked
    <2>2. \A u \in TASKS \ {t} : Tracked(u)'
      BY <1>5, OthersTracked DEF CardReady, CardTimeout
    <2> QED  BY <1>5, <2>1, <2>2 DEF CardReady, CardTimeout, BusyRuns
  <1>6. ASSUME NEW t \in TASKS, StartOk(t) PROVE Data'
    <2>1. Tracked(t)'
      BY <1>6 DEF StartOk, Tracked, Own
    <2>2. \A u \in TASKS \ {t} : Tracked(u)'
      BY <1>0, <1>6, OthersTracked DEF StartOk, Moving
    <2> QED  BY <1>6, <2>1, <2>2 DEF StartOk, BusyRuns
  <1>7. ASSUME NEW t \in TASKS, StartError(t) \/ StartBusy(t) PROVE Data'
    <2>1. Tracked(t)'
      BY <1>7 DEF StartError, StartBusy, Tracked
    <2>2. \A u \in TASKS \ {t} : Tracked(u)'
      BY <1>0, <1>7, OthersTracked DEF StartError, StartBusy, Moving
    <2> QED  BY <1>7, <2>1, <2>2 DEF StartError, StartBusy, BusyRuns
  <1>8. ASSUME NEW t \in TASKS, WaitDone(t) PROVE Data'
    <2>1. Result("OK") = "OK" => Excused(t)
      BY <1>8 DEF WaitDone, Result, Tracked, Own, Excused
    <2>2. Tracked(t)'
      BY <1>8, <2>1 DEF WaitDone, Tracked, Excused
    <2>3. \A u \in TASKS \ {t} : Tracked(u)'
      BY <1>0, <1>8, OthersTracked DEF WaitDone, Moving
    <2> QED  BY <1>8, <2>2, <2>3 DEF WaitDone, BusyRuns
  <1>9. ASSUME NEW t \in TASKS, WaitTimeout(t) PROVE Data'
    <2>1. Tracked(t)'
      BY <1>9 DEF WaitTimeout, Result, Tracked
    <2>2. \A u \in TASKS \ {t} : Tracked(u)'
      BY <1>9, OthersTracked DEF WaitTimeout
    <2> QED  BY <1>9, <2>1, <2>2 DEF WaitTimeout, BusyRuns
  <1>10. ASSUME NEW t \in TASKS, GiveMutex(t) PROVE Data'
    <2>1. Tracked(t)'
      BY <1>10 DEF GiveMutex, Leave, Tracked, Excused
    <2>2. \A u \in TASKS \ {t} : Tracked(u)'
      BY <1>10, OthersTracked DEF GiveMutex, Leave
    <2> QED  BY <1>10, <2>1, <2>2 DEF GiveMutex, BusyRuns
  <1>11. ASSUME NEW t \in TASKS, Deselect(t) PROVE Data'
    <2>1. Tracked(t)'
      BY <1>11 DEF Deselect, Tracked, Excused
    <2>2. \A u \in TASKS \ {t} : Tracked(u)'
      BY <1>11, OthersTracked DEF Deselect
    <2> QED  BY <1>11, <2>1, <2>2 DEF Deselect, BusyRuns
  <1>12. ASSUME NEW how \in {"moved", "failed", "nacked"}, TransferEnds(how) PROVE Data'
    <2>1. \A u \in TASKS : /\ moved[u] => moved'[u]
                           /\ nacked[u] => nacked'[u]
                           /\ owner = u /\ how = "moved" => moved'[u]
                           /\ owner = u /\ how = "nacked" => nacked'[u]
      BY <1>12, BusAssumption DEF TransferEnds
    <2>2. \A u \in TASKS : Tracked(u)'
      BY <1>12, <2>1 DEF TransferEnds, Tracked, Own, Excused
    <2> QED  BY <1>12, <2>2 DEF TransferEnds, BusyRuns
  <1>13. CASE Interrupt
    <2>1. \A u \in TASKS : Tracked(u)'
      BY <1>13 DEF Interrupt, Signals, Tracked, Own, Excused
    <2> QED  BY <1>13, <2>1 DEF Interrupt, BusyRuns
  <1>14. CASE UNCHANGED vars
    BY <1>14 DEF vars, BusyRuns, Tracked, Own, Excused
  <1> QED
    BY <1>1, <1>2, <1>3, <1>4, <1>5, <1>6, <1>7, <1>8, <1>9, <1>10, <1>11, <1>12,
       <1>13, <1>14 DEF Next, Transfer

-----------------------------------------------------------------------------
(* The theorems *)

\* The types, what is held where, and what a task knows of its transfer.
THEOREM Invariance == Spec => []IInv
  <1>1. Init => IInv
    <2>1. Init => Serial
      BY DEF Init, Serial, OuterHeld, InnerHeld, Inside, Moving
    <2> QED  BY <2>1, InitTypeOK, InitData DEF IInv
  <1>2. IInv /\ [Next]_vars => IInv'
    BY NextTypeOK, NextSerial, NextData DEF IInv
  <1> QED  BY <1>1, <1>2, PTL DEF Spec

\* Two tasks are never between draining the semaphore and waiting for it.
THEOREM TransfersSerialised == Spec => []OneTransfer
  <1>1. IInv => OneTransfer
    BY SerialOneTransfer DEF IInv
  <1> QED  BY Invariance, <1>1, PTL

\* A call that returns success has moved its data, unless an earlier transfer was
\* under way when it began, or an i2c device did not acknowledge.
THEOREM SuccessMeansMoved == Spec => []OkMeansMoved
  <1>1. IInv => OkMeansMoved
    BY DEF IInv, Data, Tracked, Excused, OkMeansMoved
  <1> QED  BY Invariance, <1>1, PTL
============================================================================
