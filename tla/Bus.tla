-------------------------------- MODULE Bus --------------------------------
(***************************************************************************)
(* bsp/mcu/periph/spi, i2c and sdio: a transfer over a bus that several    *)
(* tasks share.  The three drivers are one design: a mutex serialises the  *)
(* tasks, a DMA transfer is started, a binary semaphore that the interrupt *)
(* handler gives is waited for with a timeout.  They differ in three       *)
(* places, which kind selects: what is held around the transfer, whether   *)
(* the card is polled first, and what a failed transfer does.              *)
(*                                                                         *)
(* Nothing stops the DMA when a task gives up waiting: the transfer goes   *)
(* on, and ends during some later call, of any task.                       *)
(*                                                                         *)
(* Left out: the buffers and what is in them, the calls of sd.c that only  *)
(* look at the card, the error a start can return besides HAL_ERROR, and   *)
(* spi_receive, which nobody calls (HAL_SPI_Receive_DMA would start while  *)
(* another transfer runs).                                                 *)
(***************************************************************************)
EXTENDS Naturals

CONSTANTS
  TASKS,       \* the tasks that use the bus
  KINDS,       \* the kinds of bus to look at
  MAX_CALLS,   \* transfers a task asks for: the bound of the model
  NONE         \* no task

ASSUME BusAssumption ==
  /\ NONE \notin TASKS
  /\ KINDS \subseteq {"spi", "i2c", "sdio"}
  /\ MAX_CALLS \in Nat

VARIABLES
  kind,        \* which of the three drivers this is
  outer,       \* holder of spi's cs_mutex, or of the mutex of sd.c
  mutex,       \* holder of p.mutex
  sem,         \* p.sem
  State,       \* HAL: "READY" or "BUSY"
  ErrorCode,   \* HAL: the last transfer reported an error
  hw,          \* the transfer: none, "running", or how it ended, unserved
  pc,          \* where each task is in its call
  rv,          \* what its call returns
  calls,       \* calls it has made
  \* history
  owner,       \* the task whose current call started the transfer
  moved,       \* the data of this call was transferred
  late,        \* an earlier transfer was still under way when sem was drained
  nacked       \* the device refused this call's transfer

bus == <<outer, mutex, sem, State, ErrorCode, hw>>
history == <<owner, moved, late, nacked>>
vars == <<kind, bus, pc, rv, calls, history>>

Steps == {"idle", "select", "lock", "drain", "status", "start", "wait",
          "free", "deselect"}

Init ==
  /\ kind \in KINDS
  /\ outer = NONE /\ mutex = NONE /\ sem = FALSE
  /\ State = "READY" /\ ErrorCode = FALSE /\ hw = "none"
  /\ pc = [t \in TASKS |-> "idle"]
  /\ rv = [t \in TASKS |-> "none"]
  /\ calls = [t \in TASKS |-> 0]
  /\ owner = NONE
  /\ moved = [t \in TASKS |-> FALSE]
  /\ late = [t \in TASKS |-> FALSE]
  /\ nacked = [t \in TASKS |-> FALSE]

\* Mutant: the file system calls the sdio driver without the mutex of sd.c.
HasOuterSpi == kind = "spi"

\* The sensors hold the chip select around a transfer, the card its own mutex;
\* ist8310 holds nothing.
HasOuter == kind \in {"spi", "sdio"}

Goto(t, step) == pc' = [pc EXCEPT ![t] = step]
Return(t, value) == rv' = [rv EXCEPT ![t] = value]

-----------------------------------------------------------------------------
(* A call: spi_transmit, spi_transmit_receive, i2c_transmit, i2c_receive,    *)
(* and sdio_read_blocks, sdio_write_blocks under sd.c                        *)

Call(t) ==
  /\ pc[t] = "idle" /\ calls[t] < MAX_CALLS
  /\ calls' = [calls EXCEPT ![t] = @ + 1]
  /\ Goto(t, IF HasOuter THEN "select" ELSE "lock")
  /\ moved' = [moved EXCEPT ![t] = FALSE]
  /\ late' = [late EXCEPT ![t] = FALSE]
  /\ nacked' = [nacked EXCEPT ![t] = FALSE]
  /\ UNCHANGED <<kind, bus, rv, owner>>

\* xSemaphoreTake(cs_mutex or dev->mutex, portMAX_DELAY)
Select(t) ==
  /\ pc[t] = "select" /\ outer = NONE
  /\ outer' = t
  /\ Goto(t, "lock")
  /\ UNCHANGED <<kind, mutex, sem, State, ErrorCode, hw, rv, calls, history>>

\* Where a call ends that has, or thinks it has, the driver's mutex no more.
Leave(t) == Goto(t, IF HasOuter THEN "deselect" ELSE "idle")

\* A length of zero or no buffer.
Refuse(t) ==
  /\ pc[t] = "lock"
  /\ Return(t, "EINVAL")
  /\ Leave(t)
  /\ UNCHANGED <<kind, bus, calls, history>>

TakeMutex(t) ==
  /\ pc[t] = "lock" /\ mutex = NONE
  /\ mutex' = t
  /\ Goto(t, "drain")
  /\ UNCHANGED <<kind, outer, sem, State, ErrorCode, hw, rv, calls, history>>

\* After its timeout spi and i2c return; sdio goes to free, where it gives the
\* mutex that it could not take.
MutexTimeout(t) ==
  /\ pc[t] = "lock" /\ mutex # NONE
  /\ Return(t, "ETIMEDOUT")
  /\ IF kind = "sdio" THEN Goto(t, "free") ELSE Leave(t)
  /\ UNCHANGED <<kind, bus, calls, history>>

\* An interrupt that came after its task had given up left the semaphore given.
Drain(t) ==
  /\ pc[t] = "drain"
  /\ sem' = FALSE
  /\ late' = [late EXCEPT ![t] = State = "BUSY"]
  /\ Goto(t, IF kind = "sdio" THEN "status" ELSE "start")
  /\ UNCHANGED <<kind, outer, mutex, State, ErrorCode, hw, rv, calls>>
  /\ UNCHANGED <<owner, moved, nacked>>

\* sdio_check_status_with_timeout asks the card until it is ready for a transfer.
CardReady(t) ==
  /\ pc[t] = "status" /\ hw # "running"
  /\ Goto(t, "start")
  /\ UNCHANGED <<kind, bus, rv, calls, history>>

\* The card does not become ready, or does not answer.
CardTimeout(t) ==
  /\ pc[t] = "status"
  /\ Return(t, "ETIMEDOUT")
  /\ Goto(t, "free")
  /\ UNCHANGED <<kind, bus, calls, history>>

\* HAL_..._DMA on a handle that is READY starts the transfer.
StartOk(t) ==
  /\ pc[t] = "start" /\ State = "READY"
  /\ State' = "BUSY" /\ ErrorCode' = FALSE
  /\ hw' = "running"
  /\ owner' = t
  /\ Goto(t, "wait")
  /\ UNCHANGED <<kind, outer, mutex, sem, rv, calls, moved, late, nacked>>

\* The stream, or the command to the card, could not be started.
StartError(t) ==
  /\ pc[t] = "start" /\ State = "READY"
  /\ ErrorCode' = TRUE
  /\ Return(t, "HAL_ERROR")
  /\ Goto(t, "free")
  /\ UNCHANGED <<kind, outer, mutex, sem, State, hw, calls, history>>

StartBusy(t) ==
  /\ pc[t] = "start" /\ State = "BUSY"
  /\ Return(t, "HAL_BUSY")
  /\ Goto(t, "free")
  /\ UNCHANGED <<kind, bus, calls, history>>

\* Mutant: only the semaphore is looked at.
ResultUnchecked(value) == value

\* sdio adds what the handle says of the transfer to what it returns.
Result(value) ==
  IF kind = "sdio" /\ ErrorCode /\ value = "OK" THEN "ERROR" ELSE value

WaitDone(t) ==
  /\ pc[t] = "wait" /\ sem
  /\ sem' = FALSE
  /\ Return(t, Result("OK"))
  /\ Goto(t, "free")
  /\ UNCHANGED <<kind, outer, mutex, State, ErrorCode, hw, calls, history>>

\* Nothing aborts the transfer.
WaitTimeout(t) ==
  /\ pc[t] = "wait" /\ ~sem
  /\ Return(t, Result("ETIMEDOUT"))
  /\ Goto(t, "free")
  /\ UNCHANGED <<kind, bus, calls, history>>

\* xSemaphoreGive(p.mutex), by whoever calls it.
GiveMutex(t) ==
  /\ pc[t] = "free"
  /\ mutex' = NONE
  /\ Leave(t)
  /\ owner' = IF owner = t THEN NONE ELSE owner
  /\ UNCHANGED <<kind, outer, sem, State, ErrorCode, hw, rv, calls>>
  /\ UNCHANGED <<moved, late, nacked>>

\* Mutant: an error is returned before the mutex is given.
DeselectOnSuccess(t) ==
  /\ pc[t] = "deselect"
  /\ outer' = IF rv[t] = "OK" THEN NONE ELSE outer
  /\ Goto(t, "idle")
  /\ UNCHANGED <<kind, mutex, sem, State, ErrorCode, hw, rv, calls, history>>

\* spi_chip_deselect; the end of sdcard_read and sdcard_write
Deselect(t) ==
  /\ pc[t] = "deselect"
  /\ outer' = NONE
  /\ Goto(t, "idle")
  /\ UNCHANGED <<kind, mutex, sem, State, ErrorCode, hw, rv, calls, history>>

-----------------------------------------------------------------------------
(* The bus and its interrupt handlers *)

\* The DMA has moved the data, or the transfer has failed, or the device did not
\* acknowledge it.  It may also run on for ever.
TransferEnds(how) ==
  /\ hw = "running"
  /\ how = "nacked" => kind = "i2c"
  /\ hw' = how
  /\ moved' = IF how = "moved" /\ owner # NONE
              THEN [moved EXCEPT ![owner] = TRUE] ELSE moved
  /\ nacked' = IF how = "nacked" /\ owner # NONE
               THEN [nacked EXCEPT ![owner] = TRUE] ELSE nacked
  /\ UNCHANGED <<kind, outer, mutex, sem, State, ErrorCode, pc, rv, calls>>
  /\ UNCHANGED <<owner, late>>

\* The handlers give the semaphore when they find the handle READY again.  A
\* failure reaches spi through its DMA handlers, and i2c through i2c_er_handler,
\* and those do not.  (After a mode fault, a frame error or an underrun while it only
\* transmits spi_it_handler would; a master with NSS in software and without TI mode
\* meets none of them, spi_cfg.c:10-21.)
Signals == hw \in {"moved", "nacked"} \/ kind = "sdio"

Interrupt ==
  /\ hw \in {"moved", "failed", "nacked"}
  /\ State' = "READY"
  /\ ErrorCode' = (ErrorCode \/ hw # "moved")
  /\ sem' = (sem \/ Signals)
  /\ hw' = "none"
  /\ UNCHANGED <<kind, outer, mutex, pc, rv, calls, history>>

-----------------------------------------------------------------------------
Transfer(t) ==
  \/ Select(t) \/ Refuse(t) \/ TakeMutex(t) \/ MutexTimeout(t) \/ Drain(t)
  \/ CardReady(t) \/ CardTimeout(t)
  \/ StartOk(t) \/ StartError(t) \/ StartBusy(t)
  \/ WaitDone(t) \/ WaitTimeout(t) \/ GiveMutex(t) \/ Deselect(t)

Next ==
  \/ \E t \in TASKS : Call(t) \/ Transfer(t)
  \/ \E how \in {"moved", "failed", "nacked"} : TransferEnds(how)
  \/ Interrupt

\* A task that can run runs in the end, a timeout that is due expires, and an
\* interrupt is served.  Nothing makes a transfer end.
Fairness == (\A t \in TASKS : WF_vars(Transfer(t))) /\ WF_vars(Interrupt)

Spec == Init /\ [][Next]_vars /\ Fairness

-----------------------------------------------------------------------------
(* Correctness *)

TypeOK ==
  /\ kind \in KINDS
  /\ outer \in TASKS \cup {NONE} /\ mutex \in TASKS \cup {NONE}
  /\ sem \in BOOLEAN /\ ErrorCode \in BOOLEAN
  /\ State \in {"READY", "BUSY"}
  /\ hw \in {"none", "running", "moved", "failed", "nacked"}
  /\ pc \in [TASKS -> Steps]
  /\ rv \in [TASKS -> {"none", "EINVAL", "ETIMEDOUT", "HAL_ERROR", "HAL_BUSY",
                       "ERROR", "OK"}]
  /\ calls \in [TASKS -> 0 .. MAX_CALLS]
  /\ owner \in TASKS \cup {NONE}
  /\ moved \in [TASKS -> BOOLEAN] /\ late \in [TASKS -> BOOLEAN]
  /\ nacked \in [TASKS -> BOOLEAN]

InTransfer(t) == pc[t] \in {"drain", "status", "start", "wait"}

\* Two tasks are never between draining the semaphore and waiting for it, even
\* though an sdio call that times out gives a mutex it does not hold
\* (sdio.c:96-98): the mutex of sd.c keeps a second call away from that path.
OneTransfer == \A t, u \in TASKS : InTransfer(t) /\ InTransfer(u) => t = u

\* A call that returns success has moved its data.  Two cases are excepted,
\* which the drivers do not tell apart from success: the transfer of an earlier
\* call was still under way when this one drained the semaphore, so that its
\* interrupt is taken for this call's (spi.c:90-97, sdio.c:74-88); and an i2c
\* device did not acknowledge (i2c.c:145 looks at State and not at ErrorCode).
OkMeansMoved ==
  \A t \in TASKS :
    pc[t] = "idle" /\ rv[t] = "OK" => moved[t] \/ late[t] \/ nacked[t]

\* Every call returns, whatever the device does, and no task is left waiting for
\* a mutex that another took away.
CallReturns == \A t \in TASKS : pc[t] # "idle" ~> pc[t] = "idle"
============================================================================
