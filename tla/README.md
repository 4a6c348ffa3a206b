# catpilot: TLA+ specifications

catpilot is the operating-system and board-support layer of a drone autopilot, in C on
FreeRTOS (STM32H753 "cube" board, preemptive scheduler with fixed priorities, no time
slicing). These specifications model the parts of it where several tasks, interrupt
handlers or devices have to agree, check them with TLC on small instances, and prove
with TLAPS, for all instances, theorems about the ring buffer, the CAN and USART
drivers, the buses, the console with the descriptor table, and the barometer. Paths
below are relative to `src/`.

## 1. Inventory

| Component | State | Operations | Interacts with | What makes it correct |
|---|---|---|---|---|
| Ring buffer `os/freertos/services/misc/ring_buf.c` | bytes, two pointers, `count`, two mutexes, two binary semaphores | write, read, read with timeout, two size samples | tasks of the USART driver and the users of its ports | bytes come out in order, messages stay whole, no blocked task misses its wake-up |
| CAN `bsp/mcu/periph/can/stm32/can.c` | channel table, one queue per channel, transmit queue, two semaphores | interrupt handler, read and write task, open, read, write, ioctl | FDCAN controller, HAL, file layer | frames in order and once, tasks never stuck, no unexplained backlog |
| u-blox decoder `atomics/ublox/protocol/rx_framing` | parser state, two frame buffers, read buffer and index | exec, one frame per call | a serial port through `read` | same frames however the bytes are cut into reads, buffers never exceeded |
| CubeIO `bsp/ics/cubeio` | state, event mask, parameters, semaphores | state machine in a service task, a setter per event, start | control loop (`atomics/cube/io/pwm`), I/O processor over a USART | settings reach the I/O processor, safety follows the control loop, arming bits kept |
| USART `bsp/mcu/periph/usart/stm32` | two ring buffers, two mutexes, two semaphores, DMA buffers, port flags | transmit, receive, transmit_receive, two tasks, open, read, write, close | HAL, DMA, ring buffer, CubeIO, bridge | an answer belongs to its request, a DMA buffer has one owner |
| SPI, I2C, SDIO `bsp/mcu/periph/{spi,i2c,sdio}` | mutex, semaphore, HAL handle | transfers with a timeout, interrupt handlers | sensors, SD card | a late completion ends no other transfer, mutexes are given back by their holder |
| ADC, DMA, EXTI, IRQ, timers, GPIO, USB | registers, handler tables | init, start, callbacks | everything above | set up before use |
| Sensors (icm20602/20649/20948, ist8310, ms5611) | state machine, samples | reset, configure, operate, start | SPI, I2C, EXTI, services | start returns, samples are attributed to the right quantity |
| SD card, `os/fatfs/port/diskio.c` | mutex, card information | init, read, write, ioctl | SDIO, FatFs | no self-deadlock |
| File layer `os/fatfs/fsa` | descriptor table, node tree, FAT file pool | open, read, write, close, mount | all drivers | one descriptor, one owner; close once |
| Command line, commands | current command, condition variable | submit, run, wait for the end | file layer, POSIX layer | no lost end-of-command signal |
| Service, serial bridge, monitor | service table | start, loop | CubeIO, sensors, ports | period, table bound |
| Heap `os/freertos/memmang/heap_custom.c` | heap end, region selector, bytes left | sbrk, malloc lock | everything | accounting equals what was given out |
| Board start `bsp/boards/cube` | static configuration | init | all drivers | order of start |
| Atomics (`cube`, `ctlst`, `odrive`) | few flags | exec | drivers, flight code | copy what the driver has |
| ctlst board, vendored code (FreeRTOS, POSIX layer, FatFs, HAL, USB stack) | | | | not part of this project |

Behaviours that are hard here: tasks that sample shared state and act on it after a lock
was released (ring buffer, event mask, CAN queues); binary semaphores that carry fewer
tokens than there were events (CAN reception, transmit completion); timeouts followed by
a late answer (CAN, USART, bus transfers); requests whose failure is ignored (CubeIO);
buffers with a hand-computed bound (decoder); tables and lines of text that several
threads change without a lock (descriptors, command line). `PROJECT.json` lists them one
by one under `hazards`, each at its line.

## 2. Modules

| Module | Models | Kind |
|---|---|---|
| `ByteQueue` | the promise of the ring buffer: an unbounded byte queue with one message written at a time | abstract specification |
| `RingBuf` | `ring_buf.c`, one step per lock, sample, copy and store | detailed, implements `ByteQueue` |
| `RingBufProofs` | theorems about `RingBuf` | proofs |
| `Can` | `can.c`: handler, both tasks, file operations, and the controller as the driver sees it | component |
| `UbloxFraming` | `ublox_protocol_rx_framing_exec.c`, byte by byte, with `Frames` as reference definition | component and reference |
| `CubeIO` | `cubeio.c` with `cube_io_pwm_exec` as the caller and the register file of the I/O processor | component |
| `Usart` | `usart.c` and the HAL calls under it: the steps of a transmission and a reception, the interrupt handler, the peripheral with its DMA streams | component |
| `UsartStream` | `usart_read_task`, `usart_write_task` over `Usart`: a port as a file | composition |
| `UsartRequest` | `usart_transmit_receive` over `Usart`, called as `cubeio_write_regs` does: a port as a line to a device | composition |
| `Bus` | `spi.c`, `i2c.c`, and `sdio.c` under `sd.c`: a transfer on a bus that tasks share | component |
| `Files` | `stdio.c`, `fatfs.c`, open and close of `usart.c` and `usb.c`: the descriptor table and what a driver keeps between open and close | component |
| `Cli` | `cli/service.c`: editing a line, handing it over, executing it | component |
| `Console` | `Files` and `Cli` with `serial_bridge_commander`: the command line on the descriptors | composition |
| `Ms5611` | `ms5611.c`: the state machine of the barometer | component |
| `UsartProofs`, `UsartRequestProofs`, `CanProofs`, `CubeIOProofs`, `BusProofs`, `ConsoleProofs`, `DeviceProofs` | theorems about `UsartStream`, `UsartRequest`, `Can`, `CubeIO`, `Bus`, `Console`, and in the last about `UbloxFraming` and `Ms5611` | proofs |
| `MC*` | instances for TLC | model checking |

Operators whose comment begins with `Mutant:` (`WEnterUnserialised`, `DropThenRetry`,
...) are deliberately wrong variants of the action that follows them. They are not part
of any specification: `PROJECT.json` pairs each with a property, and TLC finds that
property violated when the variant takes the place of the action. They document what
each property is able to detect.

### 2.1 RingBuf

Code to model: `start_ptr[]` is `mem`, the two pointers are indices, `rw_mutex` and
`cont_mutex` hold the name of their owner, `r_sem` and `w_sem` are 0 or 1. Each writer
has a program counter `wpc`, the bytes left to write `buf`, and the local `t_length`;
`wreg` and `rreg` are values loaded for `count` between the copy and the store, so the
code between lock and unlock is two steps. The reader has `rpc`, `length`, `data_size`
and `out`. `ring_buf_read` is `ring_buf_read_timeout` with an infinite timeout: `timed`
tells them apart. `WCall` and `RCall` are the calls, `WGetFreeSize` and `RGetDataSize`
the samples (lock, read, unlock in one step: the lock is free at that step), `WWait`,
`RWait` the semaphore waits, `RTimeout` the elapsed timeout, then lock, copy, store.

One reader: in the repository the read task, the write task and each port have one
reading side. Two readers would break it (`ring_buf.c:127`): a `data_size` sampled by
one could exceed `count` when it is used.

`ByteQueue` is the abstract specification: `Put(n)` appends the next `n` bytes of the
message whose turn it is, `Get(n)` takes `n` bytes. In the refinement mapping the queue
is `Contents`, the cells from `read_ptr` on, and the turn is `cont_mutex`.

### 2.2 Can

The controller is a receive FIFO, a transmit FIFO and interrupt flags. `Arrive`, `Sent`,
`NotAcknowledged` are the bus. The handler is atomic in its own branches (`HandleTC`,
`HandleRF0N`) and two steps when it goes on to the HAL handler (`HandleOther`,
`HandleHAL`), because the flags are read again there; tasks do not run while it does.
The read task is one step per frame taken and per channel offered the frame, and `Drop`
is the receive that makes room. In the write task drain, start and wait are separate.

`tx_mutex` and `rx_mutex` are left out: each has one taker. `can_close` is not
implemented in the code, so channels stay. `bound` is chosen in the first state from
`Bounds`, the bounds of the instance: how many frames the bus brings, how many the
application writes, how often a filter is moved.

### 2.3 UbloxFraming

`ubx_process` takes one byte per step through `WaitStart`, `UbxWaitSC2`,
`UbxWaitLength`, `UbxWaitRest`, `RtcmWaitLength`, `RtcmWaitRest`; checksum, length
fields and the two comparisons are computed as in the code. `Call` is a call of exec,
`Read` refills the buffer with a chunk of the line, `ReadNothing` and `ReadFails` are
empty and failed reads. `Frames` defines, by recursion on the line, which frames a line
contains, independent of reads and calls: a line falls into units (a frame, a header that
claims too much, bytes that start nothing), `UnitSize` says where the unit at a position
ends, `FrameOf` which frame it is, `FramesFrom` what there is from each position on.

### 2.4 CubeIO

Two threads: the service running `cubeio_fsm` and one application thread that calls
`cube_io_pwm_exec` or another setter. Event mask updates are a load and a
store (`PopLoad`/`PopStore`, `PushLoad`/`PushStore`). `param` are the values behind the
setters; `DIRECT_PWM` holds two channels, copied one after the other, so torn values are
possible; the driver's read of them is one step.

A pass is a list of requests, `todo`: those of the event being served, then the periodic
ones (`Routine`). A request is a packet (`MakePacket`) and up to `ATTEMPTS` attempts
(three in the code); each attempt is one call of `usart_transmit_receive`, with the
outcomes that `UsartRequest` shows step by step. `port` is what a call leaves of the
port and `late` the answers that are still to come:

- `WriteAnswered`, `ReadAnswered`: the I/O processor, whose registers are `io`, has
  executed the request and its answer is in time;
- `Damaged`: the answer, or what it answers, is rejected (`cubeio.c:368-381`);
- `TimedOut`: the request is executed or not, its answer lost or late; the reception
  stays, and the idle interrupt stays enabled (`port = "busy"`, `usart.c:207-215`);
- `Refused`: the next attempts, and the attempts of the next requests, return
  `HAL_BUSY`, but their requests are sent. A late answer that ends while such a call is
  in progress ends the old reception (`port = "ready"`), and the transmitter may then be
  refused (`TransmitterRefused`);
- `AnswerComes`: a late answer that ends between two calls finds `rx_state` free; its
  interrupt comes again for ever (`port = "locked"`, `usart.c:402`, `Storm`);
- `WriteMistaken`, `ReadMistaken`, `ReadRejected`: a late answer ends a call that is not
  the one it answers. A write takes any answer, executed or not, and a read any that has
  its count (`Fits`), because no page or offset is compared.

The history says what the code drops. `lost` are events wiped out by the unlocked store,
`failed` those with a request that failed, `mistaken` registers about which a late answer
was believed while the write was lost or the bits were another register's. `Accounted`
and `Armed` then say that a parameter, or an arming bit, is missing for no other reason.

### 2.5 Usart, UsartStream, UsartRequest

`Usart` holds what both uses of a port share. The HAL handle is `gState`, `RxState` and
`Lock`; the port's registers are `TCIE`, `EIE`, `DMAR`, `IDLEIE` and the flags `ORE`,
`NE` (also framing errors), `IDLE`, with the data register `rdr`; the DMA streams are
`txpos`/`txlen` over `txbuf` and `got`/`dma` over `rxbuf`. `tx_state`, `rx_state`,
`rx_count` and the two semaphores are the driver's. `HAL_UART_Receive_DMA` is three
steps (`ReceiveStart` up to the armed stream, `ReceiveErrors` the error interrupt,
`ReceiveRequests` the DMA requests), `HAL_UART_Transmit_DMA` two, because interrupts
come in between. `usart_handler` is one step and runs before any task (`At`, `WStep` ask
for `~Pending`), so an interrupt it does nothing about, `Storm`, stops all of them. The
peripheral (`TransmitByte`, `ReceiveByte`, `Silence`) goes on at any moment.

`UsartStream` has the two tasks of an open port. A ring buffer is what `ByteQueue`
promises, bytes are numbered. `UsartRequest` has one thread that makes requests with
repeated attempts; a packet is its number repeated, shorter in an answer than in the
buffer, and the packets of successive requests lie in the same place on the stack. Where
a transfer goes wrong, `slips` remembers how: `early_tx` and `early_idle` (the handler
found a state announced and no transfer begun), `refused_tx` and `refused_rx` (the HAL
returned busy or error), `timeout`, and, of the line, `gap` and `noise`.

What the model showed and a reader of the code may not expect: bytes that came in before
`usart_receive` stay in the data register, and since `usart.c:155` clears the idle flag,
they are delivered with the bytes that follow them and not before (`ReceiveReturns` asks
for bytes after the call for that reason). When the rest of a broken answer ends a call
at once, the request of that call is still being sent, and the next call is refused
(`NeverRefused`).

### 2.6 Bus

One module for three drivers, because they are one design: take `p.mutex` with a
timeout, drain `p.sem`, start a DMA transfer, wait for the handler with a timeout, give
the mutex. `kind` selects what differs. Around the transfer spi has the mutex of the
chip select and the card the mutex of `sd.c` (`outer`); i2c has nothing. sdio polls the
card first (`CardReady`, `CardTimeout`). A failed transfer gives the semaphore on sdio
only (`Signals`): on spi the failure goes to the DMA handlers, on i2c to
`i2c_er_handler`, and those do not give it. A refused address is different: the i2c
event handler sees a HAL that is ready again. `TransferEnds` is the hardware,
`Interrupt` the handler; the two are apart, so that a transfer can end, and its
interrupt be served, in any later call.

Where the three leave by different ways the model does too: after the mutex timeout
`sdio.c` goes to `free` and gives a mutex it does not hold (`MutexTimeout`). `owner`,
`moved`, `late` and `nacked` are history: whose transfer runs, whether its data moved,
whether an earlier one was still under way when the semaphore was drained, whether the
device refused it.

### 2.7 Files, Cli, Console

`Files` is the descriptor table, `files` and `node`, and two drivers under it. A call is
a sequence of steps in `fpc`, because no lock is held over any of it: `fd_new` finds a
descriptor, `Take` takes it, `CallDriver` goes through the table once more. A serial
port has `port_open` and `tasks_init`, looked at in `PortCheck` and set in `PortSet`.
The FAT layer has `fatfs_index`, looked at in `FatCheck`, used in `FatCopy` and
`FatAttach` and counted in `FatCount`; `valid` are the file objects that are open, slots
or the one on a caller's stack. `fclose` is `FcloseDriver` followed by the steps of
`close`. `CloseResults` are the ways the driver's close can go: that of a FAT file fails
when the file is not open, and may fail when it is, since it writes the file back; the
file is then still open, the descriptor is not freed, and its caller has no more use for
it (`unclosed`). A call of a driver through NULL is the place `fault`, after which nothing runs.

`Cli` has the two threads: `Character`, `Backspace`, `Enter` are keys, which change `cmd`
and `cmd_len` without the mutex; `EchoLock`, `Broadcast`, `EchoUnlock` hand the line
over; `InvokerLock`, `CondWait`, `CondWakes`, `Execute`, `Executed` are the other side. A cell
of `cmd` is a letter, a space or zero; `Execute` leaves `Split` of it when the line is a
command, a zero behind each word, and what `cli_echo` goes on typing is that buffer
(`TypedIsSplit`).
The condition variable is the one of the POSIX layer: a number of waiting threads and a
counting semaphore.

`Console` puts the two together: a thread of `Files` is the invoker, which opens and
closes only while it executes, and keys come only while descriptor 0 is open.
`BridgeStart`, `BridgeClose`, `BridgeDeinit` are the command that connects the console's
own port to another one. `held`, `got`, `users` record what each thread was promised;
`raced`, `bridged`, `excused`, `unclosed`, `spoiled` that one of the known ways to break
it has happened.

### 2.8 Ms5611

A pass of the service reads the answer of the conversion that was asked for before,
stores it by `previous`, and asks for the next by `current`. The device does not say
what an answer is of, so the model tells an answer by its conversion: `D1`, `D2` are the
elements of `raw`, `T`, `P` those of `meas`, each with the conversion it came from.
Answers may be missing, 0xFFFFFF or of a lost command (`Answers`, `Exchange`).

## 3. Runs

| Run | Instance and bounds | Shows |
|---|---|---|
| `ringbuf` | size 2, two writers, messages of 1 and 3 bytes, reads of up to 1 and 3 bytes, with and without timeout | `NoLostWakeup`, `SampledSizesHold`, the refinement `ImplementsByteQueue`, `WriteReturns`, `ReadReturns` |
| `can` | 2 channels, queues of 1, FIFOs of 2; 3 frames and one filter change, or two writers and 3 writes | `RxOrder`, `RxBacklog`, `TxOrder`, `ReadThreadReturns`, `WriteReturns` |
| `ublox_framing` | 729 lines of three pieces; reads of up to 1, 5, 14 bytes; one empty or failed read | `UbxFits`, `ChunkIndependent`, `AllTaken` |
| `rtcm_overflow` | long frames | violation of `RtcmFits` |
| `cubeio` | 2 attempts, 1 late answer at a time, 2 spoiled attempts or 1 and a race; PWM of one value and disarming, the default rate of two values | `Armed`, `Accounted` |
| `cubeio_live` | 2 attempts, 1 spoiled one, 1 late answer at a time, 1 race; arming and disarming, PWM of one value | `Starts`, `SafetyFollows` |
| `usart_stream` | buffers of 2, two bytes written, two coming in, 16-bit ticks | `TxIntact`, `RxIntact`, `NoStorm`, `Awaited`, `WriteDrains`, `ReceiveReturns` |
| `usart_request` | packets of 3 bytes, answers of 2, two requests of up to two attempts, one damaged byte | `AnswerMatches`, `NoStorm`, `NeverRefused`, `CallReturns` |
| `cubeio_version` | I/O processor of another version | violation of `VersionChecked` |
| `bus` | each of the three kinds, two tasks with three calls each | `OneTransfer`, `OkMeansMoved`, `CallReturns` |
| `console` | two threads, 5 descriptors, 2 elements of `fatfs_files`, lines of 2 characters; 5 keys, 4 keys and one file, 2 keys and a file for each thread, or 1 key and two files for the invoker beside one | `DescriptorPrivate`, `PortExclusive`, `SlotBound`, `NoLeak`, `LineIntact`, `EnterHeard` |
| `ms5611` | none but the five failed attempts of the code | violation of `MeasFromItsConversion` |

Why these bounds are enough to be interesting. Ring buffer: size 2 with messages of 3
makes a writer wait in the middle of a message and makes copies wrap; the second writer
competes for the turn. CAN: two channels and queues of one are what it takes for a
channel to overflow and a later one to be offered the wrong frame; three frames let two
interrupts merge before the thread runs; FIFO depth 2 leaves one unsent frame behind a
refused or timed-out one. Receiving and transmitting share nothing but the handler, so
they are looked at one at a time; the proofs have no such limit. Decoder: pieces include
good frames of both kinds, one with a bad checksum, oversize ones and start bytes in
wrong places; a chunk of 1 cuts everywhere, 14 puts two frames in one read. CubeIO: two
spoiled attempts of two are one request that fails for good, or a timeout and, later, a
request that is lost while the late answer passes for its own; a late answer spoils
further calls without counting as one; one race is one lost or revived event, beside
one spoiled attempt (`MaxSlips`). Two values of the default rate let it change while the
change before is being served. One late
answer at a time is enough for each outcome of an attempt to occur; the proofs have no
such bound. The liveness run has one spoiled attempt, which is what a timeout
takes, with the refusals, the mistaken answers and the lock-up that come of it. USART: a buffer of two can be
filled, half filled and left empty, two bytes come in one reception or in two, and the
transmission of two takes one or two rounds of the write task; the safety properties
were also checked with three bytes on either side. A tick counter of 16 bits keeps the
overflow of `pdMS_TO_TICKS`, and `tx_rx_timeout` is its `portMAX_DELAY`, as in
`usart_cfg.c`. For requests an answer of two bytes can break in the middle, a packet of
three leaves room behind it, and two attempts of two requests are four calls, in which a
late answer can reach the next attempt and the next request. Bus: a transfer can outlive
the call that started it and the one after it, and end in a third; two tasks are enough
to hold and to miss both mutexes. Console: three descriptors are the console's, two are
left to be fought over; two elements of `fatfs_files` are one that the check admits and
the one that it leaves free; a line of two characters can be full, shortened, split and
empty, and the second line can be typed while the first is executed.

Fairness. Ring buffer: each writer inside a call and the reader inside one go on when
they can (weakly fair), and the reader calls again, as `usart_write_task` does in its
loop; nothing makes a writer call. CAN: the interrupt handler and both driver tasks are
weakly fair, a blocked `xQueueSend` is strongly fair, because another writer may take
the room first and FreeRTOS wakes blocked tasks in turn; nothing is assumed of the bus,
whose frames may never come or be acknowledged. Decoder: calls, reads that bring bytes
and byte steps are weakly fair: the callers are periodic blocks and the line is read to
its end. CubeIO: the driver's thread and that of the application are strongly
fair, because the bound `MaxRaces` makes one wait for the other where the code would not;
in the liveness run the application executes only `cube_io_pwm_exec`, again and again. What is on the line comes
(`AnswerComes`), unless a call ends first with it. Spoiled attempts are bounded by
`MaxFaults`, so a run has finitely many of them. A request that is sent while the port is
busy is answered late or counts as spoiled, so a port does not stay busy for ever: an
answer comes that ends a call or locks up the processor.

USART: both tasks, the handler, the transmission and the end of a busy line are weakly
fair: each task of an open port is a loop, and a task that could run for ever and never
does would be starved by one of the same priority only if that one never blocks, which
is the read task when each of its calls is refused; `WriteDrains` excepts that case. In
`UsartRequest` the calling thread, whose wait times out, the handler and the
transmission are weakly fair, the device and the line are not.

Bus: a task inside a call (whose waits all have a timeout, or are for a mutex that such
a task holds) and the interrupt handler are weakly fair; nothing makes a transfer end.
Weak fairness is enough because calls are bounded and the last holder of a mutex has to
leave it free; a task that is kept from the mutex of a chip select by one of higher
priority that calls for ever is not looked at. Console: the steps of `cli_echo` and
`cli_invoker` outside a command are weakly fair, as they have one priority and block in
between; no command need return, no key need be pressed, no thread need open or close
anything.

Deadlock is checked in `ringbuf`, `cubeio`, `cubeio_live`. It is not in `can`, `bus`,
`console` and the USART runs, where frames, transfers, keys, bytes and requests are used
up at the bound, in the decoder runs, where the line ends, and in `ms5611`, where a
device that fails its calibration stops the driver.

Properties with an escape. `RxOrder` holds for a channel as long as no earlier one
overflowed; `ReadThreadReturns` excepts the read task waiting on an emptied queue;
`Accounted` excepts lost and failed events and mistaken registers, `Armed` a mistaken
arming register, and `Starts` and `SafetyFollows` a processor that is locked up; the USART properties except the slips they
name, each of which is needed: without it TLC finds the property violated. On a bus,
success means the data moved except after a transfer that was still under way (`late`)
and for an i2c device that refused (`nacked`). A descriptor is private except after two
opens chose it together (`raced`) or the console was bridged; a port has one user except
after a close, which the next open does not notice, or two opens at a time (`excused`);
a descriptor in use has somebody to close it, except after the second close of a FAT
file by `fclose` and for one whose `f_close` failed (`unclosed`); `SlotBound` says how far three and more threads can write past the
array; the line executed is the line entered except when a key was pressed meanwhile, or when the
command before it split what was typed of it (`spoiled`). These exceptions are the behaviour of the code (`can.c:239`, `can.c:240`,
`cubeio.c:126`, `cubeio.c:368`, `cubeio.c:485`, `usart.c:118`, `usart.c:156`, `usart.c:164`,
`usart.c:207`, `usart.c:402`, `usart.c:272`, `spi.c:90`, `sdio.c:74`, `i2c.c:145`, `stdio.c:55`,
`stdio.c:192`, `stdio.c:328`, `fatfs.c:178`, `fatfs.c:264`, `serial_bridge.c:269`,
`service.c:106`, `node.c:139`), stated so that
the property says how far the guarantee goes and no farther.

## 4. Findings

- `atomics/ublox/protocol/rx_framing/ublox_protocol_rx_framing_exec.c:141`: the bound on
  the RTCM length counts four bytes around the payload, the frame has six. Up to two
  bytes are written past `rtcm_buf` (run `rtcm_overflow`); `RtcmOverrunBounded` proves
  that it is never more.
- `bsp/ics/cubeio/cubeio.c:95`: `attempt` is reset after every answer, so a wrong
  protocol version never stops the driver (run `cubeio_version`).
- `bsp/ics/ms5611/ms5611.c:184`: the state that stores its answer as the temperature,
  `raw.D2`, asks for conversion D1, the four that store the pressure, `raw.D1`, for D2
  (run `ms5611`). The two are exchanged in every measurement, not only after a lost
  answer: `AlwaysExchanged` proves it for as long as 0xFFFFFF has not been read.

## 5. Proofs

`RingBufProofs` proves, from `SizeAssumption` (`Size` is a positive natural),
`DataAssumption` (the bytes, messages and lengths are what they should be) and
`ThreadAssumption` (the reader is no writer, `None` is no thread), for every instance:

- `TypeCorrect`, `WakeupsKept`, `SamplesKept`: the run's three invariants;
- `Implementation`: `Spec => BQ!Spec`, the refinement of `ByteQueue`.

The invariants are not inductive as they stand. `IInv` is their conjunction with
`Owners` (who holds which mutex follows from the program counters), `Sizes` (a sampled
size is at least 1 and still bounds what there is: while a writer has the turn only the
reader changes `count`, and it only lowers it, and the other way round for the reader; a
value loaded for `count` is still its value when it is stored, because `rw_mutex` is
held), `Pointers` (`write_ptr` is ahead of `read_ptr` by what the buffer holds, counting
what a thread between copy and store has moved already) and `Placed` (the bytes of a
writer between copy and store lie in the cells behind the last one counted).
`Invariance` shows that it holds initially and is kept by each action, one step per
action. `Implementation` then takes it as known in every state: a `WStore` is a `Put`
because the bytes lie behind the contents, an `RCopy` a `Get` because the cells copied
are the front of the contents.

`UsartProofs` proves about `UsartStream`, from `UsartAssumption` and, for the last two,
`StreamAssumption` (the counts of bytes are naturals):

- `WakeupsKept`: `Awaited`, a waiting task always has its interrupt ahead;
- `StormNeedsUpset`: `NoStorm`, with the same exceptions as the run;
- `PortTimeoutIsFinite`: with 32-bit ticks, a timeout of `portMAX_DELAY` milliseconds
  becomes 4294966 ticks, so `MayTimeOut` holds for the ports of `usart_cfg.c`;
- `TypeCorrect`: `TypeOK`, the positions and counts stay within the buffers;
- `BytesSentInOrder`, `BytesDeliveredInOrder`: `TxIntact` and `RxIntact`, with the same
  exceptions as the run.

The invariant of the first two, `IInv`, has one part for each direction. `SendInv`: a claimed
transmission has the HAL busy until the stream or the last byte raises an interrupt, and
meanwhile `tx_state` says so. `ReceiveInv`: between `usart.c:156` and the token the idle
interrupt is enabled; unless a slip has happened it is disabled everywhere else and no
token is left over, which is why no interrupt can find the port free. Only the handler
touches both parts.

The bytes need more (`BytesInv`). `TxInv`: unless the task is overtaken or refused, the
token comes when the transmission has ended (`TxPhase`), and what left the port, what
the stream has still to read and what is queued are the numbers 1, 2, ... on end
(`Numbered`). `RxInv`: a call begins with the stream off and counts only what its own
stream moved (`Stream`); the bytes delivered, those in memory, the one in the data
register and those to come are in ascending order (`Rising`).

`UsartRequestProofs` proves about `UsartRequest`, from `UsartAssumption` and
`RequestAssumption`, for packets and answers of every size: `AnswersMatch`
(`AnswerMatches`), `StormNeedsSlip` (`NoStorm`) and `RefusalNeedsSlip` (`NeverRefused`).
`IInv` says nothing of a call that a timeout or a gap has upset. Of the others `Core`
says that a call begins on a port where nothing runs any more and then passes through
the phases of one exchange: the stream is armed, then its requests are enabled
(`StreamInv`), the request goes out and is all there is on the line (`RequestInv`), the
answer comes only then, and silence after its last byte (`AnswerInv`); meanwhile the idle
interrupt is enabled exactly from the call's announcement to its answer (`ThreadInv`).
Hence the port takes no step at all while no call waits (`Resting`, `PortAsks`).
`BytesInv` adds, while there is no noise either, that what has come in and what is still
to come make up the answer. A remainder of an answer of no bytes is the only one that a
silence without a gap can leave (`Remainder`).

`CanProofs` proves about `Can`, from `CanAssumption` (identifiers are numbers with a
highest one, the sizes are positive): `TypeCorrect`, `ReceivedInOrder`,
`BacklogAccounted`, `SentInOrder`, which are the run's four invariants for any number of
channels, writers and frames. A step is first reduced to what it means for one direction
(`NextRxAction`, `NextTxAction`). `RxInv` says what links the logs to what is still to
come: everything in the log of a channel that no earlier channel's overflow has reached
came in before the frame in the read thread's variable and before all frames in the
controller (`LogOrder`, `FrameInHand`, `FifoOrder`), and a thread on its way to make
room stands at a channel that overflowed (`Dropping`), which is why the old frame it
brings back can reach only the channels that the property excepts. `TxInv` says the same
of bus, controller, write thread and queue, which hold frames in the order of the write
calls. `RxBacklog` is inductive as it stands.

`CubeIOProofs` proves about `CubeIO`, from `CubeIOAssumption`, for any set of pushed
events and any number of attempts, spoiled ones, late answers and races: `TypeCorrect`,
`StaysArmed` (`Armed`) and `ParametersAccounted` (`Accounted`), the run's three
invariants. `IInv` is `TypeInv` with four parts. `PhaseInv`: where the driver may be in
which state; the version is read first, then the arming bits are set. `ArmInv`: unless
that register was mistaken, the arming bits are in it and in every packet that replaces
it. `MaskInv`: between the load and the store of `eventmask` by one thread the other has
only added, or only taken away. `WayInv` follows a parameter to its register: where the
two differ, its event is still to be pushed, pushed, lost, failed, popped or served, or
the register was mistaken; and while the event is served, each of its registers is
written or mistaken or has its request among those left, and the packet carries the
value as it is now, unless the application has changed it since and the event is ahead
again. Who writes which register (`OwnRegisters`) keeps one event's requests from undoing
another's. The outcomes of an attempt are reduced to what the invariant tells
apart (`Attempt`, `AfterAttempt`): it is tried again; the request is over, having failed,
or having succeeded with the register written or mistaken; or a read goes on to its
write, with the bits of the register or with the register mistaken.

`BusProofs` proves about `Bus`, from `BusAssumption`, `TransfersSerialised`
(`OneTransfer`) and `SuccessMeansMoved` (`OkMeansMoved`). `IInv` is the type invariant
with `Serial`: who is inside a call holds the outer mutex, where there is one, and who
is in a transfer holds the inner one, unless this is sdio, whose inner mutex proves
nothing since anybody may have given it; and `Data`: the handle is busy exactly while a
transfer runs or its interrupt is due (`BusyRuns`), and for each task what the
semaphore, the transfer and the error code say of its call (`Tracked`).

`ConsoleProofs` proves about `Console`, from `FilesAssumption`, `CliAssumption` and
`ConsoleAssumption`, for any number of threads, ports and descriptors: `SlotsBounded`,
`PortsExclusive`, `DescriptorsPrivate`, `NoneLost` (`NoLeak`), `LinesIntact`. Each has a part of `IInv` of its
own. `SlotInv`: the files counted and the threads past the check together stay under the
bound, which needs the cardinality of the set of those threads. `PortInv`: without a
close or a race a port that has a user is marked open, or the user is about to mark it.
`PrivateInv`: as long as no descriptor was taken twice, each is held by one thread or is
in one call (`Owned`). `LeakInv`: a descriptor in the table is held by a thread, or named
by a step of a call that has not ended, or is a FAT file that is closed already, or one that
could not be closed;
a slot in use lies below `fatfs_index`, which never returns one (`SlotGiven`). `CliInv`: the cells of `cmd` up to the terminator are what was
entered last, until a key is pressed; a line that is being typed has no zero before its
end unless it was split.

`DeviceProofs` proves about `UbloxFraming`, from `FramingAssumption`, for every stream,
every way it is cut into reads and every buffer size: `UbxFramesFit` (`UbxFits`),
`FramingTypeCorrect` (`TypeOK`) and `RtcmOverrunBounded`, that the RTCM frame which runs
past `rtcm_buf` does so by at most two bytes, the difference between the checksum it has
and the one the bound allows for. `LineInv`: there is a byte to process whenever
`ubx_process` runs. `FrameInv`: a frame whose end is awaited has a length that was let
through, and has not reached it; the header is complete by then, so that no later byte
changes the length (`OneMore`).

What the decoder computes is proved there too: `FramesInOrder` (`ChunkIndependent`),
`FramesFinal` (what was put out is the beginning of the frames of the whole stream,
whatever is still to come) and `ReadsWhenDone` (when exec waits at its read at the end of
the stream, every frame has been taken; that it gets there is the liveness in
`AllTaken`). `FramesFrom(s)` is a recursive function, that is, some function that
satisfies an equation, if there is one. `RecursionExists` builds one position after the
other, from the end, by a least element of a set of naturals (`Downwards`, from the
library's `WFMin`), which needs no induction theorem over an operator; from there on
`FramesUnfold` gives one step of the recursion. The invariant, `OrderInv`, is about the
unit that is being read, `Unit`, which each state of `ubx_process` keeps in another place.
`BufferInv`: the byte processed next is the next one of the stream. `UnitInv`: the last
bytes processed are those of `Unit`. `AheadInv`: not only for the bytes processed but for
every longer part of the stream, its frames are those put out and those from the start of
`Unit` on; for the bytes processed alone this would not be inductive, since the next byte
changes what the earlier ones are a part of. A byte makes `Unit` longer or ends it
(`ByteStep`); a unit that ends has the size that `UnitSize` says whatever follows it
(`WholeSize`), so the recursion is unfolded there once (`BehindUnit`); a unit in progress
has no frame yet (`PartialIncomplete`), which gives `ChunkIndependent`.

About `Ms5611`, which `DeviceProofs` takes as the instance `MS`, it
proves `AlwaysExchanged`, that the finding of the run `ms5611` is no rare case, by the
invariant that the device holds the result the index says (`IndicesAgree`).

Only model-checked: liveness (`WriteReturns`, `ReadReturns`, `CallReturns`, `EnterHeard`,
`AllTaken` and the others), which the provers do not do. The checksum `ubx_calc_crc` is a
fold that no proof looks into: decoder and reference apply it to the same bytes.

## 6. Plan and limits

Done, in this order: `ByteQueue`, `RingBuf`, `Can`, `UbloxFraming`, `CubeIO`, `Usart`
with its two compositions, `Bus`, `Files`, `Cli`, `Console`, `Ms5611`, and the eight
modules of proofs. The safety invariants of the runs are all proved. Next would be a model of the state machines of the other sensors.

Not modelled, of the components that are:

- CubeIO: the I/O processor executes a request when it gets it or never; only its answer
  can be late. The bytes of a late answer go to the packet of the call that began the
  reception, by then possibly another part of the stack of the driver's thread: what that
  overwrites is not in the model. The numbers of channels, the scaling of values, what is
  in the copies, getters and statistics are left out.
- Bus: `spi_receive`, which nobody calls; `HAL_SPI_Receive_DMA` would set the state of
  the handle without looking at it, and so start while an earlier transfer runs. The
  errors after which `spi_it_handler` finds the handle ready while it only transmits
  (mode fault, frame error, underrun) do not occur to a master with NSS in software and
  without TI mode, as in `spi_cfg.c:10-21`.
- CAN: the scan of `can_open` looks one element past the channel table
  (`can.c:276-277`); what lies there is not in the model, and no property sees it.
- USART: ports without DMA, mode `USART_TIMEOUT`, parity, a second caller of
  `usart_transmit_receive`, which that driver's one user never has, the error flag
  (`usart.c:324`). They are separate paths beside the ones modelled. `sdio.c` converts
  its timeouts with the same macro that overflows in `usart.c:165`; the bus model has a
  timeout that may elapse at any moment, which includes that.
- Files: reading and writing, so not what an echo thread does once its descriptor is
  closed (its read returns at once and it tries again), nor the copying loop of the
  bridge, which passes the -1 of a read on as a length (`ring_buf.c:64`). A caller whose
  close fails does not try again.
- Command line: history, arrow keys, the table of commands, the arguments and their
  number.
- SD card: the status and size calls. `disk_ioctl` for the sector size takes the mutex
  twice (`sd.c:67`), but this configuration of FatFs never asks for it.

Not modelled at all, with the reason:

- USB tasks: they follow the packets of the vendored stack.
- Inertial and magnetic sensors: one thread each, over `Bus`; a configuration that fails
  starts again from reset without a limit, while the caller of start waits without a
  limit.
- Heap: `sbrk` runs with the scheduler suspended; what is left is arithmetic on the
  addresses of a linker script (`heap_custom.c:235`).
- Log: `log_module` writes with its mutex held and has no state to go wrong but that.
- Register setup of the peripherals, formatting, scaling of values, the ctlst board, the
  node tree, which is built once at start, and vendored code (FreeRTOS, its POSIX layer,
  FatFs, the HAL, the USB stack), which makes up most of the lines of the repository.
  FreeRTOS primitives appear by their meaning: a mutex has an owner, a binary semaphore
  holds at most one token, a queue is bounded and first-in first-out.
