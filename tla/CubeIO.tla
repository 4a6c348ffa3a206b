------------------------------- MODULE CubeIO -------------------------------
(***************************************************************************)
(* bsp/ics/cubeio: the driver of the I/O processor that drives the servos. *)
(* The application thread leaves a parameter in the driver and an event in *)
(* eventmask; the driver's thread (cubeio_fsm, called for ever by its      *)
(* service) pops the events in a fixed order and writes registers of the   *)
(* I/O processor over a serial line, each request answered or tried again. *)
(*                                                                         *)
(* The two threads share eventmask and the parameters without a lock       *)
(* (sync.mutex is taken by cubeio_fsm alone): each change of eventmask is  *)
(* a load and a store, and the other thread may run in between.            *)
(*                                                                         *)
(* The serial line: usart_transmit_receive gives up after 100 ms and leaves*)
(* the reception running and the idle interrupt enabled (usart.c:207-215). *)
(* UsartRequest shows what comes of it; here are the outcomes.  Until the  *)
(* late answer comes every further call is refused, its request sent all   *)
(* the same; the answer ends the reception if a call has just begun, and   *)
(* otherwise its interrupt, which nobody acknowledges, locks up the        *)
(* processor.  And an answer says neither which request nor which register *)
(* it is of: one that is late passes for that of a later request.          *)
(*                                                                         *)
(* The three reads that fill copies of the driver's (RC input, status,     *)
(* servos) are one, the servos of more than one channel.  Left out: the    *)
(* scaling of PWM values and what is in those copies.                      *)
(***************************************************************************)
EXTENDS Naturals, Sequences, FiniteSets

CONSTANTS
  PwmValues,    \* values of a PWM channel, positive numbers
  Values,       \* values of another parameter, positive numbers
  Settings,     \* the events besides PWM and safety that the application pushes
  Arms,         \* bound: what cube_io_pwm_exec may find in its input arm
  ATTEMPTS,     \* attempts of a request, 3 in cubeio_write_regs
  IoVersion,    \* protocol version the I/O processor reports
  MaxFaults,    \* bound: attempts that the line spoils
  MaxLate,      \* bound: answers that are late at the same time
  MaxRaces,     \* bound: times a thread loads eventmask while the other is
                \* between its load and its store
  MaxSlips      \* bound: both of these together

PROTOCOL_VERSION == 4

Events == {"SET_PWM", "SET_FAILSAFE_PWM", "FORCE_SAFETY_OFF", "FORCE_SAFETY_ON",
           "ENABLE_SBUS_OUT", "SET_RATES", "SET_IMU_HEATER_DUTY",
           "SET_DEFAULT_RATE", "BRUSHED_ON", "ONESHOT_ON", "SET_SAFETY_MASK"}

\* Those that are pushed at all: looking at the others changes nothing.
Pushed == Settings \cup {"SET_PWM", "FORCE_SAFETY_OFF", "FORCE_SAFETY_ON"}
IfPushed(e) == IF e \in Pushed THEN <<e>> ELSE << >>

\* The events in the order in which cubeio_fsm pops them.
Order ==
  IfPushed("SET_PWM") \o IfPushed("SET_FAILSAFE_PWM")
  \o IfPushed("FORCE_SAFETY_OFF") \o IfPushed("FORCE_SAFETY_ON")
  \o IfPushed("ENABLE_SBUS_OUT") \o IfPushed("SET_RATES")
  \o IfPushed("SET_IMU_HEATER_DUTY") \o IfPushed("SET_DEFAULT_RATE")
  \o IfPushed("BRUSHED_ON") \o IfPushed("ONESHOT_ON") \o IfPushed("SET_SAFETY_MASK")

ASSUME CubeIOAssumption ==
  /\ PwmValues \subseteq Nat \ {0} /\ Values \subseteq Nat \ {0}
  /\ Settings \subseteq Events \ {"SET_PWM", "FORCE_SAFETY_OFF", "FORCE_SAFETY_ON"}
  /\ Arms \subseteq BOOLEAN
  /\ ATTEMPTS \in Nat \ {0} /\ IoVersion \in Nat /\ MaxFaults \in Nat
  /\ MaxLate \in Nat /\ MaxRaces \in Nat /\ MaxSlips \in Nat

VARIABLES
  io,         \* the registers of the I/O processor
  \* the serial line
  port,       \* "ready", "busy" (a reception was left running), "locked" (up)
  late,       \* answers to attempts given up that are still to come, in order
  \* the driver, as both threads see it
  state, attempt, config,
  eventmask,
  param,      \* of each value register: the value the driver is to write
  iordy,      \* iordy_semaphore
  \* the driver's thread
  pc, k,      \* where it is; index into Order of the event it looks at
  todo,       \* the requests left to make, the first one being made
  att,        \* the attempt
  packet,     \* tx_pkt: register contents, of which it carries that of one
  fmask,      \* the eventmask it loaded
  \* the application
  started,    \* cubeio_start has returned
  agenda,     \* the setters the thread is in and has yet to call
  arg,        \* the value it passes
  apc, amask, \* where it is in the first of them; the eventmask it loaded
  want,       \* the safety state it asked for last
  \* bookkeeping
  faults, races,
  lost,       \* events that a store of the driver's thread wiped out
  failed,     \* events a request of which failed
  mistaken    \* registers that a late answer was taken for the answer about:
              \* not written, or written with bits read elsewhere

fsmvars == <<state, attempt, config, pc, k, todo, att, packet, fmask>>
appvars == <<started, agenda, arg, apc, amask, want>>
linevars == <<port, late>>
vars == <<io, linevars, fsmvars, eventmask, param, iordy, appvars,
          faults, races, lost, failed, mistaken>>

\* A processor that is locked up runs no thread.
Running == port # "locked"

-----------------------------------------------------------------------------
(* The requests each event stands for *)

\* Bits of the registers FEATURES and ARMING.
Bits == 0 .. 15
SBUS1_OUT == 0
ONESHOT == 4
BRUSHED == 5
IO_ARM_OK == 0
FMU_ARMED == 1
RC_HANDLING_DISABLED == 6
SAFETY_DISABLE_ON == 11
SAFETY_DISABLE_OFF == 12

FromParam(r) == [kind |-> "param", reg |-> r]
Magic(r, v) == [kind |-> "magic", reg |-> r, value |-> v]
Copy(page) == [kind |-> "copy", reg |-> page]
SetClear(r, set, clear) == [kind |-> "set_clear", reg |-> r, set |-> set, clear |-> clear]

Requests(e) ==
  CASE e = "SET_PWM" -> <<FromParam("DIRECT_PWM")>>
    [] e = "SET_FAILSAFE_PWM" -> <<FromParam("FAILSAFE_PWM")>>
    [] e = "FORCE_SAFETY_OFF" -> <<Magic("SAFETY", "off")>>
    [] e = "FORCE_SAFETY_ON" -> <<Magic("SAFETY", "on")>>
    [] e = "ENABLE_SBUS_OUT" -> <<FromParam("SBUS_RATE"), SetClear("FEATURES", {SBUS1_OUT}, {})>>
    [] e = "SET_RATES" -> <<FromParam("ALTRATE"), FromParam("PWM_RATE_MASK")>>
    [] e = "SET_IMU_HEATER_DUTY" -> <<FromParam("HEATER_DUTY_CYCLE")>>
    [] e = "SET_DEFAULT_RATE" -> <<FromParam("DEFAULTRATE")>>
    [] e = "BRUSHED_ON" -> <<SetClear("FEATURES", {BRUSHED}, {})>>
    [] e = "ONESHOT_ON" -> <<SetClear("FEATURES", {ONESHOT}, {})>>
    [] e = "SET_SAFETY_MASK" -> <<FromParam("IGNORE_SAFETY")>>

ArmBits == {IO_ARM_OK, FMU_ARMED, RC_HANDLING_DISABLED}
Arm == SetClear("ARMING", ArmBits, {})
SafetyOptions == SetClear("ARMING", {SAFETY_DISABLE_OFF}, {SAFETY_DISABLE_ON})
RcProtocols == Magic("RC_PROTOCOLS", 1)

\* The value registers an event writes from parameters.
Params(e) ==
  {Requests(e)[i].reg : i \in {j \in DOMAIN Requests(e) : Requests(e)[j].kind = "param"}}
ValueRegs == UNION {Params(e) : e \in Events}

\* What the bookkeeping is kept of: events that carry parameters, and the registers
\* written from them and the one that arms.
Carriers == {e \in Events : Params(e) # {}}
Watched == ValueRegs \cup {"ARMING"}

\* DIRECT_PWM holds the values of two channels, for all of them.
Zero(r) == IF r = "DIRECT_PWM" THEN <<0, 0>> ELSE 0

\* Registers after power-up, and a packet that carries nothing.
Registers == ValueRegs \cup {"SAFETY", "ARMING", "FEATURES", "RC_PROTOCOLS"}
Blank == [r \in Registers |->
            CASE r = "SAFETY" -> "on"
              [] r \in ValueRegs \cup {"RC_PROTOCOLS"} -> Zero(r)
              [] r \in {"ARMING", "FEATURES"} -> {}]

Init ==
  /\ io = Blank
  /\ port = "ready" /\ late = << >>
  /\ state = "RESET" /\ attempt = 0 /\ config = 0
  /\ eventmask = {}
  /\ param = [r \in ValueRegs |-> Zero(r)]
  /\ iordy = 0
  /\ pc = "top" /\ k = 1 /\ todo = << >> /\ att = 0 /\ packet = Blank /\ fmask = {}
  /\ started = FALSE /\ agenda = << >> /\ arg = 0 /\ apc = "idle" /\ amask = {}
  /\ want = "on"
  /\ faults = 0 /\ races = 0 /\ lost = {} /\ failed = {} /\ mistaken = {}

-----------------------------------------------------------------------------
(* Requests: cubeio_write_regs, cubeio_read_regs, cubeio_set_clear_reg *)

Carrying(r, v) == [Blank EXCEPT ![r] = v]

\* The packet is made before the first attempt: parameters that change later
\* are not in it.
MakePacket ==
  /\ pc = "request"
  /\ LET r == Head(todo)
     IN CASE r.kind = "param" -> pc' = "write" /\ packet' = Carrying(r.reg, param[r.reg])
          [] r.kind = "magic" -> pc' = "write" /\ packet' = Carrying(r.reg, r.value)
          [] r.kind \in {"set_clear", "copy"} -> pc' = "read" /\ UNCHANGED packet
  /\ att' = 0
  /\ UNCHANGED <<io, linevars, state, attempt, config, k, todo, fmask, eventmask, param,
                 iordy, appvars, faults, races, lost, failed, mistaken>>

\* Where the thread goes on after the last request of a kind of work.
AfterRequests ==
  IF state \in {"CONF", "FAIL"}
  THEN IF Head(todo).kind = "copy" THEN "version" ELSE "top"
  ELSE IF k <= Len(Order) THEN "pop" ELSE "give"

\* A request is over.  The result of a request made for an event is thrown
\* away; a failure of the one that arms is fatal.
Over(ok) ==
  /\ todo' = Tail(todo)
  /\ pc' = IF Len(todo) > 1 THEN "request" ELSE AfterRequests
  /\ state' = IF state = "CONF" /\ ~ok /\ Head(todo).kind # "copy" THEN "FAIL" ELSE state
  /\ k' = IF state = "OPERATION" /\ Len(todo) = 1 /\ k <= Len(Order) THEN k + 1 ELSE k
  /\ failed' = IF state = "OPERATION" /\ k <= Len(Order)
               THEN (IF ok THEN failed ELSE failed \cup ({Order[k]} \cap Carriers))
               ELSE failed
  /\ att' = 0 /\ packet' = Blank

\* Mutant: one attempt too many.
AgainOnceMore ==
  IF att < ATTEMPTS
  THEN att' = att + 1 /\ UNCHANGED <<todo, pc, k, state, failed, packet>>
  ELSE Over(FALSE)

\* The attempt failed: there is another one, or the request fails.
Again ==
  IF att + 1 < ATTEMPTS
  THEN att' = att + 1 /\ UNCHANGED <<todo, pc, k, state, failed, packet>>
  ELSE Over(FALSE)

\* The registers once the request is executed, and the answer to it: a write is
\* answered with no register, a set_clear reads one and a copy more than one.
Written == [io EXCEPT ![Head(todo).reg] = packet[Head(todo).reg]]
Executed == IF pc = "write" THEN Written ELSE io

Count == IF pc = "write" THEN 0 ELSE IF Head(todo).kind = "set_clear" THEN 1 ELSE 2
Answer == [count |-> Count, bits |-> IF Count = 1 THEN io[Head(todo).reg] ELSE {}]

\* cubeio_read_regs compares the number of registers, cubeio_write_regs does not;
\* neither compares page and offset.
Fits(answer) == pc = "write" \/ answer.count = Count

\* What the read was for.
Read(bits) ==
  LET r == Head(todo)
  IN IF r.kind = "copy"
     THEN /\ Over(TRUE)
          /\ config' = IF r.reg = "CONFIG" THEN IoVersion ELSE config
     ELSE /\ packet' = Carrying(r.reg, (bits \ r.clear) \cup r.set)
          /\ att' = 0 /\ pc' = "write"
          /\ UNCHANGED <<state, config, k, todo, failed>>

-----------------------------------------------------------------------------
(* Attempts: usart_transmit_receive and what the I/O processor does.  It *)
(* executes a request when it gets it or never; its answer may be late.  *)

Trying == pc \in {"write", "read"}
restvars == <<attempt, fmask, eventmask, param, iordy, appvars, races, lost>>

Fault == faults < MaxFaults /\ faults + races < MaxSlips /\ faults' = faults + 1

\* An answer is still to come, behind those in rest.
ToCome(rest, answer) == Len(rest) < MaxLate /\ late' = Append(rest, answer)

\* A request whose answer this call does not see: the answer is still to come,
\* or it is lost, or the request is.
Unseen(rest) ==
  \/ io' = Executed /\ ToCome(rest, Answer) /\ UNCHANGED faults
  \/ Fault /\ io' \in {Executed, io} /\ late' = rest

Mistake == mistaken' = mistaken \cup ({Head(todo).reg} \cap Watched)

WriteAnswered ==
  /\ pc = "write" /\ port = "ready" /\ late = << >>
  /\ io' = Written
  /\ Over(TRUE)
  /\ UNCHANGED <<linevars, config, faults, mistaken, restvars>>

\* A late answer is taken for the answer to this request, whether it was executed
\* or not.
WriteMistaken ==
  /\ pc = "write" /\ port = "ready" /\ late # << >>
  /\ Unseen(Tail(late))
  /\ Over(TRUE)
  /\ IF io' = Written THEN UNCHANGED mistaken ELSE Mistake
  /\ UNCHANGED <<port, config, restvars>>

\* Mutant: the bits read are forgotten.
ReadAnsweredOverwriting ==
  /\ pc = "read" /\ port = "ready" /\ late = << >>
  /\ Read({})
  /\ UNCHANGED <<io, linevars, faults, mistaken, restvars>>

ReadAnswered ==
  /\ pc = "read" /\ port = "ready" /\ late = << >>
  /\ Read(Answer.bits)
  /\ UNCHANGED <<io, linevars, faults, mistaken, restvars>>

ReadMistaken ==
  /\ pc = "read" /\ port = "ready" /\ late # << >> /\ Fits(Head(late))
  /\ Unseen(Tail(late))
  /\ Read(Head(late).bits)
  /\ IF Head(late) = Answer THEN UNCHANGED mistaken ELSE Mistake
  /\ UNCHANGED <<port, restvars>>

\* A late answer to a request of another kind, or one of which the call sees only
\* the end.
ReadRejected ==
  /\ pc = "read" /\ port = "ready" /\ late # << >>
  /\ Unseen(Tail(late))
  /\ Again
  /\ UNCHANGED <<port, config, mistaken, restvars>>

\* The request was damaged and the answer says so, or the answer was.  When it came
\* in pieces the rest, all zeros, may be an answer of no register to the next call.
Damaged ==
  /\ Trying /\ port = "ready"
  /\ Fault
  /\ io' \in {Executed, io}
  /\ UNCHANGED late \/ ToCome(late, [count |-> 0, bits |-> {}])
  /\ Again
  /\ UNCHANGED <<port, config, mistaken, restvars>>

\* No answer in time.  The reception is left running and its interrupt enabled.
TimedOut ==
  /\ Trying /\ port = "ready"
  /\ Fault
  /\ \/ io' = Executed /\ (UNCHANGED late \/ ToCome(late, Answer))
     \/ UNCHANGED <<io, late>>
  /\ port' = "busy"
  /\ Again
  /\ UNCHANGED <<config, mistaken, restvars>>

\* HAL_BUSY: the call returns at once.  The request is sent all the same, unless
\* the transmitter is at work on an earlier one.  A late answer that ends just now
\* finds a call that receives: the handler ends the reception.
Refused ==
  /\ Trying /\ port = "busy"
  /\ \/ Unseen(late) /\ UNCHANGED port
     \/ late # << >> /\ UNCHANGED <<io, late, port, faults>>
     \/ late # << >> /\ Unseen(Tail(late)) /\ port' = "ready"
  /\ Again
  /\ UNCHANGED <<config, mistaken, restvars>>

\* The late answer that ended the call before came while the request of that call
\* was being sent: the transmitter refuses, with a new reception begun.
TransmitterRefused ==
  /\ Trying /\ port = "ready" /\ late # << >>
  /\ Fault
  /\ port' = "busy"
  /\ Again
  /\ UNCHANGED <<io, late, config, mistaken, restvars>>

\* A late answer comes between two calls: with no reception running nobody notices,
\* with one the handler finds rx_state FREE and does not acknowledge the interrupt.
AnswerComes ==
  /\ Running /\ late # << >>
  /\ late' = Tail(late)
  /\ port' = IF port = "busy" THEN "locked" ELSE port
  /\ UNCHANGED <<io, fsmvars, eventmask, param, iordy, appvars,
                 faults, races, lost, failed, mistaken>>

\* The interrupt comes again at once, for ever.
Storm == ~Running /\ UNCHANGED vars

-----------------------------------------------------------------------------
(* cubeio_fsm *)

Reset ==
  /\ pc = "top" /\ state = "RESET"
  /\ state' = "CONF"
  /\ todo' = <<Copy("CONFIG")>>
  /\ pc' = "request"
  /\ UNCHANGED <<io, linevars, attempt, config, k, att, packet, fmask, eventmask, param, iordy,
                 appvars, faults, races, lost, failed, mistaken>>

\* The protocol version is compared and counted; a wrong one, or none, changes
\* nothing.
CheckVersion ==
  /\ pc = "version"
  /\ state' = IF config # PROTOCOL_VERSION /\ attempt + 1 > 5 THEN "FAIL" ELSE state
  /\ attempt' = 0
  /\ todo' = <<Arm>>
  /\ pc' = "request"
  /\ UNCHANGED <<io, linevars, config, k, att, packet, fmask, eventmask, param, iordy, appvars,
                 faults, races, lost, failed, mistaken>>

Conf ==
  /\ pc = "top" /\ state = "CONF"
  /\ state' = "OPERATION"
  /\ UNCHANGED <<io, linevars, attempt, config, pc, k, todo, att, packet, fmask, eventmask, param,
                 iordy, appvars, faults, races, lost, failed, mistaken>>

\* A pass begins when timeout_semaphore is given or after 20 ticks without it.
Operation ==
  /\ pc = "top" /\ state = "OPERATION"
  /\ pc' = "pop" /\ k' = 1
  /\ UNCHANGED <<io, linevars, state, attempt, config, todo, att, packet, fmask, eventmask, param,
                 iordy, appvars, faults, races, lost, failed, mistaken>>

\* cubeio_pop_event, up to the store.
PopLoad ==
  /\ pc = "pop" /\ k <= Len(Order)
  /\ IF Order[k] \in eventmask
     THEN /\ (apc = "store" => races < MaxRaces /\ faults + races < MaxSlips)
          /\ races' = IF apc = "store" THEN races + 1 ELSE races
          /\ fmask' = eventmask
          /\ pc' = "popstore"
          /\ UNCHANGED k
     ELSE k' = k + 1 /\ UNCHANGED <<races, fmask, pc>>
  /\ UNCHANGED <<io, linevars, state, attempt, config, todo, att, packet, eventmask, param,
                 iordy, appvars, faults, lost, failed, mistaken>>

PopStore ==
  /\ pc = "popstore"
  /\ eventmask' = fmask \ {Order[k]}
  /\ lost' = lost \cup ((eventmask \ fmask) \cap Carriers)
  /\ failed' = failed \ {Order[k]} /\ mistaken' = mistaken \ Params(Order[k])
  /\ todo' = Requests(Order[k])
  /\ pc' = "request"
  /\ fmask' = {}
  /\ UNCHANGED <<io, linevars, state, attempt, config, k, att, packet, param, iordy, appvars,
                 faults, races>>

\* The copies are read when they are old, the safety options are written once in
\* a second, the RC protocols in every pass.
Routine(old, due) ==
  /\ pc = "pop" /\ k > Len(Order)
  /\ todo' = (IF old THEN <<Copy("STATUS")>> ELSE << >>)
               \o (IF due THEN <<SafetyOptions>> ELSE << >>) \o <<RcProtocols>>
  /\ pc' = "request"
  /\ UNCHANGED <<io, linevars, state, attempt, config, k, att, packet, fmask, eventmask, param,
                 iordy, appvars, faults, races, lost, failed, mistaken>>

PassEnd ==
  /\ pc = "give"
  /\ iordy' = 1
  /\ pc' = "top" /\ k' = 1
  /\ UNCHANGED <<io, linevars, state, attempt, config, todo, att, packet, fmask, eventmask, param,
                 appvars, faults, races, lost, failed, mistaken>>

\* Mutant: a driver that failed says nothing.
FailSilently ==
  /\ pc = "top" /\ state = "FAIL"
  /\ pc' = "deleted"
  /\ UNCHANGED <<io, linevars, state, attempt, config, k, todo, att, packet, fmask, eventmask,
                 param, iordy, appvars, faults, races, lost, failed, mistaken>>

Fail ==
  /\ pc = "top" /\ state = "FAIL"
  /\ iordy' = 1
  /\ pc' = "deleted"
  /\ UNCHANGED <<io, linevars, state, attempt, config, k, todo, att, packet, fmask, eventmask,
                 param, appvars, faults, races, lost, failed, mistaken>>

Answered == WriteAnswered \/ ReadAnswered
Mistaken == WriteMistaken \/ ReadMistaken \/ ReadRejected
Faulty == Damaged \/ TimedOut \/ Refused \/ TransmitterRefused

Service ==
  /\ Running
  /\ \/ MakePacket \/ Answered \/ Mistaken \/ Faulty
     \/ Reset \/ CheckVersion \/ Conf \/ Operation
     \/ PopLoad \/ PopStore \/ (\E old, due \in BOOLEAN : Routine(old, due)) \/ PassEnd
     \/ Fail

-----------------------------------------------------------------------------
(* The application *)

\* cubeio_start returns the driver, failed or not.
StartReturns ==
  /\ Running
  /\ ~started /\ iordy = 1
  /\ iordy' = 0
  /\ started' = TRUE
  /\ UNCHANGED <<io, linevars, fsmvars, eventmask, param, agenda, arg, apc, amask, want,
                 faults, races, lost, failed, mistaken>>

CallAll(events, v) ==
  /\ started /\ apc = "idle"
  /\ agenda' = events
  /\ arg' = v
  /\ apc' = "set"
  /\ UNCHANGED <<io, linevars, fsmvars, eventmask, param, iordy, started, amask,
                 faults, races, lost, failed, mistaken>>

\* Mutant: the safety state is only asked for when it changes.
cube_io_pwm_exec_OnChange(arm, v) ==
  /\ want' = IF arm THEN "off" ELSE "on"
  /\ CallAll(IF want' = want THEN <<"SET_PWM">>
             ELSE <<IF arm THEN "FORCE_SAFETY_OFF" ELSE "FORCE_SAFETY_ON", "SET_PWM">>, v)

\* cube_io_pwm_exec, once in every period: safety, then the PWM values.
cube_io_pwm_exec(arm, v) ==
  /\ want' = IF arm THEN "off" ELSE "on"
  /\ CallAll(<<IF arm THEN "FORCE_SAFETY_OFF" ELSE "FORCE_SAFETY_ON", "SET_PWM">>, v)

\* Any other setter.  cubeio_set_default_freq does nothing when the value is
\* the one the driver has.
Set(e, v) ==
  /\ e = "SET_DEFAULT_RATE" => param["DEFAULTRATE"] # v
  /\ UNCHANGED want
  /\ CallAll(<<e>>, v)

\* The parameter is stored; the two channels of SET_PWM one after the other,
\* as cubeio_set_pwm copies them.
SetParam ==
  /\ apc \in {"set", "set2"}
  /\ LET e == Head(agenda)
     IN IF e = "SET_PWM"
        THEN /\ param' = [param EXCEPT !["DIRECT_PWM"][IF apc = "set" THEN 1 ELSE 2] = arg]
             /\ apc' = IF apc = "set" THEN "set2" ELSE "load"
        ELSE /\ param' = [r \in ValueRegs |-> IF r \in Params(e) THEN arg ELSE param[r]]
             /\ apc' = "load"
  /\ UNCHANGED <<io, linevars, fsmvars, eventmask, iordy, started, agenda, arg, amask, want,
                 faults, races, lost, failed, mistaken>>

PushLoad ==
  /\ apc = "load"
  /\ (pc = "popstore" => races < MaxRaces /\ faults + races < MaxSlips)
  /\ races' = IF pc = "popstore" THEN races + 1 ELSE races
  /\ amask' = eventmask
  /\ apc' = "store"
  /\ UNCHANGED <<io, linevars, fsmvars, eventmask, param, iordy, started, agenda, arg, want,
                 faults, lost, failed, mistaken>>

\* Mutant: an event that is being served is not pushed again.
PushStoreUnlessServed ==
  /\ apc = "store"
  /\ eventmask' = IF pc \in {"request", "write"} /\ k <= Len(Order) /\ Order[k] = Head(agenda)
                   THEN amask ELSE amask \cup {Head(agenda)}
  /\ lost' = lost \ {Head(agenda)} /\ failed' = failed \ {Head(agenda)}
  /\ mistaken' = mistaken \ Params(Head(agenda))
  /\ agenda' = Tail(agenda)
  /\ apc' = IF Len(agenda) > 1 THEN "set" ELSE "idle"
  /\ arg' = IF Len(agenda) > 1 THEN arg ELSE 0
  /\ amask' = {}
  /\ UNCHANGED <<io, linevars, fsmvars, param, iordy, started, want, faults, races>>

PushStore ==
  /\ apc = "store"
  /\ eventmask' = amask \cup {Head(agenda)}
  /\ lost' = lost \ {Head(agenda)} /\ failed' = failed \ {Head(agenda)}
  /\ mistaken' = mistaken \ Params(Head(agenda))
  /\ agenda' = Tail(agenda)
  /\ apc' = IF Len(agenda) > 1 THEN "set" ELSE "idle"
  /\ arg' = IF Len(agenda) > 1 THEN arg ELSE 0
  /\ amask' = {}
  /\ UNCHANGED <<io, linevars, fsmvars, param, iordy, started, want, faults, races>>

Exec == Running /\ \E arm \in Arms, v \in PwmValues : cube_io_pwm_exec(arm, v)
Setter == Running /\ (SetParam \/ PushLoad \/ PushStore)
Other == Running /\ \E e \in Settings, v \in Values : Set(e, v)

App == Exec \/ Other \/ Setter

Next == Service \/ StartReturns \/ App \/ AnswerComes \/ Storm

Spec == Init /\ [][Next]_vars

\* The driver's thread and the application's are scheduled, and the application
\* executes the periodic block again and again.  Strong fairness, because a
\* thread that may no longer load eventmask beside the other one (MaxRaces) waits
\* for it to store.  What is on the line comes.
FairSpec ==
  /\ Spec
  /\ SF_vars(Service) /\ SF_vars(StartReturns \/ App)
  /\ WF_vars(AnswerComes)

-----------------------------------------------------------------------------
(* Properties *)

TypeOK ==
  /\ io["SAFETY"] \in {"on", "off"}
  /\ io["ARMING"] \subseteq Bits /\ io["FEATURES"] \subseteq Bits
  /\ port \in {"ready", "busy", "locked"}
  /\ late \in Seq([count : 0 .. 2, bits : SUBSET Bits])
  /\ state \in {"RESET", "CONF", "OPERATION", "FAIL"}
  /\ {eventmask, fmask, amask, lost, failed} \subseteq SUBSET Events
  /\ pc \in {"top", "request", "write", "read", "pop", "popstore", "give",
            "version", "deleted"}
  /\ mistaken \subseteq Registers
  /\ (todo # << >>) = (pc \in {"request", "write", "read"})
  /\ k \in 1 .. Len(Order) + 1 /\ att \in 0 .. ATTEMPTS - 1
  /\ apc \in {"idle", "set", "set2", "load", "store"}
  /\ (agenda = << >>) = (apc = "idle")
  /\ iordy \in {0, 1} /\ faults \in 0 .. MaxFaults /\ races \in 0 .. MaxRaces

\* An I/O processor in operation is armed, and stays so under the safety options
\* written later over the same register (cubeio.c:98, 488), unless a late answer
\* was taken for the answer to one of these requests: the arming write may be lost
\* and pass for done, and the bits of another register may be read for those of
\* this one (:368, :410).
Armed == state = "OPERATION" => ArmBits \subseteq io["ARMING"] \/ "ARMING" \in mistaken

\* Between two calls of the application, a parameter the I/O processor does
\* not have is on its way: its event is pending or being served.  Three things
\* break that, and nothing else: an event wiped out by the unlocked change of
\* eventmask (:475-486), a request that failed in all its attempts, whose result
\* nobody looks at (:121-182), and a write that did not get through while a late
\* answer, to an attempt that timed out or in pieces, passed for its own (:368).
OnItsWay(e) ==
  \/ e \in eventmask
  \/ pc \in {"popstore", "request", "write", "read"} /\ k <= Len(Order) /\ Order[k] = e
  \/ e \in lost
  \/ e \in failed

Accounted ==
  apc = "idle" =>
    \A e \in Settings \cup {"SET_PWM"} : \A r \in Params(e) :
      io[r] # param[r] => OnItsWay(e) \/ r \in mistaken

\* cubeio_start returns, whether the driver comes up or fails, unless a late
\* answer has locked up the processor (usart.c:402).
Starts == <>(started \/ ~Running)

\* Once the application asks for the same state of the safety switch for good, the
\* I/O processor comes to it and stays there, whatever was lost, failed, mistaken
\* or served in the wrong order before, and in whatever state attempts that timed
\* out have left the port, unless they have locked up the processor (cubeio.c:121).
SafetyFollows ==
  <>[][UNCHANGED want]_want =>
    <>[](state = "FAIL" \/ ~Running \/ io["SAFETY"] = want)

\* Only an I/O processor of the right protocol version is put in operation.
VersionChecked == state = "OPERATION" => config = PROTOCOL_VERSION
=============================================================================
