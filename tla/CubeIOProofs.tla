---------------------------- MODULE CubeIOProofs ----------------------------
(***************************************************************************)
(* Proofs about CubeIO: for every set of events that the application       *)
(* pushes, every number of attempts and any number of failures, races and  *)
(* late answers, an I/O processor in operation is armed, and a parameter   *)
(* it does not have is on its way, lost by the unlocked eventmask, or      *)
(* failed, unless a late answer was taken for that of the write.           *)
(*                                                                         *)
(* The argument follows a parameter from the application's thread to the   *)
(* register: its event is ahead in the agenda, then in eventmask (or lost, *)
(* or failed), then popped, and while it is served each of its registers   *)
(* is written already, mistaken or has its request left (WayInv).  The     *)
(* packet of the request being made carries the value as it is now, or the *)
(* application has changed it since and its event is ahead again.  That    *)
(* rests on where the driver may be in which state (PhaseInv), on what the *)
(* two unlocked copies of eventmask hold (MaskInv) and on whose register a *)
(* request writes (OwnRequests, OwnRegisters).                             *)
(***************************************************************************)
EXTENDS CubeIO, SequenceTheorems, TLAPS

-----------------------------------------------------------------------------
(* The invariant *)

InRequest == {"request", "write", "read"}

AllRequests ==
  {FromParam(r) : r \in ValueRegs}
    \cup {Magic("SAFETY", "off"), Magic("SAFETY", "on"), RcProtocols, Arm, SafetyOptions,
          Copy("CONFIG"), Copy("STATUS")}
    \cup {SetClear("FEATURES", {b}, {}) : b \in Bits}

\* The contents of the registers, and of a packet.
WellTyped(regs) ==
  /\ regs = [r \in Registers |-> regs[r]]
  /\ regs["SAFETY"] \in {"on", "off"}
  /\ regs["ARMING"] \subseteq Bits
  /\ regs["FEATURES"] \subseteq Bits

\* Where no request is being made.
Idling == {"top", "version", "pop", "popstore", "give", "deleted"}

DriverType ==
  /\ WellTyped(io) /\ WellTyped(packet)
  /\ state \in {"RESET", "CONF", "OPERATION", "FAIL"}
  /\ pc \in InRequest \cup Idling
  /\ pc \in InRequest <=> todo # << >>
  /\ todo \in Seq(AllRequests)
  /\ k \in 1 .. Len(Order) + 1 /\ att \in 0 .. ATTEMPTS - 1
  /\ pc = "popstore" => k <= Len(Order)
  /\ pc = "read" => Head(todo).kind \in {"set_clear", "copy"}
  /\ pc = "write" => Head(todo).kind # "copy"

Answers == [count : 0 .. 2, bits : SUBSET Bits]

LineType ==
  /\ port \in {"ready", "busy", "locked"}
  /\ late \in Seq(Answers)
  /\ mistaken \subseteq Watched

AppType ==
  /\ param = [r \in ValueRegs |-> param[r]]
  /\ apc \in {"idle", "set", "set2", "load", "store"}
  /\ apc = "idle" <=> agenda = << >>
  /\ agenda \in Seq(Pushed)
  /\ iordy \in {0, 1}

MaskType ==
  /\ eventmask \subseteq Events /\ fmask \subseteq Events /\ amask \subseteq Events
  /\ lost \subseteq Events /\ failed \subseteq Events
  /\ faults \in 0 .. MaxFaults /\ races \in 0 .. MaxRaces

TypeInv == DriverType /\ LineType /\ AppType /\ MaskType

\* Where the driver may be in which of its states.  First the version is read, once,
\* then the arming bits are set; the application runs once started.
PhaseInv ==
  /\ attempt = 0
  /\ state = "RESET" => pc = "top"
  /\ state = "CONF" => /\ pc \in InRequest \cup {"top", "version"}
                       /\ pc \in InRequest => todo = <<Copy("CONFIG")>> \/ todo = <<Arm>>
  /\ state = "FAIL" => pc \in {"top", "deleted"}
  /\ state = "OPERATION" => pc \notin {"version", "deleted"}
  /\ state \in {"RESET", "CONF"} => ~started /\ iordy = 0
  /\ ~started => apc = "idle"

\* The arming bits are in the register, and in the packet that replaces it.
ArmInv ==
  \/ "ARMING" \in mistaken
  \/ /\ (state = "CONF" /\ pc = "top") \/ state = "OPERATION" => ArmBits \subseteq io["ARMING"]
     /\ pc = "write" /\ Head(todo).reg = "ARMING" => ArmBits \subseteq packet["ARMING"]

\* Between the load and the store of one thread the other only adds events,
\* or only takes them away.
MaskInv ==
  /\ apc = "store" => eventmask \subseteq amask
  /\ pc = "popstore" => fmask \subseteq eventmask

\* The application is still to push the event.
Ahead(e) == \E i \in 1 .. Len(agenda) : agenda[i] = e
Dirty(e) == e \in eventmask \/ Ahead(e) \/ e \in lost \/ e \in failed

Serving(e) == state = "OPERATION" /\ pc \in InRequest /\ k <= Len(Order) /\ Order[k] = e

\* Parameters are written for the event being served.
OwnRequests ==
  \A i \in 1 .. Len(todo) : todo[i].kind = "param" =>
    state = "OPERATION" /\ k <= Len(Order) /\ todo[i].reg \in Params(Order[k])

\* Each register of the event holds its parameter, is mistaken or has its request
\* left, and the packet on its way carries the parameter.
Underway(e) ==
  /\ pc = "write" /\ Head(todo).kind = "param" =>
       packet[Head(todo).reg] = param[Head(todo).reg]
  /\ \A r \in Params(e) :
       io[r] = param[r] \/ r \in mistaken \/ \E i \in 1 .. Len(todo) : todo[i] = FromParam(r)

Bearing == Pushed \cap Carriers

\* A register that differs from its parameter is mistaken, or has its event pushed,
\* lost, failed or served; one served is underway unless it is pushed again.
WayInv ==
  /\ state \in {"RESET", "CONF"} => \A r \in ValueRegs : io[r] = param[r]
  /\ \A e \in Bearing : \A r \in Params(e) :
       io[r] # param[r] =>
         Dirty(e) \/ (pc = "popstore" /\ Order[k] = e) \/ Serving(e) \/ r \in mistaken
  /\ \A e \in Bearing : Serving(e) => Dirty(e) \/ Underway(e)
  /\ OwnRequests

IInv == TypeInv /\ PhaseInv /\ ArmInv /\ MaskInv /\ WayInv

-----------------------------------------------------------------------------
(* The events and their requests *)

LEMMA PushedEvents == Pushed \subseteq Events
  BY CubeIOAssumption DEF Pushed, Events

LEMMA OrderType == Order \in Seq(Pushed)
  <1>1. \A e : IfPushed(e) \in Seq(Pushed)
    BY DEF IfPushed
  <1>2. \A s, t \in Seq(Pushed) : s \o t \in Seq(Pushed)
    OBVIOUS
  <1> HIDE DEF IfPushed, Pushed
  <1> QED  BY <1>1, <1>2 DEF Order

LEMMA RequestsAre ==
  /\ Requests("SET_PWM") = <<FromParam("DIRECT_PWM")>>
  /\ Requests("SET_FAILSAFE_PWM") = <<FromParam("FAILSAFE_PWM")>>
  /\ Requests("FORCE_SAFETY_OFF") = <<Magic("SAFETY", "off")>>
  /\ Requests("FORCE_SAFETY_ON") = <<Magic("SAFETY", "on")>>
  /\ Requests("ENABLE_SBUS_OUT") =
       <<FromParam("SBUS_RATE"), SetClear("FEATURES", {SBUS1_OUT}, {})>>
  /\ Requests("SET_RATES") = <<FromParam("ALTRATE"), FromParam("PWM_RATE_MASK")>>
  /\ Requests("SET_IMU_HEATER_DUTY") = <<FromParam("HEATER_DUTY_CYCLE")>>
  /\ Requests("SET_DEFAULT_RATE") = <<FromParam("DEFAULTRATE")>>
  /\ Requests("BRUSHED_ON") = <<SetClear("FEATURES", {BRUSHED}, {})>>
  /\ Requests("ONESHOT_ON") = <<SetClear("FEATURES", {ONESHOT}, {})>>
  /\ Requests("SET_SAFETY_MASK") = <<FromParam("IGNORE_SAFETY")>>
  BY DEF Requests

\* The value registers that one or two requests write.
LEMMA OneRequest ==
  ASSUME NEW e, NEW q, Requests(e) = <<q>>
  PROVE  Params(e) = IF q.kind = "param" THEN {q.reg} ELSE {}
  BY DEF Params

LEMMA TwoRequests ==
  ASSUME NEW e, NEW p, NEW q, Requests(e) = <<p, q>>
  PROVE  Params(e) = (IF p.kind = "param" THEN {p.reg} ELSE {})
                       \cup (IF q.kind = "param" THEN {q.reg} ELSE {})
  BY DEF Params

LEMMA ParamsAre ==
  /\ Params("SET_PWM") = {"DIRECT_PWM"}
  /\ Params("SET_FAILSAFE_PWM") = {"FAILSAFE_PWM"}
  /\ Params("FORCE_SAFETY_OFF") = {}
  /\ Params("FORCE_SAFETY_ON") = {}
  /\ Params("ENABLE_SBUS_OUT") = {"SBUS_RATE"}
  /\ Params("SET_RATES") = {"ALTRATE", "PWM_RATE_MASK"}
  /\ Params("SET_IMU_HEATER_DUTY") = {"HEATER_DUTY_CYCLE"}
  /\ Params("SET_DEFAULT_RATE") = {"DEFAULTRATE"}
  /\ Params("BRUSHED_ON") = {}
  /\ Params("ONESHOT_ON") = {}
  /\ Params("SET_SAFETY_MASK") = {"IGNORE_SAFETY"}
  <1>1. /\ \A r : FromParam(r).kind = "param" /\ FromParam(r).reg = r
        /\ \A r, v : Magic(r, v).kind = "magic"
        /\ \A r, s, c : SetClear(r, s, c).kind = "set_clear"
    BY DEF FromParam, Magic, SetClear
  <1> QED  BY <1>1, RequestsAre, OneRequest, TwoRequests

\* Each value register belongs to one event, and is none of the other four.
LEMMA OwnRegisters ==
  /\ \A e, f \in Events : \A r \in Params(e) : r \in Params(f) => e = f
  /\ \A e \in Events : Params(e) \subseteq ValueRegs
  /\ "SAFETY" \notin ValueRegs /\ "ARMING" \notin ValueRegs /\ "FEATURES" \notin ValueRegs
  /\ "RC_PROTOCOLS" \notin ValueRegs
  <1> DEFINE Owner(r) ==
        CASE r = "DIRECT_PWM" -> "SET_PWM"
          [] r = "FAILSAFE_PWM" -> "SET_FAILSAFE_PWM"
          [] r = "SBUS_RATE" -> "ENABLE_SBUS_OUT"
          [] r \in {"ALTRATE", "PWM_RATE_MASK"} -> "SET_RATES"
          [] r = "HEATER_DUTY_CYCLE" -> "SET_IMU_HEATER_DUTY"
          [] r = "DEFAULTRATE" -> "SET_DEFAULT_RATE"
          [] r = "IGNORE_SAFETY" -> "SET_SAFETY_MASK"
  <1>1. /\ Owner("DIRECT_PWM") = "SET_PWM"
        /\ Owner("FAILSAFE_PWM") = "SET_FAILSAFE_PWM"
        /\ Owner("SBUS_RATE") = "ENABLE_SBUS_OUT"
        /\ Owner("ALTRATE") = "SET_RATES" /\ Owner("PWM_RATE_MASK") = "SET_RATES"
        /\ Owner("HEATER_DUTY_CYCLE") = "SET_IMU_HEATER_DUTY"
        /\ Owner("DEFAULTRATE") = "SET_DEFAULT_RATE"
        /\ Owner("IGNORE_SAFETY") = "SET_SAFETY_MASK"
    OBVIOUS
  <1> HIDE DEF Owner
  <1>2. \A e \in Events : \A r \in Params(e) :
          Owner(r) = e /\ r \notin {"SAFETY", "ARMING", "FEATURES", "RC_PROTOCOLS"}
    <2> TAKE e \in Events
    <2>1. CASE e \in {"SET_PWM", "SET_FAILSAFE_PWM", "ENABLE_SBUS_OUT", "SET_RATES"}
      BY <1>1, <2>1, ParamsAre
    <2>2. CASE e \in {"SET_IMU_HEATER_DUTY", "SET_DEFAULT_RATE", "SET_SAFETY_MASK"}
      BY <1>1, <2>2, ParamsAre
    <2>3. CASE e \in {"FORCE_SAFETY_OFF", "FORCE_SAFETY_ON", "BRUSHED_ON", "ONESHOT_ON"}
      BY <2>3, ParamsAre
    <2> QED  BY <2>1, <2>2, <2>3 DEF Events
  <1> QED  BY <1>2 DEF ValueRegs

LEMMA BitsAre ==
  /\ {SBUS1_OUT, BRUSHED, ONESHOT} \subseteq Bits /\ ArmBits \subseteq Bits
  /\ SAFETY_DISABLE_OFF \in Bits /\ SAFETY_DISABLE_ON \notin ArmBits
  BY DEF Bits, SBUS1_OUT, BRUSHED, ONESHOT, ArmBits, IO_ARM_OK, FMU_ARMED,
         RC_HANDLING_DISABLED, SAFETY_DISABLE_OFF, SAFETY_DISABLE_ON

LEMMA RequestsType ==
  ASSUME NEW e \in Events
  PROVE  /\ Requests(e) \in Seq(AllRequests) /\ Requests(e) # << >>
         /\ \A r \in Params(e) : \E i \in 1 .. Len(Requests(e)) : Requests(e)[i] = FromParam(r)
         /\ \A i \in 1 .. Len(Requests(e)) :
              Requests(e)[i].kind = "param" => Requests(e)[i].reg \in Params(e)
  <1> DEFINE Good(rs) ==
        /\ rs \in Seq(AllRequests) /\ rs # << >>
        /\ \A r \in Params(e) : \E i \in 1 .. Len(rs) : rs[i] = FromParam(r)
  <1>1. \A r \in ValueRegs : FromParam(r) \in AllRequests
    BY DEF AllRequests
  <1>2. /\ Magic("SAFETY", "off") \in AllRequests /\ Magic("SAFETY", "on") \in AllRequests
        /\ SetClear("FEATURES", {SBUS1_OUT}, {}) \in AllRequests
        /\ SetClear("FEATURES", {BRUSHED}, {}) \in AllRequests
        /\ SetClear("FEATURES", {ONESHOT}, {}) \in AllRequests
    BY BitsAre DEF AllRequests
  <1>3. Params(e) \subseteq ValueRegs
    BY OwnRegisters
  <1>4. ASSUME NEW q \in AllRequests, Requests(e) = <<q>>,
               Params(e) = {} \/ \E r : Params(e) = {r} /\ q = FromParam(r)
        PROVE  Good(Requests(e))
    <2>1. \A r \in Params(e) : q = FromParam(r)
      BY <1>4
    <2>2. <<q>> \in Seq(AllRequests) /\ Len(<<q>>) = 1 /\ <<q>>[1] = q
      OBVIOUS
    <2> QED  BY <1>4, <2>1, <2>2
  <1>5. ASSUME NEW p \in AllRequests, NEW q \in AllRequests, Requests(e) = <<p, q>>,
               \A r \in Params(e) : p = FromParam(r) \/ q = FromParam(r)
        PROVE  Good(Requests(e))
    <2>1. <<p, q>> \in Seq(AllRequests) /\ Len(<<p, q>>) = 2 /\ <<p, q>>[1] = p /\ <<p, q>>[2] = q
      OBVIOUS
    <2>2. 1 \in 1 .. 2 /\ 2 \in 1 .. 2
      OBVIOUS
    <2> QED  BY <1>5, <2>1, <2>2
  <1> HIDE DEF Good
  <1>6. Good(Requests(e))
    <2>1. CASE e = "SET_PWM"
      BY <1>1, <1>3, <1>4, <2>1, RequestsAre, ParamsAre
    <2>2. CASE e = "SET_FAILSAFE_PWM"
      BY <1>1, <1>3, <1>4, <2>2, RequestsAre, ParamsAre
    <2>3. CASE e \in {"FORCE_SAFETY_OFF", "FORCE_SAFETY_ON"}
      BY <1>2, <1>4, <2>3, RequestsAre, ParamsAre
    <2>4. CASE e = "ENABLE_SBUS_OUT"
      BY <1>1, <1>2, <1>3, <1>5, <2>4, RequestsAre, ParamsAre
    <2>5. CASE e = "SET_RATES"
      BY <1>1, <1>3, <1>5, <2>5, RequestsAre, ParamsAre
    <2>6. CASE e = "SET_IMU_HEATER_DUTY"
      BY <1>1, <1>3, <1>4, <2>6, RequestsAre, ParamsAre
    <2>7. CASE e = "SET_DEFAULT_RATE"
      BY <1>1, <1>3, <1>4, <2>7, RequestsAre, ParamsAre
    <2>8. CASE e \in {"BRUSHED_ON", "ONESHOT_ON"}
      BY <1>2, <1>4, <2>8, RequestsAre, ParamsAre
    <2>9. CASE e = "SET_SAFETY_MASK"
      BY <1>1, <1>3, <1>4, <2>9, RequestsAre, ParamsAre
    <2> QED  BY <2>1, <2>2, <2>3, <2>4, <2>5, <2>6, <2>7, <2>8, <2>9 DEF Events
  <1>7. \A i \in 1 .. Len(Requests(e)) :
          Requests(e)[i].kind = "param" => Requests(e)[i].reg \in Params(e)
    BY <1>6 DEF Good, Params
  <1> QED  BY <1>6, <1>7 DEF Good

\* What a request can be.
LEMMA Forms ==
  ASSUME NEW q \in AllRequests
  PROVE  \/ q.kind = "param" /\ q.reg \in ValueRegs /\ q = FromParam(q.reg)
         \/ q.kind = "magic" /\ q.reg = "SAFETY" /\ q.value \in {"on", "off"}
         \/ q.kind = "magic" /\ q.reg = "RC_PROTOCOLS"
         \/ /\ q.kind = "set_clear" /\ q.reg = "ARMING"
            /\ q.set \subseteq Bits /\ q.clear \cap ArmBits = {}
         \/ q.kind = "set_clear" /\ q.reg = "FEATURES" /\ q.set \subseteq Bits
         \/ q.kind = "copy"
  BY BitsAre
  DEF AllRequests, FromParam, Magic, SetClear, Copy, Arm, SafetyOptions, RcProtocols

\* A packet carries its register, and nothing else.
LEMMA BlankType == WellTyped(Blank)
  <1>1. /\ Blank["SAFETY"] = "on" /\ Blank["ARMING"] = {} /\ Blank["FEATURES"] = {}
        /\ Blank = [s \in Registers |-> Blank[s]]
    BY OwnRegisters DEF Blank, Registers
  <1> QED  BY <1>1 DEF WellTyped

LEMMA PutType ==
  ASSUME NEW regs, WellTyped(regs), NEW r \in Registers, NEW v,
         r = "SAFETY" => v \in {"on", "off"},
         r = "ARMING" => v \subseteq Bits,
         r = "FEATURES" => v \subseteq Bits
  PROVE  /\ WellTyped([regs EXCEPT ![r] = v])
         /\ \A s \in Registers : [regs EXCEPT ![r] = v][s] = IF s = r THEN v ELSE regs[s]
  <1>1. [regs EXCEPT ![r] = v] = [s \in Registers |-> IF s = r THEN v ELSE regs[s]]
    BY DEF WellTyped
  <1>2. {"SAFETY", "ARMING", "FEATURES"} \subseteq Registers
    BY DEF Registers
  <1> QED  BY <1>1, <1>2 DEF WellTyped

LEMMA CarryingType ==
  ASSUME NEW r \in Registers, NEW v,
         r = "SAFETY" => v \in {"on", "off"},
         r = "ARMING" => v \subseteq Bits,
         r = "FEATURES" => v \subseteq Bits
  PROVE  WellTyped(Carrying(r, v)) /\ Carrying(r, v)[r] = v
  BY BlankType, PutType DEF Carrying

LEMMA TypesOK == ASSUME TypeInv PROVE TypeOK
  <1> USE DEF TypeInv
  <1>1. /\ io["SAFETY"] \in {"on", "off"}
        /\ io["ARMING"] \subseteq Bits /\ io["FEATURES"] \subseteq Bits
    BY DEF DriverType, WellTyped
  <1>2. {eventmask, fmask, amask, lost, failed} \subseteq SUBSET Events
    BY DEF MaskType
  <1>3. /\ pc \in {"top", "request", "write", "read", "pop", "popstore", "give", "version",
                    "deleted"}
        /\ (todo # << >>) = (pc \in {"request", "write", "read"})
    BY DEF DriverType, InRequest, Idling
  <1>4. (agenda = << >>) = (apc = "idle")
    BY DEF AppType
  <1>5. late \in Seq([count : 0 .. 2, bits : SUBSET Bits]) /\ mistaken \subseteq Registers
    BY DEF LineType, Answers, Watched, Registers
  <1> QED
    BY <1>1, <1>2, <1>3, <1>4, <1>5 DEF DriverType, LineType, AppType, MaskType, TypeOK

-----------------------------------------------------------------------------
(* Steps *)

LEMMA Rest ==
  ASSUME NEW S, NEW s \in Seq(S), s # << >>
  PROVE  /\ Len(s) \in Nat \ {0} /\ Head(s) = s[1] /\ Head(s) \in S
         /\ Tail(s) \in Seq(S) /\ Len(Tail(s)) = Len(s) - 1
         /\ \A i \in 1 .. Len(s) - 1 : Tail(s)[i] = s[i + 1]
         /\ Tail(s) = << >> <=> Len(s) = 1
  <1>1. Len(s) \in Nat \ {0} /\ Len(Tail(s)) = Len(s) - 1 /\ Tail(s) \in Seq(S)
    OBVIOUS
  <1>2. Tail(s) = << >> <=> Len(Tail(s)) = 0
    BY <1>1, EmptySeq
  <1> QED  BY <1>1, <1>2

\* The first of the requests left, and the others.
LEMMA Todo ==
  ASSUME DriverType, pc \in InRequest
  PROVE  /\ todo # << >> /\ Len(todo) \in Nat \ {0}
         /\ Head(todo) = todo[1] /\ Head(todo) \in AllRequests
         /\ Tail(todo) \in Seq(AllRequests) /\ Len(Tail(todo)) = Len(todo) - 1
         /\ \A i \in 1 .. Len(todo) - 1 : Tail(todo)[i] = todo[i + 1]
         /\ Tail(todo) = << >> <=> Len(todo) = 1
  <1>1. todo # << >> /\ todo \in Seq(AllRequests)
    BY DEF DriverType
  <1> QED  BY <1>1, Rest

\* What is put in the packet, and for which kind of request.
LEMMA PacketMade ==
  ASSUME DriverType, MakePacket
  PROVE  /\ pc = "request"
         /\ UNCHANGED <<io, param, state, k, todo, failed, lost, eventmask, agenda>>
         /\ \/ /\ Head(todo).kind = "param" /\ Head(todo).reg \in ValueRegs /\ pc' = "write"
               /\ packet' = Carrying(Head(todo).reg, param[Head(todo).reg])
            \/ /\ Head(todo).kind = "magic" /\ pc' = "write"
               /\ Head(todo).reg \in {"SAFETY", "RC_PROTOCOLS"}
               /\ \E v : /\ packet' = Carrying(Head(todo).reg, v)
                         /\ Head(todo).reg = "SAFETY" => v \in {"on", "off"}
            \/ Head(todo).kind \in {"set_clear", "copy"} /\ pc' = "read" /\ packet' = packet
  <1>1. pc = "request" /\ Head(todo) \in AllRequests
    BY Todo DEF MakePacket, InRequest
  <1>2. UNCHANGED <<io, param, state, k, todo, failed, lost, eventmask, agenda>>
    BY DEF MakePacket, appvars
  <1> QED  BY <1>1, <1>2, Forms DEF MakePacket

\* A register that is written is one of the packet's.
LEMMA WrittenType ==
  ASSUME DriverType, pc = "write"
  PROVE  /\ WellTyped(Written) /\ Head(todo).reg \in Registers
         /\ \A r \in Registers :
              Written[r] = IF r = Head(todo).reg THEN packet[r] ELSE io[r]
  <1>1. Head(todo).reg \in Registers
    BY Todo, Forms DEF Registers, DriverType, InRequest
  <1>2. /\ packet["SAFETY"] \in {"on", "off"} /\ packet["ARMING"] \subseteq Bits
        /\ packet["FEATURES"] \subseteq Bits /\ WellTyped(io)
    BY DEF DriverType, WellTyped
  <1> PICK h, v : h = Head(todo).reg /\ v = packet[h]
    OBVIOUS
  <1>3. /\ h = "SAFETY" => v \in {"on", "off"}
        /\ h = "ARMING" => v \subseteq Bits
        /\ h = "FEATURES" => v \subseteq Bits
    BY <1>2
  <1>4. Written = [io EXCEPT ![h] = v]
    BY DEF Written
  <1>5. /\ WellTyped([io EXCEPT ![h] = v])
        /\ \A s \in Registers : [io EXCEPT ![h] = v][s] = IF s = h THEN v ELSE io[s]
    <2>1. h \in Registers
      BY <1>1
    <2>2. WellTyped(io)
      BY <1>2
    <2>3. WellTyped([io EXCEPT ![h] = v])
      BY <1>3, <2>1, <2>2, PutType
    <2>4. \A s \in Registers : [io EXCEPT ![h] = v][s] = IF s = h THEN v ELSE io[s]
      BY <2>2 DEF WellTyped
    <2> QED  BY <2>3, <2>4
  <1> QED  BY <1>1, <1>4, <1>5

\* A request is over: its thread makes the next one, or goes on after the last.
LEMMA OverIs ==
  ASSUME DriverType, PhaseInv, pc \in InRequest, NEW ok \in BOOLEAN, Over(ok)
  PROVE  /\ state \in {"CONF", "OPERATION"}
         /\ state = "CONF" =>
              /\ todo' = << >> /\ k' = k /\ failed' = failed
              /\ \/ todo = <<Copy("CONFIG")>> /\ pc' = "version" /\ state' = "CONF"
                 \/ todo = <<Arm>> /\ pc' = "top" /\ state' = IF ok THEN "CONF" ELSE "FAIL"
         /\ state = "OPERATION" =>
              /\ state' = "OPERATION"
              /\ Len(todo) > 1 => pc' = "request" /\ k' = k
              /\ Len(todo) = 1 => pc' \in {"pop", "give"}
              /\ k' \in {k, k + 1} /\ k' \in 1 .. Len(Order) + 1
              /\ k <= Len(Order) =>
                   failed' = IF ok THEN failed ELSE failed \cup ({Order[k]} \cap Carriers)
              /\ k > Len(Order) => failed' = failed
         /\ todo' = Tail(todo) /\ att' = 0 /\ packet' = Blank
  <1>1. state \in {"CONF", "OPERATION"}
    BY DEF PhaseInv, DriverType, InRequest
  <1>2. Len(todo) \in Nat \ {0} /\ (Tail(todo) = << >> <=> Len(todo) = 1)
    BY Todo
  <1>3. CASE state = "CONF"
    <2>1. todo = <<Copy("CONFIG")>> \/ todo = <<Arm>>
      BY <1>3 DEF PhaseInv
    <2>2. Len(todo) = 1 /\ Tail(todo) = << >>
      <3>1. \A q : Len(<<q>>) = 1 /\ Tail(<<q>>) = << >>
        OBVIOUS
      <3> QED  BY <2>1, <3>1
    <2>3. Copy("CONFIG").kind = "copy" /\ Arm.kind # "copy"
      BY DEF Copy, Arm, SetClear
    <2>4. /\ todo = <<Copy("CONFIG")>> => Head(todo).kind = "copy"
          /\ todo = <<Arm>> => Head(todo).kind # "copy"
      BY <2>3
    <2> QED  BY <1>3, <2>1, <2>2, <2>4 DEF Over, AfterRequests
  <1>4. CASE state = "OPERATION"
    <2>1. Len(Order) \in Nat /\ k \in 1 .. Len(Order) + 1
      BY OrderType DEF DriverType
    <2>2. state' = "OPERATION"
      BY <1>4 DEF Over
    <2>3. /\ Len(todo) > 1 => pc' = "request" /\ k' = k
          /\ Len(todo) = 1 => pc' \in {"pop", "give"}
          /\ k' \in {k, k + 1} /\ k' \in 1 .. Len(Order) + 1
      <3>1. CASE Len(todo) > 1
        <4> PICK n : n = Len(todo)
          OBVIOUS
        <4>1. ~(n = 1)
          BY <3>1
        <4>2. pc' = "request" /\ k' = k
          BY <3>1, <4>1, Zenon DEF Over
        <4> QED  BY <1>2, <2>1, <3>1, <4>2
      <3>2. CASE Len(todo) = 1 /\ k <= Len(Order)
        <4>1. k' = k + 1
          BY <1>4, <3>2 DEF Over
        <4>2. pc' = AfterRequests
          BY <3>2 DEF Over
        <4>3. AfterRequests = "pop"
          BY <1>4, <3>2, Zenon DEF AfterRequests
        <4> QED  BY <2>1, <3>2, <4>1, <4>2, <4>3
      <3>3. CASE Len(todo) = 1 /\ k = Len(Order) + 1
        BY <1>4, <2>1, <3>3 DEF Over, AfterRequests
      <3> QED  BY <1>2, <2>1, <3>1, <3>2, <3>3
    <2>4. /\ k <= Len(Order) =>
               failed' = IF ok THEN failed ELSE failed \cup ({Order[k]} \cap Carriers)
          /\ k > Len(Order) => failed' = failed
      <3>1. CASE k <= Len(Order)
        BY <1>4, <3>1, <2>1 DEF Over
      <3>2. CASE ~(k <= Len(Order))
        BY <1>4, <3>2, <2>1 DEF Over
      <3> QED  BY <3>1, <3>2, <2>1
    <2> QED  BY <1>4, <2>2, <2>3, <2>4 DEF Over
  <1>5. todo' = Tail(todo) /\ att' = 0 /\ packet' = Blank
    BY DEF Over
  <1> QED  BY <1>1, <1>3, <1>4, <1>5

LEMMA OverType ==
  ASSUME TypeInv, PhaseInv, pc \in InRequest, NEW ok \in BOOLEAN, Over(ok), WellTyped(io')
  PROVE  DriverType' /\ failed' \subseteq Events
  <1>1. k \in 1 .. Len(Order) + 1 /\ Len(Order) \in Nat
    BY OrderType DEF TypeInv, DriverType
  <1>2. /\ Len(todo) \in Nat \ {0} /\ todo' = Tail(todo) /\ Tail(todo) \in Seq(AllRequests)
        /\ Tail(todo) = << >> <=> Len(todo) = 1
    BY Todo, OverIs DEF TypeInv
  <1>3. /\ state' \in {"CONF", "OPERATION", "FAIL"} /\ k' \in 1 .. Len(Order) + 1
        /\ pc' \in {"request", "top", "version", "pop", "give"}
        /\ pc' = "request" <=> todo' # << >>
        /\ att' = 0 /\ packet' = Blank
    <2>1. CASE state = "CONF"
      <3>1. /\ todo' = << >> /\ pc' \in {"top", "version"} /\ k' = k
            /\ state' \in {"CONF", "FAIL"}
            /\ att' = 0 /\ packet' = Blank
        BY <2>1, OverIs DEF TypeInv
      <3> QED  BY <1>1, <3>1
    <2>2. CASE state = "OPERATION"
      <3>1. /\ state' = "OPERATION" /\ k' \in 1 .. Len(Order) + 1
            /\ Len(todo) > 1 => pc' = "request"
            /\ Len(todo) = 1 => pc' \in {"pop", "give"}
            /\ att' = 0 /\ packet' = Blank
        BY <2>2, OverIs DEF TypeInv
      <3>2. CASE Len(todo) > 1
        BY <1>2, <3>1, <3>2
      <3>3. CASE Len(todo) = 1
        BY <1>2, <3>1, <3>3
      <3> QED  BY <1>2, <3>2, <3>3
    <2> QED  BY <2>1, <2>2, OverIs DEF TypeInv
  <1> USE DEF TypeInv
  <1>4. att' \in 0 .. ATTEMPTS - 1
    BY <1>3, CubeIOAssumption
  <1>5. WellTyped(packet)'
    BY <1>3, BlankType
  <1>6. failed' \subseteq Events
    <2>1. k <= Len(Order) => Order[k] \in Events
      BY OrderType, PushedEvents DEF DriverType
    <2>2. failed' = failed \/ (k <= Len(Order) /\ failed' \subseteq failed \cup {Order[k]})
      BY DEF Over
    <2> QED  BY <2>1, <2>2 DEF MaskType
  <1> QED  BY <1>2, <1>3, <1>4, <1>5, <1>6 DEF DriverType, InRequest, Idling

\* The attempts: what they leave of the line, and how they end.  The request fails or
\* is tried again; it is over, as written, as mistaken or as a copy read; or the bits
\* that a set_clear asked for, or others, are in the packet.
Trial == Answered \/ Mistaken \/ Faulty

Retried ==
  /\ att + 1 < ATTEMPTS /\ att' = att + 1
  /\ UNCHANGED <<todo, pc, k, state, failed, packet>>

MistakenHead == mistaken' = mistaken \cup ({Head(todo).reg} \cap Watched)

Got(bits) ==
  /\ pc = "read" /\ pc' = "write" /\ att' = 0 /\ Head(todo).kind = "set_clear"
  /\ packet' = Carrying(Head(todo).reg, (bits \ Head(todo).clear) \cup Head(todo).set)
  /\ UNCHANGED <<io, state, k, todo, failed>>

LEMMA AgainIs == ASSUME Again PROVE Retried \/ Over(FALSE)
  BY DEF Again, Retried

LEMMA AnswerType ==
  ASSUME TypeInv, Trying
  PROVE  /\ Answer \in Answers /\ [count |-> 0, bits |-> {}] \in Answers
         /\ pc = "read" /\ Head(todo).kind = "set_clear" => Answer.bits = io[Head(todo).reg]
  <1>1. /\ pc = "read" => Head(todo).kind \in {"set_clear", "copy"}
        /\ Head(todo).kind = "set_clear" => Head(todo).reg \in {"ARMING", "FEATURES"}
    BY Todo, Forms DEF TypeInv, DriverType, Trying, InRequest
  <1>2. io["ARMING"] \subseteq Bits /\ io["FEATURES"] \subseteq Bits
    BY DEF TypeInv, DriverType, WellTyped
  <1>3. Count \in 0 .. 2 /\ (Count = 1 <=> pc = "read" /\ Head(todo).kind = "set_clear")
    BY <1>1 DEF Count, Trying
  <1>4. Answer.bits = IF Count = 1 THEN io[Head(todo).reg] ELSE {}
    BY DEF Answer
  <1>5. Answer.bits \in SUBSET Bits
    BY <1>1, <1>2, <1>3, <1>4
  <1>6. Answer = [count |-> Count, bits |-> Answer.bits]
    BY DEF Answer
  <1>7. Answer \in Answers
    BY <1>3, <1>5, <1>6 DEF Answers
  <1> QED  BY <1>3, <1>4, <1>7 DEF Answers

LEMMA UnseenIs ==
  ASSUME TypeInv, Trying, NEW rest \in Seq(Answers), Unseen(rest)
  PROVE  /\ io' = io \/ (pc = "write" /\ io' = Written)
         /\ late' \in Seq(Answers)
         /\ faults' = faults \/ Fault
  BY AnswerType DEF Unseen, ToCome, Executed

LEMMA Line ==
  ASSUME TypeInv, Trial
  PROVE  /\ pc \in {"write", "read"} /\ pc \in InRequest
         /\ io' = io \/ (pc = "write" /\ io' = Written)
         /\ LineType' /\ mistaken \subseteq mistaken'
         /\ faults' = faults \/ Fault
         /\ UNCHANGED <<attempt, fmask, eventmask, param, iordy, races, lost>>
         /\ UNCHANGED <<started, agenda, arg, apc, amask, want>>
  <1>1. Trying /\ pc \in {"write", "read"} /\ pc \in InRequest
    BY DEF Trial, Answered, Mistaken, Faulty, WriteAnswered, ReadAnswered, WriteMistaken,
           ReadMistaken, ReadRejected, Damaged, TimedOut, Refused, TransmitterRefused,
           Trying, InRequest
  <1>2. UNCHANGED <<attempt, fmask, eventmask, param, iordy, appvars, races, lost>>
    BY DEF Trial, Answered, Mistaken, Faulty, WriteAnswered, ReadAnswered, WriteMistaken,
           ReadMistaken, ReadRejected, Damaged, TimedOut, Refused, TransmitterRefused, restvars
  <1>3. late \in Seq(Answers) /\ (late # << >> => Tail(late) \in Seq(Answers))
    BY DEF TypeInv, LineType
  <1>4. /\ io' = io \/ (pc = "write" /\ io' = Written)
        /\ late' \in Seq(Answers)
        /\ faults' = faults \/ Fault
    <2>1. CASE WriteAnswered \/ ReadAnswered \/ TransmitterRefused
      BY <1>3, <2>1 DEF WriteAnswered, ReadAnswered, TransmitterRefused, linevars
    <2>2. CASE WriteMistaken \/ ReadMistaken \/ ReadRejected
      <3>1. late # << >> /\ Unseen(Tail(late))
        BY <2>2 DEF WriteMistaken, ReadMistaken, ReadRejected
      <3> QED  BY <1>1, <1>3, <3>1, UnseenIs
    <2>3. CASE Damaged \/ TimedOut
      <3>1. /\ io' \in {io, Executed} /\ Fault
            /\ \/ late' = late
               \/ \E a \in {Answer, [count |-> 0, bits |-> {}]} : late' = Append(late, a)
        BY <2>3 DEF Damaged, TimedOut, ToCome
      <3> QED  BY <1>1, <1>3, <3>1, AnswerType DEF Executed
    <2>4. CASE Refused
      <3>1. \/ Unseen(late)
            \/ UNCHANGED <<io, late, faults>>
            \/ late # << >> /\ Unseen(Tail(late))
        BY <2>4 DEF Refused
      <3> QED  BY <1>1, <1>3, <3>1, UnseenIs
    <2> QED  BY <2>1, <2>2, <2>3, <2>4 DEF Trial, Answered, Mistaken, Faulty
  <1>5. port' \in {port, "ready", "busy"}
    BY DEF Trial, Answered, Mistaken, Faulty, WriteAnswered, ReadAnswered, WriteMistaken,
           ReadMistaken, ReadRejected, Damaged, TimedOut, Refused, TransmitterRefused, linevars
  <1>6. mistaken' = mistaken \/ MistakenHead
    BY DEF Trial, Answered, Mistaken, Faulty, WriteAnswered, ReadAnswered, WriteMistaken,
           ReadMistaken, ReadRejected, Damaged, TimedOut, Refused, TransmitterRefused,
           Mistake, MistakenHead
  <1>7. mistaken \subseteq mistaken' /\ mistaken' \subseteq Watched
    BY <1>6 DEF MistakenHead, TypeInv, LineType
  <1> QED  BY <1>1, <1>2, <1>4, <1>5, <1>7 DEF LineType, appvars, TypeInv

LEMMA Attempt ==
  ASSUME TypeInv, Trial
  PROVE  \/ Retried
         \/ Over(FALSE)
         \/ Over(TRUE) /\ Head(todo).kind = "copy"
         \/ Over(TRUE) /\ pc = "write" /\ (io' = Written \/ MistakenHead)
         \/ \E bits \in SUBSET Bits : Got(bits) /\ (bits = io[Head(todo).reg] \/ MistakenHead)
  <1> DEFINE How == \/ Retried
                    \/ Over(FALSE)
                    \/ Over(TRUE) /\ Head(todo).kind = "copy"
                    \/ Over(TRUE) /\ pc = "write" /\ (io' = Written \/ MistakenHead)
                    \/ \E bits \in SUBSET Bits :
                         Got(bits) /\ (bits = io[Head(todo).reg] \/ MistakenHead)
  <1>1. Trying /\ late \in Seq(Answers)
    BY Line DEF Trying, TypeInv, LineType
  <1>2. pc = "read" => Head(todo).kind \in {"set_clear", "copy"}
    BY DEF TypeInv, DriverType
  <1>3. ASSUME NEW bits \in SUBSET Bits, pc = "read", Read(bits), io' = io,
               bits = Answer.bits \/ MistakenHead
        PROVE  How
    <2>1. CASE Head(todo).kind = "copy"
      BY <1>3, <2>1 DEF Read
    <2>2. CASE Head(todo).kind = "set_clear"
      <3>1. Answer.bits = io[Head(todo).reg]
        BY <1>1, <1>3, <2>2, AnswerType
      <3>2. Got(bits)
        BY <1>3, <2>2 DEF Read, Got
      <3> QED  BY <1>3, <3>1, <3>2
    <2> QED  BY <1>2, <1>3, <2>1, <2>2
  <1>4. CASE WriteAnswered
    BY <1>4 DEF WriteAnswered
  <1>5. CASE WriteMistaken
    BY <1>5 DEF WriteMistaken, Mistake, MistakenHead
  <1>6. CASE ReadAnswered
    <2>1. Answer.bits \in SUBSET Bits
      BY <1>1, AnswerType DEF Answers
    <2>2. pc = "read" /\ Read(Answer.bits) /\ io' = io
      BY <1>6 DEF ReadAnswered
    <2> QED  BY <1>3, <2>1, <2>2
  <1>7. CASE ReadMistaken
    <2>1. late # << >> /\ pc = "read" /\ Read(Head(late).bits)
      BY <1>7 DEF ReadMistaken
    <2>2. Head(late) \in Answers
      BY <1>1, <2>1
    <2>3. Head(late).bits \in SUBSET Bits
      BY <2>2 DEF Answers
    <2>4. io' = io
      BY <2>1, Line
    <2>5. Head(late).bits = Answer.bits \/ MistakenHead
      BY <1>7 DEF ReadMistaken, Mistake, MistakenHead
    <2> QED  BY <1>3, <2>1, <2>3, <2>4, <2>5
  <1>8. CASE ReadRejected \/ Faulty
    <2>1. Again
      BY <1>8 DEF ReadRejected, Faulty, Damaged, TimedOut, Refused, TransmitterRefused
    <2> QED  BY <2>1, AgainIs
  <1> QED  BY <1>4, <1>5, <1>6, <1>7, <1>8 DEF Trial, Answered, Mistaken

\* The driver's other steps, and those that nobody of the two threads takes.
Step ==
  \/ MakePacket \/ Reset \/ CheckVersion \/ Conf \/ Operation
  \/ PopLoad \/ PopStore \/ (\E old, due \in BOOLEAN : Routine(old, due)) \/ PassEnd \/ Fail

Aside == AnswerComes \/ Storm \/ UNCHANGED vars

LEMMA Kinds == [Next]_vars <=> (Running /\ (Trial \/ Step)) \/ StartReturns \/ App \/ Aside
  BY DEF Next, Service, Trial, Step, Aside

LEMMA AsideIs ==
  ASSUME Aside
  PROVE  /\ UNCHANGED <<io, state, attempt, config, pc, k, todo, att, packet, fmask>>
         /\ UNCHANGED <<started, agenda, arg, apc, amask, want>>
         /\ UNCHANGED <<eventmask, param, iordy, faults, races, lost, failed, mistaken>>
         /\ UNCHANGED <<port, late>> \/ AnswerComes
  BY DEF Aside, AnswerComes, Storm, vars, linevars, fsmvars, appvars

\* What follows the events of a pass.
LEMMA RoutineIs ==
  ASSUME NEW old, NEW due, Routine(old, due)
  PROVE  /\ pc = "pop" /\ k > Len(Order) /\ pc' = "request"
         /\ UNCHANGED <<io, param, state, attempt, k, att, packet, eventmask, agenda, lost, failed,
                        mistaken, iordy>>
         /\ todo' \in Seq(AllRequests) /\ todo' # << >>
         /\ \A i \in 1 .. Len(todo') : todo'[i].kind # "param"
  <1> DEFINE S == {Copy("STATUS"), SafetyOptions, RcProtocols}
             a == IF old THEN <<Copy("STATUS")>> ELSE << >>
             b == IF due THEN <<SafetyOptions>> ELSE << >>
  <1>1. a \in Seq(S) /\ b \in Seq(S) /\ <<RcProtocols>> \in Seq(S)
    <2>1. \A q \in S : <<q>> \in Seq(S)
      OBVIOUS
    <2>2. << >> \in Seq(S)
      OBVIOUS
    <2> QED  BY <2>1, <2>2
  <1>2. todo' = a \o b \o <<RcProtocols>>
    BY DEF Routine
  <1>3. S \subseteq AllRequests /\ \A q \in S : q.kind # "param"
    BY DEF AllRequests, Copy, SafetyOptions, RcProtocols, Magic, SetClear
  <1> HIDE DEF S, a, b
  <1>4. todo' \in Seq(S) /\ Len(todo') > 0
    BY <1>1, <1>2
  <1>5. todo' \in Seq(AllRequests) /\ \A i \in 1 .. Len(todo') : todo'[i] \in S
    BY <1>3, <1>4
  <1>6. todo' # << >>
    BY <1>4
  <1> QED  BY <1>3, <1>5, <1>6 DEF Routine, appvars

LEMMA NextDriverType ==
  ASSUME TypeInv, PhaseInv, Trial \/ Step
  PROVE  DriverType' /\ failed' \subseteq Events
  <1> USE DEF TypeInv
  <1>1. CASE MakePacket
    <2>1. WellTyped(packet')
      BY <1>1, PacketMade, CarryingType, OwnRegisters DEF Registers, DriverType
    <2>2. att' = 0 /\ 0 \in 0 .. ATTEMPTS - 1
      BY <1>1, CubeIOAssumption DEF MakePacket
    <2> QED  BY <1>1, <2>1, <2>2, PacketMade DEF DriverType, MaskType, InRequest, Idling
  <1>2. CASE Trial
    <2>1. pc \in InRequest /\ (io' = io \/ (pc = "write" /\ io' = Written))
      BY <1>2, Line
    <2>2. WellTyped(io')
      BY <2>1, WrittenType DEF DriverType
    <2>3. CASE Retried
      <3>1. att' = att + 1 /\ att + 1 \in 0 .. ATTEMPTS - 1
        BY <2>3, CubeIOAssumption DEF Retried, DriverType
      <3> QED  BY <2>2, <2>3, <3>1 DEF Retried, DriverType, MaskType
    <2>4. ASSUME NEW ok \in BOOLEAN, Over(ok) PROVE DriverType' /\ failed' \subseteq Events
      BY <2>1, <2>2, <2>4, OverType
    <2>5. ASSUME NEW bits \in SUBSET Bits, Got(bits) PROVE DriverType' /\ failed' \subseteq Events
      <3>1. /\ Head(todo).reg \in {"ARMING", "FEATURES"} /\ Head(todo).set \subseteq Bits
            /\ Head(todo).kind = "set_clear"
        BY <2>1, <2>5, Todo, Forms DEF Got
      <3>2. packet' = Carrying(Head(todo).reg, (bits \ Head(todo).clear) \cup Head(todo).set)
        BY <2>5 DEF Got
      <3>3. PICK r, v : /\ packet' = Carrying(r, v) /\ r \in {"ARMING", "FEATURES"}
                        /\ v \subseteq Bits
        BY <3>1, <3>2
      <3>4. WellTyped(packet')
        BY <3>3, CarryingType DEF Registers
      <3>5. /\ UNCHANGED <<io, state, k, todo, failed>> /\ att' = 0 /\ pc' = "write"
            /\ pc = "read"
        BY <2>5 DEF Got
      <3>6. 0 \in 0 .. ATTEMPTS - 1
        BY CubeIOAssumption
      <3> QED  BY <3>1, <3>4, <3>5, <3>6 DEF DriverType, MaskType, InRequest, Idling
    <2> QED  BY <1>2, <2>3, <2>4, <2>5, Attempt
  <1>3. CASE Reset \/ CheckVersion
    <2>1. /\ pc \in Idling /\ pc' = "request" /\ state' \in {"CONF", "FAIL", state}
          /\ todo' = <<Copy("CONFIG")>> \/ todo' = <<Arm>>
          /\ UNCHANGED <<io, k, att, packet, failed>>
      BY <1>3 DEF Reset, CheckVersion, Idling
    <2>2. todo' \in Seq(AllRequests) /\ todo' # << >>
      <3>1. Copy("CONFIG") \in AllRequests /\ Arm \in AllRequests
        BY DEF AllRequests
      <3>2. \A q \in AllRequests : <<q>> \in Seq(AllRequests) /\ <<q>> # << >>
        OBVIOUS
      <3> QED  BY <2>1, <3>1, <3>2
    <2> QED  BY <2>1, <2>2 DEF DriverType, MaskType, InRequest, Idling
  <1>4. CASE Conf \/ Operation \/ Fail
    <2>1. Len(Order) \in Nat
      BY OrderType
    <2> QED
      BY <1>4, <2>1 DEF Conf, Operation, Fail, DriverType, MaskType, InRequest, Idling
  <1>5. CASE PopLoad
    <2>1. Len(Order) \in Nat
      BY OrderType
    <2> QED  BY <1>5, <2>1 DEF PopLoad, DriverType, MaskType, InRequest, Idling
  <1>6. CASE PopStore
    <2>1. pc = "popstore" /\ k <= Len(Order) /\ Len(Order) \in Nat
      BY <1>6, OrderType DEF PopStore, DriverType
    <2>2. Order[k] \in Events
      BY <2>1, OrderType, PushedEvents DEF DriverType
    <2>3. /\ todo' = Requests(Order[k]) /\ pc' = "request" /\ failed' \subseteq failed
          /\ UNCHANGED <<io, state, k, att, packet>>
      BY <1>6 DEF PopStore
    <2> QED  BY <2>2, <2>3, RequestsType DEF DriverType, MaskType, InRequest, Idling
  <1>7. CASE \E old, due \in BOOLEAN : Routine(old, due)
    <2>1. /\ pc' = "request" /\ todo' \in Seq(AllRequests) /\ todo' # << >>
          /\ UNCHANGED <<io, state, k, att, packet, failed>>
      BY <1>7, RoutineIs
    <2> QED  BY <2>1 DEF DriverType, MaskType, InRequest, Idling
  <1>8. CASE PassEnd
    <2>1. Len(Order) \in Nat
      BY OrderType
    <2> QED  BY <1>8, <2>1 DEF PassEnd, DriverType, MaskType, InRequest, Idling
  <1> QED
    BY <1>1, <1>2, <1>3, <1>4, <1>5, <1>6, <1>7, <1>8 DEF Step

\* The application's steps leave the driver's thread alone, and the other way round.
drivervars == <<io, packet, state, pc, todo, k, att>>

LEMMA AppOnly ==
  ASSUME StartReturns \/ App \/ Aside
  PROVE  /\ UNCHANGED drivervars /\ UNCHANGED <<attempt, fmask, faults>>
         /\ UNCHANGED <<port, late>> \/ AnswerComes
         /\ UNCHANGED <<failed, mistaken>> \/ PushStore
  <1>1. CASE StartReturns \/ Exec \/ Other \/ SetParam \/ PushLoad \/ PushStore
    BY <1>1 DEF Exec, Other, StartReturns, cube_io_pwm_exec, Set, CallAll, SetParam, PushLoad,
         PushStore, fsmvars, linevars, drivervars
  <1>2. CASE Aside
    BY <1>2, AsideIs DEF drivervars
  <1> QED  BY <1>1, <1>2 DEF App, Setter

LEMMA DriverOnly ==
  ASSUME TypeInv, Trial \/ Step
  PROVE  /\ UNCHANGED <<param, started, agenda, arg, apc, amask, want>>
         /\ iordy' \in {iordy, 1}
         /\ iordy' = 1 => iordy = 1 \/ PassEnd \/ Fail
  <1>1. CASE Trial
    BY <1>1, Line
  <1>2. CASE Step
    BY <1>2 DEF Step, MakePacket, Reset, CheckVersion, Conf, Operation, PopLoad, PopStore,
         Routine, PassEnd, Fail, appvars
  <1> QED  BY <1>1, <1>2

\* What a caller starts.
LEMMA Calls ==
  ASSUME Exec \/ Other
  PROVE  \E es \in Seq(Pushed) \ {<< >>} : \E v : CallAll(es, v)
  <1>1. CASE Exec
    <2>1. PICK arm \in Arms, v \in PwmValues : cube_io_pwm_exec(arm, v)
      BY <1>1 DEF Exec
    <2>2. PICK e \in {"FORCE_SAFETY_OFF", "FORCE_SAFETY_ON"} : CallAll(<<e, "SET_PWM">>, v)
      BY <2>1 DEF cube_io_pwm_exec
    <2>3. <<e, "SET_PWM">> \in Seq(Pushed) \ {<< >>}
      BY DEF Pushed
    <2> QED  BY <2>2, <2>3
  <1>2. ASSUME NEW e \in Settings, NEW v \in Values, Set(e, v)
        PROVE  \E es \in Seq(Pushed) \ {<< >>} : \E w : CallAll(es, w)
    <2>1. <<e>> \in Seq(Pushed) \ {<< >>}
      BY DEF Pushed
    <2> QED  BY <1>2, <2>1 DEF Set
  <1> QED  BY <1>1, <1>2 DEF Other

\* The event being pushed, and those behind it.
LEMMA Agenda ==
  ASSUME AppType, apc # "idle"
  PROVE  /\ Len(agenda) \in Nat \ {0}
         /\ Head(agenda) = agenda[1] /\ Head(agenda) \in Pushed
         /\ Tail(agenda) \in Seq(Pushed) /\ Len(Tail(agenda)) = Len(agenda) - 1
         /\ \A i \in 1 .. Len(agenda) - 1 : Tail(agenda)[i] = agenda[i + 1]
         /\ Tail(agenda) = << >> <=> Len(agenda) = 1
  <1>1. agenda # << >> /\ agenda \in Seq(Pushed)
    BY DEF AppType
  <1> QED  BY <1>1, Rest

LEMMA NextAppType ==
  ASSUME TypeInv, [Next]_vars
  PROVE  AppType'
  <1> USE DEF TypeInv
  <1>1. CASE Trial \/ Step
    BY <1>1, DriverOnly DEF AppType
  <1>2. CASE StartReturns
    BY <1>2 DEF StartReturns, AppType
  <1>3. CASE Exec \/ Other
    <2>1. PICK es \in Seq(Pushed) \ {<< >>} : \E v : CallAll(es, v)
      BY <1>3, Calls
    <2> QED  BY <2>1 DEF CallAll, AppType
  <1>4. CASE SetParam
    <2>1. param' = [r \in ValueRegs |-> param'[r]]
      BY <1>4 DEF SetParam, AppType
    <2>2. apc' \in {"set2", "load"} /\ apc # "idle" /\ UNCHANGED <<agenda, iordy>>
      BY <1>4 DEF SetParam
    <2> QED  BY <2>1, <2>2 DEF AppType
  <1>5. CASE PushLoad
    BY <1>5 DEF PushLoad, AppType
  <1>6. CASE PushStore
    <2>1. /\ agenda' = Tail(agenda) /\ apc # "idle"
          /\ apc' = IF Len(agenda) > 1 THEN "set" ELSE "idle"
          /\ UNCHANGED <<param, iordy>>
      BY <1>6 DEF PushStore
    <2> QED  BY <2>1, Agenda DEF AppType
  <1>7. CASE Aside
    BY <1>7, AsideIs DEF AppType
  <1> QED  BY <1>1, <1>2, <1>3, <1>4, <1>5, <1>6, <1>7, Kinds DEF App, Setter

LEMMA NextLineType ==
  ASSUME TypeInv, [Next]_vars
  PROVE  LineType'
  <1> USE DEF TypeInv
  <1>1. CASE Trial
    BY <1>1, Line
  <1>2. CASE Step
    <2>1. UNCHANGED <<port, late>> /\ mistaken' \subseteq mistaken
      BY <1>2 DEF Step, MakePacket, Reset, CheckVersion, Conf, Operation, PopLoad, PopStore,
         Routine, PassEnd, Fail, linevars
    <2> QED  BY <2>1 DEF LineType
  <1>3. CASE AnswerComes
    <2>1. late # << >> /\ late' = Tail(late) /\ port' \in {"locked", port} /\ mistaken' = mistaken
      BY <1>3 DEF AnswerComes
    <2> QED  BY <2>1 DEF LineType
  <1>4. CASE (StartReturns \/ App \/ Aside) /\ ~AnswerComes
    <2>1. UNCHANGED <<port, late>> /\ (mistaken' = mistaken \/ PushStore)
      BY <1>4, AppOnly
    <2>2. mistaken' \subseteq mistaken
      BY <2>1 DEF PushStore
    <2> QED  BY <2>1, <2>2 DEF LineType
  <1> QED  BY <1>1, <1>2, <1>3, <1>4, Kinds

LEMMA NextMaskType ==
  ASSUME TypeInv, PhaseInv, [Next]_vars
  PROVE  MaskType'
  <1> USE DEF TypeInv
  <1>1. ASSUME UNCHANGED <<eventmask, fmask, amask, lost, races>>, faults' \in 0 .. MaxFaults,
               failed' \subseteq Events
        PROVE  MaskType'
    BY <1>1 DEF MaskType
  <1>2. CASE PopLoad
    <2>1. /\ UNCHANGED <<eventmask, amask, lost, failed, faults>> /\ fmask' \in {fmask, eventmask}
          /\ races' = races \/ (races' = races + 1 /\ races < MaxRaces)
      BY <1>2 DEF PopLoad, appvars, MaskType
    <2> QED  BY <2>1, CubeIOAssumption DEF MaskType
  <1>3. CASE PopStore
    <2>1. /\ eventmask' \subseteq fmask /\ fmask' = {} /\ lost' \subseteq lost \cup eventmask
          /\ failed' \subseteq failed /\ UNCHANGED <<amask, faults, races>>
      BY <1>3 DEF PopStore, appvars
    <2> QED  BY <2>1 DEF MaskType
  <1>4. CASE PushLoad
    <2>1. /\ UNCHANGED <<eventmask, fmask, lost, failed, faults>> /\ amask' = eventmask
          /\ races' = races \/ (races' = races + 1 /\ races < MaxRaces)
      BY <1>4 DEF PushLoad, fsmvars, MaskType
    <2> QED  BY <2>1, CubeIOAssumption DEF MaskType
  <1>5. CASE PushStore
    <2>1. Head(agenda) \in Events
      BY <1>5, Agenda, PushedEvents DEF PushStore
    <2>2. /\ eventmask' = amask \cup {Head(agenda)} /\ amask' = {}
          /\ lost' \subseteq lost /\ failed' \subseteq failed /\ UNCHANGED <<fmask, faults, races>>
      BY <1>5 DEF PushStore, fsmvars
    <2> QED  BY <2>1, <2>2 DEF MaskType
  <1>6. CASE Trial
    <2>1. faults' \in 0 .. MaxFaults
      BY <1>6, Line, CubeIOAssumption DEF Fault, MaskType
    <2> QED  BY <1>1, <1>6, <2>1, Line, NextDriverType
  <1>7. CASE Step /\ ~PopLoad /\ ~PopStore
    <2>1. UNCHANGED <<eventmask, fmask, amask, lost, races, faults>>
      BY <1>7 DEF Step, MakePacket, Reset, CheckVersion, Conf, Operation, Routine, PassEnd, Fail,
              appvars
    <2> QED  BY <1>1, <1>7, <2>1, NextDriverType DEF MaskType
  <1>8. CASE StartReturns \/ SetParam
    BY <1>1, <1>8 DEF StartReturns, SetParam, MaskType, fsmvars
  <1>9. CASE Exec \/ Other
    <2>1. PICK es \in Seq(Pushed) \ {<< >>} : \E v : CallAll(es, v)
      BY <1>9, Calls
    <2> QED  BY <1>1, <2>1 DEF CallAll, MaskType, fsmvars
  <1>10. CASE Aside
    BY <1>1, <1>10, AsideIs DEF MaskType
  <1> QED
    BY <1>2, <1>3, <1>4, <1>5, <1>6, <1>7, <1>8, <1>9, <1>10, Kinds DEF App, Setter

LEMMA NextTypeInv ==
  ASSUME TypeInv, PhaseInv, [Next]_vars
  PROVE  TypeInv'
  <1>1. DriverType'
    <2>1. CASE Trial \/ Step
      BY <2>1, NextDriverType
    <2>2. CASE StartReturns \/ App \/ Aside
      <3>1. UNCHANGED <<io, packet, state, pc, todo, k, att>>
        BY <2>2, AppOnly DEF drivervars
      <3> QED  BY <3>1 DEF TypeInv, DriverType, WellTyped
    <2> QED  BY <2>1, <2>2, Kinds
  <1> QED  BY <1>1, NextLineType, NextAppType, NextMaskType DEF TypeInv

LEMMA NextPhaseInv ==
  ASSUME TypeInv, PhaseInv, [Next]_vars
  PROVE  PhaseInv'
  <1> USE DEF PhaseInv, InRequest
  <1>1. CASE Trial \/ Step
    <2>1. UNCHANGED <<started, apc>> /\ (iordy' = iordy \/ PassEnd \/ Fail)
      BY <1>1, DriverOnly
    <2> DEFINE Went ==
          \/ state = "CONF" /\ pc' \in {"top", "version"} /\ state' \in {"CONF", "FAIL"}
               /\ (pc' = "version" => state' = "CONF")
          \/ state = "OPERATION" /\ state' = "OPERATION" /\ pc' \in {"request", "pop", "give"}
    <2>2. ASSUME NEW ok \in BOOLEAN, Over(ok), pc \in InRequest PROVE Went
      <3>1. Len(todo) \in Nat \ {0}
        BY <2>2, Todo DEF TypeInv
      <3> HIDE DEF PhaseInv, InRequest
      <3>2. state = "OPERATION" => pc' \in {"request", "pop", "give"} /\ state' = "OPERATION"
        <4> SUFFICES ASSUME state = "OPERATION"
                     PROVE  pc' \in {"request", "pop", "give"} /\ state' = "OPERATION"
          OBVIOUS
        <4>1. DriverType
          BY DEF TypeInv
        <4>2. /\ state' = "OPERATION"
              /\ Len(todo) > 1 => pc' = "request"
              /\ Len(todo) = 1 => pc' \in {"pop", "give"}
          BY <2>2, <4>1, OverIs
        <4> PICK n : n = Len(todo)
          OBVIOUS
        <4>3. n > 1 \/ n = 1
          BY <3>1
        <4> QED  BY <4>2, <4>3
      <3>3. state = "CONF" =>
              /\ pc' \in {"top", "version"} /\ state' \in {"CONF", "FAIL"}
              /\ pc' = "version" => state' = "CONF"
        BY <2>2, OverIs DEF TypeInv
      <3> QED  BY <2>2, <3>2, <3>3, OverIs DEF TypeInv
    <2>3. CASE MakePacket
      <3>1. UNCHANGED <<attempt, iordy>>
        BY <2>3 DEF MakePacket
      <3>2. pc \in InRequest /\ pc' \in InRequest /\ UNCHANGED <<state, todo>>
        BY <2>3, PacketMade DEF TypeInv
      <3> QED  BY <2>1, <3>1, <3>2
    <2>4. CASE Trial
      <3>1. pc \in InRequest /\ UNCHANGED <<attempt, iordy>>
        BY <2>4, Line
      <3>2. \/ pc' \in InRequest /\ UNCHANGED <<state, todo>>
            \/ Over(FALSE) \/ Over(TRUE)
        BY <2>4, <3>1, Attempt DEF Retried, Got
      <3>3. (pc' \in InRequest /\ UNCHANGED <<state, todo>>) \/ Went
        BY <2>2, <3>1, <3>2
      <3> QED  BY <2>1, <3>1, <3>3
    <2>5. CASE Reset \/ CheckVersion
      <3>1. /\ state' = "CONF" /\ state \in {"RESET", "CONF"} /\ attempt' = 0 /\ pc' = "request"
            /\ todo' = <<Copy("CONFIG")>> \/ todo' = <<Arm>>
            /\ UNCHANGED iordy
        BY <2>5 DEF Reset, CheckVersion, TypeInv, DriverType
      <3> QED  BY <2>1, <3>1
    <2>6. CASE Conf \/ Operation \/ PassEnd \/ Fail
      BY <2>1, <2>6 DEF Conf, Operation, PassEnd, Fail, TypeInv, DriverType, Idling
    <2>7. CASE PopLoad \/ PopStore \/ \E old, due \in BOOLEAN : Routine(old, due)
      <3>1. /\ pc \in {"pop", "popstore"} /\ pc' \in {"pop", "popstore", "request"}
            /\ UNCHANGED <<state, attempt, iordy>>
        BY <2>7 DEF PopLoad, PopStore, Routine
      <3> QED  BY <2>1, <3>1 DEF TypeInv, DriverType
    <2> QED  BY <1>1, <2>3, <2>4, <2>5, <2>6, <2>7 DEF Step
  <1>2. CASE StartReturns \/ App \/ Aside
    <2>1. UNCHANGED <<attempt, state, pc, todo>>
      BY <1>2, AppOnly DEF drivervars
    <2>2. CASE StartReturns
      BY <2>1, <2>2 DEF StartReturns
    <2>3. CASE Exec \/ Other
      <3>1. started /\ UNCHANGED <<started, iordy>>
        BY <2>3, Calls DEF CallAll
      <3> QED  BY <2>1, <3>1
    <2>4. CASE Setter
      <3>1. apc # "idle" /\ UNCHANGED <<started, iordy>>
        BY <2>4 DEF Setter, SetParam, PushLoad, PushStore
      <3> QED  BY <2>1, <3>1
    <2>5. CASE Aside
      BY <2>1, <2>5, AsideIs
    <2> QED  BY <1>2, <2>2, <2>3, <2>4, <2>5 DEF App
  <1> QED  BY <1>1, <1>2, Kinds

LEMMA NextMaskInv ==
  ASSUME TypeInv, PhaseInv, MaskInv, [Next]_vars
  PROVE  MaskInv'
  <1> USE DEF MaskInv
  <1>1. CASE PopLoad
    BY <1>1 DEF PopLoad, appvars
  <1>2. CASE PopStore
    BY <1>2 DEF PopStore, appvars
  <1>3. CASE PushLoad
    BY <1>3 DEF PushLoad, fsmvars
  <1>4. CASE PushStore
    BY <1>4 DEF PushStore, fsmvars
  <1>5. CASE Trial
    <2>1. ASSUME NEW ok, Over(ok) PROVE pc' # "popstore"
      BY <2>1 DEF Over, AfterRequests
    <2>2. pc \in {"write", "read"} /\ UNCHANGED <<eventmask, fmask, amask, apc>>
      BY <1>5, Line
    <2>3. pc' # "popstore"
      BY <1>5, <2>1, <2>2, Attempt DEF Retried, Got
    <2> QED  BY <2>2, <2>3
  <1>6. CASE Step /\ ~PopLoad /\ ~PopStore
    <2>1. UNCHANGED <<eventmask, fmask, amask, apc>>
      BY <1>6 DEF Step, MakePacket, Reset, CheckVersion, Conf, Operation, Routine, PassEnd, Fail,
              appvars
    <2>2. CASE MakePacket
      BY <2>1, <2>2, PacketMade DEF TypeInv
    <2>3. CASE ~MakePacket
      <3>1. pc' = "popstore" => pc = "popstore"
        BY <1>6, <2>3 DEF Step, Reset, CheckVersion, Conf, Operation, Routine, PassEnd, Fail
      <3> QED  BY <2>1, <3>1
    <2> QED  BY <2>2, <2>3
  <1>7. CASE StartReturns \/ SetParam
    BY <1>7 DEF StartReturns, SetParam, fsmvars
  <1>8. CASE Exec \/ Other
    <2>1. PICK es \in Seq(Pushed) \ {<< >>} : \E v : CallAll(es, v)
      BY <1>8, Calls
    <2> QED  BY <2>1 DEF CallAll, fsmvars
  <1>9. CASE Aside
    BY <1>9, AsideIs
  <1> QED
    BY <1>1, <1>2, <1>3, <1>4, <1>5, <1>6, <1>7, <1>8, <1>9, Kinds DEF App, Setter

\* A late answer once taken for one about ARMING is never made good.
LEMMA MistakenArms ==
  ASSUME TypeInv, [Next]_vars, "ARMING" \in mistaken
  PROVE  "ARMING" \in mistaken'
  <1> USE DEF TypeInv
  <1>1. CASE Trial
    BY <1>1, Line
  <1>2. CASE PopStore
    <2>1. Order[k] \in Events
      BY <1>2, OrderType, PushedEvents DEF PopStore, DriverType
    <2>2. "ARMING" \notin Params(Order[k])
      BY <2>1, OwnRegisters
    <2> QED  BY <1>2, <2>2 DEF PopStore
  <1>3. CASE PushStore
    <2>1. Head(agenda) \in Events
      BY <1>3, Agenda, PushedEvents DEF PushStore
    <2>2. "ARMING" \notin Params(Head(agenda))
      BY <2>1, OwnRegisters
    <2> QED  BY <1>3, <2>2 DEF PushStore
  <1>4. CASE Step /\ ~PopStore
    BY <1>4 DEF Step, MakePacket, Reset, CheckVersion, Conf, Operation, PopLoad, Routine,
         PassEnd, Fail
  <1>5. CASE (StartReturns \/ App \/ Aside) /\ ~PushStore
    BY <1>5, AppOnly
  <1> QED  BY <1>1, <1>2, <1>3, <1>4, <1>5, Kinds

LEMMA NextArmInv ==
  ASSUME TypeInv, PhaseInv, ArmInv, [Next]_vars
  PROVE  ArmInv'
  <1> SUFFICES ASSUME "ARMING" \notin mistaken' PROVE ArmInv'
    BY DEF ArmInv
  <1>0. "ARMING" \notin mistaken
    BY MistakenArms
  <1> DEFINE InReg == (state = "CONF" /\ pc = "top") \/ state = "OPERATION" =>
                        ArmBits \subseteq io["ARMING"]
             InPacket == pc = "write" /\ Head(todo).reg = "ARMING" =>
                           ArmBits \subseteq packet["ARMING"]
  <1>a. InReg /\ InPacket
    BY <1>0 DEF ArmInv
  <1>b. SUFFICES InReg' /\ InPacket'
    BY DEF ArmInv
  <1> USE DEF TypeInv
  <1>1. CASE MakePacket
    <2>1. "ARMING" \notin ValueRegs
      BY OwnRegisters
    <2> QED  BY <1>1, <1>a, <2>1, PacketMade
  <1>2. ASSUME Trial, NEW bits \in SUBSET Bits, Got(bits),
               bits = io[Head(todo).reg] \/ MistakenHead
        PROVE  InReg' /\ InPacket'
    <2>1. pc = "read" /\ Head(todo) \in AllRequests /\ Head(todo).kind = "set_clear"
      BY <1>2, Todo DEF Got, InRequest
    <2>2. UNCHANGED <<io, state, todo>> /\ pc' = "write"
      BY <1>2 DEF Got
    <2>3. ASSUME Head(todo).reg = "ARMING" PROVE ArmBits \subseteq packet'["ARMING"]
      <3>1. PICK v : v = (bits \ Head(todo).clear) \cup Head(todo).set
        OBVIOUS
      <3>2. packet' = Carrying("ARMING", v)
        BY <1>2, <2>3, <3>1 DEF Got
      <3>3. Head(todo).set \subseteq Bits /\ Head(todo).clear \cap ArmBits = {}
        BY <2>1, <2>3, Forms
      <3>4. v \subseteq Bits
        BY <3>1, <3>3
      <3>5. packet'["ARMING"] = v
        BY <3>2, <3>4, CarryingType DEF Registers
      <3>6. bits = io["ARMING"]
        BY <1>2, <2>3 DEF MistakenHead, Watched
      <3>7. CASE state = "OPERATION"
        BY <1>a, <3>1, <3>3, <3>5, <3>6, <3>7
      <3>8. CASE state = "CONF"
        <4>1. todo = <<Copy("CONFIG")>> \/ todo = <<Arm>>
          BY <2>1, <3>8 DEF PhaseInv, InRequest
        <4>2. Head(todo) = Arm
          BY <2>1, <4>1 DEF Copy
        <4>3. Head(todo).set = ArmBits
          BY <4>2 DEF Arm, SetClear
        <4> QED  BY <3>1, <3>5, <4>3
      <3> QED  BY <2>1, <3>7, <3>8 DEF PhaseInv, DriverType, Idling
    <2> QED  BY <1>a, <2>1, <2>2, <2>3
  <1>3. ASSUME Trial PROVE state = "OPERATION" => ArmBits \subseteq io'["ARMING"]
    <2>1. io' = io \/ (pc = "write" /\ io' = Written)
      BY <1>3, Line
    <2>2. "ARMING" \in Registers
      BY DEF Registers
    <2> QED  BY <1>a, <2>1, <2>2, WrittenType
  <1>4. ASSUME Trial, Retried PROVE InReg' /\ InPacket'
    BY <1>3, <1>4, <1>a, Line DEF Retried, InRequest
  <1>5. ASSUME Trial, NEW ok \in BOOLEAN, Over(ok),
               ok => \/ Head(todo).kind = "copy"
                     \/ pc = "write" /\ (io' = Written \/ MistakenHead)
        PROVE  InReg' /\ InPacket'
    <2>1. pc \in InRequest
      BY <1>5, Line
    <2>2. pc' # "write"
      BY <1>5 DEF Over, AfterRequests
    <2>3. CASE state = "OPERATION"
      <3>1. state' = "OPERATION"
        BY <1>5, <2>1, <2>3, OverIs
      <3> QED  BY <1>3, <1>5, <2>2, <2>3, <3>1
    <2>4. CASE state = "CONF" /\ ~(pc' = "top" /\ state' = "CONF")
      <3>1. state' \in {"CONF", "FAIL"}
        BY <1>5, <2>1, <2>4, OverIs
      <3> QED  BY <2>2, <2>4, <3>1
    <2>5. CASE state = "CONF" /\ pc' = "top" /\ state' = "CONF"
      <3>1. ok /\ todo = <<Arm>>
        BY <1>5, <2>1, <2>5, OverIs
      <3>2. Head(todo).reg = "ARMING" /\ Head(todo).kind # "copy"
        BY <3>1 DEF Arm, SetClear
      <3>3. pc = "write" /\ io' = Written
        BY <1>5, <3>1, <3>2 DEF MistakenHead, Watched
      <3>4. io'["ARMING"] = packet["ARMING"]
        BY <3>2, <3>3, WrittenType
      <3> QED  BY <1>a, <2>2, <3>2, <3>3, <3>4
    <2> QED  BY <1>5, <2>1, <2>3, <2>4, <2>5, OverIs
  <1>6. CASE Trial
    <2> HIDE DEF InReg, InPacket
    <2> QED  BY <1>2, <1>4, <1>5, <1>6, Attempt
  <1>7. CASE Reset \/ CheckVersion
    BY <1>7, <1>a DEF Reset, CheckVersion, PhaseInv, DriverType
  <1>8. CASE Conf \/ Operation \/ PassEnd \/ Fail
    BY <1>8, <1>a DEF Conf, Operation, PassEnd, Fail, PhaseInv, InRequest
  <1>9. CASE PopLoad \/ PopStore \/ \E old, due \in BOOLEAN : Routine(old, due)
    BY <1>9, <1>a DEF PopLoad, PopStore, Routine
  <1>10. CASE StartReturns \/ App \/ Aside
    BY <1>10, <1>a, AppOnly DEF drivervars
  <1> QED
    BY <1>1, <1>6, <1>7, <1>8, <1>9, <1>10, Kinds DEF Step

-----------------------------------------------------------------------------
(* Parameters on their way *)

LEMMA Servable ==
  ASSUME TypeInv
  PROVE  /\ Len(Order) \in Nat
         /\ \A i \in 1 .. Len(Order) : Order[i] \in Pushed /\ Order[i] \in Events
         /\ Bearing \subseteq Events /\ Bearing \subseteq Pushed /\ Bearing \subseteq Carriers
         /\ \A e \in Bearing : Params(e) \subseteq ValueRegs
  BY OrderType, PushedEvents, OwnRegisters DEF Bearing

\* A value register is written by the request of its parameter alone.
LEMMA Wrote ==
  ASSUME TypeInv, OwnRequests, pc = "write", NEW r \in ValueRegs
  PROVE  /\ Written[r] = IF r = Head(todo).reg THEN packet[r] ELSE io[r]
         /\ r = Head(todo).reg =>
              /\ Head(todo).kind = "param" /\ Head(todo) = FromParam(r)
              /\ state = "OPERATION" /\ k <= Len(Order) /\ r \in Params(Order[k])
  <1>1. Head(todo) \in AllRequests /\ 1 \in 1 .. Len(todo) /\ Head(todo) = todo[1]
    BY Todo DEF TypeInv, InRequest
  <1>2. r \in Registers /\ r \notin {"SAFETY", "ARMING", "FEATURES", "RC_PROTOCOLS"}
    BY OwnRegisters DEF Registers
  <1>3. r = Head(todo).reg => Head(todo).kind = "param" /\ Head(todo) = FromParam(r)
    BY <1>1, <1>2, Forms DEF TypeInv, DriverType
  <1> QED  BY <1>1, <1>2, <1>3, WrittenType DEF TypeInv, OwnRequests

\* After an attempt, what the I/O processor does not have is mistaken, pending or
\* being served, and what is being served is pending or underway.
LEMMA AfterAttempt ==
  ASSUME IInv, Trial, NEW e \in Bearing, NEW r \in Params(e)
  PROVE  /\ io'[r] # param[r] => Dirty(e) \/ Serving(e) \/ r \in mistaken
         /\ Serving(e) /\ ~Dirty(e) /\ io[r] = param[r] => io'[r] = param[r]
         /\ Serving(e) /\ ~Dirty(e) /\ Head(todo) = FromParam(r) /\ pc = "write" /\ io' = Written
              => io'[r] = param[r]
  <1> USE DEF IInv
  <1>1. /\ pc \in InRequest /\ pc \in {"write", "read"}
        /\ io' = io \/ (pc = "write" /\ io' = Written)
    BY Line
  <1>2. r \in ValueRegs /\ OwnRequests
    BY Servable DEF WayInv
  <1>3. pc = "write" =>
          /\ Written[r] = IF r = Head(todo).reg THEN packet[r] ELSE io[r]
          /\ r = Head(todo).reg =>
              /\ Head(todo).kind = "param" /\ Head(todo) = FromParam(r)
              /\ state = "OPERATION" /\ k <= Len(Order) /\ r \in Params(Order[k])
    BY <1>2, Wrote
  <1>4. pc = "write" /\ r = Head(todo).reg => Serving(e)
    <2>1. k <= Len(Order) => Order[k] \in Events
      BY Servable DEF TypeInv, DriverType
    <2> QED  BY <1>1, <1>3, <2>1, OwnRegisters, Servable DEF Serving
  <1>5. io[r] # param[r] => Dirty(e) \/ Serving(e) \/ r \in mistaken
    BY <1>1 DEF WayInv, InRequest
  <1>6. Serving(e) /\ ~Dirty(e) /\ pc = "write" /\ r = Head(todo).reg => packet[r] = param[r]
    BY <1>3 DEF WayInv, Underway
  <1>7. FromParam(r).reg = r
    BY DEF FromParam
  <1> QED  BY <1>1, <1>3, <1>4, <1>5, <1>6, <1>7

LEMMA AttemptWayInv ==
  ASSUME IInv, Trial
  PROVE  WayInv'
  <1> USE DEF IInv
  <1>1. /\ pc \in {"write", "read"} /\ pc \in InRequest
        /\ UNCHANGED <<param, eventmask, lost, agenda>>
        /\ mistaken \subseteq mistaken'
        /\ io' = io \/ (pc = "write" /\ io' = Written)
    BY Line
  <1>2. state = "CONF" \/ state = "OPERATION"
    BY <1>1 DEF PhaseInv, TypeInv, DriverType
  <1>3. state = "CONF" => \A r \in ValueRegs : io'[r] = param[r]
    BY <1>1, Wrote DEF WayInv
  <1>4. \A e \in Bearing : \A r \in Params(e) : r \in ValueRegs
    BY Servable
  <1>5. CASE Retried
    <2>0. UNCHANGED <<state, pc, todo, k, failed, packet>>
      BY <1>5 DEF Retried
    <2>1. \A e : (Serving(e)' <=> Serving(e)) /\ (Dirty(e)' <=> Dirty(e))
      BY <1>1, <2>0 DEF Serving, Dirty, Ahead
    <2>2. \A e \in Bearing : Serving(e) /\ ~Dirty(e) => Underway(e)'
      BY <1>1, <2>0, AfterAttempt DEF WayInv, Underway
    <2>3. \A e \in Bearing : \A r \in Params(e) :
            io'[r] # param'[r] => Dirty(e)' \/ Serving(e)' \/ r \in mistaken'
      BY <1>1, <2>1, AfterAttempt
    <2>4. OwnRequests'
      BY <2>0 DEF WayInv, OwnRequests
    <2> QED  BY <1>1, <1>2, <1>3, <2>0, <2>1, <2>2, <2>3, <2>4 DEF WayInv
  <1>6. ASSUME NEW bits, Got(bits) PROVE WayInv'
    <2>1. /\ pc = "read" /\ pc' = "write" /\ Head(todo).kind = "set_clear"
          /\ UNCHANGED <<io, param, state, k, todo, failed, lost, eventmask, agenda>>
      BY <1>1, <1>6 DEF Got
    <2>2. \A e : (Serving(e)' <=> Serving(e)) /\ (Dirty(e)' <=> Dirty(e))
                   /\ (Underway(e) => Underway(e)')
      BY <1>1, <2>1 DEF Serving, InRequest, Dirty, Ahead, Underway
    <2>3. OwnRequests'
      BY <2>1 DEF WayInv, OwnRequests
    <2> QED  BY <1>1, <2>1, <2>2, <2>3 DEF WayInv
  <1>7. ASSUME NEW ok \in BOOLEAN, Over(ok),
               ok => \/ Head(todo).kind = "copy"
                     \/ pc = "write" /\ (io' = Written \/ MistakenHead)
        PROVE  WayInv'
    <2>1. /\ pc' \in {"request", "top", "version", "pop", "give"} /\ todo' = Tail(todo)
          /\ Len(todo) \in Nat \ {0} /\ Head(todo) = todo[1]
          /\ Tail(todo) \in Seq(AllRequests) /\ Len(Tail(todo)) = Len(todo) - 1
          /\ \A i \in 1 .. Len(todo) - 1 : Tail(todo)[i] = todo[i + 1]
      BY <1>1, <1>7, Todo DEF TypeInv, Over, AfterRequests
    <2>2. CASE state = "CONF"
      <3>1. todo' = << >> /\ pc' \in {"top", "version"} /\ state' \in {"CONF", "FAIL"}
        BY <1>1, <1>7, <2>2, OverIs DEF TypeInv
      <3>2. OwnRequests' /\ \A e : ~Serving(e)'
        BY <3>1 DEF OwnRequests, Serving, InRequest
      <3> QED  BY <1>1, <1>3, <1>4, <2>2, <3>1, <3>2 DEF WayInv
    <2>3. CASE state = "OPERATION"
      <3>1. /\ state' = "OPERATION"
            /\ Len(todo) > 1 => pc' = "request" /\ k' = k
            /\ Len(todo) = 1 => pc' \in {"pop", "give"}
            /\ k <= Len(Order) => failed' = IF ok THEN failed
                                            ELSE failed \cup ({Order[k]} \cap Carriers)
            /\ k > Len(Order) => failed' = failed
        BY <1>1, <1>7, <2>3, OverIs DEF TypeInv
      <3>2. k \in Nat /\ Len(Order) \in Nat
        BY Servable DEF TypeInv, DriverType
      <3>3. \A e \in Bearing : /\ Dirty(e) => Dirty(e)'
                               /\ Serving(e) /\ ~ok => Dirty(e)'
        BY <1>1, <3>1, <3>2, Servable DEF Dirty, Ahead, Serving
      <3>4. \A e : /\ Serving(e) /\ Len(todo) > 1 => Serving(e)'
                   /\ Serving(e)' => Serving(e) /\ Len(todo) > 1
        BY <1>1, <2>1, <2>3, <3>1 DEF Serving, InRequest
      <3>5. ASSUME NEW e \in Bearing, NEW r \in Params(e), Serving(e), ~Dirty(e), ok
            PROVE  io'[r] = param[r] \/ r \in mistaken'
                     \/ \E i \in 1 .. Len(todo) - 1 : Tail(todo)[i] = FromParam(r)
        <4>1. io[r] = param[r] \/ r \in mistaken
                \/ \E i \in 1 .. Len(todo) : todo[i] = FromParam(r)
          BY <3>5 DEF WayInv, Underway
        <4>2. CASE io[r] = param[r] \/ r \in mistaken
          BY <1>1, <3>5, <4>2, AfterAttempt
        <4>3. CASE Head(todo) = FromParam(r)
          <5>1. Head(todo).kind = "param" /\ Head(todo).reg = r
            BY <4>3 DEF FromParam
          <5>2. r \in Watched
            BY <1>4 DEF Watched
          <5> QED  BY <1>7, <3>5, <4>3, <5>1, <5>2, AfterAttempt DEF MistakenHead
        <4>4. ASSUME NEW i \in 2 .. Len(todo), todo[i] = FromParam(r)
              PROVE  \E j \in 1 .. Len(todo) - 1 : Tail(todo)[j] = FromParam(r)
          <5>1. i - 1 \in 1 .. Len(todo) - 1 /\ (i - 1) + 1 = i
            BY <2>1
          <5> QED  BY <2>1, <4>4, <5>1
        <4> QED  BY <2>1, <4>1, <4>2, <4>3, <4>4
      <3>6. ASSUME NEW e \in Bearing, NEW r \in Params(e), io'[r] # param'[r]
            PROVE  Dirty(e)' \/ Serving(e)' \/ r \in mistaken'
        <4>1. Dirty(e) \/ Serving(e) \/ r \in mistaken
          BY <1>1, <3>6, AfterAttempt
        <4>2. CASE Serving(e) /\ ~Dirty(e) /\ ok /\ r \notin mistaken'
          <5>1. \E i \in 1 .. Len(todo) - 1 : Tail(todo)[i] = FromParam(r)
            BY <1>1, <3>5, <3>6, <4>2
          <5>2. Len(todo) > 1
            BY <2>1, <5>1
          <5> QED  BY <3>4, <4>2, <5>2
        <4> QED  BY <1>1, <3>3, <4>1, <4>2
      <3>7. ASSUME NEW e \in Bearing, Serving(e)'
            PROVE  Dirty(e)' \/ Underway(e)'
        <4>1. Serving(e) /\ Len(todo) > 1 /\ pc' = "request"
          BY <3>1, <3>4, <3>7
        <4>2. CASE Dirty(e) \/ ~ok
          BY <3>3, <4>1, <4>2
        <4>3. CASE ~Dirty(e) /\ ok
          <5>1. \A r \in Params(e) :
                  io'[r] = param'[r] \/ r \in mistaken'
                    \/ \E i \in 1 .. Len(todo') : todo'[i] = FromParam(r)
            BY <1>1, <2>1, <3>5, <4>1, <4>3
          <5> QED  BY <4>1, <5>1 DEF Underway
        <4> QED  BY <4>2, <4>3
      <3>8. OwnRequests'
        <4> SUFFICES ASSUME NEW i \in 1 .. Len(todo'), todo'[i].kind = "param"
                     PROVE  state' = "OPERATION" /\ k' <= Len(Order)
                              /\ todo'[i].reg \in Params(Order[k'])
          BY DEF OwnRequests
        <4>1. /\ i + 1 \in 1 .. Len(todo) /\ Len(todo) > 1 /\ todo'[i] = todo[i + 1]
          BY <2>1
        <4> QED  BY <3>1, <4>1 DEF WayInv, OwnRequests
      <3> QED  BY <2>1, <3>1, <3>6, <3>7, <3>8 DEF WayInv
    <2> QED  BY <1>2, <2>2, <2>3
  <1> QED  BY <1>5, <1>6, <1>7, Attempt

\* Steps that leave requests, registers and parameters alone: what was not on
\* its way before must not be so now.
LEMMA Quiet ==
  ASSUME WayInv, UNCHANGED <<io, param, state, todo>>,
         \A e \in Bearing : Dirty(e) => Dirty(e)',
         \A e \in Bearing : \A r \in Params(e) : r \in mistaken => r \in mistaken' \/ Dirty(e)',
         \/ UNCHANGED <<pc, k, packet>>
         \/ /\ todo = << >> /\ pc' \notin InRequest
            /\ pc = "popstore" => pc' = "popstore" /\ k' = k
            /\ pc \notin InRequest
  PROVE  WayInv'
  <1>1. CASE UNCHANGED <<pc, k, packet>>
    <2>1. \A e : Serving(e)' <=> Serving(e)
      BY <1>1 DEF Serving
    <2>2. \A e \in Bearing : Underway(e) => Dirty(e)' \/ Underway(e)'
      BY <1>1 DEF Underway
    <2>3. OwnRequests'
      BY <1>1 DEF WayInv, OwnRequests
    <2> QED  BY <1>1, <2>1, <2>2, <2>3 DEF WayInv
  <1>2. CASE /\ todo = << >> /\ pc' \notin InRequest
             /\ pc = "popstore" => pc' = "popstore" /\ k' = k
             /\ pc \notin InRequest
    <2>1. \A e : ~Serving(e) /\ ~Serving(e)'
      BY <1>2 DEF Serving
    <2>2. OwnRequests'
      BY <1>2 DEF OwnRequests
    <2> QED  BY <1>2, <2>1, <2>2 DEF WayInv
  <1> QED  BY <1>1, <1>2

LEMMA StepWayInv ==
  ASSUME IInv, Step
  PROVE  WayInv'
  <1> USE DEF IInv
  <1>1. CASE MakePacket
    <2>1. /\ pc = "request" /\ pc' \in {"write", "read"}
          /\ UNCHANGED <<io, param, state, k, todo, failed, lost, eventmask, agenda>>
          /\ \/ Head(todo).kind # "param" \/ pc' # "write"
             \/ /\ Head(todo).reg \in ValueRegs
                /\ packet' = Carrying(Head(todo).reg, param[Head(todo).reg])
      BY <1>1, PacketMade DEF TypeInv
    <2>2. pc' = "write" /\ Head(todo).kind = "param" =>
            packet'[Head(todo).reg] = param[Head(todo).reg]
      BY <2>1, CarryingType, OwnRegisters DEF Registers
    <2>3. mistaken' = mistaken
      BY <1>1 DEF MakePacket
    <2>4. \A e : (Serving(e)' <=> Serving(e)) /\ (Dirty(e)' <=> Dirty(e))
                   /\ (Underway(e) => Underway(e)')
      BY <2>1, <2>2, <2>3 DEF Serving, InRequest, Dirty, Ahead, Underway
    <2>5. OwnRequests'
      BY <2>1 DEF WayInv, OwnRequests
    <2> QED  BY <2>1, <2>3, <2>4, <2>5 DEF WayInv
  <1>2. CASE Reset \/ CheckVersion
    <2>1. /\ state \in {"RESET", "CONF"} /\ state' = "CONF" /\ pc' = "request"
          /\ todo' = <<Copy("CONFIG")>> \/ todo' = <<Arm>>
          /\ UNCHANGED <<io, param>>
      BY <1>2 DEF Reset, CheckVersion, PhaseInv, TypeInv, DriverType, appvars
    <2>2. OwnRequests'
      BY <2>1 DEF OwnRequests, Arm, SetClear, Copy
    <2>3. \A r \in ValueRegs : io'[r] = param'[r]
      BY <2>1 DEF WayInv
    <2>4. \A e \in Bearing : \A r \in Params(e) : io'[r] = param'[r]
      BY <2>3, Servable
    <2> QED  BY <2>1, <2>2, <2>3, <2>4 DEF WayInv, Serving
  <1>3. CASE Conf
    <2>1. /\ state = "CONF" /\ state' = "OPERATION" /\ pc = "top" /\ todo = << >>
          /\ UNCHANGED <<io, param, pc, todo>>
      BY <1>3 DEF Conf, TypeInv, DriverType, InRequest
    <2>2. OwnRequests'
      BY <2>1 DEF OwnRequests
    <2>3. \A e \in Bearing : \A r \in Params(e) : io[r] = param[r]
      BY <2>1, Servable DEF WayInv
    <2> QED  BY <2>1, <2>2, <2>3 DEF WayInv, Serving, InRequest
  <1>4. CASE Operation \/ PopLoad \/ PassEnd \/ Fail
    <2>1. /\ pc \in {"top", "pop", "give"} /\ pc' \in {"top", "pop", "popstore", "deleted"}
          /\ UNCHANGED <<io, param, state, todo, eventmask, agenda, lost, failed, mistaken>>
      BY <1>4 DEF Operation, PopLoad, PassEnd, Fail, appvars
    <2>2. todo = << >>
      BY <2>1 DEF TypeInv, DriverType, InRequest
    <2> QED  BY <2>1, <2>2, Quiet DEF InRequest, Dirty, Ahead
  <1>5. CASE PopStore
    <2>1. /\ pc = "popstore" /\ pc' = "request" /\ todo' = Requests(Order[k])
          /\ eventmask' = fmask \ {Order[k]}
          /\ lost' = lost \cup ((eventmask \ fmask) \cap Carriers)
          /\ failed' = failed \ {Order[k]}
          /\ mistaken' = mistaken \ Params(Order[k])
          /\ UNCHANGED <<io, param, state, k, agenda>>
      BY <1>5 DEF PopStore, appvars
    <2>2. state = "OPERATION" /\ k <= Len(Order) /\ Order[k] \in Events
      BY <2>1, Servable DEF PhaseInv, TypeInv, DriverType, InRequest, Idling
    <2>3. \A e \in Bearing : Dirty(e) /\ e # Order[k] => Dirty(e)'
      BY <2>1, Servable DEF Dirty, Ahead
    <2>4. \A e : Serving(e)' <=> e = Order[k]
      BY <2>1, <2>2 DEF Serving, InRequest
    <2>5. \A e : ~Serving(e)
      BY <2>1 DEF Serving, InRequest
    <2>6. Underway(Order[k])'
      BY <2>1, <2>2, RequestsType DEF Underway
    <2>7. OwnRequests'
      BY <2>1, <2>2, RequestsType DEF OwnRequests
    <2>8. \A e \in Bearing : \A r \in Params(e) :
            e # Order[k] => r \notin Params(Order[k])
      BY <2>2, Servable, OwnRegisters
    <2> QED  BY <2>1, <2>2, <2>3, <2>4, <2>5, <2>6, <2>7, <2>8 DEF WayInv
  <1>6. CASE \E old, due \in BOOLEAN : Routine(old, due)
    <2>1. /\ pc = "pop" /\ k > Len(Order) /\ pc' = "request"
          /\ UNCHANGED <<io, param, state, k, eventmask, agenda, lost, failed, mistaken>>
          /\ \A i \in 1 .. Len(todo') : todo'[i].kind # "param"
      BY <1>6, RoutineIs
    <2>2. ~(k <= Len(Order))
      BY <2>1, Servable DEF TypeInv, DriverType
    <2>3. OwnRequests'
      BY <2>1 DEF OwnRequests
    <2>4. \A e : ~Serving(e) /\ ~Serving(e)' /\ (Dirty(e)' <=> Dirty(e))
      BY <2>1, <2>2 DEF Serving, Dirty, Ahead
    <2> QED  BY <2>1, <2>3, <2>4 DEF WayInv
  <1> QED
    BY <1>1, <1>2, <1>3, <1>4, <1>5, <1>6 DEF Step

\* Storing a parameter takes it off the I/O processor's, but its event is ahead.
LEMMA SetParamWayInv ==
  ASSUME IInv, SetParam
  PROVE  WayInv'
  <1> USE DEF IInv
  <1> DEFINE ev == Head(agenda)
  <1>1. /\ apc # "idle" /\ apc \in {"set", "set2"}
        /\ UNCHANGED <<io, state, pc, todo, k, packet, eventmask, agenda, lost, failed, mistaken>>
    BY DEF SetParam, fsmvars
  <1>2. ev \in Pushed /\ ev \in Events /\ Ahead(ev)
    BY <1>1, Agenda, PushedEvents DEF TypeInv, Ahead
  <1>3. state \notin {"RESET", "CONF"}
    BY <1>1 DEF PhaseInv
  <1>4. \A r \in ValueRegs : r \notin Params(ev) => param'[r] = param[r]
    <2>1. CASE ev = "SET_PWM"
      <3>1. Params(ev) = {"DIRECT_PWM"}
        BY <2>1, ParamsAre
      <3>2. \E w : param' = [param EXCEPT !["DIRECT_PWM"] = w]
        BY <2>1 DEF SetParam
      <3> QED  BY <3>1, <3>2 DEF TypeInv, AppType
    <2>2. CASE ev # "SET_PWM"
      BY <2>2 DEF SetParam
    <2> QED  BY <2>1, <2>2
  <1> HIDE DEF ev
  <1>5. \A e \in Bearing : \A r \in Params(e) : e # ev => param'[r] = param[r]
    BY <1>2, <1>4, OwnRegisters, Servable
  <1>6. \A e : (Serving(e)' <=> Serving(e)) /\ (Dirty(e)' <=> Dirty(e))
    BY <1>1 DEF Serving, Dirty, Ahead
  <1>7. \A e : e = ev => Dirty(e)'
    BY <1>2, <1>6 DEF Dirty
  <1>8. ASSUME NEW e \in Bearing, Serving(e), Underway(e), e # ev
        PROVE  Underway(e)'
    <2>1. pc = "write" /\ Head(todo).kind = "param" =>
            Head(todo).reg \in Params(e)
      <3>1. Head(todo) = todo[1] /\ 1 \in 1 .. Len(todo)
        BY <1>8, Todo DEF Serving, TypeInv
      <3> QED  BY <1>8, <3>1 DEF WayInv, OwnRequests, Serving
    <2> QED  BY <1>1, <1>5, <1>8, <2>1 DEF Underway
  <1>9. OwnRequests'
    BY <1>1 DEF WayInv, OwnRequests
  <1> QED  BY <1>1, <1>3, <1>5, <1>6, <1>7, <1>8, <1>9 DEF WayInv

LEMMA AppWayInv ==
  ASSUME IInv, StartReturns \/ App \/ Aside
  PROVE  WayInv'
  <1> USE DEF IInv
  <1>1. /\ UNCHANGED <<io, packet, state, pc, todo, k>>
        /\ UNCHANGED <<failed, mistaken>> \/ PushStore
    BY AppOnly DEF drivervars
  <1>2. CASE SetParam
    BY <1>2, SetParamWayInv
  <1>3. CASE StartReturns \/ PushLoad \/ Aside
    <2>1. UNCHANGED <<param, eventmask, agenda, lost, failed, mistaken>>
      BY <1>3, AsideIs DEF StartReturns, PushLoad, fsmvars
    <2> QED  BY <1>1, <2>1, Quiet DEF Dirty, Ahead
  <1>4. CASE Exec \/ Other
    <2>1. apc = "idle" /\ UNCHANGED <<param, eventmask, lost, failed, mistaken>>
      BY <1>4, Calls DEF CallAll
    <2>2. agenda = << >>
      BY <2>1 DEF TypeInv, AppType
    <2>3. \A e : ~Ahead(e)
      BY <2>2 DEF Ahead
    <2> QED  BY <1>1, <2>1, <2>3, Quiet DEF Dirty
  <1>5. CASE PushStore
    <2>1. /\ apc = "store" /\ eventmask' = amask \cup {Head(agenda)}
          /\ lost' = lost \ {Head(agenda)} /\ failed' = failed \ {Head(agenda)}
          /\ mistaken' = mistaken \ Params(Head(agenda))
          /\ agenda' = Tail(agenda) /\ UNCHANGED param
      BY <1>5 DEF PushStore
    <2>2. eventmask \subseteq eventmask'
      BY <2>1 DEF MaskInv
    <2>3. /\ Len(agenda) \in Nat \ {0} /\ Head(agenda) = agenda[1] /\ Head(agenda) \in Events
          /\ Len(Tail(agenda)) = Len(agenda) - 1
          /\ \A i \in 1 .. Len(agenda) - 1 : Tail(agenda)[i] = agenda[i + 1]
      BY <2>1, Agenda, PushedEvents DEF TypeInv
    <2>4. ASSUME NEW e, Ahead(e), e # Head(agenda) PROVE Ahead(e)'
      <3>1. PICK i \in 1 .. Len(agenda) : agenda[i] = e
        BY <2>4 DEF Ahead
      <3>2. i - 1 \in 1 .. Len(agenda') /\ agenda'[i - 1] = e
        BY <2>1, <2>3, <2>4, <3>1
      <3> QED  BY <3>2 DEF Ahead
    <2>5. \A e : Dirty(e) => Dirty(e)'
      BY <2>1, <2>2, <2>4 DEF Dirty
    <2>6. \A e : e = Head(agenda) => Dirty(e)'
      BY <2>1 DEF Dirty
    <2>7. \A e \in Bearing : \A r \in Params(e) :
            e # Head(agenda) => r \notin Params(Head(agenda))
      BY <2>3, Servable, OwnRegisters
    <2> QED  BY <1>1, <2>1, <2>5, <2>6, <2>7, Quiet
  <1> QED  BY <1>2, <1>3, <1>4, <1>5 DEF App, Setter

-----------------------------------------------------------------------------
(* Theorems *)

LEMMA InitIInv == ASSUME Init PROVE IInv
  <1> USE DEF Init
  <1>1. Len(Order) \in Nat /\ 0 \in 0 .. ATTEMPTS - 1
    BY OrderType, CubeIOAssumption
  <1>2. DriverType
    <2>1. todo \in Seq(AllRequests)
      OBVIOUS
    <2> QED  BY <1>1, <2>1, BlankType DEF DriverType, InRequest, Idling
  <1>3. LineType /\ AppType /\ MaskType
    BY CubeIOAssumption DEF LineType, AppType, MaskType
  <1>4. PhaseInv /\ ArmInv /\ MaskInv
    BY DEF PhaseInv, ArmInv, MaskInv, InRequest
  <1>5. \A r \in ValueRegs : io[r] = param[r]
    BY OwnRegisters DEF Blank, Registers
  <1>6. OwnRequests /\ \A e : ~Serving(e)
    BY DEF OwnRequests, Serving
  <1>7. WayInv
    BY <1>5, <1>6, OwnRegisters, PushedEvents DEF WayInv, Bearing
  <1> QED  BY <1>2, <1>3, <1>4, <1>7 DEF IInv, TypeInv

LEMMA NextIInv == ASSUME IInv, [Next]_vars PROVE IInv'
  <1>1. WayInv'
    BY StepWayInv, AttemptWayInv, AppWayInv, Kinds
  <1> QED
    BY <1>1, NextTypeInv, NextPhaseInv, NextArmInv, NextMaskInv DEF IInv

LEMMA Inductive == Spec => []IInv
  BY InitIInv, NextIInv, PTL DEF Spec

\* The registers of the I/O processor, the driver's place in its pass and the
\* event masks stay what cubeio_fsm and the setters make of them: a request is
\* being made exactly while some are left, and the application pushes exactly
\* while its agenda is not empty (cubeio.c:64, 475).
THEOREM TypeCorrect == Spec => []TypeOK
  <1>1. IInv => TypeOK
    BY TypesOK DEF IInv
  <1> QED  BY <1>1, Inductive, PTL

\* The state CONF is left for OPERATION only when the arming request has been
\* answered, and the safety options written later over the same register keep the
\* bits, whatever attempts fail (cubeio.c:98, 488) and however late the answers are,
\* as long as none is taken for the answer to one of these requests (:368, :410).
THEOREM StaysArmed == Spec => []Armed
  <1>1. IInv => Armed
    BY DEF IInv, ArmInv, Armed
  <1> QED  BY <1>1, Inductive, PTL

\* A parameter that differs from its register while the application is between
\* two calls has its event pending or served, or it is one that a store of the
\* driver wiped out (cubeio_pop_event, cubeio.c:475), whose request failed with
\* nobody looking (cubeio.c:121), or whose write did not get through while a late
\* answer passed for its own (cubeio.c:368): there is no fourth way to lose one.
THEOREM ParametersAccounted == Spec => []Accounted
  <1>1. IInv => Accounted
    <2> SUFFICES ASSUME IInv, apc = "idle",
                        NEW e \in Settings \cup {"SET_PWM"}, NEW r \in Params(e),
                        io[r] # param[r], r \notin mistaken
                 PROVE  OnItsWay(e)
      BY DEF Accounted
    <2>1. e \in Bearing
      BY PushedEvents DEF Bearing, Pushed, Carriers
    <2>2. ~Ahead(e)
      BY DEF IInv, TypeInv, AppType, Ahead
    <2>3. Dirty(e) \/ (pc = "popstore" /\ Order[k] = e) \/ Serving(e)
      BY <2>1 DEF IInv, WayInv
    <2>4. pc = "popstore" => k <= Len(Order)
      BY DEF IInv, TypeInv, DriverType
    <2> QED  BY <2>2, <2>3, <2>4 DEF OnItsWay, Dirty, Serving, InRequest
  <1> QED  BY <1>1, Inductive, PTL
=============================================================================
