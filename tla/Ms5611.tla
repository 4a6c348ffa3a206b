------------------------------- MODULE Ms5611 -------------------------------
(***************************************************************************)
(* bsp/ics/ms5611: the barometer.  Its service calls ms5611_fsm once in a  *)
(* period.  A pass reads the answer to the conversion that an earlier pass *)
(* asked for and then asks for the next one; which quantity an answer is   *)
(* of, the device does not say: the driver keeps it in two indices.        *)
(*                                                                         *)
(* An answer is told by the conversion that made it.  Left out: the        *)
(* calibration words and the arithmetic of ms5611_process_meas, but not    *)
(* which of the two raw values each result is computed from.               *)
(***************************************************************************)
EXTENDS Naturals

VARIABLES
  state, attempt,   \* of ms5611_fsm
  pending,          \* the device: the conversion whose result it holds
  current, previous, ignore_next,   \* the statics of ms5611_read_meas
  D1, D2,           \* raw: the conversion each value came from
  T, P,             \* meas: the conversion that what they are computed from came from
  upset             \* history: 0xFFFFFF has been read

raw == <<D1, D2>>
meas == <<T, P>>
indices == <<current, previous, ignore_next>>
vars == <<state, attempt, pending, indices, raw, meas, upset>>

READ_TEMP == 0
READ_PRES_4 == 4
Conversions == {"D1", "D2"}

Init ==
  /\ state = "RESET" /\ attempt = 0
  /\ pending = "none"
  /\ current = READ_TEMP /\ previous = READ_TEMP /\ ignore_next = FALSE
  /\ D1 = "none" /\ D2 = "none"
  /\ T = "none" /\ P = "none"
  /\ upset = FALSE

\* spi_transmit_receive of READ_ADC: the result, zero if there is none or the
\* transfer fails, and all ones from a line that nobody drives.  A result is read
\* once.
Answers == {"zero", "ones", pending} \ {"none"}

\* spi_transmit of a command; whether it was sent is not looked at.
Exchange(conversion) == pending' \in {"none", conversion}

-----------------------------------------------------------------------------
Reset ==
  /\ state = "RESET"
  /\ state' = "READ_CALIB"
  /\ UNCHANGED <<attempt, pending, indices, raw, meas, upset>>

CalibRead ==
  /\ state = "READ_CALIB"
  /\ Exchange("D1")
  /\ state' = "READ_MEAS"
  /\ UNCHANGED <<attempt, indices, raw, meas, upset>>

\* A word is zero or the checksum is wrong.
CalibFails ==
  /\ state = "READ_CALIB"
  /\ attempt' = attempt + 1
  /\ state' = IF attempt' > 5 THEN "FAIL" ELSE state
  /\ UNCHANGED <<pending, indices, raw, meas, upset>>

\* The index of the measurement that is asked for next.
Following(answer) ==
  IF answer = "zero" \/ ignore_next THEN current
  ELSE IF current = READ_PRES_4 THEN READ_TEMP ELSE current + 1

Conversion(index) == IF index = READ_TEMP THEN "D1" ELSE "D2"

\* An answer that is none, and the one after it, are not used.
Ignore(answer) ==
  /\ state = "READ_MEAS" /\ answer \in Answers
  /\ answer \in {"zero", "ones"} \/ ignore_next
  /\ current' = Following(answer)
  /\ Exchange(Conversion(current'))
  /\ ignore_next' = (answer \in {"zero", "ones"})
  /\ upset' = (upset \/ answer = "ones")
  /\ UNCHANGED <<state, attempt, previous, raw, meas>>

\* ms5611_read_meas stores the answer, ms5611_process_meas uses both values.
Measure(answer) ==
  /\ state = "READ_MEAS" /\ answer \in Answers \cap Conversions
  /\ ~ignore_next
  /\ current' = Following(answer)
  /\ Exchange(Conversion(current'))
  /\ IF previous = READ_TEMP
     THEN D2' = answer /\ UNCHANGED D1
     ELSE D1' = answer /\ UNCHANGED D2
  /\ previous' = current'
  /\ T' = D2' /\ P' = D1'
  /\ UNCHANGED <<state, attempt, ignore_next, upset>>

Next ==
  \/ Reset \/ CalibRead \/ CalibFails
  \/ \E answer \in Conversions \cup {"zero", "ones"} : Ignore(answer) \/ Measure(answer)

Spec == Init /\ [][Next]_vars

-----------------------------------------------------------------------------
(* Correctness *)

TypeOK ==
  /\ state \in {"RESET", "READ_CALIB", "READ_MEAS", "FAIL"}
  /\ attempt \in 0 .. 6
  /\ pending \in Conversions \cup {"none"}
  /\ current \in READ_TEMP .. READ_PRES_4 /\ previous \in READ_TEMP .. READ_PRES_4
  /\ ignore_next \in BOOLEAN /\ upset \in BOOLEAN
  /\ D1 \in Conversions \cup {"none"} /\ D2 \in Conversions \cup {"none"}
  /\ T \in Conversions \cup {"none"} /\ P \in Conversions \cup {"none"}

\* The temperature is computed from a temperature conversion and the pressure from
\* a pressure conversion, as the names of the commands and of raw and the comments
\* of ms5611_process_meas say.  They are not: the state that stores its answer in
\* raw.D2 asks for CONVERT_D1 (ms5611.c:184).
MeasFromItsConversion == T \in {"none", "D2"} /\ P \in {"none", "D1"}

\* What is in raw is exchanged in every measurement, as long as 0xFFFFFF has not
\* been read: answers that are missing and commands that are lost change nothing.
Exchanged == upset \/ (D1 \in {"none", "D2"} /\ D2 \in {"none", "D1"})

\* What keeps it so: the device holds the result the index says, and the index the
\* next answer is stored by is the same.
IndicesAgree ==
  /\ pending \in {"none", Conversion(current)}
  /\ upset \/ previous = current
============================================================================
