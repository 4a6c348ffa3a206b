SPECIFICATION Spec
INVARIANTS MeasFromItsConversion
CHECK_DEADLOCK FALSE
