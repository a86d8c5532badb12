SPECIFICATION Spec
CONSTANT Inputs <- MCInputs
INVARIANTS RoundTrip
CHECK_DEADLOCK FALSE
