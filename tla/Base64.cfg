CONSTANT Inputs <- Some
SPECIFICATION Spec
INVARIANT Restores
CHECK_DEADLOCK FALSE
