SPECIFICATION Spec
CONSTANT Writes <- SmallWrites
INVARIANTS WritesSelected  ChecksSuffice ReadsBack
CHECK_DEADLOCK FALSE
