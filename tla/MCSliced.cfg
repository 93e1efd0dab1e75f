SPECIFICATION Spec
CONSTANT Writes <- SlicedWrites
INVARIANT WritesSelected
CHECK_DEADLOCK FALSE
