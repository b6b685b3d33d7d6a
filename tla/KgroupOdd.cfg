\* Warps stuck at a barrier are what this run looks for.
SPECIFICATION MCSpec
CONSTANT Kernels <- KgroupOddInstances
PROPERTY Terminates
CHECK_DEADLOCK FALSE
