SPECIFICATION MCSpec
CONSTANT Kernels <- KernelInstances
INVARIANTS ReadsMatch ResultsOnce ExitedAreAlone SchedulesPartition PeersAgree LogitsScheduled
PROPERTY Terminates
