SPECIFICATION Spec
CONSTANTS MaxJobs = 2 MaxFaults = 2
  Faults = {"power"}
CHECK_DEADLOCK FALSE
INVARIANT SelectsComplete
