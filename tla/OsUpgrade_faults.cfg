SPECIFICATION Spec
CONSTANTS MaxJobs = 2 MaxFaults = 2
  Faults = {"power", "kill", "script"}
CHECK_DEADLOCK FALSE
INVARIANTS TypeOK  SwitchHasBackup
PROPERTY SuccessIsVerified
