SPECIFICATION SchedulerSpec
CONSTANTS
  Server = {v1, v2}
  Connection = {z1}
  SafeRun = {f1, f2}
  Tenant = {e1}
  MaxTimers = 1
  MaxNesting = 1
INVARIANT OneRunAtATime
