\* Two processes, two callbacks, two failures, one use of a retry endpoint.
SPECIFICATION FairSpec
CONSTANTS
  c1 = c1  c2 = c2  i1 = i1  i2 = i2
  Callbacks = {c1, c2}
  Instances = {i1, i2}
  MaxAttempts = 3
  None = None
  Faults = {"db", "crash"}
  MaxFaults = 2
  MaxRetries = 1
INVARIANTS TypeOK SuccessWasAccepted PendingIsDue
PROPERTY CallbacksEnd
