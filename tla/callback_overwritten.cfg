\* Two processes and no failure at all.
SPECIFICATION Spec
CONSTANTS
  c1 = c1  c2 = c2  i1 = i1  i2 = i2
  Callbacks = {c1}
  Instances = {i1, i2}
  MaxAttempts = 3
  None = None
  Faults = {"db", "crash"}
  MaxFaults = 0
  MaxRetries = 0
PROPERTY OutcomeStands
