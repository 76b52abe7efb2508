SPECIFICATION Spec
CONSTANTS
  a1 = a1
  a2 = a2
  b1 = b1
  a = a
  b = b
  Processes = {a, b}
  Callers = {a1, a2, b1}
  Home <- MCHome
  Retries = 1
  Faults = {"crash"}
  MaxFaults = 1
INVARIANTS
  Exclusive
