SPECIFICATION Spec
CONSTANTS
  p1 = p1
  p2 = p2
  Absent = Absent
  Malformed = Malformed
  AnyPolicy = any
  Callers <- MCCallers
INVARIANT PermittedOnlyNarrows
