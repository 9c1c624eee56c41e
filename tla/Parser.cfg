SPECIFICATION Spec
CONSTANTS
  Identifiers = {"P", "M", "S", "V", "E", "A", "B", "C", "C2", "x", "y", "z", "t", "v", "n", "q", "f", "g", "h", "k", "output", "Noise", "Ray", "float4x4", "sin", "ddx"}
  Numbers = {"0", "1", "2048", "99999999999", "1.5"}
  Strings = {"p1", "p2", "c1"}
  Documents <- Edited
INVARIANTS ContextRestored AcceptedIsRead
PROPERTY Ends
CHECK_DEADLOCK FALSE
