SPECIFICATION Spec
CONSTANTS
  Conns = {c1, c2, c3}
  Slow = {c1}
  Families = {{}, {c3}}
  SizeY = 5
  None = None
INVARIANTS
  DrawnIsLive
