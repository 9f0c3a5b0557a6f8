CONSTANTS
  Process = {a, b}
  Nobody = Nobody
  Ttl = 9
  Interval = 3
  CommandTimeout = 1
  Late = 0
  Picture = {p, q}
  Domain = {d, g}
  None = None
  MaxImages = 2
SPECIFICATION MCSpec
SYMMETRY Alike
INVARIANTS LeaseInv 
 
CHECK_DEADLOCK FALSE
