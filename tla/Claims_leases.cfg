SPECIFICATION Spec
CONSTANTS
  alice = alice
  bob = bob
  p = p
  q = q
  NoOwner = NoOwner
  Owners <- TwoOwners
  Paths <- TwoPaths
  TTLs = {1, 2}
  MaxClaims = 4
  MaxClock = 4
SYMMETRY Sym
INVARIANTS IndexSound ExclusiveSingly
PROPERTIES IndexKept ExpiredStaysExpired
CHECK_DEADLOCK FALSE
