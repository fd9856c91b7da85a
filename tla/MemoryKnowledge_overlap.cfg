SPECIFICATION Spec
CONSTANTS
  None = None
  p1 = p1
  p2 = p2
  c1 = c1
  c2 = c2
  c3 = c3
  q = q
  Procs = {p1, p2}
  Candidates <- MCCandidates
  kindOf <- MCKindOf
  fpOf <- MCFpOf
  KindOrder <- MCKindOrder
  MaxCommands = 5
  MaxCrashes = 1
SYMMETRY Symm
INVARIANTS TypeOK OneActive PruneKeepsActive ActiveCanBeRetired SuccessorListed
CHECK_DEADLOCK FALSE
