SPECIFICATION Spec
CHECK_DEADLOCK FALSE
CONSTANTS
  p1 = p1
  p2 = p2
  Partner = {p1, p2}
  MaxMessages = 2
  MaxEvents = 6
SYMMETRY Partners
INVARIANTS
  TypingTakenBack
  CountFresh
