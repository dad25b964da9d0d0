SPECIFICATION Spec
CONSTANTS
  t1 = t1
  t2 = t2
  Main = Main
  Workers = {t1, t2}
  Rounds = 2
INVARIANTS
  FinalCounter
CHECK_DEADLOCK FALSE
