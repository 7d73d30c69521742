SPECIFICATION Spec
CONSTANTS
  WINDOW_SECONDS = 3
  Amounts = {1, 2}
  Caps = {2, 4}
  Start = 4
  MaxTime = 13
INVARIANTS LiveOrdered BufferNeverFull AdmitsExactly
PROPERTIES RefinesRollingCap
