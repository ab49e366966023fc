CONSTANTS
  Addr = {a1, a2}
  Recorder = {r1, r2}
  Web = Web
  Tab = {t1, t2}
  MaxPush = 3
CHECK_DEADLOCK FALSE
SPECIFICATION Spec
SYMMETRY Symmetry
INVARIANTS TypeOK PagesRight
PROPERTY DeletesShownRow
