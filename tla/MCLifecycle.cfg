\* Two instances on one machine, on Windows; one of them may be closed by its window
\* at any moment.
CONSTANTS
  Proc = {a, b}
  Nobody = Nobody
  Closers = {b}
  Windows = TRUE
  Offline = TRUE
  WSEvents = {a}
SPECIFICATION Spec
INVARIANTS
  NoUseAfterEnd
  ExitIsClean
PROPERTIES
  ExitEnds
  LaunchSettles
\* Processes end.
CHECK_DEADLOCK FALSE
