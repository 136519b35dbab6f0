\* Two connections; each signal once.  The process ends: no successor state then.
CONSTANTS
  Requests = {r1, r2}
  MaxSignals <- EachOnce
  NoSignal = NoSignal
SPECIFICATION Spec
INVARIANT StopIsGraceful
CHECK_DEADLOCK FALSE
