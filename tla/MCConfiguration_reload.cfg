\* One connection, two reloads, two stop signals, one edit of the files.  The
\* process ends: no successor state then.
CONSTANTS
  Requests = {r1}
  MaxSignals <- TwoReloads
  MaxEdits = 1
  NoSignal = NoSignal
SPECIFICATION FairConfigSpec
INVARIANTS ConfigTypeOK EditIsRead
PROPERTIES StopEndsProcess RemoteIRIsStayWhole
CHECK_DEADLOCK FALSE
