\* Two Ctrl-C, each at any moment and on any thread.
SPECIFICATION Spec
CONSTANT MaxSignals = 2
INVARIANTS
  TypeOK
  ConfigSafe
  TerminalRestored
PROPERTIES
  StopEnds
  TwoCtrlCEnd
