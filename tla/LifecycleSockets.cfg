\* No Ctrl-C: the start-up alone.
SPECIFICATION Spec
CONSTANT MaxSignals = 0
INVARIANT SocketFailureStops
