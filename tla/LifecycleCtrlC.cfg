\* Two Ctrl-C, as README.md:59 says.
SPECIFICATION Spec
CONSTANT MaxSignals = 2
PROPERTY CtrlCTwiceEnds
