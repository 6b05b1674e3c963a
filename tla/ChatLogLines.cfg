\* Two slots and three pushes are enough for a push to move a line's record
\* between the two reads of it.
SPECIFICATION Spec
CONSTANTS
  M = 2
  MaxPush = 3
INVARIANT LinesAreRecords
