\* Four slots and nine pushes: the log fills and is then overwritten more than
\* once over, with pushes and refreshes of both threads in every phase.
SPECIFICATION Spec
CONSTANTS
  M = 4
  MaxPush = 9
INVARIANTS
  TypeOK
  LogIsLatest
  OldestFirst
  RaceIsBounded
  ScreenShowsLog
PROPERTIES
  RecordReachesScreen
