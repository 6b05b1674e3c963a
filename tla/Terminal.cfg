SPECIFICATION TerminalSpec
CONSTANTS
  BufferSize = 2
  MaxTyped = 3
  S1_ROW = 2
  PerLine = 2
  N = 3
  M = 1
INVARIANTS
  TerminalTypeOK
  S1IsPrefix
  TimesExplained
PROPERTIES
  S3Heals
  NextKeyReleases
