\* Two entries and three nicknames, so that the table fills; two digit labels
\* and one letter; two characters of text; two messages.
SPECIFICATION Spec
CONSTANTS
  N = 2
  Announcements <- MCAnnouncements
  Blank = ""
  Partial = "ip"
  Labels = 3
  Digits = 2
  CHAT_INPUT_LEN = 2
  MaxSent = 2
INVARIANTS
  TypeOK
  NamesUnique
  KnownFriendGetsIt
  QuitSendsNothing
  IInv
PROPERTIES
  AppendOnly
  TextKept
  ImplementsDiagram
