\* As MainThread.cfg.
SPECIFICATION Spec
CONSTANTS
  N = 2
  Announcements <- MCAnnouncements
  Blank = ""
  Partial = "ip"
  Labels = 3
  Digits = 2
  CHAT_INPUT_LEN = 1
  MaxSent = 1
INVARIANT NoUnknownFriend
