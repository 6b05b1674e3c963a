\* One digit label and two letters, so that a letter is within the table.
SPECIFICATION Spec
CONSTANTS
  N = 2
  Announcements <- MCAnnouncements
  Blank = ""
  Partial = "ip"
  Labels = 3
  Digits = 1
  CHAT_INPUT_LEN = 1
  MaxSent = 1
INVARIANT LabelSelectsFriend
