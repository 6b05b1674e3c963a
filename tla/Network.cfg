SPECIFICATION Spec
CONSTANTS
  Peers = {"p1", "p2", "p3"}
  Characters = {"a", "b", "c", "d", "x", "y", "a1", "a2", "a3", "a4", "tab", "time"}
  Nick <- MCNick
  Addresses = {"a1", "a2", "a3", "a4"}
  Home <- MCHome
  Long = {"a3"}
  Typed <- MCTyped
  Tab = "tab"
  Time = "time"
  Garbage = "garbage"
  NameSize = 1
  N = 2
  M = 2
  Users = {"p1", "p2"}
  MaxSent = 1
  MaxRestarts = 1
INVARIANTS
  TypeOK
  EntriesWereAnnounced
  LinesWereSaid
PROPERTY AllListed
