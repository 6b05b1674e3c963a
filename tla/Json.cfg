SPECIFICATION Spec
CONSTANTS
  NestingLimit = 2
  CircularLimit = 1
  StaticText <- MCStaticText
  INT_MAX = 60
  DefaultBufferSize = 4
  Texts <- MCTexts
  Kinds <- MCKinds
  Values <- MCValues
  Keys <- MCKeys
  Documents <- MCDocuments
  Blocks <- MCBlocks
  Fuels <- MCFuels
  NicknameKey <- MCNicknameKey
  LocalIpKey <- MCLocalIpKey
  MaxCalls = 3
INVARIANTS
  TypeOK
  EachBlockHasOneOwner
  ListsWellFormed
  ParserExact
  StringsFit
  EscapesKeepTheirMeaning
  PrintRestores
  PrintFits
  CompareIsEquality
  MinifyKeepsTree
  ConfigTakenOrRefused
PROPERTY ImplementsForest
CHECK_DEADLOCK FALSE
