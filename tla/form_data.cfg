SPECIFICATION FairSpec
CONSTANTS
  Symbols <- AllSymbols
  Names = {"n1", "n2"}
  NoName = "none"
  BadHeader = "bad"
  Garbage <- TextOfType
  Requests <- AllRequests
  MaxHeader = 3
  BufferSize = 3
  StdinMax = 4
  Length = 9
  LongValue = 4
  ShortValue = 1
  AnyLength = 4
INVARIANTS DeliversParts WithinBuffers
PROPERTIES Terminates
