SPECIFICATION Spec
CONSTANTS
  Symbols <- AllSymbols
  Names = {"n1", "n2"}
  NoName = "none"
  BadHeader = "bad"
  Garbage <- TextOfType
  Requests <- Anything
  MaxHeader = 3
  BufferSize = 2
  StdinMax = 3
  Length = 9
  LongValue = 2
  AnyLength = 2
  ShortValue = 0
INVARIANTS MissingBoundaryRefused
