SPECIFICATION FairSpec
CONSTANTS
  Addresses = {a1, a2}
  Null = Null
  ResultSets <- Rows
  MaxRows = 3
  SiteMapParams <- FourStatements
INVARIANTS StatementWithinLease BuffersFreedOnce AnsweredOnce
PROPERTIES KeepsContract
