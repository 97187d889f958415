SPECIFICATION MCSpec
CONSTANTS
  Queries <- AllQueries
  Sources <- AllSources
  FirstDays <- NewYears
  ClockDays <- NewYears2000And2100
  Julians <- DaysOfYears
  Steps <- SomeSteps
  Nodes = {n1, n2, n3, n4}
  Doc = doc
  NoNode = none
  MaxGuards = 3
  Containers = {top, c1, c2}
  Top = top
  Strings = {"s1", "s2"}
  TextOf <- Texts
  Keys <- AllKeys
  MaxItems = 2
  Counts <- SomeCounts
  Settings <- SomeSettings
  NoSetting = norow
  NoNumber = notext
  Word = 16
  SizeWord = 64
INVARIANTS QueryRead UrlRejoined XmlFreedOnce JsonFreedOnce JsonRead PagesListed
PROPERTIES FollowsCalendar PagingEnds
CHECK_DEADLOCK FALSE
