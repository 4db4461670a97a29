SPECIFICATION FairSpec
CONSTANTS
  Days = {1, 2}
  Visitors = {visitor}
  Parts = 2
  DayOf <- MCDayOf
  FirstDate <- MCFirstDate
INVARIANTS
  OnlyOwnData
PROPERTIES
  PageShowsNewestFile
  MailedLinkWorks
  EveryJobEnds
CHECK_DEADLOCK FALSE
