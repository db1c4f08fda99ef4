SPECIFICATION Spec
CONSTANTS
  MaxIdentity = 8
  Content = {"a", "b"}
  Plain = "a"
  MaxNodes = 6
  MaxDepth = 3
  Opening <- OpeningDocs
  Joined <- NoDocs
  OnDisk <- DiskDoc
  SharedFile = TRUE
  UndoLimit = 2
  MeetingSections <- Sections1
  WeekDays = 1
  MaxEffort = 4
INVARIANT HistoryRooted
CHECK_DEADLOCK FALSE
