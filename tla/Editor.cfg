SPECIFICATION Spec
CONSTANTS
  MaxIdentity = 8
  Content = {"a", "b"}
  Plain = "a"
  MaxNodes = 6
  MaxDepth = 3
  Opening <- OpeningDocs
  Joined <- JoinedDocs
  OnDisk <- DiskDoc
  SharedFile = FALSE
  UndoLimit = 2
  MeetingSections <- Sections1
  WeekDays = 1
  MaxEffort = 5
INVARIANTS
  TypeOK StatesOpen HistorySettled SelectionShown
  ClosingLosesNothing GoneStaysGone OthersKept
PROPERTIES SharedIsShown MessageKeepsPlace
CHECK_DEADLOCK FALSE
