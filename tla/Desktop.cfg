SPECIFICATION Spec
CONSTANTS
  Window <- MCWindow
  Naming <- MCNaming
  Host <- MCWindow
  Opening <- MCOpening
  OnDisk <- MCOnDisk
  File = {"f"}
  Content = {"a", "b"}
  Plain = "a"
  Sheets = FALSE
INVARIANTS
  TypeOK VotedIsKept ClosedStaysClosed
PROPERTIES
  NoHostGoesBlank QuitIsUnanimous QuitKeepsTabs QuitDecided QuitEnds
CHECK_DEADLOCK FALSE
