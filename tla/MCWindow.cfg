\* Two rows of one pixel, a colour of the palette and one that is not in it, both
\* systems, a user who takes screenshots and closes the window.
SPECIFICATION FairSpec
CONSTANTS
  Width = 1
  Height = 2
  Colours = {7, 200}
  OsTypes = {0, 1}
  UserActs = {"screenshot", "close"}
CHECK_DEADLOCK FALSE
INVARIANTS TypeOK DumpSurvives
PROPERTIES ShownIsRecent  EventuallyShown
