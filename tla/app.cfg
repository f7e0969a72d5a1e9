SPECIFICATION FairSpec
CONSTANTS
  Width = 2
  PanelWidth = 1
  Aimed = {1}
  MaxIds = 6
  MaxSheets = 1
  MaxFonts = 1
CHECK_DEADLOCK FALSE
INVARIANTS ManagersWired NoStalePageCallback CleanPageCurrent PageCellsExact HooksFollow PanelInSync
PROPERTIES EditsReachPage
