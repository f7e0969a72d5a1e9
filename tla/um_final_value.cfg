SPECIFICATION Spec
CONSTANTS
  r = r
  a = a
  b = b
  Boxes <- MCBoxes
  Root = r
  Kids <- MCKids
  BoxRect <- InsideRects
  Styles <- FadingStyles
  Width = 4
  FontLoaded = FALSE
  MaxColor = 4
  Opaque = 2
  MaxZ = 1
  Delay = 1
  HookPoints = {}
  ScriptMutates = FALSE
  MaxChanges = 2
CHECK_DEADLOCK FALSE
INVARIANTS FinalValuePainted
