SPECIFICATION StyleSpec
CONSTANTS
  r = r
  a = a
  b = b
  Boxes <- MCBoxes
  Root = r
  Kids <- MCKids
  BoxRect <- InsideRects
  Styles <- AnimatedStyles
  Width = 4
  FontLoaded = FALSE
  MaxColor = 4
  Opaque = 2
  MaxZ = 1
  Delay = 1
  HookPoints = {"frame_end"}
  ScriptMutates = TRUE
  MaxChanges = 3
  MaxNodes = 5
  Folded <- MCFolded
  HexDigits <- MCHexDigits
  Pointed <- MCPointed
  Styled = 3
  ViewWidth = 200
  ViewHeight = 100
  RootFont = 20
CHECK_DEADLOCK FALSE
INVARIANTS TransitionTarget SheetExact CascadeExact MarginsCollapse LinesHold FlexFills
PROPERTIES AnimationMonotone StartsWithoutJump FramesStop
