SPECIFICATION Spec
CONSTANTS
  r = r
  a = a
  b = b
  Boxes <- MCBoxes
  Root = r
  Kids <- MCKids
  BoxRect <- InsideRects
  Styles <- MixedStyles
  Width = 4
  FontLoaded = FALSE
  MaxColor = 4
  Opaque = 2
  MaxZ = 1
  Delay = 1
  HookPoints = {"after_style", "after_render"}
  ScriptMutates = FALSE
  MaxChanges = 2
CHECK_DEADLOCK FALSE
INVARIANTS CleanMeansCurrent
