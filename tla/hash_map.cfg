SPECIFICATION GraphicsSpec
CONSTANTS
  k1 = k1
  k2 = k2
  k3 = k3
  k4 = k4
  Keys = {k1, k2, k3, k4}
  Values = {0, 1}
  Default = 0
  None = None
  Hash <- CollidingHash
  FirstCap = 2
  MaxCap = 8
  Glyphs = {"a", "b", "c", " "}
  PixelSizes = {1, 2}
  Texts <- MCTexts
  Extent <- MCExtent
  AtlasWidth = 3
  AtlasHeight = 4
  Capacity = 2
  Width = 4
  Height = 3
  Shifts <- MCShifts
  ClipRects <- MCClipRects
  Drawings <- MCDrawings
  MaxClips = 2
  MaxSaved = 1
CHECK_DEADLOCK FALSE
INVARIANTS LookupExact InsertHasRoom SizeCounts GlyphsExact BackendsAgree
PROPERTIES IsMap
