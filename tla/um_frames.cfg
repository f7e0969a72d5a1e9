SPECIFICATION PageSpec
CONSTANTS
  r = r
  a = a
  b = b
  Boxes <- MCBoxes
  Root = r
  Kids <- MCKids
  BoxRect <- InsideRects
  Styles <- MixedStyles
  Width = 4
  FontLoaded = FALSE
  MaxColor = 4
  Opaque = 2
  MaxZ = 1
  Delay = 1
  HookPoints = {"frame_start", "frame_end"}
  ScriptMutates = FALSE
  MaxChanges = 2
  MaxNodes = 8
  HostNodes = {1}
  Functions = {"f"}
  JsNames = {"click", "pointerup", "scroll"}
  Ids = {"a", "b"}
  Parsed <- MCParsed
  Fragments <- MCFragments
  MaxTokens = 3
  MaxBinds = 2
  MaxOps = 4
  Words = {"p", "div", "br", "ul", "li", "a", "b", "html", "script", "x", "y", "w", "v", "class", "id", "style", "lt", "quot", "DOCTYPE", "#60", "javascript:"}
  CharRefs <- MCCharRefs
  StyleWords = {"w", "v"}
  StyleBlacklist = {"javascript:"}
  MaxStyle = 6
  MaxDecls = 2
CHECK_DEADLOCK FALSE
INVARIANTS ScreenExact CleanMeansCurrent TreeLinked CallbacksAlive EntriesExact RoundTrip
PROPERTIES DispatchOrdered ParsingEnds CallersKeepOrder
