----------------------------- MODULE MCGraphics -----------------------------
(* Three parts below the renderer for TLC, each on its own: the hash map   *)
(* (HashMap), the caches behind text (TextCaches), and the two backends of *)
(* the canvas (Canvases). A behaviour is one part at work while the others *)
(* rest as they began.                                                     *)
EXTENDS MCHashMap, TextCaches, Canvases, SequencesExt

-----------------------------------------------------------------------------
(* Text: glyphs from nothing to two cells, drawn in a small atlas.         *)
Shape(g) ==
  CASE g = "a" -> Box(0, 0, 1, 1) [] g = "b" -> Box(0, 0, 2, 1)
    [] g = "c" -> Box(0, 0, 1, 2) [] g = " " -> Box(0, 0, 0, 0)

MCExtent(g, s) == [w |-> s * Shape(g).w, h |-> s * Shape(g).h]
MCTexts == {<<"a", "b">>, <<" ", "c">>}

-----------------------------------------------------------------------------
(* Canvases: an L, a ring, two squares that overlap, a stair that begins   *)
(* above the canvas, and a contour too short to fill beside one that is.   *)
At(x, y) == [x |-> x, y |-> y]
Outline(r) == <<At(r.x, r.y), At(Right(r), r.y), At(Right(r), Bottom(r)), At(r.x, Bottom(r))>>

Ell == <<<<At(0, 0), At(3, 0), At(3, 1), At(1, 1), At(1, 3), At(0, 3)>>>>
Ring == <<Outline(Box(0, 0, 4, 3)), Reverse(Outline(Box(1, 1, 2, 1)))>>
Overlap == <<Outline(Box(0, 0, 3, 2)), Outline(Box(1, 1, 2, 2))>>
Stair == <<<<At(1, -1), At(4, -1), At(4, 3), At(3, 3), At(3, 2), At(2, 2), At(2, 1), At(1, 1)>>>>
Speck == <<<<At(0, 0), At(2, 0)>>, Outline(Box(2, 1, 1, 2))>>

MCShifts == {At(0, 0), At(1, -1), At(-1, 0)}
MCClipRects == {Box(0, 0, 2, 4), Box(1, 1, 3, 2), Box(2, -1, 4, 3)}

MCDrawings ==
  {[kind |-> "rect", rect |-> r] : r \in {Box(1, 0, 2, 3), Box(1, 1, 0, 2), Box(3, 2, -2, -1)}}
    \cup {[kind |-> "border", rect |-> r] : r \in {Box(1, 1, 2, 1), Box(2, 0, 3, 2), Box(1, 1, 0, 1)}}
    \cup {[kind |-> "text", glyphs |-> {Box(0, 0, 1, 2), Box(2, 1, 2, 2), Box(3, 1, 0, 0)}]}
    \cup {[kind |-> "image", rect |-> Box(1, 1, 2, 2)], [kind |-> "clear"]}
    \cup {[kind |-> "line", ends |-> e] : e \in {<<At(3, 2), At(1, 2)>>, <<At(2, 0), At(2, 3)>>}}
    \cup {[kind |-> "path", path |-> p] : p \in {Ell, Ring, Overlap, Stair, Speck}}
    \cup {[kind |-> "stroke", path |-> p] : p \in {Ell, Ring}}

-----------------------------------------------------------------------------
VARIABLE part

mapVars == vars
graphicsVars == <<part, mapVars, textVars, canvasVars>>

GraphicsInit == part \in {"map", "text", "canvas"} /\ Init /\ TextInit /\ CanvasInit

GraphicsNext ==
  /\ part' = part
  /\ \/ part = "map" /\ Next /\ UNCHANGED <<textVars, canvasVars>>
     \/ part = "text" /\ TextNext /\ UNCHANGED <<mapVars, canvasVars>>
     \/ part = "canvas" /\ CanvasNext /\ UNCHANGED <<mapVars, textVars>>

GraphicsSpec == GraphicsInit /\ [][GraphicsNext]_graphicsVars
=============================================================================
