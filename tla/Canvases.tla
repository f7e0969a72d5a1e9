------------------------------ MODULE Canvases ------------------------------
(* The two backends of gfx::Canvas given the same calls: SoftwareCanvas    *)
(* with its rasterizer, and GLESCanvas with the scissor it keeps in the    *)
(* driver. A drawing is the set of pixels it reaches; colours, opacity and *)
(* anti-aliased edges are left out, coordinates are whole pixels, paths    *)
(* are closed and have horizontal and vertical edges only, strokes are two *)
(* pixels wide. Rounded shapes and layers are not drawn, and no text       *)
(* without a font, for which GLES has no fallback.                         *)
EXTENDS Integers, Sequences, FiniteSets, FiniteSetsExt

CONSTANTS
  Width, Height,  \* of the surface
  Shifts,         \* translations given to SetTransform
  ClipRects,      \* rectangles given to PushClipRect
  Drawings,       \* drawing calls
  MaxClips,       \* bound: clips open at a time
  MaxSaved        \* bound: states saved at a time

Points == [x : Int, y : Int]
Areas  == [x : Int, y : Int, w : Int, h : Int]

(* Paths: sequences of closed contours, each a sequence of corners.        *)
Following(contour, j) == contour[IF j = Len(contour) THEN 1 ELSE j + 1]
Straight(a, b) == a.x = b.x \/ a.y = b.y
IsPath(path) ==
  /\ path \in Seq(Seq(Points)) /\ \E i \in DOMAIN path : path[i] # <<>>
  /\ \A i \in DOMAIN path : \A j \in DOMAIN path[i] :
        Straight(path[i][j], Following(path[i], j))

ASSUME CanvasAssumption ==
  /\ Width \in Nat /\ Height \in Nat /\ MaxClips \in Nat /\ MaxSaved \in Nat
  /\ Shifts \subseteq Points /\ ClipRects \subseteq Areas
  /\ \A d \in Drawings :
       \/ d.kind \in {"rect", "border", "image"} /\ d.rect \in Areas
       \/ d.kind = "text" /\ d.glyphs \subseteq Areas
       \/ d.kind \in {"path", "stroke"} /\ IsPath(d.path)
       \/ d.kind = "line" /\ d.ends \in Points \X Points /\ Straight(d.ends[1], d.ends[2])
       \/ d.kind = "clear"

VARIABLES software, gles, drawn

canvasVars == <<software, gles, drawn>>

Origin == [x |-> 0, y |-> 0]
NoDrawing == [kind |-> "none"]

(* Rectangles and cells                                                    *)
Box(x, y, w, h) == [x |-> x, y |-> y, w |-> w, h |-> h]
Screen == Box(0, 0, Width, Height)
Right(r) == r.x + r.w
Bottom(r) == r.y + r.h
Void(r) == r.w <= 0 \/ r.h <= 0
Larger(a, b) == IF a > b THEN a ELSE b
Smaller(a, b) == IF a < b THEN a ELSE b

Intersect(r, s) ==
  LET both == [x |-> Larger(r.x, s.x), y |-> Larger(r.y, s.y),
               w |-> Smaller(Right(r), Right(s)) - Larger(r.x, s.x),
               h |-> Smaller(Bottom(r), Bottom(s)) - Larger(r.y, s.y)]
  IN  IF Void(both) THEN Box(0, 0, 0, 0) ELSE both

Pixels == (0..(Width - 1)) \X (0..(Height - 1))
Inside(r) == {p \in Pixels : p[1] \in r.x..(Right(r) - 1) /\ p[2] \in r.y..(Bottom(r) - 1)}

Apply(t, p) == [x |-> p.x + t.x, y |-> p.y + t.y]
Moved(t, r) == [r EXCEPT !.x = @ + t.x, !.y = @ + t.y]

(* The rectangle with the same corners and no negative size.               *)
Upright(r) ==
  LET x == Smaller(r.x, Right(r))
      y == Smaller(r.y, Bottom(r))
  IN  Box(x, y, Larger(r.x, Right(r)) - x, Larger(r.y, Bottom(r)) - y)

(* State and clip stacks, which the backends keep alike                    *)
Top(s) == s[Len(s)]
Butlast(s) == SubSeq(s, 1, Len(s) - 1)

CurrentClip(c) == IF c.clips = <<>> THEN Screen ELSE Top(c.clips)
Clipped(c, r) == [c EXCEPT !.clips = Append(@, Intersect(CurrentClip(c), r))]
Unclipped(c) == IF c.clips = <<>> THEN c ELSE [c EXCEPT !.clips = Butlast(@)]
Saved(c) == [c EXCEPT !.states = Append(@, [transform |-> c.transform, depth |-> Len(c.clips)])]
Restored(c) ==
  IF c.states = <<>> THEN c
  ELSE LET s == Top(c.states)
       IN  [c EXCEPT !.states = Butlast(@), !.transform = s.transform,
                     !.clips = SubSeq(@, 1, Smaller(Len(@), s.depth))]

(* GLES puts the top of the clips into the driver's scissor, whose origin  *)
(* is the lower left corner.                                               *)
Off == [enabled |-> FALSE, box |-> Screen]
ApplyScissor(c) ==
  [c EXCEPT !.scissor =
     IF c.clips = <<>> THEN Off
     ELSE LET r == Top(c.clips)
          IN  [enabled |-> TRUE,
               box |-> IF Void(r) THEN r ELSE [r EXCEPT !.y = Height - Bottom(r)]]]

(* A path and the corners it has.                                          *)
Path(t, path) == [i \in DOMAIN path |-> [j \in DOMAIN path[i] |-> Apply(t, path[i][j])]]
Corners(path) == UNION {{path[i][j] : j \in DOMAIN path[i]} : i \in DOMAIN path}

Bounds(path) ==
  LET xs == {p.x : p \in Corners(path)}
      ys == {p.y : p \in Corners(path)}
  IN  Box(Min(xs), Min(ys), Max(xs) - Min(xs), Max(ys) - Min(ys))

(* The corners on the two sides of a segment, half of a stroke of two away.*)
Sign(n) == IF n > 0 THEN 1 ELSE IF n < 0 THEN -1 ELSE 0
SegmentQuad(a, b) ==
  LET nx == -Sign(b.y - a.y)
      ny == Sign(b.x - a.x)
  IN  <<<<[x |-> a.x + nx, y |-> a.y + ny], [x |-> b.x + nx, y |-> b.y + ny],
          [x |-> b.x - nx, y |-> b.y - ny], [x |-> a.x - nx, y |-> a.y - ny]>>>>
Segments(path) ==
  UNION {{<<path[i][j], Following(path[i], j)>> : j \in DOMAIN path[i]} : i \in DOMAIN path}

(* The sides of a rectangle, in the order of a path around it.             *)
Corner(x, y) == [x |-> x, y |-> y]
Sides(r) ==
  LET a == Corner(r.x, r.y)
      b == Corner(Right(r), r.y)
      c == Corner(Right(r), Bottom(r))
      d == Corner(r.x, Bottom(r))
  IN  {<<a, b>>, <<b, c>>, <<c, d>>, <<d, a>>}

-----------------------------------------------------------------------------
(* The software rasterizer                                                 *)

(* The edges of some contours that are not horizontal, from their upper to *)
(* their lower end.                                                        *)
Edge(path, i, j) ==
  LET from == path[i][j]
      to == Following(path[i], j)
  IN  [at |-> <<i, j>>, x |-> from.x, top |-> Smaller(from.y, to.y),
       bottom |-> Larger(from.y, to.y), direction |-> Sign(to.y - from.y)]
EdgesOf(path, contours) ==
  {e \in UNION {{Edge(path, i, j) : j \in DOMAIN path[i]} : i \in contours} : e.direction # 0}
GenerateEdges(path) == EdgesOf(path, DOMAIN path)

(* The sum of the directions: the times the edges go round a point.        *)
Turns(edges) == Cardinality({e \in edges : e.direction = 1}) - Cardinality({e \in edges : e.direction = -1})

Rows(edges, clip) ==
  Larger(Larger(Min({e.top : e \in edges}), clip.y), 0)
    ..(Smaller(Smaller(Max({e.bottom : e \in edges}), Bottom(clip)), Height) - 1)

(* The active edges of each row: those kept from the row above and those   *)
(* that begin by this row and were not taken before.                       *)
ActiveEdges(edges, rows) ==
  LET active[y \in rows] ==
        IF y = Min(rows) THEN {e \in edges : e.top <= y}
        ELSE {e \in active[y - 1] : e.bottom > y} \cup {e \in edges : e.top = y}
  IN  active

(* An edge that crosses a row counts in its own column and those to the    *)
(* right; one to the left of the canvas is dropped.                        *)
EdgeCoverage(active, y) ==
  {e \in active : e.top <= y /\ e.bottom > y /\ e.x \in 0..(Width - 1)}

Running(covering, x) == Turns({e \in covering : e.x <= x})

ScanlineFill(path, clip) ==
  LET edges == GenerateEdges(path)
      rows == IF edges = {} THEN {} ELSE Rows(edges, clip)
      active == ActiveEdges(edges, rows)
      columns == Larger(0, clip.x)..(Smaller(Width, Right(clip)) - 1)
      Painted(y) == LET covering == EdgeCoverage(active[y], y)
                    IN  {x \in columns : Running(covering, x) # 0}
  IN  UNION {Painted(y) \X {y} : y \in rows}

SoftwareFillRect(c, r) ==
  Inside(Intersect(Intersect(Upright(Moved(c.transform, r)), CurrentClip(c)), Screen))
SoftwareFillPath(c, path) == ScanlineFill(Path(c.transform, path), CurrentClip(c))
SoftwareStroke(c, segments) ==
  UNION {ScanlineFill(SegmentQuad(Apply(c.transform, s[1]), Apply(c.transform, s[2])),
                      CurrentClip(c)) : s \in segments}
SoftwareImage(c, r) == Inside(Intersect(CurrentClip(c), r))

(* Glyphs are blended where the text puts them, cut at the canvas only.    *)
SoftwareText(glyphs) == UNION {Inside(g) : g \in glyphs}

-----------------------------------------------------------------------------
(* The GLES backend                                                        *)

(* What the driver lets through: the scissor is in window coordinates.     *)
Passing(c) ==
  LET box == c.scissor.box
  IN  {p \in Pixels : c.scissor.enabled => /\ p[1] \in box.x..(Right(box) - 1)
                                           /\ Height - 1 - p[2] \in box.y..(Bottom(box) - 1)}

(* Nonzero winding, which the tessellator is asked for, at a pixel.        *)
Winding(edges, p) == Turns({e \in edges : e.x <= p[1] /\ e.top <= p[2] /\ e.bottom > p[2]})

TessContours(path) == {i \in DOMAIN path : Len(path[i]) >= 3}

GlesFillRect(c, r) == IF Void(r) THEN {} ELSE Inside(Moved(c.transform, r)) \cap Passing(c)
GlesFillPath(c, path) ==
  LET edges == EdgesOf(Path(c.transform, path), TessContours(path))
  IN  {p \in Passing(c) : Winding(edges, p) # 0}
GlesStroke(c, segments) ==
  UNION {GlesFillPath(c, SegmentQuad(s[1], s[2])) : s \in segments}
GlesImage(c, r) == Inside(Moved(c.transform, r)) \cap Passing(c)
GlesText(c, glyphs) == UNION {GlesImage(c, g) : g \in glyphs}

(* A border is four bars about the sides: those at the top and the bottom  *)
(* with the corners, the others between them.                              *)
Bars(r) == {Box(r.x - 1, r.y - 1, r.w + 2, 2), Box(r.x - 1, r.y + r.h - 1, r.w + 2, 2),
            Box(r.x - 1, r.y + 1, 2, r.h - 2), Box(r.x + r.w - 1, r.y + 1, 2, r.h - 2)}
GlesBorder(c, r) == IF Void(r) THEN {} ELSE UNION {GlesFillRect(c, bar) : bar \in Bars(r)}

(* A line is a rectangle turned about its middle, under a transform set    *)
(* for it and taken back.                                                  *)
GlesLine(c, s) ==
  LET a == [x |-> Smaller(s[1].x, s[2].x), y |-> Smaller(s[1].y, s[2].y)]
      b == [x |-> Larger(s[1].x, s[2].x), y |-> Larger(s[1].y, s[2].y)]
  IN  GlesFillRect(c, IF a.y = b.y THEN Box(a.x, a.y - 1, b.x - a.x, 2)
                      ELSE Box(a.x - 1, a.y, 2, b.y - a.y))

-----------------------------------------------------------------------------
(* The calls                                                               *)

CanvasInit ==
  /\ software = [transform |-> Origin, clips |-> <<>>, states |-> <<>>]
  /\ gles = [transform |-> Origin, clips |-> <<>>, states |-> <<>>, scissor |-> Off]
  /\ drawn = [call |-> NoDrawing, software |-> {}, gles |-> {}]

NothingDrawn == drawn' = [call |-> NoDrawing, software |-> {}, gles |-> {}]

PushState ==
  /\ Len(software.states) < MaxSaved
  /\ software' = Saved(software) /\ gles' = Saved(gles)
  /\ NothingDrawn

(* Mutant: the scissor of a dropped clip stays in force. *)
PopStateKeepingScissor ==
  /\ software' = Restored(software)
  /\ gles' = Restored(gles)
  /\ NothingDrawn

PopState ==
  /\ software' = Restored(software)
  /\ gles' = ApplyScissor(Restored(gles))
  /\ NothingDrawn

SetTransform(t) ==
  /\ software' = [software EXCEPT !.transform = t]
  /\ gles' = [gles EXCEPT !.transform = t]
  /\ NothingDrawn

(* Neither backend applies the transform to a clip.                        *)
PushClipRect(r) ==
  /\ Len(software.clips) < MaxClips
  /\ software' = Clipped(software, r)
  /\ gles' = ApplyScissor(Clipped(gles, r))
  /\ NothingDrawn

PushClipPath(path) == PushClipRect(Bounds(path))

PopClip ==
  /\ software' = Unclipped(software)
  /\ gles' = ApplyScissor(Unclipped(gles))
  /\ NothingDrawn

(* A frame begins; only GLES forgets clips left open.                      *)
Begin ==
  /\ software' = software
  /\ gles' = [gles EXCEPT !.clips = <<>>, !.scissor = Off]
  /\ NothingDrawn

(* Clear of the software canvas looks at no clip.                          *)
Draw(d) ==
  /\ drawn' = [call |-> d,
                software |-> CASE d.kind = "rect"   -> SoftwareFillRect(software, d.rect)
                               [] d.kind = "path"   -> SoftwareFillPath(software, d.path)
                               [] d.kind = "stroke" -> SoftwareStroke(software, Segments(d.path))
                               [] d.kind = "border" -> SoftwareStroke(software, Sides(d.rect))
                               [] d.kind = "text"   -> SoftwareText(d.glyphs)
                               [] d.kind = "line"   -> SoftwareStroke(software, {d.ends})
                               [] d.kind = "image"  -> SoftwareImage(software, d.rect)
                               [] d.kind = "clear"  -> Pixels,
                gles |-> CASE d.kind = "rect"   -> GlesFillRect(gles, d.rect)
                           [] d.kind = "path"   -> GlesFillPath(gles, d.path)
                           [] d.kind = "stroke" -> GlesStroke(gles, Segments(d.path))
                           [] d.kind = "border" -> GlesBorder(gles, d.rect)
                           [] d.kind = "text"   -> GlesText(gles, d.glyphs)
                           [] d.kind = "line"   -> GlesLine(gles, d.ends)
                           [] d.kind = "image"  -> GlesImage(gles, d.rect)
                           [] d.kind = "clear"  -> Passing(gles)]
  /\ software' = software
  /\ gles' = IF d.kind = "line" THEN ApplyScissor(Restored(Saved(gles))) ELSE gles

CanvasNext ==
  \/ PushState \/ PopState \/ PopClip
  \/ \E t \in Shifts : SetTransform(t)
  \/ \E r \in ClipRects : PushClipRect(r)
  \/ \E d \in Drawings : Draw(d) \/ (d.kind = "path" /\ PushClipPath(d.path))
  \/ software.clips = <<>> /\ Begin

CanvasSpec == CanvasInit /\ [][CanvasNext]_canvasVars

-----------------------------------------------------------------------------
(* Known differences: the software backend paints to the right of a path   *)
(* that crosses the left border of the canvas, for it drops the edges      *)
(* there; it mirrors a rectangle of negative size and strokes one without  *)
(* area, where GLES draws nothing; it draws images without the transform,  *)
(* text with neither transform nor clip, and clears without the clip.      *)
LeftOfCanvas(points) == \E p \in points : p.x + software.transform.x < 0
StrokeCorners(segments) == UNION {Corners(SegmentQuad(s[1], s[2])) : s \in segments}

KnownDifference(d) ==
  \/ d.kind = "none"
  \/ d.kind = "path" /\ LeftOfCanvas(Corners(d.path))
  \/ d.kind = "stroke" /\ LeftOfCanvas(StrokeCorners(Segments(d.path)))
  \/ d.kind = "rect" /\ Void(d.rect) /\ ~Void(Upright(d.rect))
  \/ d.kind = "border" /\ (Void(d.rect) \/ LeftOfCanvas(StrokeCorners(Sides(d.rect))))
  \/ d.kind = "text" /\ (software.transform # Origin \/ software.clips # <<>>)
  \/ d.kind = "line" /\ LeftOfCanvas(Corners(SegmentQuad(d.ends[1], d.ends[2])))
  \/ d.kind = "image" /\ software.transform # Origin
  \/ d.kind = "clear" /\ software.clips # <<>>

(* The outer pixels at the corners of a border, where the clip lets one.   *)
OuterCorners(r) ==
  {Box(x, y, 1, 1) : x \in {r.x - 1, Right(r)}, y \in {r.y - 1, Bottom(r)}}
CornersOf(d) ==
  IF d.kind # "border" THEN {}
  ELSE (UNION {Inside(Moved(software.transform, s)) : s \in OuterCorners(d.rect)})
         \cap Inside(CurrentClip(software))

(* Whatever was pushed, popped and moved before, a drawing reaches the     *)
(* same pixels on both backends: the clips kept in a stack and the scissor *)
(* kept in the driver, the scanlines with their active edges and the       *)
(* winding rule, strokes by segment and lines by a turned rectangle come   *)
(* to the same thing, save for the differences named above. The border of  *)
(* a rectangle has on GLES the four pixels at its corners that the strokes *)
(* of the sides leave out, and is the same everywhere else.                *)
BackendsAgree ==
  KnownDifference(drawn.call) \/ drawn.gles = drawn.software \cup CornersOf(drawn.call)

=============================================================================
