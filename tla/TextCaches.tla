----------------------------- MODULE TextCaches -----------------------------
(* Drawing text through the caches: the pixel size of the font's face with *)
(* the size FontManager believes it has, the shaped runs (ShapeCache), the *)
(* bitmaps (GlyphCache) and the texture of the GLES backend (GlyphAtlas).  *)
(* One font; a run's glyphs are the text's characters.                     *)
EXTENDS Integers, Sequences

CONSTANTS
  Glyphs,                  \* glyphs of the font
  PixelSizes,              \* sizes text is drawn or measured at
  Texts,                   \* texts that are drawn, sequences of glyphs
  Extent(_, _),            \* width and height of a glyph at a size
  AtlasWidth, AtlasHeight,
  Capacity                 \* of the shape cache

ASSUME TextAssumption ==
  /\ PixelSizes \subseteq Nat \ {0} /\ Capacity \in Nat \ {0}
  /\ AtlasWidth \in Nat /\ AtlasHeight \in Nat
  /\ Texts \subseteq Seq(Glyphs) \ {<<>>}
  /\ \A g \in Glyphs, s \in PixelSizes : Extent(g, s) \in [w : Nat, h : Nat]

VARIABLES
  face,     \* the size of the face, and the one SetFacePixelSize remembers
  runs,     \* ShapeCache: its slots and the next one to write
  bitmaps,  \* GlyphCache: key to bitmap
  atlas,    \* GlyphAtlas: key to region, the cursor, and the texels
  pen       \* the text being drawn and the glyph the pen is at

textVars == <<face, runs, bitmaps, atlas, pen>>

Pad == 1
Cells == (0..(AtlasWidth - 1)) \X (0..(AtlasHeight - 1))
Key(g, s) == [glyph |-> g, pixelSize |-> s]
Nothing == [k \in {} |-> {}]
With(f, k, v) == [x \in (DOMAIN f) \cup {k} |-> IF x = k THEN v ELSE f[x]]
Vacant == [occupied |-> FALSE]
Blank == [glyph |-> "none", made |-> [at |-> 0, behind |-> FALSE]]
EmptyAtlas == [regions |-> Nothing, x |-> 0, y |-> 0, row |-> 0, texels |-> [c \in Cells |-> Blank]]
Resting == [drawing |-> FALSE]

(* What the face gives when it is asked: the size it has counts; behind    *)
(* says that the face was set past FontManager.                            *)
MadeBy(f) == [at |-> f.at, behind |-> f.at # f.known]

SetFacePixelSize(f, s) == IF f.known # s THEN [f EXCEPT !.at = s, !.known = s] ELSE f

-----------------------------------------------------------------------------
(* Shaped runs: a ring of slots.                                           *)

Matching(text, s) ==
  {i \in DOMAIN runs.slots : /\ runs.slots[i].occupied
                             /\ runs.slots[i].text = text /\ runs.slots[i].pixelSize = s}

Earliest(slots) == CHOOSE i \in slots : \A j \in slots : i <= j

InsertRun(r, run) ==
  [slots |-> [r.slots EXCEPT ![r.head] = run], head |-> (r.head % Capacity) + 1]

-----------------------------------------------------------------------------
(* The atlas: glyphs in shelves, a gutter to the right of and below each.  *)

(* Mutant: an emptied atlas still finds its old glyphs. *)
FreshKeepingRegions(a) == [a EXCEPT !.x = 0, !.y = 0, !.row = 0]

Fresh(a) == [a EXCEPT !.regions = Nothing, !.x = 0, !.y = 0, !.row = 0]

Shelf(a, w) ==
  IF a.x + w + Pad > AtlasWidth THEN [a EXCEPT !.x = 0, !.y = @ + a.row, !.row = 0] ELSE a

Fits(a, w, h) ==
  w <= AtlasWidth /\ h <= AtlasHeight /\ Shelf(a, w).y + h + Pad <= AtlasHeight

PackGlyph(a, w, h) ==
  LET s == Shelf(a, w)
  IN  [s EXCEPT !.x = @ + w + Pad, !.row = IF h + Pad > @ THEN h + Pad ELSE @]

Region(x, y, w, h) == (x..(x + w - 1)) \X (y..(y + h - 1))

Uploaded(a, key, bitmap, w, h) ==
  LET s == Shelf(a, w)
      region == Region(s.x, s.y, w, h)
  IN  [PackGlyph(a, w, h) EXCEPT
         !.regions = With(@, key, region),
         !.texels = [c \in Cells |-> IF c \in region THEN bitmap ELSE @[c]]]

(* A full atlas is emptied; what does not fit an empty one is not kept.    *)
GetOrUpload(a, key, bitmap) ==
  LET e == Extent(bitmap.glyph, bitmap.made.at)
      room == IF Fits(a, e.w, e.h) THEN a ELSE Fresh(a)
  IN  IF key \in DOMAIN a.regions THEN a
      ELSE IF e.w = 0 \/ e.h = 0 THEN [a EXCEPT !.regions = With(@, key, {})]
      ELSE IF Fits(room, e.w, e.h) THEN Uploaded(room, key, bitmap, e.w, e.h)
      ELSE room

-----------------------------------------------------------------------------
TextInit ==
  /\ face = [at |-> 0, known |-> 0]
  /\ runs = [slots |-> [i \in 1..Capacity |-> Vacant], head |-> 1]
  /\ bitmaps = Nothing /\ atlas = EmptyAtlas
  /\ pen = Resting

(* The shaper that measures text for layout sets the face itself.          *)
Measure(s) ==
  /\ ~pen.drawing
  /\ face' = [face EXCEPT !.at = s]
  /\ UNCHANGED <<runs, bitmaps, atlas, pen>>

(* DrawText of either backend up to its glyphs. *)
DrawText(backend, text, s) ==
  LET set == SetFacePixelSize(face, s)
      hits == Matching(text, s)
      run == IF hits # {} THEN runs.slots[Earliest(hits)]
             ELSE [occupied |-> TRUE, text |-> text, pixelSize |-> s, made |-> MadeBy(set)]
  IN  /\ ~pen.drawing
      /\ face' = set
      /\ runs' = IF hits # {} THEN runs ELSE InsertRun(runs, run)
      /\ pen' = [drawing |-> TRUE, backend |-> backend, text |-> text, pixelSize |-> s,
                 run |-> run, at |-> 1]
      /\ UNCHANGED <<bitmaps, atlas>>

NextGlyph == Key(pen.run.text[pen.at], pen.pixelSize)
Advance == pen' = IF pen.at = Len(pen.run.text) THEN Resting ELSE [pen EXCEPT !.at = @ + 1]

(* GlyphCache, filled from the face. *)
Rasterized(f, key) == [glyph |-> key.glyph, made |-> MadeBy(f)]
Put(key, bitmap) == bitmaps' = With(bitmaps, key, bitmap)

SoftwareGlyph ==
  /\ pen.drawing /\ pen.backend = "software"
  /\ IF NextGlyph \in DOMAIN bitmaps THEN bitmaps' = bitmaps
     ELSE Put(NextGlyph, Rasterized(face, NextGlyph))
  /\ Advance
  /\ UNCHANGED <<face, runs, atlas>>

GlesGlyph ==
  /\ pen.drawing /\ pen.backend = "gles"
  /\ IF NextGlyph \in DOMAIN atlas.regions THEN UNCHANGED <<face, bitmaps, atlas>>
     ELSE IF NextGlyph \in DOMAIN bitmaps
     THEN /\ atlas' = GetOrUpload(atlas, NextGlyph, bitmaps[NextGlyph])
          /\ UNCHANGED <<face, bitmaps>>
     ELSE LET set == SetFacePixelSize(face, NextGlyph.pixelSize)
          IN  /\ face' = set
              /\ Put(NextGlyph, Rasterized(set, NextGlyph))
              /\ atlas' = GetOrUpload(atlas, NextGlyph, Rasterized(set, NextGlyph))
  /\ Advance
  /\ UNCHANGED runs

(* OnContextLost and OnContextRestored, between which nothing draws. *)
ContextRestored ==
  /\ ~pen.drawing
  /\ atlas' = EmptyAtlas
  /\ UNCHANGED <<face, runs, bitmaps, pen>>

ClearShapeCache ==
  /\ ~pen.drawing
  /\ runs' = [slots |-> [i \in 1..Capacity |-> Vacant], head |-> 1]
  /\ UNCHANGED <<face, bitmaps, atlas, pen>>

TextNext ==
  \/ \E s \in PixelSizes : Measure(s)
  \/ \E backend \in {"software", "gles"}, text \in Texts, s \in PixelSizes : DrawText(backend, text, s)
  \/ SoftwareGlyph \/ GlesGlyph
  \/ ContextRestored \/ ClearShapeCache

TextSpec == TextInit /\ [][TextNext]_textVars

-----------------------------------------------------------------------------
Suits(made, s) == made.at = s \/ made.behind

(* Through evictions of the atlas, shelves, lost contexts, reused slots    *)
(* and changes of size, a text is drawn from its own run and glyphs: the   *)
(* region of every glyph of the atlas still holds all of its bitmap, a     *)
(* bitmap is of the glyph and the size it is kept under, and the run in    *)
(* use is the text's at its size. Glyphs and runs made while the shaper    *)
(* had set the face past FontManager are the exception.                    *)
GlyphsExact ==
  /\ \A key \in DOMAIN atlas.regions : \A c \in atlas.regions[key] :
       c \in Cells /\ atlas.texels[c] = bitmaps[key]
  /\ \A key \in DOMAIN bitmaps :
       bitmaps[key].glyph = key.glyph /\ Suits(bitmaps[key].made, key.pixelSize)
  /\ pen.drawing => pen.run.text = pen.text /\ Suits(pen.run.made, pen.pixelSize)
=============================================================================
