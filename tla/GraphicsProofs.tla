--------------------------- MODULE GraphicsProofs ---------------------------
(* The parts below the renderer. GlyphsExact for every font, every set of  *)
(* texts and sizes, and an atlas and a shape cache of any size; then       *)
(* BackendsAgree for a canvas of any size and any rectangles and paths.    *)
EXTENDS TextCaches, Canvases, FiniteSetTheorems, WellFoundedInduction, TLAPS

Made    == [at : PixelSizes, behind : BOOLEAN]
Bitmaps == [glyph : Glyphs, made : Made]
Runs    == [occupied : {TRUE}, text : Texts, pixelSize : PixelSizes, made : Made]
Keys    == [glyph : Glyphs, pixelSize : PixelSizes]

-----------------------------------------------------------------------------
(* The inductive invariant.                                                *)

(* A face that has been set through FontManager has a size text is drawn   *)
(* at, whatever the shaper does to it.                                     *)
FaceOK(f) ==
  /\ f \in [at : Nat, known : Nat]
  /\ f.known \in PixelSizes => f.at \in PixelSizes

RunsOK(r) ==
  /\ r \in [slots : [1..Capacity -> {Vacant} \cup Runs], head : 1..Capacity]
  /\ \A i \in 1..Capacity : r.slots[i].occupied => Suits(r.slots[i].made, r.slots[i].pixelSize)

BitmapsOK(b) ==
  /\ b \in [DOMAIN b -> Bitmaps]
  /\ DOMAIN b \subseteq Keys
  /\ \A key \in DOMAIN b : b[key].glyph = key.glyph /\ Suits(b[key].made, key.pixelSize)

(* What the cursor has passed: the shelves above, and its own up to x.     *)
Passed(a, c) == c[2] < a.y \/ (c[2] < a.y + a.row /\ c[1] < a.x)

AtlasTyped(a) ==
  /\ DOMAIN a = {"regions", "x", "y", "row", "texels"}
  /\ a.x \in Nat /\ a.y \in Nat /\ a.row \in Nat
  /\ a.texels = [c \in Cells |-> a.texels[c]]

(* A glyph's region lies in what the cursor has passed, and nothing has    *)
(* been written over it.                                                   *)
RegionsOK(a, b) ==
  \A key \in DOMAIN a.regions : \A c \in a.regions[key] :
    c \in Cells /\ a.texels[c] = b[key] /\ Passed(a, c)

AtlasOK(a, b) == AtlasTyped(a) /\ DOMAIN a.regions \subseteq DOMAIN b /\ RegionsOK(a, b)

(* While a text is drawn, FontManager knows its size, and the run in hand  *)
(* is the text's.                                                          *)
Pens ==
  {p \in [drawing : {TRUE}, backend : {"software", "gles"}, text : Texts, pixelSize : PixelSizes,
          run : Runs, at : Nat \ {0}] :
     p.run.text = p.text /\ p.at <= Len(p.text) /\ Suits(p.run.made, p.pixelSize)}

PenOK(p, f) ==
  /\ p \in {Resting} \cup Pens
  /\ p.drawing => p \in Pens /\ f.known = p.pixelSize

IInv == FaceOK(face) /\ RunsOK(runs) /\ BitmapsOK(bitmaps) /\ AtlasOK(atlas, bitmaps) /\ PenOK(pen, face)

-----------------------------------------------------------------------------
LEMMA EarliestHit ==
  ASSUME NEW S \in SUBSET (1..Capacity), S # {}
  PROVE  Earliest(S) \in S
<1> DEFINE less == OpToRel(<, Nat)
<1>1. IsWellFoundedOn(less, Nat)
  BY NatLessThanWellFounded
<1>2. S \in SUBSET Nat
  BY TextAssumption
<1> HIDE DEF less
<1>3. PICK n \in S : \A m \in S : <<m, n>> \notin less
  BY <1>1, <1>2, WFMin
<1> USE DEF less
<1>4. ASSUME NEW m \in S, ~(n <= m)
      PROVE  FALSE
  <2>1. <<m, n>> \in Nat \X Nat /\ m < n
    BY <1>2, <1>4
  <2>2. <<m, n>> \in less
    BY <2>1 DEF OpToRel
  <2> QED BY <1>3, <2>2
<1> QED BY <1>4 DEF Earliest

(* SetFacePixelSize leaves FontManager knowing the size, and the face at a *)
(* size that is drawn.                                                     *)
LEMMA FaceSet ==
  ASSUME NEW f, FaceOK(f), NEW s \in PixelSizes
  PROVE  /\ FaceOK(SetFacePixelSize(f, s))
         /\ SetFacePixelSize(f, s).known = s
         /\ MadeBy(SetFacePixelSize(f, s)) \in Made
         /\ Suits(MadeBy(SetFacePixelSize(f, s)), s)
BY TextAssumption DEF FaceOK, SetFacePixelSize, MadeBy, Made, Suits

(* A bitmap rasterized while FontManager knows the size of its key.        *)
LEMMA RasterizedFits ==
  ASSUME NEW f, FaceOK(f), NEW key \in Keys, f.known = key.pixelSize
  PROVE  /\ Rasterized(f, key) \in Bitmaps
         /\ Rasterized(f, key).glyph = key.glyph
         /\ Suits(Rasterized(f, key).made, key.pixelSize)
BY DEF FaceOK, Keys, Rasterized, MadeBy, Made, Bitmaps, Suits

LEMMA InsertKeeps ==
  ASSUME NEW r, RunsOK(r), NEW run \in Runs, Suits(run.made, run.pixelSize)
  PROVE  RunsOK(InsertRun(r, run))
<1>1. (r.head % Capacity) + 1 \in 1..Capacity
  BY TextAssumption DEF RunsOK
<1>2. [r.slots EXCEPT ![r.head] = run] \in [1..Capacity -> {Vacant} \cup Runs]
  BY DEF RunsOK
<1>3. InsertRun(r, run) \in [slots : [1..Capacity -> {Vacant} \cup Runs], head : 1..Capacity]
  BY <1>1, <1>2 DEF InsertRun
<1>4. ASSUME NEW i \in 1..Capacity, InsertRun(r, run).slots[i].occupied
      PROVE  Suits(InsertRun(r, run).slots[i].made, InsertRun(r, run).slots[i].pixelSize)
  <2>1. InsertRun(r, run).slots = [r.slots EXCEPT ![r.head] = run]
    BY DEF InsertRun
  <2>2. CASE i = r.head
    BY <2>1, <2>2 DEF RunsOK
  <2>3. CASE i # r.head
    BY <1>4, <2>1, <2>3 DEF RunsOK
  <2> QED BY <2>2, <2>3
<1> QED BY <1>3, <1>4 DEF RunsOK

LEMMA PutKeeps ==
  ASSUME NEW b, BitmapsOK(b), NEW key \in Keys, NEW bitmap \in Bitmaps,
         bitmap.glyph = key.glyph, Suits(bitmap.made, key.pixelSize)
  PROVE  BitmapsOK(With(b, key, bitmap))
BY DEF BitmapsOK, With

-----------------------------------------------------------------------------
(* The atlas.                                                              *)

LEMMA EmptyAtlasOK == ASSUME NEW b PROVE AtlasOK(EmptyAtlas, b)
BY DEF AtlasOK, AtlasTyped, RegionsOK, EmptyAtlas, Nothing

LEMMA FreshOK ==
  ASSUME NEW a, NEW b, AtlasOK(a, b)
  PROVE  AtlasOK(Fresh(a), b)
<1>1. AtlasTyped(Fresh(a)) /\ Fresh(a).regions = Nothing
  BY DEF AtlasOK, AtlasTyped, Fresh
<1>2. DOMAIN Nothing = {}
  BY DEF Nothing
<1> HIDE DEF Nothing
<1> QED BY <1>1, <1>2 DEF AtlasOK, RegionsOK

(* Opening a shelf passes all that stands.                                 *)
LEMMA ShelfOK ==
  ASSUME NEW a, NEW b, AtlasOK(a, b), NEW w \in Nat
  PROVE  /\ AtlasOK(Shelf(a, w), b)
         /\ Shelf(a, w).regions = a.regions /\ Shelf(a, w).texels = a.texels
<1>1. CASE a.x + w + Pad > AtlasWidth
  <2> DEFINE s == [a EXCEPT !.x = 0, !.y = @ + a.row, !.row = 0]
  <2>1. Shelf(a, w) = s
    BY <1>1 DEF Shelf
  <2>2. /\ AtlasTyped(s) /\ s.regions = a.regions /\ s.texels = a.texels
        /\ s.x = 0 /\ s.y = a.y + a.row /\ s.row = 0
    BY DEF AtlasOK, AtlasTyped
  <2> HIDE DEF s
  <2>3. ASSUME NEW c \in Cells, Passed(a, c)
        PROVE  Passed(s, c)
    <3>1. c[1] \in Int /\ c[2] \in Int
      BY TextAssumption DEF Cells
    <3> QED BY <2>2, <2>3, <3>1 DEF AtlasOK, AtlasTyped, Passed
  <2> QED BY <2>1, <2>2, <2>3 DEF AtlasOK, RegionsOK
<1>2. CASE ~(a.x + w + Pad > AtlasWidth)
  BY <1>2 DEF Shelf
<1> QED BY <1>1, <1>2

(* The cells of a region that lies in the atlas.                           *)
LEMMA RegionInside ==
  ASSUME NEW x \in Nat, NEW y \in Nat, NEW w \in Nat, NEW h \in Nat,
         x + w <= AtlasWidth, y + h <= AtlasHeight, NEW c \in Region(x, y, w, h)
  PROVE  /\ c \in Cells /\ c[1] \in Int /\ c[2] \in Int
         /\ c[1] >= x /\ c[1] < x + w /\ c[2] >= y /\ c[2] < y + h
<1>1. PICK m \in x..(x + w - 1), n \in y..(y + h - 1) : c = <<m, n>>
  BY DEF Region
<1>2. m \in 0..(AtlasWidth - 1) /\ n \in 0..(AtlasHeight - 1)
  BY TextAssumption
<1> QED BY <1>1, <1>2 DEF Cells

(* A glyph written behind the cursor leaves every other region alone.      *)
LEMMA UploadedOK ==
  ASSUME NEW a, NEW b, AtlasOK(a, b), NEW key, key \in DOMAIN b, key \notin DOMAIN a.regions,
         NEW w \in Nat, NEW h \in Nat, Fits(a, w, h)
  PROVE  AtlasOK(Uploaded(a, key, b[key], w, h), b)
<1> DEFINE s == Shelf(a, w)
           region == Region(s.x, s.y, w, h)
           packed == PackGlyph(a, w, h)
           u == Uploaded(a, key, b[key], w, h)
<1>1. AtlasOK(s, b) /\ s.regions = a.regions /\ s.texels = a.texels
  BY ShelfOK
<1>2. s.x \in Nat /\ s.y \in Nat /\ s.row \in Nat /\ RegionsOK(s, b)
  BY <1>1 DEF AtlasOK, AtlasTyped
<1>3. s.x + w <= AtlasWidth /\ s.y + h <= AtlasHeight
  BY <1>2, TextAssumption DEF Fits, Shelf, Pad, AtlasOK, AtlasTyped
<1>4. /\ DOMAIN packed = {"regions", "x", "y", "row", "texels"}
      /\ packed.regions = a.regions /\ packed.texels = a.texels
      /\ packed.x = s.x + w + Pad /\ packed.y = s.y
      /\ packed.row = IF h + Pad > s.row THEN h + Pad ELSE s.row
  <2> HIDE DEF s
  <2>1. packed = [s EXCEPT !.x = @ + w + Pad, !.row = IF h + Pad > @ THEN h + Pad ELSE @]
    BY DEF PackGlyph, s
  <2> QED BY <1>1, <2>1 DEF AtlasOK, AtlasTyped
<1>5. /\ DOMAIN u = {"regions", "x", "y", "row", "texels"}
      /\ u.regions = With(a.regions, key, region)
      /\ u.texels = [c \in Cells |-> IF c \in region THEN b[key] ELSE a.texels[c]]
      /\ u.x = packed.x /\ u.y = packed.y /\ u.row = packed.row
  <2> HIDE DEF packed, region
  <2>1. u = [packed EXCEPT
               !.regions = With(@, key, region),
               !.texels = [c \in Cells |-> IF c \in region THEN b[key] ELSE @[c]]]
    BY DEF Uploaded, packed, region
  <2> QED BY <1>4, <2>1
<1> HIDE DEF packed, s, u
<1>6. u.x = s.x + w + 1 /\ u.y = s.y /\ u.row >= s.row /\ u.row > h /\ u.row \in Nat
  BY <1>2, <1>4, <1>5 DEF Pad
<1>7. ASSUME NEW c \in region
      PROVE  /\ c \in Cells /\ c[1] \in Int /\ c[2] \in Int
             /\ c[1] >= s.x /\ c[1] < s.x + w /\ c[2] >= s.y /\ c[2] < s.y + h
  BY <1>2, <1>3, <1>7, RegionInside
<1> HIDE DEF region
<1>8. ASSUME NEW c \in Cells, Passed(s, c)
      PROVE  c \notin region /\ Passed(u, c)
  <2>1. c[1] \in Int /\ c[2] \in Int
    BY TextAssumption DEF Cells
  <2>2. c \notin region
    BY <1>2, <1>7, <1>8, <2>1 DEF Passed
  <2>3. Passed(u, c)
    BY <1>2, <1>6, <1>8, <2>1 DEF Passed
  <2> QED BY <2>2, <2>3
<1>9. \A c \in region : Passed(u, c)
  BY <1>2, <1>6, <1>7 DEF Passed
<1>10. AtlasTyped(u)
  BY <1>2, <1>5, <1>6 DEF AtlasTyped
<1>11. DOMAIN u.regions = (DOMAIN a.regions) \cup {key}
  BY <1>5 DEF With
<1>12. ASSUME NEW k \in DOMAIN u.regions, NEW c \in u.regions[k]
       PROVE  c \in Cells /\ u.texels[c] = b[k] /\ Passed(u, c)
  <2>1. CASE k = key
    <3>1. c \in region
      BY <1>5, <1>12, <2>1 DEF With
    <3> QED BY <1>5, <1>7, <1>9, <2>1, <3>1
  <2>2. CASE k # key
    <3>1. k \in DOMAIN s.regions /\ c \in s.regions[k]
      BY <1>1, <1>5, <1>11, <1>12, <2>2 DEF With
    <3>2. c \in Cells /\ a.texels[c] = b[k] /\ Passed(s, c)
      BY <1>1, <1>2, <3>1 DEF RegionsOK
    <3> QED BY <1>5, <1>8, <3>2
  <2> QED BY <2>1, <2>2
<1>13. DOMAIN u.regions \subseteq DOMAIN b
  BY <1>11 DEF AtlasOK
<1>14. RegionsOK(u, b)
  BY <1>12 DEF RegionsOK
<1> QED BY <1>10, <1>13, <1>14 DEF AtlasOK, u

(* Whatever GetOrUpload does - find, skip a blank glyph, write, empty the  *)
(* atlas first, or give up - the atlas shows what the bitmaps are.         *)
LEMMA GetOrUploadOK ==
  ASSUME NEW a, NEW b, AtlasOK(a, b), BitmapsOK(b), NEW key \in DOMAIN b
  PROVE  AtlasOK(GetOrUpload(a, key, b[key]), b)
<1> DEFINE e == Extent(b[key].glyph, b[key].made.at)
           room == IF Fits(a, e.w, e.h) THEN a ELSE Fresh(a)
<1>1. e.w \in Nat /\ e.h \in Nat
  <2>1. b[key].glyph \in Glyphs /\ b[key].made.at \in PixelSizes
    BY DEF BitmapsOK, Bitmaps, Made
  <2>2. e \in [w : Nat, h : Nat]
    BY <2>1, TextAssumption
  <2> QED BY <2>2
<1>2. AtlasOK(room, b) /\ (key \notin DOMAIN a.regions => key \notin DOMAIN room.regions)
  BY FreshOK DEF Fresh, Nothing, AtlasOK, AtlasTyped
<1>3. CASE key \in DOMAIN a.regions
  BY <1>3 DEF GetOrUpload
<1>4. CASE key \notin DOMAIN a.regions /\ (e.w = 0 \/ e.h = 0)
  <2> DEFINE n == [a EXCEPT !.regions = With(@, key, {})]
  <2>1. GetOrUpload(a, key, b[key]) = n
    BY <1>4 DEF GetOrUpload
  <2>2. /\ AtlasTyped(n) /\ n.regions = With(a.regions, key, {})
        /\ n.x = a.x /\ n.y = a.y /\ n.row = a.row /\ n.texels = a.texels
    BY DEF AtlasOK, AtlasTyped
  <2> HIDE DEF n
  <2>3. DOMAIN n.regions = DOMAIN a.regions \cup {key} /\ n.regions[key] = {}
    BY <2>2 DEF With
  <2>4. \A k \in DOMAIN a.regions : n.regions[k] = a.regions[k]
    BY <1>4, <2>2 DEF With
  <2>5. \A c : Passed(a, c) => Passed(n, c)
    BY <2>2 DEF Passed
  <2> QED BY <2>1, <2>2, <2>3, <2>4, <2>5 DEF AtlasOK, RegionsOK
<1>5. CASE key \notin DOMAIN a.regions /\ ~(e.w = 0 \/ e.h = 0)
  <2>1. GetOrUpload(a, key, b[key]) =
          IF Fits(room, e.w, e.h) THEN Uploaded(room, key, b[key], e.w, e.h) ELSE room
    BY <1>5 DEF GetOrUpload
  <2> HIDE DEF room, e
  <2> QED BY <1>1, <1>2, <1>5, <2>1, UploadedOK
<1> QED BY <1>3, <1>4, <1>5

(* More bitmaps do not disturb the atlas.                                  *)
LEMMA AtlasKept ==
  ASSUME NEW a, NEW b, AtlasOK(a, b), NEW key, key \notin DOMAIN b, NEW bitmap
  PROVE  AtlasOK(a, With(b, key, bitmap))
BY DEF AtlasOK, RegionsOK, With

-----------------------------------------------------------------------------
(* The initial states and the actions.                                     *)

LEMMA InitOK == TextInit => IInv
<1> SUFFICES ASSUME TextInit PROVE IInv
  OBVIOUS
<1>1. FaceOK(face)
  BY TextAssumption DEF TextInit, FaceOK
<1>2. RunsOK(runs)
  BY TextAssumption DEF TextInit, RunsOK, Vacant
<1>3. BitmapsOK(bitmaps)
  BY DEF TextInit, BitmapsOK, Nothing
<1>4. AtlasOK(atlas, bitmaps)
  BY EmptyAtlasOK DEF TextInit
<1>5. PenOK(pen, face)
  BY DEF TextInit, PenOK, Resting
<1> QED BY <1>1, <1>2, <1>3, <1>4, <1>5 DEF IInv

(* Measuring moves the face, never what FontManager believes.              *)
LEMMA MeasureOK == ASSUME IInv, NEW s \in PixelSizes, Measure(s) PROVE IInv'
<1>1. FaceOK(face')
  BY TextAssumption DEF IInv, Measure, FaceOK
<1>2. PenOK(pen', face')
  BY DEF IInv, Measure, PenOK
<1>3. RunsOK(runs') /\ BitmapsOK(bitmaps') /\ AtlasOK(atlas', bitmaps')
  BY DEF IInv, Measure
<1> QED BY <1>1, <1>2, <1>3 DEF IInv

(* A hit gives a run of the text and size asked for; a miss makes one.     *)
LEMMA DrawTextOK ==
  ASSUME IInv, NEW backend \in {"software", "gles"}, NEW text \in Texts, NEW s \in PixelSizes,
         DrawText(backend, text, s)
  PROVE  IInv'
<1> DEFINE set == SetFacePixelSize(face, s)
           hits == Matching(text, s)
           hit == runs.slots[Earliest(hits)]
           made == [occupied |-> TRUE, text |-> text, pixelSize |-> s, made |-> MadeBy(set)]
           run == IF hits # {} THEN hit ELSE made
<1>1. FaceOK(set) /\ set.known = s /\ MadeBy(set) \in Made /\ Suits(MadeBy(set), s)
  BY FaceSet DEF IInv
<1>2. made \in Runs /\ Suits(made.made, made.pixelSize)
  BY <1>1 DEF Runs
<1>3. ASSUME hits # {}
      PROVE  hit \in Runs /\ hit.text = text /\ Suits(hit.made, s)
  <2>1. hits \in SUBSET (1..Capacity)
    BY DEF Matching, IInv, RunsOK
  <2>2. Earliest(hits) \in hits
    BY <1>3, <2>1, EarliestHit
  <2> DEFINE i == Earliest(hits)
  <2> HIDE DEF i
  <2>3. i \in 1..Capacity /\ i \in hits
    BY <2>1, <2>2 DEF i
  <2>4. runs.slots[i].occupied /\ runs.slots[i].text = text /\ runs.slots[i].pixelSize = s
    BY <2>3 DEF Matching
  <2>5. runs.slots[i] \in Runs /\ Suits(runs.slots[i].made, s)
    <3>1. runs.slots[i] \in {Vacant} \cup Runs
      BY <2>3 DEF IInv, RunsOK
    <3>2. runs.slots[i] # Vacant
      BY <2>4 DEF Vacant
    <3>3. Suits(runs.slots[i].made, runs.slots[i].pixelSize)
      BY <2>3, <2>4 DEF IInv, RunsOK
    <3> QED BY <2>4, <3>1, <3>2, <3>3
  <2> QED BY <2>4, <2>5 DEF i
<1>4. run \in Runs /\ run.text = text /\ Suits(run.made, s)
  BY <1>1, <1>2, <1>3
<1> HIDE DEF set, hits, made, run
<1>5. /\ face' = set
      /\ runs' = IF hits # {} THEN runs ELSE InsertRun(runs, run)
      /\ pen' = [drawing |-> TRUE, backend |-> backend, text |-> text, pixelSize |-> s,
                 run |-> run, at |-> 1]
      /\ bitmaps' = bitmaps /\ atlas' = atlas
  BY DEF DrawText, set, hits, made, run
<1>6. RunsOK(runs')
  <2>1. CASE hits # {}
    BY <1>5, <2>1 DEF IInv
  <2>2. CASE hits = {}
    <3>1. run = made
      BY <2>2 DEF run
    <3>2. RunsOK(InsertRun(runs, run))
      BY <1>2, <3>1, InsertKeeps DEF IInv
    <3> QED BY <1>5, <2>2, <3>2
  <2> QED BY <2>1, <2>2
<1>7. PenOK(pen', face')
  <2>1. Len(text) \in Nat /\ 1 <= Len(text)
    <3>1. text \in Seq(Glyphs) /\ text # <<>>
      BY TextAssumption
    <3> QED BY <3>1
  <2>2. pen' \in Pens
    BY <1>4, <1>5, <2>1 DEF Pens
  <2> QED BY <1>1, <1>5, <2>2 DEF PenOK
<1> QED BY <1>1, <1>5, <1>6, <1>7 DEF IInv

(* The pen and the key of the glyph it is at.                              *)
LEMMA AtGlyph ==
  ASSUME IInv, pen.drawing
  PROVE  /\ pen \in Pens /\ face.known = pen.pixelSize
         /\ NextGlyph \in Keys /\ NextGlyph.pixelSize = pen.pixelSize
<1>1. pen \in Pens /\ face.known = pen.pixelSize
  BY DEF IInv, PenOK
<1>2. /\ pen.run.text = pen.text /\ pen.at \in 1..Len(pen.text)
      /\ pen.text \in Texts /\ pen.pixelSize \in PixelSizes
  <2>1. pen.text \in Texts
    BY <1>1 DEF Pens
  <2>2. Len(pen.text) \in Nat
    BY <2>1, TextAssumption
  <2> QED BY <1>1, <2>1, <2>2 DEF Pens
<1>3. pen.text \in Seq(Glyphs)
  BY <1>2, TextAssumption
<1>4. pen.run.text[pen.at] \in Glyphs
  BY <1>2, <1>3
<1> QED BY <1>1, <1>2, <1>4 DEF NextGlyph, Key, Keys

LEMMA AdvanceOK ==
  ASSUME IInv, pen.drawing, Advance, face'.known = pen.pixelSize
  PROVE  PenOK(pen', face')
<1>1. pen \in Pens
  BY AtGlyph
<1>2. pen.run.text = pen.text /\ Len(pen.text) \in Nat
  <2>1. pen.text \in Texts
    BY <1>1 DEF Pens
  <2> QED BY <1>1, <2>1, TextAssumption DEF Pens
<1>3. CASE pen.at = Len(pen.run.text)
  BY <1>3 DEF Advance, PenOK, Resting
<1>4. CASE pen.at # Len(pen.run.text)
  <2>1. pen' = [pen EXCEPT !.at = @ + 1]
    BY <1>4 DEF Advance
  <2>2. pen' \in Pens /\ pen'.pixelSize = pen.pixelSize
    <3>1. /\ pen \in [drawing : {TRUE}, backend : {"software", "gles"}, text : Texts,
                       pixelSize : PixelSizes, run : Runs, at : Nat \ {0}]
          /\ pen.at <= Len(pen.text) /\ Suits(pen.run.made, pen.pixelSize)
      BY <1>1 DEF Pens
    <3>2. /\ pen' \in [drawing : {TRUE}, backend : {"software", "gles"}, text : Texts,
                        pixelSize : PixelSizes, run : Runs, at : Nat \ {0}]
          /\ pen'.text = pen.text /\ pen'.run = pen.run /\ pen'.pixelSize = pen.pixelSize
          /\ pen'.at = pen.at + 1
      <4>1. pen.at + 1 \in Nat \ {0}
        BY <3>1
      <4>2. pen' = [pen EXCEPT !.at = pen.at + 1]
        BY <2>1
      <4> QED BY <3>1, <4>1, <4>2
    <3>3. pen'.at <= Len(pen'.text)
      BY <1>2, <1>4, <3>1, <3>2
    <3> QED BY <1>2, <3>1, <3>2, <3>3 DEF Pens
  <2> QED BY <2>2 DEF PenOK
<1> QED BY <1>3, <1>4

(* A bitmap that was not there yet is rasterized at the size of its key.   *)
LEMMA FilledOK ==
  ASSUME IInv, pen.drawing, NextGlyph \notin DOMAIN bitmaps
  PROVE  /\ BitmapsOK(With(bitmaps, NextGlyph, Rasterized(face, NextGlyph)))
         /\ AtlasOK(atlas, With(bitmaps, NextGlyph, Rasterized(face, NextGlyph)))
<1>1. NextGlyph \in Keys /\ face.known = NextGlyph.pixelSize
  BY AtGlyph
<1>2. /\ Rasterized(face, NextGlyph) \in Bitmaps
      /\ Rasterized(face, NextGlyph).glyph = NextGlyph.glyph
      /\ Suits(Rasterized(face, NextGlyph).made, NextGlyph.pixelSize)
  BY <1>1, RasterizedFits DEF IInv
<1>3. BitmapsOK(With(bitmaps, NextGlyph, Rasterized(face, NextGlyph)))
  BY <1>1, <1>2, PutKeeps DEF IInv
<1>4. AtlasOK(atlas, With(bitmaps, NextGlyph, Rasterized(face, NextGlyph)))
  BY AtlasKept DEF IInv
<1> QED BY <1>3, <1>4

LEMMA SoftwareGlyphOK == ASSUME IInv, SoftwareGlyph PROVE IInv'
<1>1. pen.drawing /\ Advance /\ face' = face /\ runs' = runs /\ atlas' = atlas
  BY DEF SoftwareGlyph
<1>2. PenOK(pen', face')
  BY <1>1, AtGlyph, AdvanceOK
<1>3. BitmapsOK(bitmaps') /\ AtlasOK(atlas', bitmaps')
  <2>1. CASE NextGlyph \in DOMAIN bitmaps
    BY <1>1, <2>1 DEF SoftwareGlyph, IInv
  <2>2. CASE NextGlyph \notin DOMAIN bitmaps
    <3>1. bitmaps' = With(bitmaps, NextGlyph, Rasterized(face, NextGlyph))
      BY <2>2 DEF SoftwareGlyph, Put
    <3> QED BY <1>1, <2>2, <3>1, FilledOK
  <2> QED BY <2>1, <2>2
<1> QED BY <1>1, <1>2, <1>3 DEF IInv

LEMMA GlesGlyphOK == ASSUME IInv, GlesGlyph PROVE IInv'
<1>1. pen.drawing /\ Advance /\ runs' = runs
  BY DEF GlesGlyph
<1>2. face.known = pen.pixelSize /\ NextGlyph.pixelSize = pen.pixelSize
  BY <1>1, AtGlyph
<1>3. SetFacePixelSize(face, NextGlyph.pixelSize) = face
  BY <1>2 DEF SetFacePixelSize
<1>4. face' = face
  BY <1>3 DEF GlesGlyph
<1>5. PenOK(pen', face')
  BY <1>1, <1>2, <1>4, AdvanceOK
<1>6. BitmapsOK(bitmaps') /\ AtlasOK(atlas', bitmaps')
  <2>1. CASE NextGlyph \in DOMAIN atlas.regions
    BY <2>1 DEF GlesGlyph, IInv
  <2>2. CASE NextGlyph \notin DOMAIN atlas.regions /\ NextGlyph \in DOMAIN bitmaps
    <3>1. bitmaps' = bitmaps /\ atlas' = GetOrUpload(atlas, NextGlyph, bitmaps[NextGlyph])
      BY <2>2 DEF GlesGlyph
    <3> QED BY <2>2, <3>1, GetOrUploadOK DEF IInv
  <2>3. CASE NextGlyph \notin DOMAIN atlas.regions /\ NextGlyph \notin DOMAIN bitmaps
    <3> DEFINE filled == With(bitmaps, NextGlyph, Rasterized(face, NextGlyph))
    <3>1. /\ bitmaps' = filled
          /\ atlas' = GetOrUpload(atlas, NextGlyph, Rasterized(face, NextGlyph))
      BY <1>3, <2>3 DEF GlesGlyph, Put
    <3>2. BitmapsOK(filled) /\ AtlasOK(atlas, filled)
      BY <1>1, <2>3, FilledOK
    <3>3. NextGlyph \in DOMAIN filled /\ filled[NextGlyph] = Rasterized(face, NextGlyph)
      BY DEF With
    <3> HIDE DEF filled
    <3>4. AtlasOK(GetOrUpload(atlas, NextGlyph, filled[NextGlyph]), filled)
      BY <3>2, <3>3, GetOrUploadOK
    <3> QED BY <3>1, <3>2, <3>3, <3>4
  <2> QED BY <2>1, <2>2, <2>3
<1> QED BY <1>1, <1>4, <1>5, <1>6 DEF IInv

LEMMA RestoredOK == ASSUME IInv, ContextRestored PROVE IInv'
<1>1. atlas' = EmptyAtlas /\ UNCHANGED <<face, runs, bitmaps, pen>>
  BY DEF ContextRestored
<1>2. AtlasOK(atlas', bitmaps')
  BY <1>1, EmptyAtlasOK
<1> QED BY <1>1, <1>2 DEF IInv

LEMMA ClearedOK == ASSUME IInv, ClearShapeCache PROVE IInv'
<1>1. RunsOK(runs')
  BY TextAssumption DEF ClearShapeCache, RunsOK, Vacant
<1> QED BY <1>1 DEF ClearShapeCache, IInv

LEMMA Preserved == ASSUME IInv, [TextNext]_textVars PROVE IInv'
<1>1. CASE UNCHANGED textVars
  BY <1>1 DEF textVars, IInv
<1>2. CASE TextNext
  BY <1>2, MeasureOK, DrawTextOK, SoftwareGlyphOK, GlesGlyphOK, RestoredOK, ClearedOK DEF TextNext
<1> QED BY <1>1, <1>2

LEMMA InvariantExact == ASSUME IInv PROVE GlyphsExact
<1>1. \A key \in DOMAIN atlas.regions : \A c \in atlas.regions[key] :
        c \in Cells /\ atlas.texels[c] = bitmaps[key]
  BY DEF IInv, AtlasOK, RegionsOK
<1>2. \A key \in DOMAIN bitmaps :
        bitmaps[key].glyph = key.glyph /\ Suits(bitmaps[key].made, key.pixelSize)
  BY DEF IInv, BitmapsOK
<1>3. pen.drawing => pen.run.text = pen.text /\ Suits(pen.run.made, pen.pixelSize)
  BY DEF IInv, PenOK, Pens
<1> QED BY <1>1, <1>2, <1>3 DEF GlyphsExact

(* Whatever the caches forget and reuse, text is drawn from its own run    *)
(* and its own glyphs (font_manager.cc, shape_cache.cc, glyph_cache.cc,    *)
(* glyph_atlas.cc).                                                        *)
THEOREM GlyphsStayExact == TextSpec => []GlyphsExact
<1>1. TextInit => IInv
  BY InitOK
<1>2. IInv /\ [TextNext]_textVars => IInv'
  BY Preserved
<1>3. IInv => GlyphsExact
  BY InvariantExact
<1> QED BY <1>1, <1>2, <1>3, PTL DEF TextSpec

-----------------------------------------------------------------------------
(* Rectangles: an intersection holds the cells both rectangles hold, and a *)
(* void one holds none.                                                    *)
LEMMA AreaParts ==
  ASSUME NEW r \in Areas
  PROVE  r.x \in Int /\ r.y \in Int /\ r.w \in Int /\ r.h \in Int
BY DEF Areas

LEMMA IntersectArea ==
  ASSUME NEW r \in Areas, NEW s \in Areas
  PROVE  Intersect(r, s) \in Areas
<1> DEFINE both == [x |-> Larger(r.x, s.x), y |-> Larger(r.y, s.y),
               w |-> Smaller(Right(r), Right(s)) - Larger(r.x, s.x),
               h |-> Smaller(Bottom(r), Bottom(s)) - Larger(r.y, s.y)]
<1>1. /\ Larger(r.x, s.x) \in Int /\ Larger(r.y, s.y) \in Int
      /\ Smaller(Right(r), Right(s)) \in Int /\ Smaller(Bottom(r), Bottom(s)) \in Int
  BY AreaParts DEF Larger, Smaller, Right, Bottom
<1>2. both \in Areas
  BY <1>1 DEF Areas
<1>3. Box(0, 0, 0, 0) \in Areas
  BY DEF Box, Areas
<1> QED BY <1>2, <1>3 DEF Intersect

LEMMA InsideIntersect ==
  ASSUME NEW r \in Areas, NEW s \in Areas
  PROVE  Inside(Intersect(r, s)) = Inside(r) \cap Inside(s)
<1> DEFINE x == Larger(r.x, s.x)
           y == Larger(r.y, s.y)
           w == Smaller(Right(r), Right(s)) - x
           h == Smaller(Bottom(r), Bottom(s)) - y
           both == [x |-> x, y |-> y, w |-> w, h |-> h]
<1>1. Intersect(r, s) = IF Void(both) THEN Box(0, 0, 0, 0) ELSE both
  BY DEF Intersect
<1>2. x \in Int /\ y \in Int /\ w \in Int /\ h \in Int
  BY AreaParts DEF Larger, Smaller, Right, Bottom
<1>3. ASSUME NEW p \in Pixels
      PROVE  p \in Inside(both) <=> p \in Inside(r) /\ p \in Inside(s)
  <2>1. p[1] \in Int /\ p[2] \in Int
    BY CanvasAssumption DEF Pixels
  <2>2. p[1] \in x..(x + w - 1) <=> p[1] \in r.x..(Right(r) - 1) /\ p[1] \in s.x..(Right(s) - 1)
    BY <2>1, AreaParts DEF Larger, Smaller, Right
  <2>3. p[2] \in y..(y + h - 1) <=> p[2] \in r.y..(Bottom(r) - 1) /\ p[2] \in s.y..(Bottom(s) - 1)
    BY <2>1, AreaParts DEF Larger, Smaller, Bottom
  <2> HIDE DEF x, y, w, h
  <2>4. p \in Inside(both) <=> p[1] \in x..(x + w - 1) /\ p[2] \in y..(y + h - 1)
    <3>1. both.x = x /\ both.y = y /\ Right(both) = x + w /\ Bottom(both) = y + h
      BY DEF Right, Bottom
    <3> HIDE DEF both
    <3>2. p \in Inside(both) <=> p[1] \in both.x..(Right(both) - 1) /\ p[2] \in both.y..(Bottom(both) - 1)
      BY DEF Inside
    <3> QED BY <1>2, <2>1, <3>1, <3>2
  <2> QED BY <2>2, <2>3, <2>4 DEF Inside
<1>4. Inside(both) = Inside(r) \cap Inside(s)
  BY <1>3 DEF Inside
<1>5. Void(both) => Inside(both) = {}
  <2> HIDE DEF x, y, w, h
  <2> QED BY <1>2 DEF Void, Inside, Right, Bottom
<1>6. Inside(Box(0, 0, 0, 0)) = {}
  BY DEF Inside, Box, Right, Bottom
<1> QED BY <1>1, <1>4, <1>5, <1>6

LEMMA InsideScreen == Screen \in Areas /\ Inside(Screen) = Pixels
BY CanvasAssumption DEF Screen, Box, Areas, Inside, Pixels, Right, Bottom

LEMMA VoidInside ==
  ASSUME NEW r \in Areas, Void(r)
  PROVE  Inside(r) = {}
<1>1. r.x \in Int /\ r.y \in Int /\ r.w \in Int /\ r.h \in Int
  BY AreaParts
<1> QED BY <1>1 DEF Void, Inside, Right, Bottom

LEMMA MovedArea ==
  ASSUME NEW r \in Areas, NEW t \in Points
  PROVE  Moved(t, r) \in Areas
<1>1. r.x \in Int /\ r.y \in Int /\ t.x \in Int /\ t.y \in Int
  BY DEF Areas, Points
<1>2. r.x + t.x \in Int /\ r.y + t.y \in Int
  BY <1>1
<1>3. Moved(t, r) = [r EXCEPT !.x = r.x + t.x, !.y = r.y + t.y]
  BY DEF Moved, Areas
<1> QED BY <1>2, <1>3 DEF Areas

-----------------------------------------------------------------------------
(* The inductive invariant: the backends have the same transform, clips    *)
(* and saved states, and the scissor is the one the clips ask for.         *)
States   == [transform : Points, depth : Nat]
Scissors == [enabled : BOOLEAN, box : Areas]
ScissorOf(clips) ==
  IF clips = <<>> THEN Off
  ELSE LET r == Top(clips)
       IN  [enabled |-> TRUE, box |-> IF Void(r) THEN r ELSE [r EXCEPT !.y = Height - Bottom(r)]]

Twin ==
  /\ software \in [transform : Points, clips : Seq(Areas), states : Seq(States)]
  /\ gles \in [transform : Points, clips : Seq(Areas), states : Seq(States), scissor : Scissors]
  /\ gles.transform = software.transform /\ gles.clips = software.clips
  /\ gles.states = software.states
  /\ gles.scissor = ScissorOf(software.clips)

CanvasInv == Twin /\ BackendsAgree

LEMMA TwinParts ==
  ASSUME Twin
  PROVE  /\ software.transform \in Points /\ software.clips \in Seq(Areas) /\ software.states \in Seq(States)
         /\ gles.transform = software.transform /\ gles.clips = software.clips
         /\ gles.states = software.states
BY DEF Twin

LEMMA ClipArea == ASSUME Twin PROVE CurrentClip(software) \in Areas
<1>1. CASE software.clips = <<>>
  BY <1>1, InsideScreen DEF CurrentClip
<1>2. CASE software.clips # <<>>
  <2>1. software.clips[Len(software.clips)] \in Areas
    BY <1>2, TwinParts
  <2> QED BY <1>2, <2>1 DEF CurrentClip, Top
<1> QED BY <1>1, <1>2

(* The driver lets through what is inside the clip.                        *)
LEMMA PassingClip == ASSUME Twin PROVE Passing(gles) = Inside(CurrentClip(software))
<1> DEFINE r == CurrentClip(software)
<1>1. r \in Areas
  BY ClipArea
<1>2. CASE software.clips = <<>>
  <2>1. gles.scissor.enabled = FALSE
    BY <1>2 DEF Twin, ScissorOf, Off
  <2>2. r = Screen
    BY <1>2 DEF CurrentClip
  <2> QED BY <2>1, <2>2, InsideScreen DEF Passing
<1>3. CASE software.clips # <<>>
  <2>1. r = Top(software.clips)
    BY <1>3 DEF CurrentClip
  <2>2. gles.scissor = [enabled |-> TRUE, box |-> IF Void(r) THEN r ELSE [r EXCEPT !.y = Height - Bottom(r)]]
    <3>1. gles.scissor = ScissorOf(software.clips)
      BY DEF Twin
    <3> QED BY <1>3, <2>1, <3>1 DEF ScissorOf
  <2> HIDE DEF r
  <2>3. r.x \in Int /\ r.y \in Int /\ r.w \in Int /\ r.h \in Int
    BY <1>1, AreaParts
  <2> DEFINE box == gles.scissor.box
  <2>4. Passing(gles) = {p \in Pixels : p[1] \in box.x..(Right(box) - 1)
                                        /\ Height - 1 - p[2] \in box.y..(Bottom(box) - 1)}
    BY <2>2 DEF Passing
  <2>5. CASE Void(r)
    <3>1. box = r
      BY <2>2, <2>5
    <3> HIDE DEF box
    <3>2. Passing(gles) = {}
      BY <2>3, <2>4, <2>5, <3>1, CanvasAssumption DEF Void, Right, Bottom, Pixels
    <3> QED BY <1>1, <2>5, <3>2, VoidInside DEF r
  <2>6. CASE ~Void(r)
    <3>1. box = [r EXCEPT !.y = Height - Bottom(r)]
      BY <2>2, <2>6
    <3>2. box.x = r.x /\ box.w = r.w /\ box.h = r.h /\ box.y = Height - (r.y + r.h)
      BY <1>1, <3>1 DEF Areas, Bottom
    <3> HIDE DEF box
    <3>3. ASSUME NEW p \in Pixels
          PROVE  Height - 1 - p[2] \in box.y..(Bottom(box) - 1) <=> p[2] \in r.y..(Bottom(r) - 1)
      BY <2>3, <3>2, CanvasAssumption DEF Pixels, Bottom
    <3>4. box.x..(Right(box) - 1) = r.x..(Right(r) - 1)
      BY <3>2 DEF Right
    <3>5. Passing(gles) = Inside(r)
      BY <2>4, <3>3, <3>4 DEF Inside
    <3> QED BY <3>5 DEF r
  <2> QED BY <2>5, <2>6
<1> QED BY <1>2, <1>3

-----------------------------------------------------------------------------
(* Finite sets: images are finite, and a finite set of integers that is    *)
(* not empty has a least and a greatest element.                           *)
LEMMA ImageFinite ==
  ASSUME NEW S, IsFiniteSet(S), NEW f, DOMAIN f = S, f = [x \in S |-> f[x]]
  PROVE  IsFiniteSet({f[x] : x \in S})
<1> DEFINE T == {f[x] : x \in S}
<1>1. f \in [S -> T]
  OBVIOUS
<1>2. f \in Surjection(S, T)
  BY <1>1 DEF Surjection
<1> QED BY <1>2, FS_Surjection

LEMMA FiniteHasLeast ==
  ASSUME NEW S \in SUBSET Int, IsFiniteSet(S), S # {}
  PROVE  \E m \in S : \A n \in S : m <= n
<1> DEFINE Bad == {T \in FiniteSubsetsOf(S) : T # {} /\ ~ \E m \in T : \A n \in T : m <= n}
<1>1. SUFFICES Bad = {}
  BY DEF FiniteSubsetsOf
<1>2. SUFFICES ASSUME Bad # {} PROVE FALSE
  OBVIOUS
<1>3. IsWellFoundedOn(StrictSubsetOrdering(S), FiniteSubsetsOf(S))
  BY FS_StrictSubsetOrderingWellFounded
<1>4. Bad \subseteq FiniteSubsetsOf(S)
  OBVIOUS
<1> HIDE DEF Bad
<1>5. PICK T \in Bad : \A U \in Bad : <<U, T>> \notin StrictSubsetOrdering(S)
  BY <1>2, <1>3, <1>4, WFMin
<1> USE DEF Bad
<1>6. T \in SUBSET S /\ IsFiniteSet(T) /\ T # {}
  BY <1>5 DEF FiniteSubsetsOf
<1>7. PICK x \in T : TRUE
  BY <1>6
<1> DEFINE U == T \ {x}
<1>8. IsFiniteSet(U) /\ U \in SUBSET S
  BY <1>6, FS_RemoveElement
<1>9. U \notin Bad
  <2>1. U # T
    BY <1>7
  <2>2. <<U, T>> \in StrictSubsetOrdering(S)
    BY <1>6, <1>8, <2>1 DEF StrictSubsetOrdering
  <2> QED BY <1>5, <2>2
<1>10. CASE U = {}
  <2>1. T = {x}
    BY <1>7, <1>10
  <2>2. x <= x
    BY <1>6, <1>7
  <2> QED BY <1>5, <2>1, <2>2
<1>11. CASE U # {}
  <2>1. PICK m \in U : \A n \in U : m <= n
    BY <1>8, <1>9, <1>11 DEF FiniteSubsetsOf
  <2>2. m \in Int /\ x \in Int
    BY <1>6, <1>7
  <2>3. CASE m <= x
    <3>1. \A n \in T : m <= n
      BY <2>1, <2>3
    <3> QED BY <1>5, <3>1
  <2>4. CASE x <= m
    <3>1. \A n \in T : x <= n
      BY <1>6, <2>1, <2>2, <2>4
    <3> QED BY <1>5, <1>7, <3>1
  <2> QED BY <2>2, <2>3, <2>4
<1> QED BY <1>10, <1>11

LEMMA MinOfFinite ==
  ASSUME NEW S \in SUBSET Int, IsFiniteSet(S), S # {}
  PROVE  Min(S) \in S /\ \A n \in S : Min(S) <= n
BY FiniteHasLeast DEF Min

LEMMA MaxOfFinite ==
  ASSUME NEW S \in SUBSET Int, IsFiniteSet(S), S # {}
  PROVE  Max(S) \in S /\ \A n \in S : n <= Max(S)
<1> DEFINE f == [n \in S |-> -n]
           T == {f[n] : n \in S}
<1>1. IsFiniteSet(T)
  BY ImageFinite
<1>2. T \in SUBSET Int /\ T # {}
  <2>1. \A n \in S : f[n] = -n /\ -n \in Int
    OBVIOUS
  <2>2. \E n \in S : TRUE
    OBVIOUS
  <2> HIDE DEF f
  <2> QED BY <2>1, <2>2
<1> HIDE DEF T
<1>3. PICK m \in T : \A n \in T : m <= n
  BY <1>1, <1>2, FiniteHasLeast
<1> USE DEF T
<1>4. PICK x \in S : m = -x
  BY <1>3
<1>5. ASSUME NEW n \in S PROVE n <= x
  <2>1. m <= -n
    BY <1>3
  <2> QED BY <1>4, <2>1
<1> QED BY <1>5 DEF Max

-----------------------------------------------------------------------------
(* Edges.                                                                  *)
Edges == [at : Nat \X Nat, x : Int, top : Int, bottom : Int, direction : {-1, 0, 1}]

LEMMA CornerPoint ==
  ASSUME NEW path \in Seq(Seq(Points)), NEW i \in DOMAIN path, NEW j \in DOMAIN path[i]
  PROVE  /\ i \in Nat /\ j \in Nat /\ path[i] \in Seq(Points)
         /\ path[i][j] \in Points /\ path[i][j].x \in Int /\ path[i][j].y \in Int
<1>1. i \in 1..Len(path) /\ path[i] \in Seq(Points)
  OBVIOUS
<1>2. j \in 1..Len(path[i]) /\ path[i][j] \in Points
  BY <1>1
<1> QED BY <1>1, <1>2 DEF Points

LEMMA FollowingPoint ==
  ASSUME NEW path \in Seq(Seq(Points)), NEW i \in DOMAIN path, NEW j \in DOMAIN path[i]
  PROVE  \E k \in DOMAIN path[i] : Following(path[i], j) = path[i][k]
<1>1. path[i] \in Seq(Points) /\ j \in 1..Len(path[i]) /\ Len(path[i]) \in Nat
  BY CornerPoint
<1>2. (IF j = Len(path[i]) THEN 1 ELSE j + 1) \in DOMAIN path[i]
  BY <1>1
<1> QED BY <1>2 DEF Following

LEMMA EdgeParts ==
  ASSUME NEW path \in Seq(Seq(Points)), NEW i \in DOMAIN path, NEW j \in DOMAIN path[i]
  PROVE  /\ Edge(path, i, j) \in Edges
         /\ Edge(path, i, j).at = <<i, j>> /\ Edge(path, i, j).x = path[i][j].x
         /\ Edge(path, i, j).top <= Edge(path, i, j).bottom
<1> DEFINE from == path[i][j]
           to == Following(path[i], j)
           e == Edge(path, i, j)
<1>1. from.x \in Int /\ from.y \in Int /\ i \in Nat /\ j \in Nat
  BY CornerPoint
<1>2. to.y \in Int
  BY FollowingPoint, CornerPoint
<1>3. Smaller(from.y, to.y) \in Int /\ Larger(from.y, to.y) \in Int
      /\ Smaller(from.y, to.y) <= Larger(from.y, to.y) /\ Sign(to.y - from.y) \in {-1, 0, 1}
  <2> HIDE DEF from, to
  <2> QED BY <1>1, <1>2 DEF Smaller, Larger, Sign
<1>4. e = [at |-> <<i, j>>, x |-> from.x, top |-> Smaller(from.y, to.y),
           bottom |-> Larger(from.y, to.y), direction |-> Sign(to.y - from.y)]
  BY DEF Edge
<1> HIDE DEF from, to, e
<1>5. e \in Edges /\ e.at = <<i, j>> /\ e.x = from.x /\ e.top <= e.bottom
  BY <1>1, <1>3, <1>4 DEF Edges
<1> QED BY <1>5 DEF e, from

LEMMA EdgeOf ==
  ASSUME NEW path \in Seq(Seq(Points)), NEW contours \in SUBSET DOMAIN path,
         NEW e \in EdgesOf(path, contours)
  PROVE  /\ e \in Edges /\ e.direction # 0 /\ e.top <= e.bottom
         /\ \E i \in contours : \E j \in DOMAIN path[i] : e = Edge(path, i, j) /\ e.x = path[i][j].x
<1>1. e \in UNION {{Edge(path, i, j) : j \in DOMAIN path[i]} : i \in contours}
  BY DEF EdgesOf
<1>3. PICK i \in contours : e \in {Edge(path, i, j) : j \in DOMAIN path[i]}
  BY <1>1
<1>4. PICK j \in DOMAIN path[i] : e = Edge(path, i, j)
  BY <1>3
<1>2. e.direction # 0
  BY DEF EdgesOf
<1>5. i \in DOMAIN path
  OBVIOUS
<1> QED BY <1>2, <1>4, <1>5, EdgeParts

LEMMA EdgesFinite ==
  ASSUME NEW path \in Seq(Seq(Points)), NEW contours \in SUBSET DOMAIN path
  PROVE  IsFiniteSet(EdgesOf(path, contours))
<1> DEFINE of(i) == {Edge(path, i, j) : j \in DOMAIN path[i]}
<1>1. ASSUME NEW i \in DOMAIN path
      PROVE  IsFiniteSet(of(i))
  <2> DEFINE g == [j \in DOMAIN path[i] |-> Edge(path, i, j)]
             T == {g[j] : j \in DOMAIN path[i]}
  <2>1. IsFiniteSet(DOMAIN path[i])
    <3>1. path[i] \in Seq(Points)
      BY <1>1
    <3>2. DOMAIN path[i] = 1..Len(path[i]) /\ Len(path[i]) \in Nat
      BY <3>1
    <3>3. \A n \in Nat : IsFiniteSet(1..n)
      BY FS_Interval
    <3> QED BY <3>2, <3>3
  <2>2. IsFiniteSet(T)
    BY <2>1, ImageFinite
  <2>3. T = of(i)
    OBVIOUS
  <2> QED BY <2>2, <2>3
<1>2. IsFiniteSet(DOMAIN path)
  <2>1. DOMAIN path = 1..Len(path) /\ Len(path) \in Nat
    OBVIOUS
  <2> QED BY <2>1, FS_Interval
<1> DEFINE h == [i \in contours |-> of(i)]
           All == {h[i] : i \in contours}
<1>3. IsFiniteSet(All)
  <2>1. IsFiniteSet(contours)
    BY <1>2, FS_Subset
  <2> HIDE DEF of
  <2> QED BY <2>1, ImageFinite
<1>4. \A T \in All : IsFiniteSet(T)
  BY <1>1
<1> HIDE DEF of
<1>5. All = {of(i) : i \in contours}
  OBVIOUS
<1>6. IsFiniteSet(UNION {of(i) : i \in contours})
  BY <1>3, <1>4, <1>5, FS_UNION
<1>7. EdgesOf(path, contours) \subseteq UNION {of(i) : i \in contours}
  BY DEF EdgesOf, of
<1> QED BY <1>6, <1>7, FS_Subset

-----------------------------------------------------------------------------
(* The scanlines.                                                          *)
LEMMA LeastNat ==
  ASSUME NEW S \in SUBSET Nat, S # {}
  PROVE  \E n \in S : \A m \in S : n <= m
<1> DEFINE less == OpToRel(<, Nat)
<1>1. IsWellFoundedOn(less, Nat)
  BY NatLessThanWellFounded
<1> HIDE DEF less
<1>2. PICK n \in S : \A m \in S : <<m, n>> \notin less
  BY <1>1, WFMin
<1> USE DEF less
<1>3. ASSUME NEW m \in S, ~(n <= m)
      PROVE  FALSE
  <2>1. <<m, n>> \in Nat \X Nat /\ m < n
    BY <1>3
  <2>2. <<m, n>> \in less
    BY <2>1 DEF OpToRel
  <2> QED BY <1>2, <2>2
<1> QED BY <1>3

LEMMA MinOfInterval ==
  ASSUME NEW lo \in Int, NEW hi \in Int, lo <= hi
  PROVE  Min(lo..hi) = lo
<1>1. lo \in lo..hi /\ \A n \in lo..hi : lo <= n
  OBVIOUS
<1>2. ASSUME NEW m \in lo..hi, \A n \in lo..hi : m <= n PROVE m = lo
  BY <1>1, <1>2
<1> QED BY <1>1, <1>2 DEF Min

(* What the rows above have left active, with those that begin.            *)
ActiveStep(edges, rows, active, y) ==
  IF y = Min(rows) THEN {e \in edges : e.top <= y}
  ELSE {e \in active[y - 1] : e.bottom > y} \cup {e \in edges : e.top = y}

(* There is a function as the recursion asks for.                          *)
LEMMA ActiveUnfolds ==
  ASSUME NEW edges \in SUBSET Edges, NEW lo \in Int, NEW hi \in Int, lo <= hi
  PROVE  ActiveEdges(edges, lo..hi)
           = [y \in lo..hi |-> ActiveStep(edges, lo..hi, ActiveEdges(edges, lo..hi), y)]
<1> DEFINE rows == lo..hi
           w == [y \in rows |->
                   IF y = lo THEN {e \in edges : e.top <= y}
                   ELSE {e \in edges : (e.top <= y /\ e.bottom > y) \/ e.top = y}]
<1>1. Min(rows) = lo
  BY MinOfInterval
<1>2. ASSUME NEW y \in rows
      PROVE  w[y] = ActiveStep(edges, rows, w, y)
  <2>1. CASE y = lo
    BY <1>1, <2>1 DEF ActiveStep
  <2>2. CASE y # lo
    <3>1. y - 1 \in rows /\ y \in Int
      BY <2>2
    <3>2. ASSUME NEW e \in edges
          PROVE  e \in w[y] <=> (e \in w[y - 1] /\ e.bottom > y) \/ e.top = y
      <4>1. e.top \in Int /\ e.bottom \in Int
        BY DEF Edges
      <4>2. e \in w[y] <=> (e.top <= y /\ e.bottom > y) \/ e.top = y
        BY <2>2
      <4>3. e \in w[y - 1] <=> IF y - 1 = lo THEN e.top <= y - 1
                               ELSE (e.top <= y - 1 /\ e.bottom > y - 1) \/ e.top = y - 1
        BY <3>1
      <4> HIDE DEF w
      <4> QED BY <3>1, <4>1, <4>2, <4>3
    <3>3. w[y] \subseteq edges /\ w[y - 1] \subseteq edges
      BY <3>1
    <3>4. ActiveStep(edges, rows, w, y) = {e \in w[y - 1] : e.bottom > y} \cup {e \in edges : e.top = y}
      BY <1>1, <2>2 DEF ActiveStep
    <3> HIDE DEF w
    <3> QED BY <3>2, <3>3, <3>4
  <2> QED BY <2>1, <2>2
<1>3. w = [y \in rows |-> ActiveStep(edges, rows, w, y)]
  BY <1>2
<1> HIDE DEF w, rows
<1>4. ActiveEdges(edges, rows) = CHOOSE g : g = [y \in rows |-> ActiveStep(edges, rows, g, y)]
  BY DEF ActiveEdges, ActiveStep
<1> QED BY <1>3, <1>4 DEF rows

(* An edge that crosses a row is active there, whatever has been dropped   *)
(* on the way.                                                             *)
LEMMA CrossingActive ==
  ASSUME NEW edges \in SUBSET Edges, NEW lo \in Int, NEW hi \in Int, NEW y \in lo..hi
  PROVE  {e \in ActiveEdges(edges, lo..hi)[y] : e.top <= y /\ e.bottom > y}
           = {e \in edges : e.top <= y /\ e.bottom > y}
<1> DEFINE rows == lo..hi
           active == ActiveEdges(edges, rows)
           Good(z) == /\ active[z] \subseteq edges
                      /\ \A e \in edges : e.top <= z /\ e.bottom > z => e \in active[z]
           Bad == {k \in Nat : lo + k \in rows /\ ~Good(lo + k)}
<1>1. lo <= hi /\ y \in Int
  OBVIOUS
<1>2. \A z \in rows : active[z] = ActiveStep(edges, rows, active, z)
  <2>1. active = [z \in rows |-> ActiveStep(edges, rows, active, z)]
    BY <1>1, ActiveUnfolds
  <2> HIDE DEF active, rows
  <2> QED BY <2>1
<1>3. Min(rows) = lo
  BY <1>1, MinOfInterval
<1> HIDE DEF active
<1>4. Bad = {}
  <2>1. SUFFICES ASSUME Bad # {} PROVE FALSE
    OBVIOUS
  <2>2. Bad \in SUBSET Nat
    OBVIOUS
  <2>3. PICK k \in Bad : \A m \in Bad : k <= m
    <3> HIDE DEF Bad
    <3> QED BY <2>1, <2>2, LeastNat
  <2> DEFINE z == lo + k
  <2>4. k \in Nat /\ z \in rows /\ ~Good(z)
    BY <2>3
  <2>5. CASE z = lo
    <3>1. active[z] = {e \in edges : e.top <= z}
      BY <1>2, <1>3, <2>4, <2>5 DEF ActiveStep
    <3> QED BY <2>4, <3>1
  <2>6. CASE z # lo
    <3>1. k - 1 \in Nat /\ lo + (k - 1) = z - 1 /\ z - 1 \in rows /\ z \in Int /\ ~(k <= k - 1)
      BY <2>4, <2>6
    <3>2. k - 1 \notin Bad
      BY <2>3, <3>1
    <3>3. Good(z - 1)
      BY <3>1, <3>2
    <3>4. active[z] = {e \in active[z - 1] : e.bottom > z} \cup {e \in edges : e.top = z}
      BY <1>2, <1>3, <2>4, <2>6 DEF ActiveStep
    <3>5. active[z] \subseteq edges
      BY <3>3, <3>4
    <3>6. ASSUME NEW e \in edges, e.top <= z, e.bottom > z
          PROVE  e \in active[z]
      <4>1. e.top \in Int /\ e.bottom \in Int
        BY DEF Edges
      <4> HIDE DEF z
      <4>2. CASE e.top = z
        BY <3>4, <4>2
      <4>3. CASE e.top # z
        <5>1. e.top <= z - 1 /\ e.bottom > z - 1
          BY <3>1, <3>6, <4>1, <4>3
        <5>2. e \in active[z - 1]
          BY <3>3, <5>1
        <5> QED BY <3>4, <3>6, <5>2
      <4> QED BY <4>2, <4>3
    <3> QED BY <2>4, <3>5, <3>6
  <2> QED BY <2>5, <2>6
<1>5. Good(y)
  <2>1. y - lo \in Nat /\ lo + (y - lo) = y /\ y \in rows
    BY <1>1
  <2>2. y - lo \notin Bad
    BY <1>4
  <2> QED BY <2>1, <2>2
<1> HIDE DEF rows
<1>6. {e \in active[y] : e.top <= y /\ e.bottom > y} = {e \in edges : e.top <= y /\ e.bottom > y}
  BY <1>5
<1> QED BY <1>6 DEF rows, active

LEMMA NoTurns == Turns({}) = 0
<1>1. Cardinality({}) = 0
  BY FS_EmptySet
<1>2. {e \in {} : e.direction = 1} = {} /\ {e \in {} : e.direction = -1} = {}
  OBVIOUS
<1> QED BY <1>1, <1>2 DEF Turns

(* The rows of a set of edges lie between a top and a bottom, and an edge  *)
(* that crosses a row of the canvas inside the clip crosses one of them.   *)
LEMMA RowsInterval ==
  ASSUME NEW edges \in SUBSET Edges, IsFiniteSet(edges), edges # {}, NEW clip \in Areas
  PROVE  \E lo \in Int, hi \in Int :
           /\ Rows(edges, clip) = lo..hi
           /\ \A y \in lo..hi : y \in 0..(Height - 1) /\ y \in clip.y..(Bottom(clip) - 1)
           /\ \A e \in edges : \A y \in 0..(Height - 1) :
                y \in clip.y..(Bottom(clip) - 1) /\ e.top <= y /\ e.bottom > y => y \in lo..hi
<1> DEFINE f == [e \in edges |-> e.top]
           g == [e \in edges |-> e.bottom]
           tops == {e.top : e \in edges}
           bottoms == {e.bottom : e \in edges}
<1>1. tops = {f[e] : e \in edges} /\ bottoms = {g[e] : e \in edges}
  OBVIOUS
<1>2. IsFiniteSet({f[e] : e \in edges})
  BY ImageFinite
<1>3. IsFiniteSet({g[e] : e \in edges})
  BY ImageFinite
<1>4. tops \in SUBSET Int /\ bottoms \in SUBSET Int /\ tops # {} /\ bottoms # {}
  BY DEF Edges
<1>5. \A e \in edges : e.top \in tops /\ e.bottom \in bottoms /\ e.top \in Int /\ e.bottom \in Int
  BY DEF Edges
<1>6. IsFiniteSet(tops) /\ IsFiniteSet(bottoms)
  BY <1>1, <1>2, <1>3
<1> HIDE DEF f, g, tops, bottoms
<1>7. Min(tops) \in Int /\ \A n \in tops : Min(tops) <= n
  BY <1>4, <1>6, MinOfFinite
<1>8. Max(bottoms) \in Int /\ \A n \in bottoms : n <= Max(bottoms)
  BY <1>4, <1>6, MaxOfFinite
<1> DEFINE m == Min(tops)
           n == Max(bottoms)
           lo == Larger(Larger(m, clip.y), 0)
           hi == Smaller(Smaller(n, Bottom(clip)), Height) - 1
<1>9. Rows(edges, clip) = lo..hi
  BY DEF Rows, tops, bottoms
<1>10. clip.y \in Int /\ Bottom(clip) \in Int /\ Height \in Int
  BY AreaParts, CanvasAssumption DEF Bottom
<1>11. m \in Int /\ n \in Int /\ \A e \in edges : m <= e.top /\ e.bottom <= n
  BY <1>5, <1>7, <1>8
<1> HIDE DEF m, n
<1>12. lo \in Int /\ hi \in Int
  BY <1>10, <1>11 DEF Larger, Smaller
<1>13. \A y \in lo..hi : y \in 0..(Height - 1) /\ y \in clip.y..(Bottom(clip) - 1)
  BY <1>10, <1>11 DEF Larger, Smaller
<1>14. ASSUME NEW e \in edges, NEW y \in 0..(Height - 1),
              y \in clip.y..(Bottom(clip) - 1), e.top <= y, e.bottom > y
       PROVE  y \in lo..hi
  <2>1. m <= e.top /\ e.bottom <= n /\ e.top \in Int /\ e.bottom \in Int /\ y \in Int
    BY <1>5, <1>11
  <2>2. m <= y /\ n > y
    BY <1>11, <1>14, <2>1
  <2> QED BY <1>10, <1>11, <1>14, <2>1, <2>2 DEF Larger, Smaller
<1> HIDE DEF lo, hi
<1> QED BY <1>9, <1>12, <1>13, <1>14

(* The scanlines paint the pixels of the clip that the path winds round.   *)
LEMMA ScanlineCells ==
  ASSUME NEW path \in Seq(Seq(Points)), NEW clip \in Areas,
         \A q \in Corners(path) : q.x >= 0
  PROVE  ScanlineFill(path, clip) = {p \in Inside(clip) : Winding(GenerateEdges(path), p) # 0}
<1> DEFINE edges == GenerateEdges(path)
           rows == IF edges = {} THEN {} ELSE Rows(edges, clip)
           active == ActiveEdges(edges, rows)
           columns == Larger(0, clip.x)..(Smaller(Width, Right(clip)) - 1)
           Painted(y) == {x \in columns : Running(EdgeCoverage(active[y], y), x) # 0}
<1>1. ScanlineFill(path, clip) = UNION {Painted(y) \X {y} : y \in rows}
  BY DEF ScanlineFill
<1>2. edges \in SUBSET Edges /\ IsFiniteSet(edges)
  BY EdgeOf, EdgesFinite DEF GenerateEdges
<1>3. \A e \in edges : e.x >= 0
  <2> SUFFICES ASSUME NEW e \in edges PROVE e.x >= 0
    OBVIOUS
  <2>1. PICK i \in DOMAIN path : \E j \in DOMAIN path[i] : e.x = path[i][j].x
    <3>1. e \in EdgesOf(path, DOMAIN path)
      BY DEF GenerateEdges
    <3> QED BY <3>1, EdgeOf
  <2>3. PICK j \in DOMAIN path[i] : e.x = path[i][j].x
    BY <2>1
  <2>2. path[i][j] \in Corners(path)
    BY DEF Corners
  <2> QED BY <2>2, <2>3
<1> HIDE DEF edges
<1>4. CASE edges = {}
  <2>1. ScanlineFill(path, clip) = {}
    BY <1>1, <1>4
  <2>2. \A p \in Inside(clip) : Winding({}, p) = 0
    <3>1. \A p : {e \in {} : e.x <= p[1] /\ e.top <= p[2] /\ e.bottom > p[2]} = {}
      OBVIOUS
    <3> QED BY <3>1, NoTurns DEF Winding
  <2> QED BY <1>4, <2>1, <2>2 DEF edges
<1>5. CASE edges # {}
  <2>1. PICK lo \in Int, hi \in Int :
           /\ Rows(edges, clip) = lo..hi
           /\ \A y \in lo..hi : y \in 0..(Height - 1) /\ y \in clip.y..(Bottom(clip) - 1)
           /\ \A e \in edges : \A y \in 0..(Height - 1) :
                y \in clip.y..(Bottom(clip) - 1) /\ e.top <= y /\ e.bottom > y => y \in lo..hi
    BY <1>2, <1>5, RowsInterval
  <2>2. rows = lo..hi
    BY <1>5, <2>1
  <2>3. clip.x \in Int /\ Right(clip) \in Int /\ Width \in Int
    BY AreaParts, CanvasAssumption DEF Right
  <2>4. columns = (0..(Width - 1)) \cap (clip.x..(Right(clip) - 1))
    BY <2>3 DEF Larger, Smaller
  <2> HIDE DEF rows, active, columns
  <2>5. ASSUME NEW x \in 0..(Width - 1), NEW y \in rows
        PROVE  Running(EdgeCoverage(active[y], y), x) = Winding(edges, <<x, y>>)
    <3>1. {e \in active[y] : e.top <= y /\ e.bottom > y} = {e \in edges : e.top <= y /\ e.bottom > y}
      BY <1>2, <2>2, CrossingActive DEF active
    <3>2. {e \in EdgeCoverage(active[y], y) : e.x <= x}
            = {e \in {f \in active[y] : f.top <= y /\ f.bottom > y} : e.x \in 0..(Width - 1) /\ e.x <= x}
      BY DEF EdgeCoverage
    <3>3. \A e \in edges : e.x \in 0..(Width - 1) /\ e.x <= x <=> e.x <= x
      <4>1. \A e \in edges : e.x \in Int
        BY <1>2 DEF Edges
      <4> QED BY <1>3, <2>3, <4>1
    <3>4. {e \in EdgeCoverage(active[y], y) : e.x <= x}
            = {e \in edges : e.x <= x /\ e.top <= y /\ e.bottom > y}
      BY <3>1, <3>2, <3>3
    <3>5. <<x, y>>[1] = x /\ <<x, y>>[2] = y
      OBVIOUS
    <3> QED BY <3>4, <3>5 DEF Running, Winding
  <2>6. ASSUME NEW p \in ScanlineFill(path, clip)
        PROVE  p \in Inside(clip) /\ Winding(edges, p) # 0
    <3>1. PICK y \in rows : p \in Painted(y) \X {y}
      BY <1>1
    <3>2. PICK x \in Painted(y) : p = <<x, y>>
      BY <3>1
    <3>3. x \in columns /\ Running(EdgeCoverage(active[y], y), x) # 0
      BY <3>2
    <3>4. x \in 0..(Width - 1) /\ x \in clip.x..(Right(clip) - 1)
      BY <2>4, <3>3
    <3>5. y \in 0..(Height - 1) /\ y \in clip.y..(Bottom(clip) - 1)
      BY <2>1, <2>2
    <3>6. Winding(edges, p) # 0
      BY <2>5, <3>2, <3>3, <3>4
    <3> QED BY <3>2, <3>4, <3>5, <3>6 DEF Inside, Pixels
  <2>7. ASSUME NEW p \in Inside(clip), Winding(edges, p) # 0
        PROVE  p \in ScanlineFill(path, clip)
    <3>1. PICK x \in 0..(Width - 1), y \in 0..(Height - 1) : p = <<x, y>>
      BY DEF Inside, Pixels
    <3>2. x \in clip.x..(Right(clip) - 1) /\ y \in clip.y..(Bottom(clip) - 1)
      BY <3>1 DEF Inside
    <3>3. PICK e \in edges : e.top <= y /\ e.bottom > y
      <4>1. SUFFICES ASSUME \A e \in edges : ~(e.top <= y /\ e.bottom > y) PROVE FALSE
        OBVIOUS
      <4>2. {e \in edges : e.x <= p[1] /\ e.top <= p[2] /\ e.bottom > p[2]} = {}
        BY <3>1, <4>1
      <4> QED BY <2>7, <4>2, NoTurns DEF Winding
    <3>4. y \in rows
      BY <2>1, <2>2, <3>2, <3>3
    <3>5. x \in columns
      BY <2>4, <3>2
    <3>6. Running(EdgeCoverage(active[y], y), x) # 0
      BY <2>5, <2>7, <3>1, <3>4
    <3>7. x \in Painted(y)
      BY <3>5, <3>6
    <3>8. p \in Painted(y) \X {y}
      BY <3>1, <3>7
    <3> QED BY <1>1, <3>4, <3>8
  <2> QED BY <2>6, <2>7 DEF edges
<1> QED BY <1>4, <1>5

-----------------------------------------------------------------------------
(* Contours of one or two corners turn round nothing: the edges of the     *)
(* latter come in pairs, one down and one up, in the same place.           *)
LEMMA ShortContour ==
  ASSUME NEW path, IsPath(path), NEW i \in DOMAIN path, NEW j \in DOMAIN path[i],
         Len(path[i]) < 3, Edge(path, i, j).direction # 0
  PROVE  /\ 3 - j \in DOMAIN path[i] /\ 3 - (3 - j) = j
         /\ Edge(path, i, 3 - j).x = Edge(path, i, j).x
         /\ Edge(path, i, 3 - j).top = Edge(path, i, j).top
         /\ Edge(path, i, 3 - j).bottom = Edge(path, i, j).bottom
         /\ Edge(path, i, 3 - j).direction = -Edge(path, i, j).direction
<1> DEFINE a == path[i][j]
           b == Following(path[i], j)
<1>1. path \in Seq(Seq(Points)) /\ Straight(a, b)
  BY DEF IsPath
<1>2. path[i] \in Seq(Points) /\ j \in 1..Len(path[i]) /\ Len(path[i]) \in Nat
  BY <1>1, CornerPoint
<1>3. a.x \in Int /\ a.y \in Int
  BY <1>1, CornerPoint
<1>4. b.x \in Int /\ b.y \in Int
  BY <1>1, FollowingPoint, CornerPoint
<1>5. Edge(path, i, j) = [at |-> <<i, j>>, x |-> a.x, top |-> Smaller(a.y, b.y),
           bottom |-> Larger(a.y, b.y), direction |-> Sign(b.y - a.y)]
  BY DEF Edge
<1>6. Len(path[i]) = 2
  <2> DEFINE n == Len(path[i])
  <2>1. SUFFICES ASSUME Len(path[i]) = 1 PROVE FALSE
    <3>1. n \in Nat /\ j \in 1..n /\ n < 3
      BY <1>2
    <3> HIDE DEF n
    <3>2. n = 1 \/ n = 2
      BY <3>1
    <3> QED BY <3>2 DEF n
  <2>2. b = a
    BY <1>2, <2>1 DEF Following
  <2>3. Sign(b.y - a.y) = 0
    BY <1>3, <2>2 DEF Sign
  <2> QED BY <1>5, <2>3
<1>7. 3 - j \in DOMAIN path[i] /\ 3 - (3 - j) = j
  BY <1>2, <1>6
<1>8. path[i][3 - j] = b /\ Following(path[i], 3 - j) = a
  BY <1>2, <1>6 DEF Following
<1>9. Edge(path, i, 3 - j) = [at |-> <<i, 3 - j>>, x |-> b.x, top |-> Smaller(b.y, a.y),
           bottom |-> Larger(b.y, a.y), direction |-> Sign(a.y - b.y)]
  BY <1>8 DEF Edge
<1>10. Sign(b.y - a.y) # 0
  BY <1>5
<1> HIDE DEF a, b
<1>11. a.x = b.x /\ Smaller(b.y, a.y) = Smaller(a.y, b.y) /\ Larger(b.y, a.y) = Larger(a.y, b.y)
       /\ Sign(a.y - b.y) = -Sign(b.y - a.y)
  BY <1>1, <1>3, <1>4, <1>10 DEF Straight, Smaller, Larger, Sign
<1> QED BY <1>5, <1>7, <1>9, <1>11

LEMMA SameTurns ==
  ASSUME NEW all, IsFiniteSet(all), NEW long \in SUBSET all,
         NEW f, f \in [{e \in all \ long : e.direction = 1} -> {e \in all \ long : e.direction = -1}],
         \A e \in DOMAIN f : \A d \in DOMAIN f : f[e] = f[d] => e = d,
         \A d \in all \ long : d.direction = -1 => \E e \in DOMAIN f : f[e] = d
  PROVE  Turns(all) = Turns(long)
<1> DEFINE down(S) == {e \in S : e.direction = 1}
           up(S) == {e \in S : e.direction = -1}
           rest == all \ long
<1>1. /\ down(all) = down(long) \cup down(rest) /\ down(long) \cap down(rest) = {}
      /\ up(all) = up(long) \cup up(rest) /\ up(long) \cap up(rest) = {}
  OBVIOUS
<1>2. /\ IsFiniteSet(down(long)) /\ IsFiniteSet(down(rest))
      /\ IsFiniteSet(up(long)) /\ IsFiniteSet(up(rest))
  <2>1. \A T \in SUBSET all : IsFiniteSet(T)
    BY FS_Subset
  <2>2. down(long) \in SUBSET all /\ down(rest) \in SUBSET all
        /\ up(long) \in SUBSET all /\ up(rest) \in SUBSET all
    OBVIOUS
  <2> HIDE DEF down, up
  <2> QED BY <2>1, <2>2
<1>3. f \in Bijection(down(rest), up(rest))
  <2> HIDE DEF down, up, rest
  <2>1. f \in [down(rest) -> up(rest)]
    BY DEF down, up, rest
  <2>2. \A e \in down(rest) : \A d \in down(rest) : f[e] = f[d] => e = d
    BY <2>1
  <2>3. \A d \in up(rest) : \E e \in down(rest) : f[e] = d
    <3>1. \A d \in up(rest) : d \in all \ long /\ d.direction = -1
      BY DEF up, rest
    <3> QED BY <2>1, <3>1
  <2> QED BY <2>1, <2>2, <2>3 DEF Bijection, Injection, Surjection, IsInjective
<1> HIDE DEF down, up, rest
<1>4. Cardinality(down(rest)) = Cardinality(up(rest))
  BY <1>2, <1>3, FS_Bijection DEF ExistsBijection
<1>5. /\ Cardinality(down(long)) \in Nat /\ Cardinality(down(rest)) \in Nat
      /\ Cardinality(up(long)) \in Nat /\ Cardinality(up(rest)) \in Nat
  BY <1>2, FS_CardinalityType
<1>6. Cardinality({}) = 0
  BY FS_EmptySet
<1>7. Cardinality(down(all)) = Cardinality(down(long)) + Cardinality(down(rest)) - Cardinality({})
  BY <1>1, <1>2, FS_Union
<1>8. Cardinality(up(all)) = Cardinality(up(long)) + Cardinality(up(rest)) - Cardinality({})
  BY <1>1, <1>2, FS_Union
<1>9. Turns(all) = Cardinality(down(all)) - Cardinality(up(all))
  BY DEF Turns, down, up
<1>10. Turns(long) = Cardinality(down(long)) - Cardinality(up(long))
  BY DEF Turns, down, up
<1> QED BY <1>4, <1>5, <1>6, <1>7, <1>8, <1>9, <1>10

LEMMA ShortCancel ==
  ASSUME NEW path, IsPath(path), NEW p
  PROVE  Winding(GenerateEdges(path), p) = Winding(EdgesOf(path, TessContours(path)), p)
<1> DEFINE crossing(E) == {e \in E : e.x <= p[1] /\ e.top <= p[2] /\ e.bottom > p[2]}
           all == crossing(EdgesOf(path, DOMAIN path))
           long == crossing(EdgesOf(path, TessContours(path)))
           mate(e) == Edge(path, e.at[1], 3 - e.at[2])
           down == {e \in all \ long : e.direction = 1}
           up == {e \in all \ long : e.direction = -1}
           f == [e \in down |-> mate(e)]
<1>1. path \in Seq(Seq(Points)) /\ TessContours(path) \in SUBSET DOMAIN path
  BY DEF IsPath, TessContours
<1>2. IsFiniteSet(all)
  <2>1. IsFiniteSet(EdgesOf(path, DOMAIN path))
    BY <1>1, EdgesFinite
  <2> QED BY <2>1, FS_Subset
<1>3. long \in SUBSET all
  BY <1>1 DEF EdgesOf
<1>4. ASSUME NEW e \in all \ long
      PROVE  \E i \in DOMAIN path : \E j \in DOMAIN path[i] :
               e = Edge(path, i, j) /\ e.at = <<i, j>> /\ Len(path[i]) < 3 /\ e.direction # 0
  <2>1. e \in EdgesOf(path, DOMAIN path) /\ e \notin EdgesOf(path, TessContours(path))
    OBVIOUS
  <2>2. PICK i \in DOMAIN path : \E j \in DOMAIN path[i] : e = Edge(path, i, j) /\ e.direction # 0
    BY <1>1, <2>1, EdgeOf
  <2>3. PICK j \in DOMAIN path[i] : e = Edge(path, i, j) /\ e.direction # 0
    BY <2>2
  <2>4. i \notin TessContours(path)
    BY <2>1, <2>3 DEF EdgesOf
  <2>5. Len(path[i]) \in Nat
    BY <1>1, CornerPoint
  <2>6. Len(path[i]) < 3
    BY <2>4, <2>5 DEF TessContours
  <2>7. e.at = <<i, j>>
    BY <1>1, <2>3, EdgeParts
  <2> QED BY <2>3, <2>6, <2>7
<1>5. ASSUME NEW e \in all \ long
      PROVE  mate(e) \in all \ long /\ mate(e).direction = -e.direction /\ mate(mate(e)) = e
  <2>1. PICK i \in DOMAIN path : \E j \in DOMAIN path[i] :
               e = Edge(path, i, j) /\ e.at = <<i, j>> /\ Len(path[i]) < 3 /\ e.direction # 0
    BY <1>4
  <2>2. PICK j \in DOMAIN path[i] :
               e = Edge(path, i, j) /\ e.at = <<i, j>> /\ Len(path[i]) < 3 /\ e.direction # 0
    BY <2>1
  <2> DEFINE m == Edge(path, i, 3 - j)
  <2>3. mate(e) = m
    BY <2>2
  <2>4. /\ 3 - j \in DOMAIN path[i] /\ 3 - (3 - j) = j
        /\ m.x = e.x /\ m.top = e.top /\ m.bottom = e.bottom /\ m.direction = -e.direction
    BY <2>2, ShortContour
  <2>5. m.at = <<i, 3 - j>>
    BY <1>1, <2>4, EdgeParts
  <2>6. mate(m) = e
    BY <2>2, <2>4, <2>5
  <2>7. e.direction \in {-1, 1} /\ m.direction # 0
    <3>1. e \in Edges
      BY <1>1, <2>2, EdgeParts
    <3> QED BY <2>2, <2>4, <3>1 DEF Edges
  <2>8. m \in EdgesOf(path, DOMAIN path)
    BY <2>4, <2>7 DEF EdgesOf
  <2>9. m \in all
    BY <2>4, <2>8
  <2>10. m \notin EdgesOf(path, TessContours(path))
    <3>1. SUFFICES ASSUME m \in EdgesOf(path, TessContours(path)) PROVE FALSE
      OBVIOUS
    <3>2. PICK k \in TessContours(path) : \E l \in DOMAIN path[k] : m = Edge(path, k, l)
      BY <1>1, <3>1, EdgeOf
    <3>3. PICK l \in DOMAIN path[k] : m = Edge(path, k, l)
      BY <3>2
    <3>4. m.at = <<k, l>>
      BY <1>1, <3>3, EdgeParts
    <3>5. k = i
      BY <2>5, <3>4
    <3> QED BY <2>2, <3>2, <3>5 DEF TessContours
  <2> QED BY <2>3, <2>4, <2>6, <2>9, <2>10
<1>6. \A e \in all \ long : e.direction \in {-1, 1}
  BY <1>1, EdgeOf DEF Edges
<1> HIDE DEF all, long, mate
<1>7. f \in [down -> up]
  BY <1>5
<1>8. \A e \in DOMAIN f : \A d \in DOMAIN f : f[e] = f[d] => e = d
  BY <1>5
<1>9. \A d \in all \ long : d.direction = -1 => \E e \in DOMAIN f : f[e] = d
  <2> SUFFICES ASSUME NEW d \in all \ long, d.direction = -1
               PROVE  \E e \in DOMAIN f : f[e] = d
    OBVIOUS
  <2>1. mate(d) \in down /\ mate(mate(d)) = d
    BY <1>5
  <2> QED BY <2>1
<1>10. Turns(all) = Turns(long)
  <2> HIDE DEF f
  <2> QED BY <1>2, <1>3, <1>7, <1>8, <1>9, SameTurns
<1> QED BY <1>10 DEF all, long, Winding, GenerateEdges

-----------------------------------------------------------------------------
(* Two edges of opposite directions, one beside the other, are wound round *)
(* between them. The strokes of straight lines have such edges.            *)
LEMMA Between2 ==
  ASSUME NEW l \in Edges, NEW r \in Edges, l.x < r.x, l.top = r.top, l.bottom = r.bottom,
         l.direction # 0, r.direction = -l.direction, NEW p \in Int \X Int
  PROVE  Winding({l, r}, p) # 0 <=> p[1] \in l.x..(r.x - 1) /\ p[2] \in l.top..(l.bottom - 1)
<1> DEFINE met == {e \in {l, r} : e.x <= p[1] /\ e.top <= p[2] /\ e.bottom > p[2]}
           down(S) == {e \in S : e.direction = 1}
           up(S) == {e \in S : e.direction = -1}
<1>1. Winding({l, r}, p) = Cardinality(down(met)) - Cardinality(up(met))
  BY DEF Winding, Turns
<1>2. Cardinality({}) = 0 /\ Cardinality({l}) = 1 /\ Cardinality({r}) = 1
  BY FS_EmptySet, FS_Singleton
<1>3. /\ l.x \in Int /\ r.x \in Int /\ l.top \in Int /\ l.bottom \in Int
      /\ l.direction \in {-1, 1} /\ r.direction \in {-1, 1} /\ p[1] \in Int /\ p[2] \in Int
  BY DEF Edges
<1>4. CASE ~(l.x <= p[1] /\ p[2] \in l.top..(l.bottom - 1))
  <2>1. met = {}
    BY <1>3, <1>4
  <2>2. down({}) = {} /\ up({}) = {}
    OBVIOUS
  <2> HIDE DEF met, down, up
  <2>3. Winding({l, r}, p) = 0
    BY <1>1, <1>2, <2>1, <2>2
  <2>4. ~(p[1] \in l.x..(r.x - 1) /\ p[2] \in l.top..(l.bottom - 1))
    BY <1>3, <1>4
  <2> QED BY <2>3, <2>4
<1>5. CASE l.x <= p[1] /\ p[1] < r.x /\ p[2] \in l.top..(l.bottom - 1)
  <2>1. met = {l}
    BY <1>3, <1>5
  <2>2. (down({l}) = {l} /\ up({l}) = {}) \/ (down({l}) = {} /\ up({l}) = {l})
    BY <1>3
  <2> HIDE DEF met, down, up
  <2>3. Winding({l, r}, p) # 0
    <3>1. Winding({l, r}, p) = Cardinality(down({l})) - Cardinality(up({l}))
      BY <1>1, <2>1
    <3>2. CASE down({l}) = {l} /\ up({l}) = {}
      <4>1. Winding({l, r}, p) = 1 - 0
        BY <1>2, <3>1, <3>2
      <4> QED BY <4>1
    <3>3. CASE down({l}) = {} /\ up({l}) = {l}
      <4>1. Winding({l, r}, p) = 0 - 1
        BY <1>2, <3>1, <3>3
      <4> QED BY <4>1
    <3> QED BY <2>2, <3>2, <3>3
  <2>4. p[1] \in l.x..(r.x - 1) /\ p[2] \in l.top..(l.bottom - 1)
    BY <1>3, <1>5
  <2> QED BY <2>3, <2>4
<1>6. CASE r.x <= p[1] /\ p[2] \in l.top..(l.bottom - 1)
  <2>1. met = {l, r}
    BY <1>3, <1>6
  <2>2. \/ down({l, r}) = {l} /\ up({l, r}) = {r}
        \/ down({l, r}) = {r} /\ up({l, r}) = {l}
    BY <1>3
  <2> HIDE DEF met, down, up
  <2>3. Winding({l, r}, p) = 0
    <3>1. Winding({l, r}, p) = Cardinality(down({l, r})) - Cardinality(up({l, r}))
      BY <1>1, <2>1
    <3>2. Cardinality(down({l, r})) = 1 /\ Cardinality(up({l, r})) = 1
      BY <1>2, <2>2
    <3> QED BY <3>1, <3>2
  <2>4. ~(p[1] \in l.x..(r.x - 1))
    BY <1>3, <1>6
  <2> QED BY <2>3, <2>4
<1> QED BY <1>3, <1>4, <1>5, <1>6

LEMMA FourCorners ==
  ASSUME NEW a \in Points, NEW b \in Points, NEW c \in Points, NEW d \in Points
  PROVE  LET path == <<<<a, b, c, d>>>>
             E(j, from, to) ==
               [at |-> <<1, j>>, x |-> from.x, top |-> Smaller(from.y, to.y),
                bottom |-> Larger(from.y, to.y), direction |-> Sign(to.y - from.y)]
         IN  /\ path \in Seq(Seq(Points)) /\ DOMAIN path = {1} /\ Len(path[1]) = 4
             /\ Corners(path) = {a, b, c, d}
             /\ GenerateEdges(path)
                  = {e \in {E(1, a, b), E(2, b, c), E(3, c, d), E(4, d, a)} : e.direction # 0}
<1> DEFINE path == <<<<a, b, c, d>>>>
           E(j, from, to) ==
               [at |-> <<1, j>>, x |-> from.x, top |-> Smaller(from.y, to.y),
                bottom |-> Larger(from.y, to.y), direction |-> Sign(to.y - from.y)]
<1>1. path \in Seq(Seq(Points)) /\ DOMAIN path = {1} /\ path[1] = <<a, b, c, d>>
  OBVIOUS
<1>2. Len(path[1]) = 4 /\ DOMAIN path[1] = {1, 2, 3, 4}
  OBVIOUS
<1>3. path[1][1] = a /\ path[1][2] = b /\ path[1][3] = c /\ path[1][4] = d
  OBVIOUS
<1> HIDE DEF path
<1>4. Corners(path) = {a, b, c, d}
  <2>1. Corners(path) = {path[1][j] : j \in DOMAIN path[1]}
    BY <1>1 DEF Corners
  <2> QED BY <1>2, <1>3, <2>1
<1>5. /\ Following(path[1], 1) = b /\ Following(path[1], 2) = c
      /\ Following(path[1], 3) = d /\ Following(path[1], 4) = a
  BY <1>2, <1>3 DEF Following
<1>6. /\ Edge(path, 1, 1) = E(1, a, b) /\ Edge(path, 1, 2) = E(2, b, c)
      /\ Edge(path, 1, 3) = E(3, c, d) /\ Edge(path, 1, 4) = E(4, d, a)
  BY <1>3, <1>5 DEF Edge
<1> HIDE DEF E
<1>7. {Edge(path, 1, j) : j \in DOMAIN path[1]} = {E(1, a, b), E(2, b, c), E(3, c, d), E(4, d, a)}
  BY <1>2, <1>6
<1>8. UNION {{Edge(path, i, j) : j \in DOMAIN path[i]} : i \in DOMAIN path}
        = {Edge(path, 1, j) : j \in DOMAIN path[1]}
  BY <1>1
<1>9. GenerateEdges(path)
                  = {e \in {E(1, a, b), E(2, b, c), E(3, c, d), E(4, d, a)} : e.direction # 0}
  BY <1>7, <1>8 DEF GenerateEdges, EdgesOf
<1> QED BY <1>1, <1>2, <1>4, <1>9 DEF path, E

LEMMA NoEdges == \A p : Winding({}, p) = 0
<1>1. \A p : {e \in {} : e.x <= p[1] /\ e.top <= p[2] /\ e.bottom > p[2]} = {}
  OBVIOUS
<1> QED BY <1>1, NoTurns DEF Winding

LEMMA SignValue ==
  ASSUME NEW n \in Int
  PROVE  /\ Sign(n) \in {-1, 0, 1} /\ -Sign(n) \in {-1, 0, 1}
         /\ n > 0 => Sign(n) = 1 /\ -Sign(n) = -1
         /\ n < 0 => Sign(n) = -1 /\ -Sign(n) = 1
         /\ n = 0 => Sign(n) = 0 /\ -Sign(n) = 0
<1>1. CASE n > 0
  <2>1. Sign(n) = 1
    BY <1>1 DEF Sign
  <2> QED BY <1>1, <2>1
<1>2. CASE n < 0
  <2>1. Sign(n) = -1
    BY <1>2 DEF Sign
  <2>2. \A s \in Int : -s = 0 - s
    OBVIOUS
  <2>3. -1 \in Int /\ 0 - (-1) = 1
    OBVIOUS
  <2>4. -Sign(n) = 1
    BY <2>1, <2>2, <2>3
  <2> QED BY <1>2, <2>1, <2>4
<1>3. CASE n = 0
  <2>1. Sign(n) = 0
    BY <1>3 DEF Sign
  <2> QED BY <1>3, <2>1
<1> QED BY <1>1, <1>2, <1>3

(* The sides of a segment.                                                 *)
LEMMA QuadCorners ==
  ASSUME NEW a \in Points, NEW b \in Points
  PROVE  /\ -Sign(b.y - a.y) \in {-1, 0, 1} /\ Sign(b.x - a.x) \in {-1, 0, 1}
         /\ a.x \in Int /\ a.y \in Int /\ b.x \in Int /\ b.y \in Int
         /\ LET nx == -Sign(b.y - a.y)
                ny == Sign(b.x - a.x)
            IN  /\ [x |-> a.x + nx, y |-> a.y + ny] \in Points
                /\ [x |-> b.x + nx, y |-> b.y + ny] \in Points
                /\ [x |-> b.x - nx, y |-> b.y - ny] \in Points
                /\ [x |-> a.x - nx, y |-> a.y - ny] \in Points
<1>1. a.x \in Int /\ a.y \in Int /\ b.x \in Int /\ b.y \in Int
  BY DEF Points
<1>2. -Sign(b.y - a.y) \in {-1, 0, 1} /\ Sign(b.x - a.x) \in {-1, 0, 1}
  <2>1. b.y - a.y \in Int /\ b.x - a.x \in Int
    BY <1>1
  <2> QED BY <2>1, SignValue
<1> QED BY <1>1, <1>2 DEF Points

LEMMA QuadIsPath ==
  ASSUME NEW a \in Points, NEW b \in Points
  PROVE  /\ SegmentQuad(a, b) \in Seq(Seq(Points))
         /\ TessContours(SegmentQuad(a, b)) = DOMAIN SegmentQuad(a, b)
<1> DEFINE nx == -Sign(b.y - a.y)
           ny == Sign(b.x - a.x)
           q1 == [x |-> a.x + nx, y |-> a.y + ny]
           q2 == [x |-> b.x + nx, y |-> b.y + ny]
           q3 == [x |-> b.x - nx, y |-> b.y - ny]
           q4 == [x |-> a.x - nx, y |-> a.y - ny]
           path == <<<<q1, q2, q3, q4>>>>
<1>1. SegmentQuad(a, b) = path
  BY DEF SegmentQuad
<1>2. q1 \in Points /\ q2 \in Points /\ q3 \in Points /\ q4 \in Points
  BY QuadCorners
<1> HIDE DEF q1, q2, q3, q4
<1>3. path \in Seq(Seq(Points)) /\ DOMAIN path = {1} /\ Len(path[1]) = 4
  BY <1>2, FourCorners
<1> HIDE DEF path
<1>4. TessContours(path) = DOMAIN path
  <2>1. ASSUME NEW i \in DOMAIN path PROVE Len(path[i]) >= 3
    <3>1. i = 1
      BY <1>3
    <3>2. Len(path[i]) = 4
      BY <1>3, <3>1
    <3> QED BY <3>2
  <2> QED BY <2>1 DEF TessContours
<1> QED BY <1>1, <1>3, <1>4

LEMMA LineQuad ==
  ASSUME NEW a \in Points, NEW b \in Points, Straight(a, b), NEW p \in Int \X Int
  PROVE  Winding(GenerateEdges(SegmentQuad(a, b)), p) # 0 <=>
           IF a.y = b.y
           THEN /\ p[1] \in Smaller(a.x, b.x)..(Larger(a.x, b.x) - 1)
                /\ p[2] \in (a.y - 1)..a.y
           ELSE /\ p[1] \in (a.x - 1)..a.x
                /\ p[2] \in Smaller(a.y, b.y)..(Larger(a.y, b.y) - 1)
<1> DEFINE nx == -Sign(b.y - a.y)
           ny == Sign(b.x - a.x)
           q1 == [x |-> a.x + nx, y |-> a.y + ny]
           q2 == [x |-> b.x + nx, y |-> b.y + ny]
           q3 == [x |-> b.x - nx, y |-> b.y - ny]
           q4 == [x |-> a.x - nx, y |-> a.y - ny]
           E(j, from, to) ==
             [at |-> <<1, j>>, x |-> from.x, top |-> Smaller(from.y, to.y),
              bottom |-> Larger(from.y, to.y), direction |-> Sign(to.y - from.y)]
           edges == GenerateEdges(SegmentQuad(a, b))
<1>1. SegmentQuad(a, b) = <<<<q1, q2, q3, q4>>>>
  BY DEF SegmentQuad
<1>2. /\ q1 \in Points /\ q2 \in Points /\ q3 \in Points /\ q4 \in Points
      /\ nx \in {-1, 0, 1} /\ ny \in {-1, 0, 1}
  BY QuadCorners
<1>3. a.x \in Int /\ a.y \in Int /\ b.x \in Int /\ b.y \in Int /\ p[1] \in Int /\ p[2] \in Int
  BY QuadCorners
<1>4. /\ q1.x = a.x + nx /\ q1.y = a.y + ny /\ q2.x = b.x + nx /\ q2.y = b.y + ny
      /\ q3.x = b.x - nx /\ q3.y = b.y - ny /\ q4.x = a.x - nx /\ q4.y = a.y - ny
  OBVIOUS
<1> HIDE DEF q1, q2, q3, q4
<1>5. edges = {e \in {E(1, q1, q2), E(2, q2, q3), E(3, q3, q4), E(4, q4, q1)} : e.direction # 0}
  BY <1>1, <1>2, FourCorners
<1>6. ASSUME NEW j \in Nat, NEW from \in Points, NEW to \in Points
      PROVE  /\ E(j, from, to) \in Edges /\ E(j, from, to).x = from.x
             /\ E(j, from, to).top = Smaller(from.y, to.y)
             /\ E(j, from, to).bottom = Larger(from.y, to.y)
             /\ E(j, from, to).direction = Sign(to.y - from.y)
  <2>1. from.x \in Int /\ from.y \in Int /\ to.y \in Int
    BY <1>6 DEF Points
  <2>2. Smaller(from.y, to.y) \in Int /\ Larger(from.y, to.y) \in Int /\ Sign(to.y - from.y) \in {-1, 0, 1}
    BY <2>1 DEF Smaller, Larger, Sign
  <2>3. <<1, j>> \in Nat \X Nat
    OBVIOUS
  <2> QED BY <2>1, <2>2, <2>3 DEF Edges
<1> DEFINE e1 == E(1, q1, q2)
           e2 == E(2, q2, q3)
           e3 == E(3, q3, q4)
           e4 == E(4, q4, q1)
<1>7. /\ e1 \in Edges /\ e2 \in Edges /\ e3 \in Edges /\ e4 \in Edges
      /\ e1.x = q1.x /\ e2.x = q2.x /\ e3.x = q3.x /\ e4.x = q4.x
      /\ e1.top = Smaller(q1.y, q2.y) /\ e1.bottom = Larger(q1.y, q2.y)
      /\ e2.top = Smaller(q2.y, q3.y) /\ e2.bottom = Larger(q2.y, q3.y)
      /\ e3.top = Smaller(q3.y, q4.y) /\ e3.bottom = Larger(q3.y, q4.y)
      /\ e4.top = Smaller(q4.y, q1.y) /\ e4.bottom = Larger(q4.y, q1.y)
      /\ e1.direction = Sign(q2.y - q1.y) /\ e2.direction = Sign(q3.y - q2.y)
      /\ e3.direction = Sign(q4.y - q3.y) /\ e4.direction = Sign(q1.y - q4.y)
  <2>1. 1 \in Nat /\ 2 \in Nat /\ 3 \in Nat /\ 4 \in Nat
    OBVIOUS
  <2> HIDE DEF E
  <2> QED BY <1>2, <1>6, <2>1
<1>8. edges = {e \in {e1, e2, e3, e4} : e.direction # 0}
  BY <1>5
<1> HIDE DEF e1, e2, e3, e4, edges
<1>9. CASE a.y = b.y
  <2>1. nx = 0
    <3>1. b.y - a.y \in Int /\ b.y - a.y = 0
      BY <1>3, <1>9
    <3> QED BY <3>1, SignValue
  <2>2. e1.direction = 0 /\ e3.direction = 0
    <3> HIDE DEF nx, ny
    <3> QED BY <1>2, <1>3, <1>4, <1>7, <1>9 DEF Sign
  <2>3. CASE a.x = b.x
    <3>1. ny = 0
      BY <1>3, <2>3 DEF Sign
    <3>2. e2.direction = 0 /\ e4.direction = 0
      <4> HIDE DEF nx, ny
      <4> QED BY <1>3, <1>4, <1>7, <1>9, <3>1 DEF Sign
    <3>3. edges = {}
      BY <1>8, <2>2, <3>2
    <3>4. ~(p[1] \in Smaller(a.x, b.x)..(Larger(a.x, b.x) - 1))
      BY <1>3, <2>3 DEF Smaller, Larger
    <3> QED BY <1>9, <3>3, <3>4, NoEdges DEF edges
  <2>4. CASE a.x < b.x
    <3>1. ny = 1
      BY <1>3, <2>4 DEF Sign
    <3>2. e2.direction = -1 /\ e4.direction = 1 /\ e4.top = a.y - 1 /\ e4.bottom = a.y + 1
          /\ e2.top = a.y - 1 /\ e2.bottom = a.y + 1 /\ e4.x = a.x /\ e2.x = b.x
      <4> HIDE DEF nx, ny
      <4> QED BY <1>3, <1>4, <1>7, <1>9, <2>1, <3>1 DEF Sign, Smaller, Larger
    <3>3. edges = {e4, e2}
      BY <1>8, <2>2, <3>2
    <3>4. Winding({e4, e2}, p) # 0 <=> p[1] \in e4.x..(e2.x - 1) /\ p[2] \in e4.top..(e4.bottom - 1)
      BY <1>7, <2>4, <3>2, Between2
    <3>5. Winding({e4, e2}, p) # 0 <=> p[1] \in a.x..(b.x - 1) /\ p[2] \in (a.y - 1)..a.y
      BY <1>3, <3>2, <3>4
    <3>6. Smaller(a.x, b.x) = a.x /\ Larger(a.x, b.x) = b.x
      BY <1>3, <2>4 DEF Smaller, Larger
    <3> QED BY <1>9, <3>3, <3>5, <3>6 DEF edges
  <2>5. CASE b.x < a.x
    <3>1. ny = -1
      BY <1>3, <2>5 DEF Sign
    <3>2. e2.direction = 1 /\ e4.direction = -1 /\ e4.top = a.y - 1 /\ e4.bottom = a.y + 1
          /\ e2.top = a.y - 1 /\ e2.bottom = a.y + 1 /\ e4.x = a.x /\ e2.x = b.x
      <4> HIDE DEF nx, ny
      <4> QED BY <1>3, <1>4, <1>7, <1>9, <2>1, <3>1 DEF Sign, Smaller, Larger
    <3>3. edges = {e2, e4}
      BY <1>8, <2>2, <3>2
    <3>4. Winding({e2, e4}, p) # 0 <=> p[1] \in e2.x..(e4.x - 1) /\ p[2] \in e2.top..(e2.bottom - 1)
      BY <1>7, <2>5, <3>2, Between2
    <3>5. Winding({e2, e4}, p) # 0 <=> p[1] \in b.x..(a.x - 1) /\ p[2] \in (a.y - 1)..a.y
      BY <1>3, <3>2, <3>4
    <3>6. Smaller(a.x, b.x) = b.x /\ Larger(a.x, b.x) = a.x
      BY <1>3, <2>5 DEF Smaller, Larger
    <3> QED BY <1>9, <3>3, <3>5, <3>6 DEF edges
  <2> QED BY <1>3, <2>3, <2>4, <2>5
<1>10. CASE a.y # b.y
  <2>1. a.x = b.x /\ ny = 0
    BY <1>3, <1>10 DEF Straight, Sign
  <2>2. e2.direction = 0 /\ e4.direction = 0
    <3> HIDE DEF nx, ny
    <3> QED BY <1>2, <1>3, <1>4, <1>7, <2>1 DEF Sign
  <2>3. CASE a.y < b.y
    <3>1. nx = -1
      <4>1. b.y - a.y \in Int /\ b.y - a.y > 0
        BY <1>3, <2>3
      <4> QED BY <4>1, SignValue
    <3>2. e1.direction = 1 /\ e3.direction = -1 /\ e1.top = a.y /\ e1.bottom = b.y
          /\ e3.top = a.y /\ e3.bottom = b.y /\ e1.x = a.x - 1 /\ e3.x = a.x + 1
      <4> HIDE DEF nx, ny
      <4> QED BY <1>3, <1>4, <1>7, <2>1, <2>3, <3>1 DEF Sign, Smaller, Larger
    <3>3. edges = {e1, e3}
      BY <1>8, <2>2, <3>2
    <3>4. Winding({e1, e3}, p) # 0 <=> p[1] \in e1.x..(e3.x - 1) /\ p[2] \in e1.top..(e1.bottom - 1)
      BY <1>3, <1>7, <3>2, Between2
    <3>5. Winding({e1, e3}, p) # 0 <=> p[1] \in (a.x - 1)..a.x /\ p[2] \in a.y..(b.y - 1)
      BY <1>3, <3>2, <3>4
    <3>6. Smaller(a.y, b.y) = a.y /\ Larger(a.y, b.y) = b.y
      BY <1>3, <2>3 DEF Smaller, Larger
    <3> QED BY <1>10, <3>3, <3>5, <3>6 DEF edges
  <2>4. CASE b.y < a.y
    <3>1. nx = 1
      <4>1. b.y - a.y \in Int /\ b.y - a.y < 0
        BY <1>3, <2>4
      <4> QED BY <4>1, SignValue
    <3>2. e1.direction = -1 /\ e3.direction = 1 /\ e1.top = b.y /\ e1.bottom = a.y
          /\ e3.top = b.y /\ e3.bottom = a.y /\ e1.x = a.x + 1 /\ e3.x = a.x - 1
      <4> HIDE DEF nx, ny
      <4> QED BY <1>3, <1>4, <1>7, <2>1, <2>4, <3>1 DEF Sign, Smaller, Larger
    <3>3. edges = {e3, e1}
      BY <1>8, <2>2, <3>2
    <3>4. Winding({e3, e1}, p) # 0 <=> p[1] \in e3.x..(e1.x - 1) /\ p[2] \in e3.top..(e3.bottom - 1)
      BY <1>3, <1>7, <3>2, Between2
    <3>5. Winding({e3, e1}, p) # 0 <=> p[1] \in (a.x - 1)..a.x /\ p[2] \in b.y..(a.y - 1)
      BY <1>3, <3>2, <3>4
    <3>6. Smaller(a.y, b.y) = b.y /\ Larger(a.y, b.y) = a.y
      BY <1>3, <2>4 DEF Smaller, Larger
    <3> QED BY <1>10, <3>3, <3>5, <3>6 DEF edges
  <2> QED BY <1>3, <1>10, <2>3, <2>4
<1> QED BY <1>9, <1>10

-----------------------------------------------------------------------------
(* Drawings, one kind at a time.                                           *)
LEMMA MovedPath ==
  ASSUME NEW path \in Seq(Seq(Points)), NEW t \in Points
  PROVE  /\ Path(t, path) \in Seq(Seq(Points)) /\ DOMAIN Path(t, path) = DOMAIN path
         /\ TessContours(Path(t, path)) = TessContours(path)
         /\ \A i \in DOMAIN path :
              /\ DOMAIN Path(t, path)[i] = DOMAIN path[i] /\ Len(Path(t, path)[i]) = Len(path[i])
              /\ \A j \in DOMAIN path[i] : Path(t, path)[i][j] = Apply(t, path[i][j])
<1> DEFINE moved(i) == [j \in DOMAIN path[i] |-> Apply(t, path[i][j])]
<1>1. Path(t, path) = [i \in DOMAIN path |-> moved(i)]
  BY DEF Path
<1>2. ASSUME NEW i \in DOMAIN path
      PROVE  /\ moved(i) \in Seq(Points) /\ Len(moved(i)) = Len(path[i])
             /\ DOMAIN moved(i) = DOMAIN path[i]
  <2>1. path[i] \in Seq(Points) /\ Len(path[i]) \in Nat /\ DOMAIN path[i] = 1..Len(path[i])
    OBVIOUS
  <2>2. \A j \in DOMAIN path[i] : Apply(t, path[i][j]) \in Points
    <3> SUFFICES ASSUME NEW j \in DOMAIN path[i] PROVE Apply(t, path[i][j]) \in Points
      OBVIOUS
    <3>1. path[i][j].x \in Int /\ path[i][j].y \in Int /\ t.x \in Int /\ t.y \in Int
      BY CornerPoint DEF Points
    <3> QED BY <3>1 DEF Apply, Points
  <2> QED BY <2>1, <2>2
<1> HIDE DEF moved
<1>3. DOMAIN path = 1..Len(path) /\ Len(path) \in Nat
  OBVIOUS
<1>4. Path(t, path) \in Seq(Seq(Points)) /\ DOMAIN Path(t, path) = DOMAIN path
  BY <1>1, <1>2, <1>3
<1>5. ASSUME NEW i \in DOMAIN path
      PROVE  /\ DOMAIN Path(t, path)[i] = DOMAIN path[i] /\ Len(Path(t, path)[i]) = Len(path[i])
             /\ \A j \in DOMAIN path[i] : Path(t, path)[i][j] = Apply(t, path[i][j])
  <2>1. Path(t, path)[i] = moved(i)
    BY <1>1
  <2> QED BY <1>2, <2>1 DEF moved
<1>6. TessContours(Path(t, path)) = TessContours(path)
  BY <1>4, <1>5 DEF TessContours
<1> QED BY <1>4, <1>5, <1>6

LEMMA MovedIsPath ==
  ASSUME NEW path, IsPath(path), NEW t \in Points
  PROVE  IsPath(Path(t, path))
<1> DEFINE moved == Path(t, path)
<1>1. path \in Seq(Seq(Points))
  BY DEF IsPath
<1>2. /\ moved \in Seq(Seq(Points)) /\ DOMAIN moved = DOMAIN path
      /\ \A i \in DOMAIN path :
              /\ DOMAIN moved[i] = DOMAIN path[i] /\ Len(moved[i]) = Len(path[i])
              /\ \A j \in DOMAIN path[i] : moved[i][j] = Apply(t, path[i][j])
  BY <1>1, MovedPath
<1> HIDE DEF moved
<1>3. \E i \in DOMAIN moved : moved[i] # <<>>
  <2>1. PICK i \in DOMAIN path : path[i] # <<>>
    BY DEF IsPath
  <2>2. path[i] \in Seq(Points) /\ moved[i] \in Seq(Points)
    BY <1>1, <1>2
  <2> QED BY <1>2, <2>1, <2>2
<1>4. ASSUME NEW i \in DOMAIN moved, NEW j \in DOMAIN moved[i]
      PROVE  Straight(moved[i][j], Following(moved[i], j))
  <2>1. i \in DOMAIN path /\ j \in DOMAIN path[i]
    BY <1>2
  <2>2. PICK k \in DOMAIN path[i] : Following(path[i], j) = path[i][k]
                                    /\ Following(moved[i], j) = moved[i][k]
    <3> DEFINE n == IF j = Len(path[i]) THEN 1 ELSE j + 1
    <3>1. path[i] \in Seq(Points) /\ j \in 1..Len(path[i]) /\ Len(path[i]) \in Nat
      BY <1>1, <2>1, CornerPoint
    <3>2. n \in DOMAIN path[i]
      BY <3>1
    <3>3. Following(path[i], j) = path[i][n] /\ Following(moved[i], j) = moved[i][n]
      BY <1>2, <2>1 DEF Following
    <3> QED BY <3>2, <3>3
  <2>3. moved[i][j] = Apply(t, path[i][j]) /\ moved[i][k] = Apply(t, path[i][k])
    BY <1>2, <2>1
  <2>4. Straight(path[i][j], path[i][k])
    BY <2>1, <2>2 DEF IsPath
  <2>5. Straight(Apply(t, path[i][j]), Apply(t, path[i][k]))
    BY <2>4 DEF Straight, Apply
  <2> QED BY <2>2, <2>3, <2>5
<1> QED BY <1>2, <1>3, <1>4 DEF IsPath, moved

LEMMA MovedQuad ==
  ASSUME NEW a \in Points, NEW b \in Points, NEW t \in Points
  PROVE  /\ Apply(t, a) \in Points /\ Apply(t, b) \in Points
         /\ SegmentQuad(Apply(t, a), Apply(t, b)) = Path(t, SegmentQuad(a, b))
<1> DEFINE nx == -Sign(b.y - a.y)
           ny == Sign(b.x - a.x)
           q1 == [x |-> a.x + nx, y |-> a.y + ny]
           q2 == [x |-> b.x + nx, y |-> b.y + ny]
           q3 == [x |-> b.x - nx, y |-> b.y - ny]
           q4 == [x |-> a.x - nx, y |-> a.y - ny]
           c == Apply(t, a)
           d == Apply(t, b)
<1>1. /\ a.x \in Int /\ a.y \in Int /\ b.x \in Int /\ b.y \in Int /\ t.x \in Int /\ t.y \in Int
      /\ nx \in {-1, 0, 1} /\ ny \in {-1, 0, 1}
  BY QuadCorners DEF Points
<1>2. c = [x |-> a.x + t.x, y |-> a.y + t.y] /\ d = [x |-> b.x + t.x, y |-> b.y + t.y]
  BY DEF Apply
<1>3. c \in Points /\ d \in Points
  BY <1>1, <1>2 DEF Points
<1>4. d.y - c.y = b.y - a.y /\ d.x - c.x = b.x - a.x
  BY <1>1, <1>2
<1>5. SegmentQuad(c, d) = <<<<[x |-> c.x + nx, y |-> c.y + ny], [x |-> d.x + nx, y |-> d.y + ny],
                             [x |-> d.x - nx, y |-> d.y - ny], [x |-> c.x - nx, y |-> c.y - ny]>>>>
  BY <1>4 DEF SegmentQuad
<1> HIDE DEF nx, ny
<1>6. /\ Apply(t, q1) = [x |-> c.x + nx, y |-> c.y + ny] /\ Apply(t, q2) = [x |-> d.x + nx, y |-> d.y + ny]
      /\ Apply(t, q3) = [x |-> d.x - nx, y |-> d.y - ny] /\ Apply(t, q4) = [x |-> c.x - nx, y |-> c.y - ny]
  <2>1. /\ (a.x + nx) + t.x = (a.x + t.x) + nx /\ (a.y + ny) + t.y = (a.y + t.y) + ny
        /\ (b.x + nx) + t.x = (b.x + t.x) + nx /\ (b.y + ny) + t.y = (b.y + t.y) + ny
        /\ (b.x - nx) + t.x = (b.x + t.x) - nx /\ (b.y - ny) + t.y = (b.y + t.y) - ny
        /\ (a.x - nx) + t.x = (a.x + t.x) - nx /\ (a.y - ny) + t.y = (a.y + t.y) - ny
    BY <1>1
  <2> QED BY <1>2, <2>1 DEF Apply
<1>7. SegmentQuad(a, b) = <<<<q1, q2, q3, q4>>>>
  BY DEF SegmentQuad, nx, ny
<1>8. q1 \in Points /\ q2 \in Points /\ q3 \in Points /\ q4 \in Points
  BY QuadCorners DEF nx, ny
<1> HIDE DEF q1, q2, q3, q4, c, d
<1> DEFINE quad == <<<<q1, q2, q3, q4>>>>
<1>9. /\ quad \in Seq(Seq(Points)) /\ DOMAIN quad = {1} /\ quad[1] = <<q1, q2, q3, q4>>
  BY <1>8
<1>10. Path(t, quad) = <<<<Apply(t, q1), Apply(t, q2), Apply(t, q3), Apply(t, q4)>>>>
  BY DEF Path
<1> QED BY <1>3, <1>5, <1>6, <1>7, <1>10 DEF c, d

(* A rectangle with its corners put in order.                              *)
LEMMA UprightArea ==
  ASSUME NEW r \in Areas, NEW t \in Points
  PROVE  /\ Upright(Moved(t, r)) \in Areas
         /\ ~Void(r) => Upright(Moved(t, r)) = Moved(t, r)
         /\ Void(Upright(r)) => Void(Upright(Moved(t, r)))
<1>1. r.x \in Int /\ r.y \in Int /\ r.w \in Int /\ r.h \in Int /\ t.x \in Int /\ t.y \in Int
  BY DEF Areas, Points
<1> DEFINE m == Moved(t, r)
<1>2. m \in Areas /\ m.x = r.x + t.x /\ m.y = r.y + t.y /\ m.w = r.w /\ m.h = r.h
  BY MovedArea DEF Moved, Areas
<1> HIDE DEF m
<1>3. m = Box(m.x, m.y, m.w, m.h)
  BY <1>2 DEF Box, Areas
<1> DEFINE x == Smaller(m.x, Right(m))
           y == Smaller(m.y, Bottom(m))
           w == Larger(m.x, Right(m)) - x
           h == Larger(m.y, Bottom(m)) - y
<1>4. Upright(m) = Box(x, y, w, h)
  BY DEF Upright
<1>5. /\ x \in Int /\ y \in Int /\ w \in Int /\ h \in Int
      /\ w = IF r.w < 0 THEN -r.w ELSE r.w
      /\ h = IF r.h < 0 THEN -r.h ELSE r.h
      /\ r.w > 0 => x = m.x
      /\ r.h > 0 => y = m.y
  BY <1>1, <1>2 DEF Smaller, Larger, Right, Bottom
<1> HIDE DEF x, y, w, h
<1>6. Upright(m) \in Areas
  BY <1>4, <1>5 DEF Box, Areas
<1>7. ASSUME ~Void(r) PROVE Upright(m) = m
  <2>1. x = m.x /\ y = m.y /\ w = m.w /\ h = m.h
    BY <1>1, <1>2, <1>5, <1>7 DEF Void
  <2> QED BY <1>3, <1>4, <2>1
<1>8. ASSUME Void(Upright(r)) PROVE Void(Upright(m))
  <2>1. Upright(r).w = (IF r.w < 0 THEN -r.w ELSE r.w) /\ Upright(r).h = (IF r.h < 0 THEN -r.h ELSE r.h)
    BY <1>1 DEF Upright, Box, Smaller, Larger, Right, Bottom
  <2>2. Upright(m).w = w /\ Upright(m).h = h
    BY <1>4 DEF Box
  <2> QED BY <1>5, <1>8, <2>1, <2>2 DEF Void
<1> QED BY <1>6, <1>7, <1>8 DEF m

LEMMA RectAgrees ==
  ASSUME Twin, NEW r \in Areas, Void(r) => Void(Upright(r))
  PROVE  SoftwareFillRect(software, r) = GlesFillRect(gles, r)
<1> DEFINE t == software.transform
           clip == CurrentClip(software)
           up == Upright(Moved(t, r))
<1>1. t \in Points /\ gles.transform = t /\ clip \in Areas /\ Passing(gles) = Inside(clip)
  BY TwinParts, ClipArea, PassingClip
<1> HIDE DEF clip
<1>2. up \in Areas /\ (~Void(r) => up = Moved(t, r)) /\ (Void(Upright(r)) => Void(up))
  BY <1>1, UprightArea
<1>3. Intersect(up, clip) \in Areas /\ Inside(Intersect(up, clip)) = Inside(up) \cap Inside(clip)
  BY <1>1, <1>2, IntersectArea, InsideIntersect
<1>4. Inside(Intersect(Intersect(up, clip), Screen)) = (Inside(up) \cap Inside(clip)) \cap Pixels
  BY <1>3, InsideIntersect, InsideScreen
<1>5. Inside(clip) \subseteq Pixels
  BY DEF Inside
<1>6. SoftwareFillRect(software, r) = Inside(up) \cap Inside(clip)
  BY <1>4, <1>5 DEF SoftwareFillRect, clip
<1>7. Void(r) => Inside(up) = {}
  BY <1>2, VoidInside
<1> QED BY <1>1, <1>2, <1>6, <1>7 DEF GlesFillRect

LEMMA ImageAgrees ==
  ASSUME Twin, NEW r \in Areas, software.transform = Origin
  PROVE  SoftwareImage(software, r) = GlesImage(gles, r)
<1> DEFINE clip == CurrentClip(software)
<1>1. gles.transform = Origin /\ clip \in Areas /\ Passing(gles) = Inside(clip)
  BY TwinParts, ClipArea, PassingClip
<1>2. Moved(Origin, r) = r
  <2>1. r.x + 0 = r.x /\ r.y + 0 = r.y
    BY AreaParts
  <2>2. Moved(Origin, r) = [r EXCEPT !.x = r.x, !.y = r.y]
    BY <2>1 DEF Moved, Origin, Areas
  <2> QED BY <2>2 DEF Areas
<1>3. Inside(Intersect(clip, r)) = Inside(clip) \cap Inside(r)
  BY <1>1, InsideIntersect
<1> QED BY <1>1, <1>2, <1>3 DEF SoftwareImage, GlesImage

(* With no clip open, text that is not moved lands where it is put.        *)
LEMMA TextAgrees ==
  ASSUME Twin, NEW glyphs \in SUBSET Areas, software.transform = Origin, software.clips = <<>>
  PROVE  SoftwareText(glyphs) = GlesText(gles, glyphs)
<1>1. ASSUME NEW g \in glyphs
      PROVE  Inside(g) = GlesImage(gles, g)
  <2>1. CurrentClip(software) = Screen
    BY DEF CurrentClip
  <2>2. SoftwareImage(software, g) = Inside(Screen) \cap Inside(g)
    BY <2>1, InsideScreen, InsideIntersect DEF SoftwareImage
  <2>3. Inside(Screen) = Pixels /\ Inside(g) \subseteq Pixels
    BY InsideScreen DEF Inside
  <2>4. SoftwareImage(software, g) = GlesImage(gles, g)
    BY ImageAgrees
  <2> QED BY <2>2, <2>3, <2>4
<1> QED BY <1>1 DEF SoftwareText, GlesText

LEMMA FillAgrees ==
  ASSUME Twin, NEW path \in Seq(Seq(Points)), ~LeftOfCanvas(Corners(path)),
         \A p : Winding(GenerateEdges(Path(software.transform, path)), p)
                  = Winding(EdgesOf(Path(software.transform, path), TessContours(path)), p)
  PROVE  ScanlineFill(Path(software.transform, path), CurrentClip(software)) = GlesFillPath(gles, path)
<1> DEFINE t == software.transform
           clip == CurrentClip(software)
           moved == Path(t, path)
<1>1. t \in Points /\ gles.transform = t /\ clip \in Areas /\ Passing(gles) = Inside(clip)
  BY TwinParts, ClipArea, PassingClip
<1>2. moved \in Seq(Seq(Points)) /\ DOMAIN moved = DOMAIN path
      /\ \A i \in DOMAIN path : DOMAIN moved[i] = DOMAIN path[i]
           /\ \A j \in DOMAIN path[i] : moved[i][j] = Apply(t, path[i][j])
  BY <1>1, MovedPath
<1>3. \A q \in Corners(moved) : q.x >= 0
  <2> HIDE DEF moved
  <2> SUFFICES ASSUME NEW q \in Corners(moved) PROVE q.x >= 0
    OBVIOUS
  <2>1. PICK i \in DOMAIN moved : q \in {moved[i][j] : j \in DOMAIN moved[i]}
    BY DEF Corners
  <2>2. PICK j \in DOMAIN moved[i] : q = moved[i][j]
    BY <2>1
  <2>3. i \in DOMAIN path /\ j \in DOMAIN path[i]
    BY <1>2
  <2>4. q = Apply(t, path[i][j])
    BY <1>2, <2>2, <2>3
  <2>5. path[i][j] \in Corners(path)
    BY <2>3 DEF Corners
  <2>6. ~(path[i][j].x + t.x < 0)
    BY <2>5 DEF LeftOfCanvas
  <2>7. path[i][j].x \in Int /\ t.x \in Int
    BY <1>1, <2>3, CornerPoint DEF Points
  <2> QED BY <2>4, <2>6, <2>7 DEF Apply
<1>4. ScanlineFill(moved, clip) = {p \in Inside(clip) : Winding(GenerateEdges(moved), p) # 0}
  <2> HIDE DEF moved, clip
  <2> QED BY <1>1, <1>2, <1>3, ScanlineCells
<1>5. GlesFillPath(gles, path)
        = {p \in Inside(clip) : Winding(EdgesOf(moved, TessContours(path)), p) # 0}
  BY <1>1 DEF GlesFillPath
<1> QED BY <1>4, <1>5

LEMMA PathAgrees ==
  ASSUME Twin, NEW path, IsPath(path), ~LeftOfCanvas(Corners(path))
  PROVE  SoftwareFillPath(software, path) = GlesFillPath(gles, path)
<1> DEFINE moved == Path(software.transform, path)
<1>1. software.transform \in Points /\ path \in Seq(Seq(Points))
  BY TwinParts DEF IsPath
<1>2. IsPath(moved) /\ TessContours(moved) = TessContours(path)
  BY <1>1, MovedPath, MovedIsPath
<1>3. \A p : Winding(GenerateEdges(moved), p) = Winding(EdgesOf(moved, TessContours(path)), p)
  BY <1>2, ShortCancel
<1> QED BY <1>1, <1>3, FillAgrees DEF SoftwareFillPath

LEMMA SegmentAgrees ==
  ASSUME Twin, NEW a \in Points, NEW b \in Points, ~LeftOfCanvas(Corners(SegmentQuad(a, b)))
  PROVE  ScanlineFill(SegmentQuad(Apply(software.transform, a), Apply(software.transform, b)),
                      CurrentClip(software))
           = GlesFillPath(gles, SegmentQuad(a, b))
<1> DEFINE t == software.transform
           quad == SegmentQuad(a, b)
           moved == Path(t, quad)
<1>1. t \in Points /\ quad \in Seq(Seq(Points)) /\ TessContours(quad) = DOMAIN quad
  BY TwinParts, QuadIsPath
<1>2. SegmentQuad(Apply(t, a), Apply(t, b)) = moved
  BY <1>1, MovedQuad
<1>3. DOMAIN moved = DOMAIN quad
  BY <1>1, MovedPath
<1>4. \A p : Winding(GenerateEdges(moved), p) = Winding(EdgesOf(moved, TessContours(quad)), p)
  BY <1>1, <1>3 DEF GenerateEdges
<1>5. ScanlineFill(moved, CurrentClip(software)) = GlesFillPath(gles, quad)
  BY <1>1, <1>4, FillAgrees
<1> QED BY <1>2, <1>5

LEMMA StrokeAgrees ==
  ASSUME Twin, NEW segments \in SUBSET (Points \X Points),
         ~LeftOfCanvas(StrokeCorners(segments))
  PROVE  SoftwareStroke(software, segments) = GlesStroke(gles, segments)
<1>1. ASSUME NEW s \in segments
      PROVE  ScanlineFill(SegmentQuad(Apply(software.transform, s[1]), Apply(software.transform, s[2])),
                      CurrentClip(software))
               = GlesFillPath(gles, SegmentQuad(s[1], s[2]))
  <2>1. s[1] \in Points /\ s[2] \in Points
    OBVIOUS
  <2>2. ~LeftOfCanvas(Corners(SegmentQuad(s[1], s[2])))
    BY DEF LeftOfCanvas, StrokeCorners
  <2> QED BY <2>1, <2>2, SegmentAgrees
<1> QED BY <1>1 DEF SoftwareStroke, GlesStroke

LEMMA SegmentsTyped ==
  ASSUME NEW path \in Seq(Seq(Points))
  PROVE  Segments(path) \in SUBSET (Points \X Points)
<1> SUFFICES ASSUME NEW s \in Segments(path) PROVE s \in Points \X Points
  OBVIOUS
<1>1. PICK i \in DOMAIN path : s \in {<<path[i][j], Following(path[i], j)>> : j \in DOMAIN path[i]}
  BY DEF Segments
<1>2. PICK j \in DOMAIN path[i] : s = <<path[i][j], Following(path[i], j)>>
  BY <1>1
<1>3. path[i][j] \in Points
  BY CornerPoint
<1>4. Following(path[i], j) \in Points
  BY FollowingPoint, CornerPoint
<1> QED BY <1>2, <1>3, <1>4

LEMMA LineAgrees ==
  ASSUME Twin, NEW s \in Points \X Points, Straight(s[1], s[2]),
         ~LeftOfCanvas(Corners(SegmentQuad(s[1], s[2])))
  PROVE  SoftwareStroke(software, {s}) = GlesLine(gles, s)
<1> DEFINE t == software.transform
           a == s[1]
           b == s[2]
           c == Apply(t, a)
           d == Apply(t, b)
           quad == SegmentQuad(a, b)
<1>1. a \in Points /\ b \in Points /\ t \in Points /\ gles.transform = t
  BY TwinParts
<1>2. /\ a.x \in Int /\ a.y \in Int /\ b.x \in Int /\ b.y \in Int /\ t.x \in Int /\ t.y \in Int
      /\ c.x = a.x + t.x /\ c.y = a.y + t.y /\ d.x = b.x + t.x /\ d.y = b.y + t.y
      /\ c \in Points /\ d \in Points
  BY <1>1, MovedQuad DEF Apply, Points
<1>3. Straight(c, d)
  BY <1>2 DEF Straight
<1>4. SoftwareStroke(software, {s}) = GlesFillPath(gles, quad)
  <2>1. ScanlineFill(SegmentQuad(c, d), CurrentClip(software)) = GlesFillPath(gles, quad)
    BY <1>1, SegmentAgrees
  <2> HIDE DEF c, d, quad
  <2>2. SoftwareStroke(software, {s}) = ScanlineFill(SegmentQuad(c, d), CurrentClip(software))
    BY DEF SoftwareStroke, c, d
  <2> QED BY <2>1, <2>2
<1>5. GlesFillPath(gles, quad) = {p \in Passing(gles) : Winding(GenerateEdges(SegmentQuad(c, d)), p) # 0}
  <2>1. Path(t, quad) = SegmentQuad(c, d) /\ quad \in Seq(Seq(Points)) /\ TessContours(quad) = DOMAIN quad
    BY <1>1, MovedQuad, QuadIsPath
  <2>2. DOMAIN Path(t, quad) = DOMAIN quad
    BY <1>1, <2>1, MovedPath
  <2> HIDE DEF quad, c, d
  <2> QED BY <1>1, <2>1, <2>2 DEF GlesFillPath, GenerateEdges
<1> DEFINE lo == [x |-> Smaller(a.x, b.x), y |-> Smaller(a.y, b.y)]
           hi == [x |-> Larger(a.x, b.x), y |-> Larger(a.y, b.y)]
           box == IF lo.y = hi.y THEN Box(lo.x, lo.y - 1, hi.x - lo.x, 2)
                  ELSE Box(lo.x - 1, lo.y, 2, hi.y - lo.y)
           r == Moved(t, box)
<1>6. GlesLine(gles, s) = IF Void(box) THEN {} ELSE Inside(r) \cap Passing(gles)
  BY <1>1 DEF GlesLine, GlesFillRect
<1>7. /\ lo.x \in Int /\ lo.y \in Int /\ hi.x \in Int /\ hi.y \in Int
      /\ (lo.y = hi.y <=> a.y = b.y) /\ (a.y = b.y => lo.y = a.y)
      /\ (c.y = d.y <=> a.y = b.y) /\ (a.x = b.x => lo.x = a.x)
      /\ Smaller(c.x, d.x) = lo.x + t.x /\ Larger(c.x, d.x) = hi.x + t.x
      /\ Smaller(c.y, d.y) = lo.y + t.y /\ Larger(c.y, d.y) = hi.y + t.y
  <2> HIDE DEF a, b, c, d
  <2> QED BY <1>2 DEF Smaller, Larger
<1>8. a.y = b.y \/ a.x = b.x
  BY DEF Straight
<1> HIDE DEF a, b, c, d, lo, hi, quad
<1>9. ASSUME NEW p \in Passing(gles)
      PROVE  Winding(GenerateEdges(SegmentQuad(c, d)), p) # 0 <=> ~Void(box) /\ p \in Inside(r)
  <2>1. p \in Pixels /\ p \in Int \X Int /\ p[1] \in Int /\ p[2] \in Int
    BY CanvasAssumption DEF Passing, Pixels
  <2>2. Winding(GenerateEdges(SegmentQuad(c, d)), p) # 0 <=>
           IF c.y = d.y
           THEN /\ p[1] \in Smaller(c.x, d.x)..(Larger(c.x, d.x) - 1)
                /\ p[2] \in (c.y - 1)..c.y
           ELSE /\ p[1] \in (c.x - 1)..c.x
                /\ p[2] \in Smaller(c.y, d.y)..(Larger(c.y, d.y) - 1)
    BY <1>2, <1>3, <2>1, LineQuad
  <2>3. CASE a.y = b.y
    <3>1. box = [x |-> lo.x, y |-> lo.y - 1, w |-> hi.x - lo.x, h |-> 2]
      BY <1>7, <2>3 DEF Box
    <3>2. r.x = lo.x + t.x /\ r.y = (lo.y - 1) + t.y /\ r.w = hi.x - lo.x /\ r.h = 2
      BY <3>1 DEF Moved
    <3>3. Void(box) <=> hi.x - lo.x <= 0
      BY <1>7, <3>1 DEF Void
    <3> HIDE DEF box, r
    <3>4. p \in Inside(r) <=> /\ p[1] \in (lo.x + t.x)..(hi.x + t.x - 1)
                              /\ p[2] \in (lo.y - 1 + t.y)..(lo.y + t.y)
      <4>1. Right(r) - 1 = hi.x + t.x - 1 /\ Bottom(r) - 1 = lo.y + t.y
        BY <1>2, <1>7, <3>2 DEF Right, Bottom
      <4>2. p \in Inside(r) <=> p[1] \in r.x..(Right(r) - 1) /\ p[2] \in r.y..(Bottom(r) - 1)
        BY <2>1 DEF Inside
      <4> QED BY <3>2, <4>1, <4>2
    <3>5. Winding(GenerateEdges(SegmentQuad(c, d)), p) # 0 <=>
            /\ p[1] \in (lo.x + t.x)..(hi.x + t.x - 1) /\ p[2] \in (lo.y + t.y - 1)..(lo.y + t.y)
      BY <1>2, <1>7, <2>2, <2>3
    <3>6. (p[1] \in (lo.x + t.x)..(hi.x + t.x - 1)) => ~(hi.x - lo.x <= 0)
      BY <1>2, <1>7, <2>1
    <3>7. lo.y - 1 + t.y = lo.y + t.y - 1
      BY <1>2, <1>7
    <3> QED BY <3>3, <3>4, <3>5, <3>6, <3>7
  <2>4. CASE a.y # b.y
    <3>0. lo.x = a.x
      BY <1>7, <1>8, <2>4
    <3>1. box = [x |-> lo.x - 1, y |-> lo.y, w |-> 2, h |-> hi.y - lo.y]
      BY <1>7, <2>4 DEF Box
    <3>2. r.x = (lo.x - 1) + t.x /\ r.y = lo.y + t.y /\ r.w = 2 /\ r.h = hi.y - lo.y
      BY <3>1 DEF Moved
    <3>3. Void(box) <=> hi.y - lo.y <= 0
      BY <1>7, <3>1 DEF Void
    <3> HIDE DEF box, r
    <3>4. p \in Inside(r) <=> /\ p[1] \in (lo.x - 1 + t.x)..(lo.x + t.x)
                              /\ p[2] \in (lo.y + t.y)..(hi.y + t.y - 1)
      <4>1. Right(r) - 1 = lo.x + t.x /\ Bottom(r) - 1 = hi.y + t.y - 1
        <5>1. Right(r) = ((lo.x - 1) + t.x) + 2 /\ Bottom(r) = (lo.y + t.y) + (hi.y - lo.y)
          BY <3>2 DEF Right, Bottom
        <5> QED BY <1>2, <1>7, <5>1
      <4>2. p \in Inside(r) <=> p[1] \in r.x..(Right(r) - 1) /\ p[2] \in r.y..(Bottom(r) - 1)
        BY <2>1 DEF Inside
      <4> QED BY <3>2, <4>1, <4>2
    <3>5. Winding(GenerateEdges(SegmentQuad(c, d)), p) # 0 <=>
            /\ p[1] \in (lo.x + t.x - 1)..(lo.x + t.x) /\ p[2] \in (lo.y + t.y)..(hi.y + t.y - 1)
      BY <1>2, <1>7, <2>2, <2>4, <3>0
    <3>6. (p[2] \in (lo.y + t.y)..(hi.y + t.y - 1)) => ~(hi.y - lo.y <= 0)
      BY <1>2, <1>7, <2>1
    <3>7. lo.x - 1 + t.x = lo.x + t.x - 1
      BY <1>2, <1>7
    <3> QED BY <3>3, <3>4, <3>5, <3>6, <3>7
  <2> QED BY <2>3, <2>4
<1> HIDE DEF box, r
<1> QED BY <1>4, <1>5, <1>6, <1>9

-----------------------------------------------------------------------------
(* Borders. A pixel of a rectangle the driver fills.                       *)
LEMMA FilledPixel ==
  ASSUME Twin, NEW x \in Int, NEW y \in Int, NEW w \in Int, NEW h \in Int, NEW p \in Pixels
  PROVE  p \in GlesFillRect(gles, Box(x, y, w, h)) <=>
           /\ p \in Passing(gles)
           /\ x <= p[1] - software.transform.x /\ p[1] - software.transform.x < x + w
           /\ y <= p[2] - software.transform.y /\ p[2] - software.transform.y < y + h
<1> DEFINE t == software.transform
           r == Box(x, y, w, h)
           m == Moved(t, r)
<1>1. t.x \in Int /\ t.y \in Int /\ gles.transform = t
  BY TwinParts DEF Points
<1>2. p[1] \in Int /\ p[2] \in Int
  BY CanvasAssumption DEF Pixels
<1>3. m.x = x + t.x /\ m.y = y + t.y /\ m.w = w /\ m.h = h
  BY DEF Box, Moved
<1>4. Void(r) <=> w <= 0 \/ h <= 0
  BY DEF Void, Box
<1> HIDE DEF t, m, r
<1>5. p \in Inside(m) <=> p[1] \in m.x..(Right(m) - 1) /\ p[2] \in m.y..(Bottom(m) - 1)
  BY DEF Inside
<1>6. p \in Inside(m) <=> /\ x <= p[1] - t.x /\ p[1] - t.x < x + w
                          /\ y <= p[2] - t.y /\ p[2] - t.y < y + h
  BY <1>1, <1>2, <1>3, <1>5 DEF Right, Bottom
<1>7. p \in GlesFillRect(gles, r) <=> ~Void(r) /\ p \in Inside(m) /\ p \in Passing(gles)
  BY <1>1 DEF GlesFillRect, m
<1>8. p \in Inside(m) => ~(w <= 0 \/ h <= 0)
  BY <1>1, <1>2, <1>6
<1> QED BY <1>4, <1>6, <1>7, <1>8 DEF r, t

(* The strokes of the sides are the lines along them.                      *)
LEMMA SidesStroked ==
  ASSUME Twin, NEW r \in Areas, ~LeftOfCanvas(StrokeCorners(Sides(r)))
  PROVE  SoftwareStroke(software, Sides(r)) = UNION {GlesLine(gles, s) : s \in Sides(r)}
<1>1. ASSUME NEW s \in Sides(r)
      PROVE  SoftwareStroke(software, {s}) = GlesLine(gles, s)
  <2>1. s \in Points \X Points /\ Straight(s[1], s[2])
    BY AreaParts DEF Sides, Corner, Points, Straight, Right, Bottom
  <2>2. ~LeftOfCanvas(Corners(SegmentQuad(s[1], s[2])))
    BY DEF LeftOfCanvas, StrokeCorners
  <2> QED BY <2>1, <2>2, LineAgrees
<1>2. SoftwareStroke(software, Sides(r)) = UNION {SoftwareStroke(software, {s}) : s \in Sides(r)}
  BY DEF SoftwareStroke
<1> QED BY <1>1, <1>2

(* The line along a side, as a box.                                        *)
LEMMA SideLine ==
  ASSUME NEW r \in Areas, ~Void(r)
  PROVE  UNION {GlesLine(gles, s) : s \in Sides(r)} =
           GlesFillRect(gles, Box(r.x, r.y - 1, r.w, 2))
             \cup GlesFillRect(gles, Box(Right(r) - 1, r.y, 2, r.h))
             \cup GlesFillRect(gles, Box(r.x, Bottom(r) - 1, r.w, 2))
             \cup GlesFillRect(gles, Box(r.x - 1, r.y, 2, r.h))
<1> DEFINE a == Corner(r.x, r.y)
           b == Corner(Right(r), r.y)
           c == Corner(Right(r), Bottom(r))
           d == Corner(r.x, Bottom(r))
<1>1. /\ r.x \in Int /\ r.y \in Int /\ r.w \in Int /\ r.h \in Int /\ r.w > 0 /\ r.h > 0
      /\ Right(r) = r.x + r.w /\ Bottom(r) = r.y + r.h
  BY AreaParts DEF Void, Right, Bottom
<1>2. /\ a.x = r.x /\ b.x = Right(r) /\ c.x = Right(r) /\ d.x = r.x
      /\ a.y = r.y /\ b.y = r.y /\ c.y = Bottom(r) /\ d.y = Bottom(r)
  BY DEF Corner
<1>3. Sides(r) = {<<a, b>>, <<b, c>>, <<c, d>>, <<d, a>>}
  BY DEF Sides
<1> HIDE DEF a, b, c, d
<1>4. GlesLine(gles, <<a, b>>) = GlesFillRect(gles, Box(r.x, r.y - 1, r.w, 2))
  <2>1. Smaller(a.x, b.x) = r.x /\ Larger(a.x, b.x) - r.x = r.w /\ Smaller(a.y, b.y) = r.y /\ Larger(a.y, b.y) = r.y
    BY <1>1, <1>2 DEF Smaller, Larger
  <2> QED BY <2>1 DEF GlesLine
<1>5. GlesLine(gles, <<b, c>>) = GlesFillRect(gles, Box(Right(r) - 1, r.y, 2, r.h))
  <2>1. /\ Smaller(b.x, c.x) = Right(r) /\ Smaller(b.y, c.y) = r.y
        /\ Larger(b.y, c.y) - r.y = r.h /\ r.y # Larger(b.y, c.y)
    BY <1>1, <1>2 DEF Smaller, Larger
  <2> QED BY <2>1 DEF GlesLine
<1>6. GlesLine(gles, <<c, d>>) = GlesFillRect(gles, Box(r.x, Bottom(r) - 1, r.w, 2))
  <2>1. /\ Smaller(c.x, d.x) = r.x /\ Larger(c.x, d.x) - r.x = r.w
        /\ Smaller(c.y, d.y) = Bottom(r) /\ Larger(c.y, d.y) = Bottom(r)
    BY <1>1, <1>2 DEF Smaller, Larger
  <2> QED BY <2>1 DEF GlesLine
<1>7. GlesLine(gles, <<d, a>>) = GlesFillRect(gles, Box(r.x - 1, r.y, 2, r.h))
  <2>1. /\ Smaller(d.x, a.x) = r.x /\ Smaller(d.y, a.y) = r.y
        /\ Larger(d.y, a.y) - r.y = r.h /\ r.y # Larger(d.y, a.y)
    BY <1>1, <1>2 DEF Smaller, Larger
  <2> QED BY <2>1 DEF GlesLine
<1>8. UNION {GlesLine(gles, s) : s \in Sides(r)} =
        GlesLine(gles, <<a, b>>) \cup GlesLine(gles, <<b, c>>)
          \cup GlesLine(gles, <<c, d>>) \cup GlesLine(gles, <<d, a>>)
  BY <1>3, Zenon
<1> QED BY <1>4, <1>5, <1>6, <1>7, <1>8

(* The outer pixels at the corners that the clip lets through.             *)
LEMMA CornerPixels ==
  ASSUME Twin, NEW d, d.kind = "border", d.rect \in Areas
  PROVE  CornersOf(d) = UNION {GlesFillRect(gles, s) : s \in OuterCorners(d.rect)}
<1> DEFINE t == software.transform
           cells == {Inside(Moved(t, s)) : s \in OuterCorners(d.rect)}
           filled == {GlesFillRect(gles, s) : s \in OuterCorners(d.rect)}
<1>1. Passing(gles) = Inside(CurrentClip(software)) /\ gles.transform = t
  BY TwinParts, PassingClip
<1>2. \A s \in OuterCorners(d.rect) : ~Void(s)
  BY DEF OuterCorners, Void, Box
<1>3. CornersOf(d) = (UNION cells) \cap Passing(gles)
  BY <1>1 DEF CornersOf
<1>4. ASSUME NEW s \in OuterCorners(d.rect)
      PROVE  GlesFillRect(gles, s) = Inside(Moved(t, s)) \cap Passing(gles)
  BY <1>1, <1>2 DEF GlesFillRect
<1> HIDE DEF t
<1>5. ASSUME NEW p \in UNION cells, p \in Passing(gles)
      PROVE  p \in UNION filled
  <2>1. PICK s \in OuterCorners(d.rect) : p \in Inside(Moved(t, s))
    OBVIOUS
  <2>2. p \in GlesFillRect(gles, s)
    BY <1>4, <1>5, <2>1
  <2> QED BY <2>2
<1>6. ASSUME NEW p \in UNION filled
      PROVE  p \in UNION cells /\ p \in Passing(gles)
  <2>1. PICK s \in OuterCorners(d.rect) : p \in GlesFillRect(gles, s)
    OBVIOUS
  <2>2. p \in Inside(Moved(t, s)) /\ p \in Passing(gles)
    BY <1>4, <2>1
  <2> QED BY <2>2
<1> HIDE DEF cells, filled
<1>7. CornersOf(d) = UNION filled
  BY <1>3, <1>5, <1>6
<1> QED BY <1>7 DEF filled

LEMMA BorderAgrees ==
  ASSUME Twin, NEW d, d.kind = "border", d.rect \in Areas, ~Void(d.rect),
         ~LeftOfCanvas(StrokeCorners(Sides(d.rect)))
  PROVE  GlesBorder(gles, d.rect) = SoftwareStroke(software, Sides(d.rect)) \cup CornersOf(d)
<1> DEFINE r == d.rect
           t == software.transform
           F(x, y, w, h) == GlesFillRect(gles, Box(x, y, w, h))
<1>1. /\ r.x \in Int /\ r.y \in Int /\ r.w \in Int /\ r.h \in Int /\ r.w > 0 /\ r.h > 0
      /\ Right(r) = r.x + r.w /\ Bottom(r) = r.y + r.h
  BY AreaParts DEF Void, Right, Bottom
<1>2. SoftwareStroke(software, Sides(r)) =
        F(r.x, r.y - 1, r.w, 2) \cup F(Right(r) - 1, r.y, 2, r.h)
          \cup F(r.x, Bottom(r) - 1, r.w, 2) \cup F(r.x - 1, r.y, 2, r.h)
  BY SidesStroked, SideLine
<1>3. CornersOf(d) = F(r.x - 1, r.y - 1, 1, 1) \cup F(r.x - 1, Bottom(r), 1, 1)
                       \cup F(Right(r), r.y - 1, 1, 1) \cup F(Right(r), Bottom(r), 1, 1)
  <2>1. OuterCorners(r) = {Box(r.x - 1, r.y - 1, 1, 1), Box(r.x - 1, Bottom(r), 1, 1),
                           Box(Right(r), r.y - 1, 1, 1), Box(Right(r), Bottom(r), 1, 1)}
    BY DEF OuterCorners
  <2>2. CornersOf(d) = UNION {GlesFillRect(gles, s) : s \in OuterCorners(r)}
    BY CornerPixels
  <2> HIDE DEF r
  <2> QED BY <2>1, <2>2, Zenon
<1>4. GlesBorder(gles, r) =
        F(r.x - 1, r.y - 1, r.w + 2, 2) \cup F(r.x - 1, r.y + r.h - 1, r.w + 2, 2)
          \cup F(r.x - 1, r.y + 1, 2, r.h - 2) \cup F(r.x + r.w - 1, r.y + 1, 2, r.h - 2)
  <2>1. GlesBorder(gles, r) = UNION {GlesFillRect(gles, bar) : bar \in Bars(r)}
    BY DEF GlesBorder
  <2> HIDE DEF r
  <2> QED BY <2>1, Zenon DEF Bars
<1> HIDE DEF r, F
<1>5. \A x, y, w, h : F(x, y, w, h) \subseteq Pixels
  BY DEF F, GlesFillRect, Passing
<1>6. ASSUME NEW p \in Pixels
      PROVE  p \in GlesBorder(gles, r) <=> p \in SoftwareStroke(software, Sides(r)) \cup CornersOf(d)
  <2> DEFINE u == p[1] - t.x
             v == p[2] - t.y
             In(x, y, w, h) == x <= u /\ u < x + w /\ y <= v /\ v < y + h
             open == p \in Passing(gles)
  <2>1. u \in Int /\ v \in Int
    BY TwinParts, CanvasAssumption DEF Points, Pixels
  <2>2. \A x, y, w, h \in Int : p \in F(x, y, w, h) <=> open /\ In(x, y, w, h)
    BY FilledPixel DEF F
  <2> HIDE DEF u, v, open
  <2>3. p \in SoftwareStroke(software, Sides(r)) <=>
          open /\ (\/ In(r.x, r.y - 1, r.w, 2) \/ In(r.x + r.w - 1, r.y, 2, r.h)
                   \/ In(r.x, r.y + r.h - 1, r.w, 2) \/ In(r.x - 1, r.y, 2, r.h))
    <3> HIDE DEF In
    <3>1. p \in F(r.x, r.y - 1, r.w, 2) <=> open /\ In(r.x, r.y - 1, r.w, 2)
      BY <1>1, <2>2
    <3>2. p \in F(Right(r) - 1, r.y, 2, r.h) <=> open /\ In(r.x + r.w - 1, r.y, 2, r.h)
      BY <1>1, <2>2
    <3>3. p \in F(r.x, Bottom(r) - 1, r.w, 2) <=> open /\ In(r.x, r.y + r.h - 1, r.w, 2)
      BY <1>1, <2>2
    <3>4. p \in F(r.x - 1, r.y, 2, r.h) <=> open /\ In(r.x - 1, r.y, 2, r.h)
      BY <1>1, <2>2
    <3> QED BY <1>2, <3>1, <3>2, <3>3, <3>4
  <2>4. p \in CornersOf(d) <=>
          open /\ (\/ In(r.x - 1, r.y - 1, 1, 1) \/ In(r.x - 1, r.y + r.h, 1, 1)
                   \/ In(r.x + r.w, r.y - 1, 1, 1) \/ In(r.x + r.w, r.y + r.h, 1, 1))
    <3> HIDE DEF In
    <3> QED BY <1>1, <1>3, <2>2
  <2>5. p \in GlesBorder(gles, r) <=>
          open /\ (\/ In(r.x - 1, r.y - 1, r.w + 2, 2) \/ In(r.x - 1, r.y + r.h - 1, r.w + 2, 2)
                   \/ In(r.x - 1, r.y + 1, 2, r.h - 2) \/ In(r.x + r.w - 1, r.y + 1, 2, r.h - 2))
    <3> HIDE DEF In
    <3>1. p \in F(r.x - 1, r.y - 1, r.w + 2, 2) <=> open /\ In(r.x - 1, r.y - 1, r.w + 2, 2)
      BY <1>1, <2>2
    <3>2. p \in F(r.x - 1, r.y + r.h - 1, r.w + 2, 2) <=> open /\ In(r.x - 1, r.y + r.h - 1, r.w + 2, 2)
      BY <1>1, <2>2
    <3>3. p \in F(r.x - 1, r.y + 1, 2, r.h - 2) <=> open /\ In(r.x - 1, r.y + 1, 2, r.h - 2)
      BY <1>1, <2>2
    <3>4. p \in F(r.x + r.w - 1, r.y + 1, 2, r.h - 2) <=> open /\ In(r.x + r.w - 1, r.y + 1, 2, r.h - 2)
      BY <1>1, <2>2
    <3> QED BY <1>4, <3>1, <3>2, <3>3, <3>4
  <2>6. (\/ In(r.x - 1, r.y - 1, r.w + 2, 2) \/ In(r.x - 1, r.y + r.h - 1, r.w + 2, 2)
         \/ In(r.x - 1, r.y + 1, 2, r.h - 2) \/ In(r.x + r.w - 1, r.y + 1, 2, r.h - 2))
        <=> (\/ In(r.x, r.y - 1, r.w, 2) \/ In(r.x + r.w - 1, r.y, 2, r.h)
             \/ In(r.x, r.y + r.h - 1, r.w, 2) \/ In(r.x - 1, r.y, 2, r.h)
             \/ In(r.x - 1, r.y - 1, 1, 1) \/ In(r.x - 1, r.y + r.h, 1, 1)
             \/ In(r.x + r.w, r.y - 1, 1, 1) \/ In(r.x + r.w, r.y + r.h, 1, 1))
    BY <1>1, <2>1, SMTT(60)
  <2> QED BY <2>3, <2>4, <2>5, <2>6
<1>7. /\ GlesBorder(gles, r) \subseteq Pixels /\ SoftwareStroke(software, Sides(r)) \subseteq Pixels
      /\ CornersOf(d) \subseteq Pixels
  BY <1>2, <1>3, <1>4, <1>5
<1>8. GlesBorder(gles, r) = SoftwareStroke(software, Sides(r)) \cup CornersOf(d)
  BY <1>6, <1>7
<1> QED BY <1>8 DEF r

-----------------------------------------------------------------------------
(* Steps.                                                                  *)
LEMMA DrawAgrees ==
  ASSUME Twin, NEW d \in Drawings, Draw(d)
  PROVE  BackendsAgree'
<1>1. software' = software /\ drawn'.call = d
  BY DEF Draw
<1>2. /\ KnownDifference(drawn.call)' <=> KnownDifference(d)
      /\ CornersOf(drawn.call)' = CornersOf(d)
  BY <1>1 DEF KnownDifference, LeftOfCanvas, CornersOf, CurrentClip
<1> SUFFICES ASSUME ~KnownDifference(d) PROVE drawn'.gles = drawn'.software \cup CornersOf(d)
  BY <1>2 DEF BackendsAgree
<1>0. d.kind # "border" => CornersOf(d) = {}
  BY DEF CornersOf
<1>3. \/ d.kind \in {"rect", "border", "image"} /\ d.rect \in Areas
      \/ d.kind = "text" /\ d.glyphs \in SUBSET Areas
      \/ d.kind \in {"path", "stroke"} /\ IsPath(d.path)
      \/ d.kind = "line" /\ d.ends \in Points \X Points /\ Straight(d.ends[1], d.ends[2])
      \/ d.kind = "clear"
  BY CanvasAssumption
<1>4. CASE d.kind = "rect"
  <2>1. drawn'.software = SoftwareFillRect(software, d.rect) /\ drawn'.gles = GlesFillRect(gles, d.rect)
    BY <1>4 DEF Draw
  <2>2. Void(d.rect) => Void(Upright(d.rect))
    BY <1>4 DEF KnownDifference
  <2> QED BY <1>0, <1>3, <1>4, <2>1, <2>2, RectAgrees
<1>10. CASE d.kind = "border"
  <2>1. /\ drawn'.software = SoftwareStroke(software, Sides(d.rect))
        /\ drawn'.gles = GlesBorder(gles, d.rect)
    BY <1>10 DEF Draw
  <2>2. ~Void(d.rect) /\ ~LeftOfCanvas(StrokeCorners(Sides(d.rect)))
    BY <1>10 DEF KnownDifference
  <2> QED BY <1>3, <1>10, <2>1, <2>2, BorderAgrees
<1>11. CASE d.kind = "text"
  <2>1. drawn'.software = SoftwareText(d.glyphs) /\ drawn'.gles = GlesText(gles, d.glyphs)
    BY <1>11 DEF Draw
  <2>2. software.transform = Origin /\ software.clips = <<>>
    BY <1>11 DEF KnownDifference
  <2> QED BY <1>0, <1>3, <1>11, <2>1, <2>2, TextAgrees
<1>5. CASE d.kind = "image"
  <2>1. drawn'.software = SoftwareImage(software, d.rect) /\ drawn'.gles = GlesImage(gles, d.rect)
    BY <1>5 DEF Draw
  <2>2. software.transform = Origin
    BY <1>5 DEF KnownDifference
  <2> QED BY <1>0, <1>3, <1>5, <2>1, <2>2, ImageAgrees
<1>6. CASE d.kind = "path"
  <2>1. drawn'.software = SoftwareFillPath(software, d.path) /\ drawn'.gles = GlesFillPath(gles, d.path)
    BY <1>6 DEF Draw
  <2>2. ~LeftOfCanvas(Corners(d.path))
    BY <1>6 DEF KnownDifference
  <2> QED BY <1>0, <1>3, <1>6, <2>1, <2>2, PathAgrees
<1>7. CASE d.kind = "stroke"
  <2>1. /\ drawn'.software = SoftwareStroke(software, Segments(d.path))
        /\ drawn'.gles = GlesStroke(gles, Segments(d.path))
    BY <1>7 DEF Draw
  <2>2. ~LeftOfCanvas(StrokeCorners(Segments(d.path)))
    BY <1>7 DEF KnownDifference
  <2>3. Segments(d.path) \in SUBSET (Points \X Points)
    BY <1>3, <1>7, SegmentsTyped DEF IsPath
  <2> QED BY <1>0, <1>7, <2>1, <2>2, <2>3, StrokeAgrees
<1>8. CASE d.kind = "line"
  <2>1. drawn'.software = SoftwareStroke(software, {d.ends}) /\ drawn'.gles = GlesLine(gles, d.ends)
    BY <1>8 DEF Draw
  <2>2. ~LeftOfCanvas(Corners(SegmentQuad(d.ends[1], d.ends[2])))
    BY <1>8 DEF KnownDifference
  <2> QED BY <1>0, <1>3, <1>8, <2>1, <2>2, LineAgrees
<1>9. CASE d.kind = "clear"
  <2>1. drawn'.software = Pixels /\ drawn'.gles = Passing(gles)
    BY <1>9 DEF Draw
  <2>2. software.clips = <<>>
    BY <1>9 DEF KnownDifference
  <2>3. Passing(gles) = Inside(Screen)
    BY <2>2, PassingClip DEF CurrentClip
  <2> QED BY <1>0, <1>9, <2>1, <2>3, InsideScreen
<1> QED BY <1>3, <1>4, <1>5, <1>6, <1>7, <1>8, <1>9, <1>10, <1>11

LEMMA ScissorTyped ==
  ASSUME NEW clips \in Seq(Areas)
  PROVE  ScissorOf(clips) \in Scissors
<1>1. CASE clips = <<>>
  BY <1>1, InsideScreen DEF ScissorOf, Off, Scissors
<1>2. CASE clips # <<>>
  <2> DEFINE r == Top(clips)
  <2>1. r \in Areas
    BY <1>2 DEF Top
  <2>2. Height - Bottom(r) \in Int
    BY <2>1, AreaParts, CanvasAssumption DEF Bottom
  <2> HIDE DEF r
  <2>3. [r EXCEPT !.y = Height - Bottom(r)] \in Areas
    BY <2>1, <2>2 DEF Areas
  <2>4. ScissorOf(clips) = [enabled |-> TRUE, box |-> IF Void(r) THEN r ELSE [r EXCEPT !.y = Height - Bottom(r)]]
    BY <1>2 DEF ScissorOf, r
  <2> QED BY <2>1, <2>3, <2>4 DEF Scissors
<1> QED BY <1>1, <1>2

Plain == [transform : Points, clips : Seq(Areas), states : Seq(States)]
WithScissor == [transform : Points, clips : Seq(Areas), states : Seq(States), scissor : Scissors]
Alike(s, g) == g.transform = s.transform /\ g.clips = s.clips /\ g.states = s.states

LEMMA Unscissored == Off \in Scissors /\ ScissorOf(<<>>) = Off
<1>1. <<>> \in Seq(Areas)
  OBVIOUS
<1>2. ScissorOf(<<>>) = Off
  BY DEF ScissorOf
<1> QED BY <1>1, <1>2, ScissorTyped

LEMMA BeginOK ==
  ASSUME NEW g \in WithScissor, NEW v \in Scissors
  PROVE  /\ [g EXCEPT !.clips = <<>>, !.scissor = v] \in WithScissor
         /\ [g EXCEPT !.clips = <<>>, !.scissor = v].scissor = v
         /\ [g EXCEPT !.clips = <<>>, !.scissor = v].clips = <<>>
         /\ [g EXCEPT !.clips = <<>>, !.scissor = v].transform = g.transform
         /\ [g EXCEPT !.clips = <<>>, !.scissor = v].states = g.states
<1>1. <<>> \in Seq(Areas)
  OBVIOUS
<1> QED BY <1>1 DEF WithScissor

LEMMA ApplyScissorOK ==
  ASSUME NEW s \in Plain, NEW g \in WithScissor, Alike(s, g)
  PROVE  /\ ApplyScissor(g) \in WithScissor /\ Alike(s, ApplyScissor(g))
         /\ ApplyScissor(g).scissor = ScissorOf(s.clips)
<1>1. ApplyScissor(g) = [g EXCEPT !.scissor = ScissorOf(g.clips)]
  BY DEF ApplyScissor, ScissorOf
<1>2. g.clips \in Seq(Areas) /\ g.clips = s.clips
  BY DEF WithScissor, Alike
<1>3. ScissorOf(g.clips) \in Scissors
  BY <1>2, ScissorTyped
<1> DEFINE v == ScissorOf(g.clips)
<1> HIDE DEF v
<1>4. [g EXCEPT !.scissor = v] \in WithScissor
  BY <1>3 DEF WithScissor, v
<1>5. [g EXCEPT !.scissor = v].scissor = v /\ Alike(s, [g EXCEPT !.scissor = v])
  BY DEF WithScissor, Alike
<1> QED BY <1>1, <1>2, <1>4, <1>5 DEF v

(* The operations on the stacks do the same to both.                       *)
LEMMA SavedOK ==
  ASSUME NEW s \in Plain, NEW g \in WithScissor, Alike(s, g)
  PROVE  Saved(s) \in Plain /\ Saved(g) \in WithScissor /\ Alike(Saved(s), Saved(g))
         /\ Saved(g).scissor = g.scissor /\ Saved(s).clips = s.clips
<1> DEFINE r == [transform |-> s.transform, depth |-> Len(s.clips)]
           n == Append(s.states, r)
<1>1. r \in States
  BY DEF Plain, States
<1>2. n \in Seq(States)
  BY <1>1 DEF Plain
<1>3. Saved(s) = [s EXCEPT !.states = n]
  BY DEF Saved, Plain
<1>4. Saved(g) = [g EXCEPT !.states = n]
  BY DEF Saved, WithScissor, Alike
<1> HIDE DEF n
<1> QED BY <1>2, <1>3, <1>4 DEF Plain, WithScissor, Alike

LEMMA StateRestoredOK ==
  ASSUME NEW s \in Plain, NEW g \in WithScissor, Alike(s, g)
  PROVE  Restored(s) \in Plain /\ Restored(g) \in WithScissor /\ Alike(Restored(s), Restored(g))
<1>0. s.states \in Seq(States) /\ s.clips \in Seq(Areas) /\ g.states = s.states /\ g.clips = s.clips
  BY DEF Plain, Alike
<1>1. CASE s.states = <<>>
  BY <1>0, <1>1 DEF Restored
<1>2. CASE s.states # <<>>
  <2> DEFINE top == Top(s.states)
             m == Butlast(s.states)
             k == SubSeq(s.clips, 1, Smaller(Len(s.clips), top.depth))
  <2>1. top \in States
    BY <1>0, <1>2 DEF Top
  <2>2. m \in Seq(States)
    BY <1>0, <1>2 DEF Butlast
  <2>3. k \in Seq(Areas)
    <3>1. Len(s.clips) \in Nat /\ top.depth \in Nat
      BY <1>0, <2>1 DEF States
    <3>2. Smaller(Len(s.clips), top.depth) \in 0..Len(s.clips)
      BY <3>1 DEF Smaller
    <3> QED BY <1>0, <3>2
  <2>4. Restored(s) = [s EXCEPT !.states = m, !.transform = top.transform, !.clips = k]
    BY <1>2 DEF Restored, Plain
  <2>5. Restored(g) = [g EXCEPT !.states = m, !.transform = top.transform, !.clips = k]
    BY <1>0, <1>2 DEF Restored, WithScissor
  <2>6. top.transform \in Points
    BY <2>1 DEF States
  <2> DEFINE u == top.transform
  <2> HIDE DEF top, m, k, u
  <2>7. [s EXCEPT !.states = m, !.transform = u, !.clips = k] \in Plain
    BY <2>2, <2>3, <2>6 DEF Plain, u
  <2>8. [g EXCEPT !.states = m, !.transform = u, !.clips = k] \in WithScissor
    BY <2>2, <2>3, <2>6 DEF WithScissor, u
  <2>9. Alike([s EXCEPT !.states = m, !.transform = u, !.clips = k],
              [g EXCEPT !.states = m, !.transform = u, !.clips = k])
    BY DEF Alike, Plain, WithScissor
  <2> QED BY <2>4, <2>5, <2>7, <2>8, <2>9 DEF u
<1> QED BY <1>1, <1>2

(* A state saved and restored at once is what it was.                      *)
LEMMA SavedRestored ==
  ASSUME NEW s \in Plain
  PROVE  Restored(Saved(s)) = s
<1> DEFINE r == [transform |-> s.transform, depth |-> Len(s.clips)]
           n == Append(s.states, r)
           u == [s EXCEPT !.states = n]
<1>1. s.states \in Seq(States) /\ s.clips \in Seq(Areas) /\ Len(s.clips) \in Nat
  BY DEF Plain
<1>2. r \in States
  BY <1>1 DEF Plain, States
<1>3. n \in Seq(States) /\ n # <<>> /\ Top(n) = r /\ Butlast(n) = s.states
  <2> HIDE DEF r
  <2> QED BY <1>1, <1>2 DEF Top, Butlast
<1>4. Saved(s) = u
  BY DEF Saved, Plain
<1>5. SubSeq(s.clips, 1, Smaller(Len(s.clips), r.depth)) = s.clips
  <2>1. Smaller(Len(s.clips), r.depth) = Len(s.clips)
    BY <1>1 DEF Smaller
  <2> QED BY <1>1, <2>1
<1> HIDE DEF n
<1>6. u \in Plain /\ u.states = n /\ u.clips = s.clips /\ u.transform = s.transform
  BY <1>3 DEF Plain
<1> HIDE DEF u
<1>7. Restored(u) = [u EXCEPT !.states = s.states, !.transform = r.transform, !.clips = s.clips]
  BY <1>3, <1>5, <1>6 DEF Restored, Plain
<1>8. r.transform = s.transform
  OBVIOUS
<1> HIDE DEF r
<1>9. [u EXCEPT !.states = s.states, !.transform = s.transform, !.clips = s.clips] = s
  BY <1>6 DEF Plain
<1> QED BY <1>4, <1>7, <1>8, <1>9

LEMMA ClippedOK ==
  ASSUME NEW s \in Plain, NEW g \in WithScissor, Alike(s, g), NEW r \in Areas
  PROVE  Clipped(s, r) \in Plain /\ Clipped(g, r) \in WithScissor /\ Alike(Clipped(s, r), Clipped(g, r))
<1> DEFINE c == CurrentClip(s)
           n == Append(s.clips, Intersect(c, r))
<1>0. s.clips \in Seq(Areas) /\ g.clips = s.clips
  BY DEF Plain, Alike
<1>1. c \in Areas
  BY <1>0, InsideScreen DEF CurrentClip, Top
<1>2. n \in Seq(Areas)
  <2> HIDE DEF c
  <2>1. Intersect(c, r) \in Areas
    BY <1>1, IntersectArea
  <2> QED BY <1>0, <2>1
<1>3. Clipped(s, r) = [s EXCEPT !.clips = n]
  BY DEF Clipped, Plain
<1>4. Clipped(g, r) = [g EXCEPT !.clips = n]
  BY <1>0 DEF Clipped, WithScissor, CurrentClip
<1> HIDE DEF n
<1> QED BY <1>2, <1>3, <1>4 DEF Plain, WithScissor, Alike

LEMMA UnclippedOK ==
  ASSUME NEW s \in Plain, NEW g \in WithScissor, Alike(s, g)
  PROVE  Unclipped(s) \in Plain /\ Unclipped(g) \in WithScissor /\ Alike(Unclipped(s), Unclipped(g))
<1>0. s.clips \in Seq(Areas) /\ g.clips = s.clips
  BY DEF Plain, Alike
<1>1. CASE s.clips = <<>>
  BY <1>0, <1>1 DEF Unclipped
<1>2. CASE s.clips # <<>>
  <2> DEFINE n == Butlast(s.clips)
  <2>1. n \in Seq(Areas)
    BY <1>0, <1>2 DEF Butlast
  <2>2. Unclipped(s) = [s EXCEPT !.clips = n] /\ Unclipped(g) = [g EXCEPT !.clips = n]
    BY <1>0, <1>2 DEF Unclipped, Plain, WithScissor
  <2> HIDE DEF n
  <2> QED BY <2>1, <2>2 DEF Plain, WithScissor, Alike
<1> QED BY <1>1, <1>2

LEMMA CornersFinite ==
  ASSUME NEW path \in Seq(Seq(Points))
  PROVE  IsFiniteSet(Corners(path)) /\ Corners(path) \subseteq Points
<1> DEFINE of(i) == {path[i][j] : j \in DOMAIN path[i]}
<1>1. ASSUME NEW i \in DOMAIN path
      PROVE  IsFiniteSet(of(i)) /\ of(i) \subseteq Points
  <2> DEFINE g == path[i]
  <2>1. g \in Seq(Points)
    BY <1>1
  <2>2. DOMAIN g = 1..Len(g) /\ Len(g) \in Nat
    BY <2>1
  <2>3. \A n \in Nat : IsFiniteSet(1..n)
    BY FS_Interval
  <2>4. g = [j \in DOMAIN g |-> g[j]]
    BY <2>1
  <2> HIDE DEF g
  <2>5. IsFiniteSet({g[j] : j \in DOMAIN g})
    <3> DEFINE D == DOMAIN g
    <3>1. IsFiniteSet(D)
      BY <2>2, <2>3
    <3>2. g = [j \in D |-> g[j]]
      BY <2>4
    <3>3. DOMAIN g = D
      OBVIOUS
    <3> HIDE DEF D
    <3>4. IsFiniteSet({g[j] : j \in D})
      BY <3>1, <3>2, <3>3, ImageFinite
    <3> QED BY <3>4 DEF D
  <2>6. {g[j] : j \in DOMAIN g} \subseteq Points
    BY <2>1
  <2> QED BY <2>5, <2>6 DEF g
<1>2. IsFiniteSet(DOMAIN path)
  <2>1. DOMAIN path = 1..Len(path) /\ Len(path) \in Nat
    OBVIOUS
  <2> QED BY <2>1, FS_Interval
<1> DEFINE h == [i \in DOMAIN path |-> of(i)]
           All == {h[i] : i \in DOMAIN path}
<1> HIDE DEF of
<1>3. IsFiniteSet(All)
  BY <1>2, ImageFinite
<1>4. \A T \in All : IsFiniteSet(T) /\ T \subseteq Points
  BY <1>1
<1>5. Corners(path) = UNION All
  <2>1. All = {of(i) : i \in DOMAIN path}
    OBVIOUS
  <2> QED BY <2>1 DEF Corners, of
<1> HIDE DEF All
<1>6. IsFiniteSet(UNION All)
  BY <1>3, <1>4, FS_UNION
<1> QED BY <1>4, <1>5, <1>6

LEMMA BoundsArea ==
  ASSUME NEW path, IsPath(path)
  PROVE  Bounds(path) \in Areas
<1> DEFINE corners == Corners(path)
           f == [p \in corners |-> p.x]
           g == [p \in corners |-> p.y]
           xs == {f[p] : p \in corners}
           ys == {g[p] : p \in corners}
<1>1. path \in Seq(Seq(Points))
  BY DEF IsPath
<1>2. IsFiniteSet(corners) /\ corners \subseteq Points
  BY <1>1, CornersFinite
<1>3. corners # {}
  <2>1. PICK i \in DOMAIN path : path[i] # <<>>
    BY DEF IsPath
  <2>2. path[i] \in Seq(Points) /\ 1 \in DOMAIN path[i]
    BY <1>1, <2>1
  <2>3. path[i][1] \in Corners(path)
    BY <2>2 DEF Corners
  <2> QED BY <2>3
<1> HIDE DEF corners
<1>4. IsFiniteSet(xs) /\ IsFiniteSet(ys)
  BY <1>2, ImageFinite
<1>5. xs \in SUBSET Int /\ ys \in SUBSET Int /\ xs # {} /\ ys # {}
  BY <1>2, <1>3 DEF Points
<1>6. xs = {p.x : p \in corners} /\ ys = {p.y : p \in corners}
  OBVIOUS
<1> HIDE DEF xs, ys
<1>7. Min(xs) \in Int /\ Max(xs) \in Int /\ Min(ys) \in Int /\ Max(ys) \in Int
  BY <1>4, <1>5, MinOfFinite, MaxOfFinite
<1>8. Bounds(path) = Box(Min(xs), Min(ys), Max(xs) - Min(xs), Max(ys) - Min(ys))
  BY <1>6 DEF Bounds, corners
<1> QED BY <1>7, <1>8 DEF Box, Areas

LEMMA NothingAgrees == ASSUME NothingDrawn PROVE BackendsAgree'
<1>1. drawn'.call = NoDrawing /\ NoDrawing.kind = "none"
  BY DEF NothingDrawn, NoDrawing
<1> QED BY <1>1 DEF BackendsAgree, KnownDifference

LEMMA TwinIs ==
  Twin <=> /\ software \in Plain /\ gles \in WithScissor /\ Alike(software, gles)
           /\ gles.scissor = ScissorOf(software.clips)
BY DEF Twin, Plain, WithScissor, Alike

LEMMA TwinIsNext ==
  Twin' <=> /\ software' \in Plain /\ gles' \in WithScissor /\ Alike(software', gles')
            /\ gles'.scissor = ScissorOf(software'.clips)
BY DEF Twin, Plain, WithScissor, Alike, ScissorOf, Off, Screen, Scissors

LEMMA CanvasStep == CanvasInv /\ [CanvasNext]_canvasVars => CanvasInv'
<1> SUFFICES ASSUME CanvasInv, [CanvasNext]_canvasVars PROVE CanvasInv'
  OBVIOUS
<1> DEFINE s == software
           g == gles
<1>0. Twin /\ s \in Plain /\ g \in WithScissor /\ Alike(s, g) /\ g.scissor = ScissorOf(s.clips)
  BY TwinIs DEF CanvasInv
<1>1. CASE PushState
  <2>1. Saved(s) \in Plain /\ Saved(g) \in WithScissor /\ Alike(Saved(s), Saved(g))
         /\ Saved(g).scissor = g.scissor /\ Saved(s).clips = s.clips
    BY <1>0, SavedOK
  <2>2. software' = Saved(s) /\ gles' = Saved(g) /\ NothingDrawn
    BY <1>1 DEF PushState
  <2>3. Twin'
    BY <1>0, <2>1, <2>2, TwinIsNext
  <2> QED BY <2>2, <2>3, NothingAgrees DEF CanvasInv
<1>2. CASE PopState
  <2>1. Restored(s) \in Plain /\ Restored(g) \in WithScissor /\ Alike(Restored(s), Restored(g))
    BY <1>0, StateRestoredOK
  <2>2. software' = Restored(s) /\ gles' = ApplyScissor(Restored(g)) /\ NothingDrawn
    BY <1>2 DEF PopState
  <2>3. Twin'
    BY <2>1, <2>2, ApplyScissorOK, TwinIsNext
  <2> QED BY <2>2, <2>3, NothingAgrees DEF CanvasInv
<1>3. CASE PopClip
  <2>1. Unclipped(s) \in Plain /\ Unclipped(g) \in WithScissor /\ Alike(Unclipped(s), Unclipped(g))
    BY <1>0, UnclippedOK
  <2>2. software' = Unclipped(s) /\ gles' = ApplyScissor(Unclipped(g)) /\ NothingDrawn
    BY <1>3 DEF PopClip
  <2>3. Twin'
    BY <2>1, <2>2, ApplyScissorOK, TwinIsNext
  <2> QED BY <2>2, <2>3, NothingAgrees DEF CanvasInv
<1>4. ASSUME NEW r \in Areas, PushClipRect(r) PROVE CanvasInv'
  <2>1. Clipped(s, r) \in Plain /\ Clipped(g, r) \in WithScissor /\ Alike(Clipped(s, r), Clipped(g, r))
    BY <1>0, ClippedOK
  <2>2. software' = Clipped(s, r) /\ gles' = ApplyScissor(Clipped(g, r)) /\ NothingDrawn
    BY <1>4 DEF PushClipRect
  <2>3. Twin'
    BY <2>1, <2>2, ApplyScissorOK, TwinIsNext
  <2> QED BY <2>2, <2>3, NothingAgrees DEF CanvasInv
<1>5. ASSUME NEW t \in Points, SetTransform(t) PROVE CanvasInv'
  <2>1. software' = [s EXCEPT !.transform = t] /\ gles' = [g EXCEPT !.transform = t] /\ NothingDrawn
    BY <1>5 DEF SetTransform
  <2>2. software' \in Plain /\ software'.clips = s.clips
    BY <1>0, <2>1 DEF Plain
  <2>3. gles' \in WithScissor /\ gles'.scissor = g.scissor
    BY <1>0, <2>1 DEF WithScissor
  <2>4. Alike(software', gles')
    BY <1>0, <2>1 DEF Alike, Plain, WithScissor
  <2>5. Twin'
    BY <1>0, <2>2, <2>3, <2>4, TwinIsNext
  <2> QED BY <2>1, <2>5, NothingAgrees DEF CanvasInv
<1>6. CASE software.clips = <<>> /\ Begin
  <2>1. software' = s /\ gles' = [g EXCEPT !.clips = <<>>, !.scissor = Off] /\ NothingDrawn /\ s.clips = <<>>
    BY <1>6 DEF Begin
  <2>2. Off \in Scissors /\ ScissorOf(<<>>) = Off
    BY Unscissored
  <2>3. /\ gles' \in WithScissor /\ gles'.scissor = Off /\ gles'.clips = <<>>
        /\ gles'.transform = g.transform /\ gles'.states = g.states
    BY <1>0, <2>1, <2>2, BeginOK
  <2>4. Alike(software', gles')
    BY <1>0, <2>1, <2>3 DEF Alike
  <2>5. Twin'
    BY <1>0, <2>1, <2>2, <2>3, <2>4, TwinIsNext
  <2> QED BY <2>1, <2>5, NothingAgrees DEF CanvasInv
<1>7. ASSUME NEW d \in Drawings, Draw(d) PROVE CanvasInv'
  <2>1. BackendsAgree'
    BY <1>0, <1>7, DrawAgrees
  <2>2. software' = s
    BY <1>7 DEF Draw
  <2>3. CASE d.kind # "line"
    <3>1. gles' = g
      BY <1>7, <2>3 DEF Draw
    <3>2. Twin'
      BY <1>0, <2>2, <3>1, TwinIsNext
    <3> QED BY <2>1, <3>2 DEF CanvasInv
  <2>4. CASE d.kind = "line"
    <3>1. gles' = ApplyScissor(Restored(Saved(g)))
      BY <1>7, <2>4 DEF Draw
    <3>2. /\ Saved(s) \in Plain /\ Saved(g) \in WithScissor /\ Alike(Saved(s), Saved(g))
      BY <1>0, SavedOK
    <3>3. /\ Restored(Saved(s)) \in Plain /\ Restored(Saved(g)) \in WithScissor
          /\ Alike(Restored(Saved(s)), Restored(Saved(g)))
      BY <3>2, StateRestoredOK
    <3>4. Restored(Saved(s)) = s
      BY <1>0, SavedRestored
    <3>5. Twin'
      BY <2>2, <3>1, <3>3, <3>4, ApplyScissorOK, TwinIsNext
    <3> QED BY <2>1, <3>5 DEF CanvasInv
  <2> QED BY <2>3, <2>4
<1>8. CASE UNCHANGED canvasVars
  <2>1. software' = s /\ gles' = g /\ drawn' = drawn
    BY <1>8 DEF canvasVars
  <2>2. Twin'
    BY <1>0, <2>1, TwinIsNext
  <2>3. BackendsAgree'
    BY <2>1 DEF CanvasInv, BackendsAgree, KnownDifference, LeftOfCanvas, CornersOf, CurrentClip
  <2> QED BY <2>2, <2>3 DEF CanvasInv
<1>9. ASSUME NEW d \in Drawings, d.kind = "path" /\ PushClipPath(d.path) PROVE CanvasInv'
  <2>1. IsPath(d.path)
    BY <1>9, CanvasAssumption
  <2>2. Bounds(d.path) \in Areas
    BY <2>1, BoundsArea
  <2> QED BY <1>4, <1>9, <2>2 DEF PushClipPath
<1>10. ClipRects \subseteq Areas /\ Shifts \subseteq Points
  BY CanvasAssumption
<1> QED BY <1>1, <1>2, <1>3, <1>4, <1>5, <1>6, <1>7, <1>8, <1>9, <1>10 DEF CanvasNext

LEMMA CanvasStart == CanvasInit => CanvasInv
<1> SUFFICES ASSUME CanvasInit PROVE CanvasInv
  OBVIOUS
<1>1. Origin \in Points /\ <<>> \in Seq(Areas) /\ <<>> \in Seq(States)
  BY DEF Origin, Points
<1>2. Off \in Scissors /\ ScissorOf(<<>>) = Off
  BY Unscissored
<1>3. software = [transform |-> Origin, clips |-> <<>>, states |-> <<>>]
      /\ gles = [transform |-> Origin, clips |-> <<>>, states |-> <<>>, scissor |-> Off]
  BY DEF CanvasInit
<1>4. Twin
  BY <1>1, <1>2, <1>3 DEF Twin
<1>5. drawn.call = NoDrawing /\ NoDrawing.kind = "none"
  BY DEF CanvasInit, NoDrawing
<1> QED BY <1>4, <1>5 DEF CanvasInv, BackendsAgree, KnownDifference

(* On a canvas of any size, after any calls that came before, a drawing    *)
(* reaches the same pixels on both backends, but for the differences       *)
(* KnownDifference names and the corners of borders, which only GLES       *)
(* paints.                                                                 *)
THEOREM BackendsAlike == CanvasSpec => []BackendsAgree
<1>1. CanvasInv => BackendsAgree
  BY DEF CanvasInv
<1> QED BY <1>1, CanvasStart, CanvasStep, PTL DEF CanvasSpec

=============================================================================
