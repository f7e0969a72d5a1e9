---------------------------- MODULE DisplayList ----------------------------
(***************************************************************************)
(* Display lists as veloxa/core/render defines them: the paint commands a  *)
(* frame records, the dirty rectangle computed by comparing two lists, and *)
(* what replaying a list leaves in one cell of the canvas.                 *)
(*                                                                         *)
(* Geometry is kept on one axis: x and y go through the same min and max,  *)
(* so a rectangle is the half-open interval lo .. hi-1 of canvas cells.    *)
(* The picture is defined without replaying command by command: a command  *)
(* reaches a cell when the cell is in its footprint and inside every clip  *)
(* that is open at that point of the list, and it carries the opacities of *)
(* the layers open there. On the software canvas a clip bounds every       *)
(* command but text drawn with a loaded font, and a layer has no bounds.   *)
(***************************************************************************)
EXTENDS Naturals, Sequences, FiniteSets

CONSTANTS
  Width,        \* cells of the viewport
  FontLoaded    \* TRUE once LoadFont succeeded: text is drawn from glyphs

ASSUME WidthAssumption == Width \in Nat \ {0} /\ FontLoaded \in BOOLEAN

Rects    == [lo: 0..Width, hi: 0..Width]
Viewport == [lo |-> 0, hi |-> Width]
NoRect   == [lo |-> 0, hi |-> 0]

IsEmpty(r)  == r.hi <= r.lo
CellsOf(r)  == {c \in 0..Width : r.lo <= c /\ c < r.hi}
Canvas      == CellsOf(Viewport)

(* Fill stands for boxes, square borders and images. A rounded border is a *)
(* line two cells wide along the middle of the border: the rectangle of    *)
(* the command is one cell smaller than the box on either side.            *)
FillRect(r, v)      == [kind |-> "fill", rect |-> r, val |-> v]
StrokeRoundedRect(r, v) ==
  [kind |-> "stroke", val |-> v,
   rect |-> IF r.lo + 2 <= r.hi THEN [lo |-> r.lo + 1, hi |-> r.hi - 1] ELSE NoRect]
DrawText(r, v)      == [kind |-> "text", rect |-> r, val |-> v]
PushClipRect(r)     == [kind |-> "clip", rect |-> r, val |-> 0]
PushLayer(r, alpha) == [kind |-> "layer", rect |-> r, val |-> alpha]
PopClip             == [kind |-> "popclip", rect |-> NoRect, val |-> 0]
PopLayer            == [kind |-> "poplayer", rect |-> NoRect, val |-> 0]

Commands == [kind: {"fill", "stroke", "text", "clip", "layer", "popclip", "poplayer"},
             rect: Rects, val: Nat]

----------------------------------------------------------------------------
(* Rect::Union folded over a set of rectangles: empty ones do not count.   *)

Least(S)    == CHOOSE n \in S : \A m \in S : n <= m
Greatest(S) == CHOOSE n \in S : \A m \in S : m <= n

UnionOf(R) ==
  LET solid == {r \in R : ~IsEmpty(r)}
  IN IF solid = {} THEN NoRect
     ELSE [lo |-> Least({r.lo : r \in solid}),
           hi |-> Greatest({r.hi : r \in solid})]

(* Mutant: where a command used to be is not repainted. *)
DirtyRectOfNew(old, new) ==
  IF Len(old) # Len(new) THEN Viewport
  ELSE UnionOf({new[i].rect : i \in {k \in DOMAIN old : old[k] # new[k]}})

(* Lists of different length repaint the viewport; otherwise the rectangles *)
(* of the commands that differ, old and new, are joined.                    *)
ComputeDirtyRect(old, new) ==
  IF Len(old) # Len(new) THEN Viewport
  ELSE LET changed == {i \in DOMAIN old : old[i] # new[i]}
       IN UnionOf({old[i].rect : i \in changed} \cup {new[i].rect : i \in changed})

----------------------------------------------------------------------------
(* The picture a replay leaves. *)

IsPush(cmd) == cmd.kind \in {"clip", "layer"}
IsPop(cmd)  == cmd.kind \in {"popclip", "poplayer"}

(* The command at j has been pushed and not yet popped when i is replayed. *)
OpenAt(list, j, i) ==
  /\ IsPush(list[j])
  /\ \A k \in j..(i - 1) :
        Cardinality({m \in j..k : IsPush(list[m])})
          > Cardinality({m \in j..k : IsPop(list[m])})

OpenClips(list, i)  == {j \in 1..(i - 1) : list[j].kind = "clip" /\ OpenAt(list, j, i)}
OpenLayers(list, i) == {j \in 1..(i - 1) : list[j].kind = "layer" /\ OpenAt(list, j, i)}

Footprint(cmd) ==
  CASE cmd.kind \in {"fill", "text"} -> CellsOf(cmd.rect)
    [] cmd.kind = "stroke" /\ ~IsEmpty(cmd.rect) ->
         {c \in Canvas : \/ c \in (cmd.rect.lo - 1)..cmd.rect.lo
                         \/ c \in (cmd.rect.hi - 1)..cmd.rect.hi}
    [] OTHER -> {}

Unclipped(cmd) == cmd.kind = "text" /\ FontLoaded

Reaches(list, i, c) ==
  /\ c \in Footprint(list[i])
  /\ Unclipped(list[i]) \/ \A j \in OpenClips(list, i) : c \in CellsOf(list[j].rect)

LayersOver(list, i) == {<<j, list[j].val>> : j \in OpenLayers(list, i)}

Blend(list, i, pass) ==
  [at |-> i, val |-> list[i].val, pass |-> pass, through |-> LayersOver(list, i)]

(* What cell c shows: the commands that reach it, in list order, each with *)
(* the layers it is composited through. The empty set is plain white.      *)
Picture(list, c) ==
  {Blend(list, i, "first") : i \in {k \in DOMAIN list : Reaches(list, k, c)}}

(* What a replay adds to a cell outside the clip: text that ignores the    *)
(* clip is blended over what the cell showed.                              *)
Overdrawn(list, c) ==
  {Blend(list, i, "again") :
     i \in {k \in DOMAIN list : Unclipped(list[k]) /\ Reaches(list, k, c)}}

(* Update's repaint: nothing when the dirty rectangle is empty; otherwise  *)
(* clip to it, clear it and replay the list.                               *)
Repaint(screen, dirtyRect, new) ==
  IF IsEmpty(dirtyRect) THEN screen
  ELSE [c \in Canvas |-> IF c \in CellsOf(dirtyRect) THEN Picture(new, c)
                         ELSE screen[c] \cup Overdrawn(new, c)]

----------------------------------------------------------------------------
(* What lists of one length must have in common for a repaint of the dirty *)
(* rectangle to be enough: a command that stays as it was stays under the  *)
(* same clips and layers, one that changes is not a rounded border, and no *)
(* text ignores the clip.                                                  *)
RepaintSafe(old, new) ==
  Len(old) = Len(new) =>
    \A i \in DOMAIN old :
      /\ ~Unclipped(old[i]) /\ ~Unclipped(new[i])
      /\ old[i] = new[i] => /\ OpenClips(old, i) = OpenClips(new, i)
                            /\ LayersOver(old, i) = LayersOver(new, i)
      /\ old[i] # new[i] => "stroke" \notin {old[i].kind, new[i].kind}

=============================================================================
