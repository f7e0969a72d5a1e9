------------------------------ MODULE Renderer ------------------------------
(***************************************************************************)
(* render::Record: the display list of a tree of layout boxes. A box emits *)
(* its layer, background, rounded border, clip and text, then its children *)
(* in z-index order (equal z-index keeps document order), then closes what *)
(* it opened.                                                              *)
(* A hidden box emits nothing, and neither do its descendants.             *)
(***************************************************************************)
EXTENDS DisplayList, SequencesExt

CONSTANTS
  Boxes,      \* layout boxes of the document
  Root,       \* the box of the root element
  Kids,       \* [Boxes -> Seq(Boxes)]: children in document order
  BoxRect,    \* [Boxes -> Rects]: border box of each box
  MaxColor,   \* colours are 0..MaxColor, 0 is fully transparent
  Opaque,     \* opacities are 0..Opaque
  MaxZ        \* z-index values are 0..MaxZ

ASSUME BoxesAssumption ==
  /\ Root \in Boxes
  /\ Kids \in [Boxes -> Seq(Boxes)]
  /\ BoxRect \in [Boxes -> Rects]
  /\ MaxColor \in Nat /\ Opaque \in Nat /\ MaxZ \in Nat

(* The part of a computed style that the recorder looks at, and the        *)
(* transitions: whether the style lists one of the background, and how     *)
(* long it lasts.                                                          *)
Style == [bg: 0..MaxColor, border: 0..MaxColor, text: 0..MaxColor,
          opacity: 0..Opaque, clip: BOOLEAN, hidden: BOOLEAN, z: 0..MaxZ,
          lists: BOOLEAN, lasts: Nat]

(* std::stable_sort of the children by z-index. *)
PaintOrder(kids, style) ==
  FlattenSeq([k \in 1..(MaxZ + 1) |-> SelectSeq(kids, LAMBDA b : style[b].z = k - 1)])

RecordBox(style) ==
  LET list[b \in Boxes] ==
        LET s       == style[b]
            layer   == s.opacity < Opaque
            kids    == PaintOrder(Kids[b], style)
            emit(on, cmd) == IF on THEN <<cmd>> ELSE <<>>
        IN IF s.hidden THEN <<>>
           ELSE emit(layer, PushLayer(BoxRect[b], s.opacity))
                \o emit(s.bg > 0, FillRect(BoxRect[b], s.bg))
                \o emit(s.border > 0, StrokeRoundedRect(BoxRect[b], s.border))
                \o emit(s.clip, PushClipRect(BoxRect[b]))
                \o emit(s.text > 0, DrawText(BoxRect[b], s.text))
                \o FlattenSeq([i \in 1..Len(kids) |-> list[kids[i]]])
                \o emit(s.clip, PopClip)
                \o emit(layer, PopLayer)
  IN list

Record(style) == RecordBox(style)[Root]

=============================================================================
