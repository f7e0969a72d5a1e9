----------------------------- MODULE LayoutBox -----------------------------
(* The boxes of core/layout: what a box holds, its geometry, the lengths   *)
(* of a style in pixels, and the accumulator of vertical margins           *)
(* (layout_box.h, layout_utils.cc, margin_collapse.h).                     *)
(*                                                                         *)
(* Lengths are integers of a unit small enough for the halves and fifths   *)
(* the code takes; a division that is not exact is rounded down. The four  *)
(* sides of a box are top, right, bottom, left: 1, 2, 3, 4.                *)
EXTENDS Integers, Sequences, SequencesExt

CONSTANTS
  ViewWidth,    \* LayoutContext::viewport_width
  ViewHeight,   \* LayoutContext::viewport_height
  RootFont      \* LayoutContext::root_font_size

ASSUME LayoutAssumption == {ViewWidth, ViewHeight, RootFont} \subseteq Nat

-----------------------------------------------------------------------------
(* A style, as far as layout reads it; a length has a unit and a value.    *)
NotSet  == [unit |-> "none", value |-> 0]
Px(v)  == [unit |-> "px", value |-> v]
Nothing4 == [s \in 1 .. 4 |-> Px(0)]

InitialStyle ==
  [display |-> "block", position |-> "static", overflow |-> "visible", boxSizing |-> "content",
   width |-> NotSet, height |-> NotSet, minWidth |-> NotSet, minHeight |-> NotSet,
   maxWidth |-> NotSet, maxHeight |-> NotSet,
   padding |-> Nothing4, margin |-> Nothing4, borderWidth |-> Nothing4,
   borderStyle |-> [s \in 1 .. 4 |-> "none"],
   offset |-> [s \in 1 .. 4 |-> NotSet],          \* top, right, bottom, left
   fontSize |-> NotSet, lineHeight |-> NotSet, vAlign |-> "baseline", vOffset |-> Px(0),
   direction |-> "row", wrap |-> FALSE, justify |-> "flex-start", items |-> "stretch", self |-> "auto",
   gap |-> Px(0), basis |-> NotSet, grow |-> 0, shrink |-> 1]

IsUnset(len) == len.unit \in {"none", "auto"}    \* is_none() || is_auto()

ResolveLength(len, containing, font) ==
  CASE len.unit = "px"      -> len.value
    [] len.unit = "percent" -> (len.value * containing) \div 100
    [] len.unit = "em"      -> len.value * font
    [] len.unit = "rem"     -> len.value * RootFont
    [] len.unit = "vw"      -> (len.value * ViewWidth) \div 100
    [] len.unit = "vh"      -> (len.value * ViewHeight) \div 100
    [] OTHER                -> 0

ResolveFontSize(style) ==
  IF style.fontSize.unit = "none" THEN RootFont ELSE ResolveLength(style.fontSize, RootFont, RootFont)

-----------------------------------------------------------------------------
(* A box. A text box keeps the style of its parent, which BuildTree gives  *)
(* it. "lines" is the first and the last child of each line and the line's *)
(* top and height, which the code drops once the children have their place.*)
NewBox(type, style) ==
  [type |-> type, style |-> style, size |-> 0, kids |-> <<>>, lines |-> <<>>,
   x |-> 0, y |-> 0, w |-> 0, h |-> 0,
   padding |-> <<0, 0, 0, 0>>, border |-> <<0, 0, 0, 0>>, margin |-> <<0, 0, 0, 0>>,
   through |-> FALSE,        \* collapsed_through
   intoAncestor |-> FALSE]   \* margin_top_collapsed_into_ancestor

Across(sides) == sides[2] + sides[4]
Down(sides)   == sides[1] + sides[3]

BorderBoxWidth(box)  == box.w + Across(box.padding) + Across(box.border)
BorderBoxHeight(box) == box.h + Down(box.padding) + Down(box.border)
MarginBoxWidth(box)  == BorderBoxWidth(box) + Across(box.margin)
MarginBoxHeight(box) == BorderBoxHeight(box) + Down(box.margin)
MarginBoxBottom(box) == box.y + BorderBoxHeight(box) + box.margin[3]

ResolveBoxModel(box, containing, font) ==
  LET style == box.style
      InPixels(len) == ResolveLength(len, containing, font)
  IN  [box EXCEPT
         !.padding = [s \in 1 .. 4 |-> InPixels(style.padding[s])],
         !.border  = [s \in 1 .. 4 |->
                        IF style.borderStyle[s] = "none" THEN 0 ELSE InPixels(style.borderWidth[s])],
         !.margin  = [s \in 1 .. 4 |-> InPixels(style.margin[s])]]

(* What box-sizing takes from a size that was set. *)
SizingWidth(box) ==
  IF box.style.boxSizing = "border" THEN Across(box.padding) + Across(box.border) ELSE 0
SizingHeight(box) ==
  IF box.style.boxSizing = "border" THEN Down(box.padding) + Down(box.border) ELSE 0

AtLeast(v, low) == IF v < low THEN low ELSE v
AtMost(v, high) == IF v > high THEN high ELSE v

-----------------------------------------------------------------------------
(* MarginChain: the largest positive and the smallest negative of the      *)
(* vertical margins that touch.                                            *)
NoChain == [pos |-> 0, neg |-> 0]
AddMargin(chain, m) ==
  IF m > 0 THEN [chain EXCEPT !.pos = AtLeast(@, m)] ELSE [chain EXCEPT !.neg = AtMost(@, m)]
Collapsed(chain) == chain.pos + chain.neg
MergeFrom(chain, other) ==
  [pos |-> AtLeast(chain.pos, other.pos), neg |-> AtMost(chain.neg, other.neg)]

(* CSS 2.1, 8.3.1: margins that touch take the place of the largest and    *)
(* the most negative of them.                                              *)
Joint(margins) == Max({0} \cup margins) + Min({0} \cup margins)
=============================================================================
