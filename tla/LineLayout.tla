----------------------------- MODULE LineLayout -----------------------------
(* Lines of the inline formatting context (core/layout/layout_engine.cc,   *)
(* line_box.h, text_shaper.cc): items are put one after the other until    *)
(* one does not fit; then the line gets its height and its items their     *)
(* place in it, each by its alignment.                                     *)
EXTENDS LayoutBox

(* SimpleTextShaper::Measure.                                              *)
Measure(size, font) ==
  [width |-> size * ((font * 3) \div 5), ascent |-> (font * 4) \div 5, descent |-> font \div 5]

MeasuredText(box, font) ==
  LET m == Measure(box.size, font) IN [box EXCEPT !.w = m.width, !.h = m.ascent + m.descent]

-----------------------------------------------------------------------------
LineHeightPx(style, font) ==
  CASE IsUnset(style.lineHeight) -> (font * 6) \div 5
    [] style.lineHeight.unit = "number" -> style.lineHeight.value * font
    [] OTHER -> ResolveLength(style.lineHeight, font, font)

(* How far below the baseline an item hangs, top and bottom aside.         *)
NonExtremeAlign(item, font, parent) ==
  LET align == item.box.style.vAlign
  IN  CASE align = "sub"    -> font \div 5
        [] align = "super"  -> -((font * 2) \div 5)
        [] align = "middle" -> -((font \div 4) + ((item.ascent - item.descent) \div 2))
        [] align = "text-top"    -> item.ascent - parent.ascent
        [] align = "text-bottom" -> parent.descent - item.descent
        [] align = "length" -> -ResolveLength(item.box.style.vOffset, font, font)
        [] OTHER -> 0

Extreme(item) == item.box.style.vAlign \in {"top", "bottom"}

(* The line grows to hold the items at the given places.                   *)
Grown(metrics, items, places) ==
  [up   |-> Max({metrics.up} \cup {items[k].ascent - items[k].offset : k \in places}),
   down |-> Max({metrics.down} \cup {items[k].descent + items[k].offset : k \in places})]

Edged(items) == {k \in DOMAIN items : Extreme(items[k])}

(* The second pass: a tall item on an edge of the line makes it higher.    *)
GrownByNone(metrics, items) == metrics
GrownByExtremes(metrics, items) == Grown(metrics, items, Edged(items))

(* The items that hang on the baseline, the line they need beside the      *)
(* parent's text, and the items that hang on the edges of that line.       *)
OnBaseline(items, font, parent) ==
  [k \in 1 .. Len(items) |->
     IF Extreme(items[k]) THEN items[k]
     ELSE [items[k] EXCEPT !.offset = NonExtremeAlign(items[k], font, parent)]]

Strut(items, parent) ==
  Grown([up |-> AtLeast(parent.ascent, 0), down |-> AtLeast(parent.descent, 0)],
        items, DOMAIN items \ Edged(items))

OnEdges(items, strut) ==
  [k \in 1 .. Len(items) |->
     CASE items[k].box.style.vAlign = "top"    -> [items[k] EXCEPT !.offset = items[k].ascent - strut.up]
       [] items[k].box.style.vAlign = "bottom" -> [items[k] EXCEPT !.offset = strut.down - items[k].descent]
       [] OTHER -> items[k]]

(* The line gets its height, and its items their y.                        *)
Leveled(items, metrics, top, lineHeight) ==
  LET height   == AtLeast(lineHeight, metrics.up + metrics.down)
      baseline == top + metrics.up + (height - metrics.up - metrics.down) \div 2
  IN  [height |-> height,
       kids |-> [k \in 1 .. Len(items) |->
                   [items[k].box EXCEPT !.y = baseline - items[k].ascent + items[k].offset]]]

FinalizeLine(items, top, font, parent, lineHeight) ==
  LET Stretched(all, strut) == Leveled(all, GrownByExtremes(strut, all), top, lineHeight)
      Stuck(settled, strut) == Stretched(OnEdges(settled, strut), strut)
      Settled(all) == Stuck(all, Strut(all, parent))
  IN  Settled(OnBaseline(items, font, parent))

(* One more item on the current line, which ends as "line" when the item   *)
(* does not fit and the line is not empty.                                 *)
PlaceInline(st, item, available, line) ==
  LET breaks == st.endX + item.width > available /\ st.items # <<>>
      begun  == IF breaks
                THEN [kids  |-> st.kids \o line.kids,
                      lines |-> Append(st.lines, [count |-> Len(st.items), top |-> st.top, height |-> line.height]),
                      items |-> <<>>, endX |-> 0, widest |-> AtLeast(st.widest, st.endX),
                      top   |-> st.top + line.height]
                ELSE st
      box    == IF item.box.type = "text" THEN [item.box EXCEPT !.x = begun.endX]
                ELSE [item.box EXCEPT !.x = begun.endX + item.box.margin[4]]
      endX   == begun.endX + item.width
  IN  [begun EXCEPT !.items = Append(@, [item EXCEPT !.box = box]), !.endX = endX]

(* The box around its lines: their heights, the widest of them, or the     *)
(* sizes that are set.                                                     *)
InlineSize(box, containing, font, st) ==
  LET style == box.style
      total == FoldLeft(LAMBDA sum, line : sum + line.height, 0, st.lines)
  IN  [box EXCEPT
         !.kids = st.kids, !.lines = st.lines,
         !.h = IF IsUnset(style.height) THEN total
               ELSE AtLeast(ResolveLength(style.height, 0, font) - SizingHeight(box), 0),
         !.w = IF IsUnset(style.width) THEN st.widest
               ELSE AtLeast(ResolveLength(style.width, containing, font) - SizingWidth(box), 0)]

-----------------------------------------------------------------------------
(* The items behind the last break end the last line.                      *)
EndLine(st, line) ==
  IF st.items = <<>> THEN st
  ELSE [st EXCEPT !.kids = @ \o line.kids, !.widest = AtLeast(@, st.endX),
                  !.lines = Append(@, [count |-> Len(st.items), top |-> st.top, height |-> line.height])]

TextItem(box, font) ==
  LET m == Measure(box.size, font)
  IN  [box |-> MeasuredText(box, font), width |-> m.width, ascent |-> m.ascent, descent |-> m.descent,
       offset |-> 0]
AtomicItem(laid) ==
  [box |-> laid, width |-> MarginBoxWidth(laid), ascent |-> BorderBoxHeight(laid), descent |-> 0,
   offset |-> 0]
=============================================================================
