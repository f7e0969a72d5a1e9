---------------------------- MODULE FlexLayout -----------------------------
(* LayoutFlex (core/layout/flex_layout.cc): the children of a flex         *)
(* container are sized and placed along its main axis, line by line. The   *)
(* function lays out no grandchild: a child gets its size from its style   *)
(* and its share of the line, never from what it holds.                    *)
EXTENDS LayoutBox

Unbounded == 1000000   \* the main size of a column without a height

IsRow(style)     == style.direction \in {"row", "row-reverse"}
IsReverse(style) == style.direction \in {"row-reverse", "column-reverse"}

(* The sides at the start and at the end of the main axis. *)
StartSide(row) == IF row THEN 4 ELSE 1
EndSide(row)   == IF row THEN 2 ELSE 3
Extent(sides, row) == sides[StartSide(row)] + sides[EndSide(row)]
Outside(kid, row) == Extent(kid.margin, row) + Extent(kid.padding, row) + Extent(kid.border, row)

FlexFont(kid, font) ==
  IF kid.style.fontSize.unit = "none" THEN font ELSE ResolveLength(kid.style.fontSize, font, RootFont)

(* The content width of the container, and the main size of its lines.     *)
(* A row is clamped at zero, a column is not.                              *)
ContainerWidth(box, containing, font) ==
  IF IsUnset(box.style.width)
  THEN containing - Across(box.padding) - Across(box.border) - Across(box.margin)
  ELSE ResolveLength(box.style.width, containing, font) - SizingWidth(box)

ContainerMain(box, containing, font) ==
  IF IsRow(box.style) THEN ContainerWidth(box, containing, font)
  ELSE IF IsUnset(box.style.height) THEN Unbounded
  ELSE ResolveLength(box.style.height, 0, font) - SizingHeight(box)

-----------------------------------------------------------------------------
(* The items: children in flow, with their base size and the size the line *)
(* starts from.                                                            *)
MainProp(style, row)    == IF row THEN style.width ELSE style.height
MainMinimum(style, row) == IF row THEN style.minWidth ELSE style.minHeight
MainMaximum(style, row) == IF row THEN style.maxWidth ELSE style.maxHeight

FlexBase(style, row, main, font) ==
  IF ~IsUnset(style.basis) THEN ResolveLength(style.basis, main, font)
  ELSE ResolveLength(MainProp(style, row), main, font)     \* 0 when it is not set

FlexItem(kid, index, box, main, font) ==
  LET row   == IsRow(box.style)
      style == kid.style
      kfont == FlexFont(kid, font)
      base  == FlexBase(style, row, main, kfont)
      low   == MainMinimum(style, row)
      high  == MainMaximum(style, row)
      raised == IF IsUnset(low) THEN base ELSE AtLeast(base, ResolveLength(low, main, kfont))
  IN  [kid |-> ResolveBoxModel(kid, box.w, kfont), at |-> index, base |-> base,
       main |-> IF IsUnset(high) THEN raised ELSE AtMost(raised, ResolveLength(high, main, kfont)),
       grow |-> style.grow, shrink |-> style.shrink]

FlexItems(box, main, font) ==
  LET inFlow == SelectSeq([k \in 1 .. Len(box.kids) |-> k],
                          LAMBDA k : box.kids[k].style.position # "absolute")
  IN  [k \in 1 .. Len(inFlow) |-> FlexItem(box.kids[inFlow[k]], inFlow[k], box, main, font)]

(* A line is broken before an item that would not fit; the gap is added    *)
(* after that test, so a line may be longer than the container by a gap.   *)
FlexLines(items, box, main, gap) ==
  LET row == IsRow(box.style)
      Grow(st, k) ==
        LET outer == items[k].main + Outside(items[k].kid, row)
            breaks == st.main + outer > main /\ k > st.start
            start == IF breaks THEN k ELSE st.start
        IN  [lines |-> IF breaks THEN Append(st.lines, <<st.start, k - 1>>) ELSE st.lines,
             start |-> start,
             main  |-> (IF breaks THEN 0 ELSE st.main) + outer + (IF k > start THEN gap ELSE 0)]
      broken == FoldLeft(Grow, [lines |-> <<>>, start |-> 1, main |-> 0], [k \in 1 .. Len(items) |-> k])
  IN  IF ~box.style.wrap \/ items = <<>> THEN <<<<1, Len(items)>>>>
      ELSE Append(broken.lines, <<broken.start, Len(items)>>)

Count(line) == line[2] - line[1] + 1
SumOver(line, of) ==
  LET sum[n \in 0 .. Count(line)] == IF n = 0 THEN 0 ELSE sum[n - 1] + of[line[1] + n - 1]
  IN  sum[Count(line)]
GapsAround(line, gap) == gap * Count(line)
Gaps(line, gap) == IF Count(line) > 1 THEN gap * (Count(line) - 1) ELSE 0

(* Resolve flexible lengths: what is left is shared by the grow factors,   *)
(* what is missing by the shrink factors and the base sizes.               *)
Taken(items, row) == [k \in DOMAIN items |-> items[k].main + Outside(items[k].kid, row)]
FreeSpace(items, line, row, main, gap) == main - SumOver(line, Taken(items, row)) - Gaps(line, gap)

TotalGrow(items, line)   == SumOver(line, [k \in DOMAIN items |-> items[k].grow])
TotalShrink(items, line) == SumOver(line, [k \in DOMAIN items |-> items[k].shrink * items[k].base])

WithShare(it, free, grow, shrink) ==
  CASE free > 0 /\ grow > 0   -> it.main + (free * it.grow) \div grow
    [] free < 0 /\ shrink > 0 -> AtLeast(it.main + (free * (it.shrink * it.base)) \div shrink, 0)
    [] OTHER -> it.main

Flexed(items, line, row, main, gap) ==
  LET free   == FreeSpace(items, line, row, main, gap)
      grow   == TotalGrow(items, line)
      shrink == TotalShrink(items, line)
  IN  [k \in 1 .. Len(items) |->
         IF k \in line[1] .. line[2] THEN [items[k] EXCEPT !.main = WithShare(items[k], free, grow, shrink)]
         ELSE items[k]]

FlexedAll(items, lines, row, main, gap) ==
  FoldLeft(LAMBDA its, line : Flexed(its, line, row, main, gap), items, lines)

(* The content size of an item; a row leaves a height that is not set as   *)
(* it was, a column fills the width.                                       *)
Sized(item, box, row, font) ==
  LET kid   == item.kid
      kfont == FlexFont(kid, font)
  IN  [item EXCEPT !.kid =
         IF row
         THEN [kid EXCEPT !.w = AtLeast(item.main, 0),
                          !.h = IF IsUnset(kid.style.height) THEN @
                                ELSE ResolveLength(kid.style.height, 0, kfont)]
         ELSE [kid EXCEPT !.h = AtLeast(item.main, 0),
                          !.w = IF IsUnset(kid.style.width) THEN box.w
                                ELSE ResolveLength(kid.style.width, box.w, kfont)]]

SizedAll(items, box, row, font) == [k \in 1 .. Len(items) |-> Sized(items[k], box, row, font)]

MarginBoxMain(kid, row)  == IF row THEN MarginBoxWidth(kid) ELSE MarginBoxHeight(kid)
MarginBoxCross(kid, row) == IF row THEN MarginBoxHeight(kid) ELSE MarginBoxWidth(kid)
BorderBoxMain(kid, row)  == IF row THEN BorderBoxWidth(kid) ELSE BorderBoxHeight(kid)

LineCross(items, line, row) ==
  FoldLeft(LAMBDA high, k : AtLeast(high, MarginBoxCross(items[k].kid, row)), 0,
           [k \in 1 .. Count(line) |-> line[1] + k - 1])
-----------------------------------------------------------------------------
(* justify-content: where the line starts, and the gap between its items.  *)
Remaining(items, line, row, main, gap) ==
  main - SumOver(line, [k \in DOMAIN items |-> MarginBoxMain(items[k].kid, row)]) - Gaps(line, gap)

Justified(justify, remaining, count, gap) ==
  CASE justify = "flex-end" -> [start |-> remaining, gap |-> gap]
    [] justify = "center"   -> [start |-> remaining \div 2, gap |-> gap]
    [] justify = "space-between" /\ count > 1 ->
         [start |-> 0, gap |-> gap + remaining \div (count - 1)]
    [] justify = "space-around" /\ count > 0 ->
         [start |-> (remaining \div count) \div 2, gap |-> gap + remaining \div count]
    [] OTHER -> [start |-> 0, gap |-> gap]

PutAt(kid, row, v) == IF row THEN [kid EXCEPT !.x = v] ELSE [kid EXCEPT !.y = v]

(* Where the border box of item k starts: behind the items before it and   *)
(* their gaps. A reversed line starts from the far end, wherever           *)
(* justify-content would have it start.                                    *)
MainPlace(items, line, k, box, main, gap) ==
  LET row    == IsRow(box.style)
      just   == Justified(box.style.justify, Remaining(items, line, row, main, gap), Count(line), gap)
      kid    == items[k].kid
      before == SumOver(<<line[1], k - 1>>, [j \in DOMAIN items |-> MarginBoxMain(items[j].kid, row)])
                  + (k - line[1]) * just.gap
  IN  IF IsReverse(box.style) THEN main - before - kid.margin[EndSide(row)] - BorderBoxMain(kid, row)
      ELSE just.start + before + kid.margin[StartSide(row)]

PlaceLine(items, line, box, main, gap) ==
  [k \in 1 .. Len(items) |->
     IF k \in line[1] .. line[2]
     THEN [items[k] EXCEPT !.kid = PutAt(@, IsRow(box.style), MainPlace(items, line, k, box, main, gap))]
     ELSE items[k]]

(* align-items and align-self, in a line that starts at "from".            *)
Aligned(item, box, cross, from) ==
  LET row   == IsRow(box.style)
      kid   == item.kid
      align == IF kid.style.self # "auto" THEN kid.style.self ELSE box.style.items
      slack == cross - MarginBoxCross(kid, row)
      pos   == CASE align = "flex-end" -> slack
                 [] align = "center"   -> slack \div 2
                 [] OTHER -> 0
      room  == AtLeast(cross - Outside(kid, ~row), 0)
      full  == IF align # "stretch" THEN kid
               ELSE IF row
                    THEN [kid EXCEPT !.h = IF IsUnset(kid.style.height) THEN room ELSE @]
                    ELSE [kid EXCEPT !.w = IF IsUnset(kid.style.width) THEN room ELSE @]
  IN  PutAt(full, ~row, from + pos + full.margin[StartSide(~row)])

AlignLine(items, line, box, cross, from) ==
  [k \in 1 .. Len(items) |->
     IF k \in line[1] .. line[2] THEN [items[k] EXCEPT !.kid = Aligned(items[k], box, cross, from)]
     ELSE items[k]]

-----------------------------------------------------------------------------
(* The items of all lines in their places: each line is placed along the   *)
(* main axis, then aligned in the cross size it takes.                     *)
PlaceLines(items, lines, box, main, gap) ==
  LET Put(st, line, cross) ==
        [items |-> AlignLine(PlaceLine(st.items, line, box, main, gap), line, box, cross, st.cross),
         cross |-> st.cross + cross,
         lines |-> Append(st.lines, [first |-> line[1], last |-> line[2], from |-> st.cross,
                                     main |-> main, gap |-> gap])]
  IN  FoldLeft(LAMBDA st, line : Put(st, line, LineCross(st.items, line, IsRow(box.style))),
               [items |-> items, cross |-> 0, lines |-> <<>>], lines)

(* The container around them.                                              *)
FlexFilled(box, done, font) ==
  LET ItemsOf(k) == SelectSeq(done.items, LAMBDA it : it.at = k)
      lowest == FoldLeft(LAMBDA low, it : AtLeast(low, MarginBoxBottom(it.kid)), 0, done.items)
  IN  [box EXCEPT
         !.kids = [k \in 1 .. Len(box.kids) |-> IF ItemsOf(k) = <<>> THEN box.kids[k] ELSE ItemsOf(k)[1].kid],
         !.lines = done.lines,
         !.h = CASE IsUnset(box.style.height) /\ IsRow(box.style)  -> done.cross
                 [] IsUnset(box.style.height) /\ ~IsRow(box.style) -> lowest
                 [] ~IsUnset(box.style.height) /\ IsRow(box.style) ->
                      ResolveLength(box.style.height, 0, font) - SizingHeight(box)
                 [] OTHER -> @]

LayoutFlex(plain, containing) ==
  LET row  == IsRow(plain.style)
      font == ResolveFontSize(plain.style)
      Lined(box, main, gap, items, lines) ==
        FlexFilled(box, PlaceLines(SizedAll(FlexedAll(items, lines, row, main, gap), box, row, font),
                                   lines, box, main, gap), font)
      Broken(box, main, gap, items) == Lined(box, main, gap, items, FlexLines(items, box, main, gap))
      Filled(box, main) ==
        Broken(box, main, ResolveLength(box.style.gap, main, font), FlexItems(box, main, font))
      Wide(box, width) ==
        Filled([box EXCEPT !.w = IF row THEN AtLeast(width, 0) ELSE width], ContainerMain(box, containing, font))
      Based(box) == Wide(box, ContainerWidth(box, containing, font))
  IN  Based(ResolveBoxModel(plain, containing, font))
=============================================================================
