------------------------------ MODULE Layout -------------------------------
(* LayoutEngine (core/layout/layout_engine.cc): the tree of boxes of a     *)
(* page, the block formatting context with its collapsing margins, the     *)
(* inline formatting context with its lines, and positioned boxes.         *)
(*                                                                         *)
(* A page is a tree of elements with their computed styles (CssCascade     *)
(* says which) and of texts; text is measured by SimpleTextShaper.         *)
EXTENDS FlexLayout, LineLayout

VARIABLE page   \* [styled, root, done]: the tree, its boxes, whether they are laid out

-----------------------------------------------------------------------------
(* BuildTree. An element is [style, kids, image], where image is the size  *)
(* of a loaded <img> or empty; a text is [size, blank].                    *)
TypeOfDisplay(display) ==
  CASE display = "flex" -> "flex"
    [] display \in {"inline", "inline-block"} -> "inline"
    [] OTHER -> "block"

ElementBox(node) ==
  LET box == NewBox(TypeOfDisplay(node.style.display), node.style)
  IN  IF node.image = <<>> THEN box
      ELSE [box EXCEPT !.type = "replaced",
                       !.w = IF IsUnset(node.style.width) THEN node.image[1] ELSE 0,
                       !.h = IF IsUnset(node.style.height) THEN node.image[2] ELSE 0]

TextBox(text, style) == [NewBox("text", style) EXCEPT !.size = text.size]

RECURSIVE BuildTree(_)
BuildTree(node) ==
  LET KidBoxes(kid) ==
        IF kid.kind = "text"
        THEN IF kid.size = 0 \/ kid.blank THEN <<>> ELSE <<TextBox(kid, node.style)>>
        ELSE IF kid.style.display = "none" THEN <<>> ELSE <<BuildTree(kid)>>
  IN  [ElementBox(node) EXCEPT
         !.kids = FlattenSeq([k \in 1 .. Len(node.kids) |-> KidBoxes(node.kids[k])])]

-----------------------------------------------------------------------------
(* Blocks. "depth" is the number of ancestors of a box.                    *)
InFlow(box) == box.style.position # "absolute"
CreatesContext(box) == box.style.overflow # "visible"

BlocksTop(box, depth) ==
  depth <= 1 \/ box.padding[1] # 0 \/ box.border[1] # 0 \/ CreatesContext(box)

BlocksBottom(box) ==
  LET style == box.style
  IN  \/ box.padding[3] # 0 \/ box.border[3] # 0
      \/ CreatesContext(box)
      \/ ~IsUnset(style.height)
      \/ ~IsUnset(style.minHeight) /\ ResolveLength(style.minHeight, 0, ResolveFontSize(style)) > 0

ContentWidth(box, containing, font) ==
  LET style == box.style
      w0 == IF IsUnset(style.width)
            THEN containing - Across(box.padding) - Across(box.border) - Across(box.margin)
            ELSE AtLeast(ResolveLength(style.width, containing, font) - SizingWidth(box), 0)
      w1 == IF IsUnset(style.minWidth) THEN w0
            ELSE AtLeast(w0, ResolveLength(style.minWidth, containing, font))
      high == ResolveLength(style.maxWidth, containing, font) - SizingWidth(box)
  IN  IF ~IsUnset(style.maxWidth) /\ w1 > high THEN AtLeast(high, 0) ELSE w1

(* The box model and the width; margins that are both auto centre the box. *)
BlockWidth(plain, containing) ==
  LET font  == ResolveFontSize(plain.style)
      Centred(box) ==
        LET side == AtLeast((containing - BorderBoxWidth(box)) \div 2, 0)
        IN  IF box.style.margin[2].unit = "auto" /\ box.style.margin[4].unit = "auto"
            THEN [box EXCEPT !.margin[2] = side, !.margin[4] = side] ELSE box
      Wide(box) == Centred([box EXCEPT !.w = ContentWidth(box, containing, font)])
  IN  Wide(ResolveBoxModel(plain, containing, font))

BlockHeight(box, auto) ==
  LET style == box.style
      InPixels(len) == ResolveLength(len, 0, ResolveFontSize(style))
      h0 == IF IsUnset(style.height) THEN auto
            ELSE AtLeast(InPixels(style.height) - SizingHeight(box), 0)
      h1 == IF IsUnset(style.minHeight) THEN h0 ELSE AtLeast(h0, InPixels(style.minHeight))
      high == InPixels(style.maxHeight) - SizingHeight(box)
  IN  IF ~IsUnset(style.maxHeight) /\ h1 > high THEN AtLeast(high, 0) ELSE h1

(* The chain behind a block: an empty block lets the margins above it      *)
(* through, any other starts a new chain.                                  *)
ChainBehindDropping(kid, above, outgoing) == outgoing
ChainBehind(kid, above, outgoing) ==
  IF kid.through THEN MergeFrom(above, outgoing) ELSE outgoing

(* A child that is a block, once laid out: its place, and the chain that   *)
(* its successor starts from. The first child in flow of a box that is     *)
(* open at the top hands its margins to the ancestors.                     *)
PlaceBlock(st, laid, open, depth) ==
  LET upward == st.first /\ open
      kid    == laid.box
      cur    == IF upward THEN st.cur ELSE laid.incoming
      shut   == BlocksTop(kid, depth)
      from   == IF ~upward /\ shut THEN st.y + Collapsed(cur) ELSE st.y
      y      == CASE upward /\ ~shut  -> 0
                  [] upward /\ shut   -> kid.margin[1]
                  [] ~upward /\ ~shut -> st.y + Collapsed(cur)
                  [] OTHER            -> from + kid.margin[1]
      placed == [kid EXCEPT !.x = kid.margin[4], !.y = y, !.intoAncestor = upward /\ ~shut]
  IN  [kids  |-> Append(st.kids, placed), first |-> FALSE, any |-> TRUE,
       up    |-> IF upward THEN laid.incoming ELSE st.up,
       y     |-> IF kid.through THEN from ELSE y + BorderBoxHeight(kid),
       cur   |-> ChainBehind(kid, IF ~upward /\ shut THEN NoChain ELSE cur, laid.outgoing)]

(* A child that is not a block keeps its margins inside its parent. (Only  *)
(* a block collapses through, so the test the code makes here never holds.)*)
PlaceOther(st, kid) ==
  LET apart == CreatesContext(kid)
      chain == AddMargin(st.cur, kid.margin[1])
      y     == IF apart THEN st.y + Collapsed(st.cur) + kid.margin[1] ELSE st.y + Collapsed(chain)
      placed == [kid EXCEPT !.x = kid.margin[4], !.y = y]
  IN  [kids |-> Append(st.kids, placed), first |-> FALSE, any |-> TRUE, up |-> st.up,
       y    |-> IF apart THEN MarginBoxBottom(placed) ELSE y + BorderBoxHeight(kid),
       cur  |-> IF apart THEN NoChain ELSE AddMargin(NoChain, kid.margin[3])]

-----------------------------------------------------------------------------
RECURSIVE LayoutBlockKids(_, _, _), LayoutBlock(_, _, _), LayoutInline(_, _, _), LayoutChild(_, _, _)

(* A block with the chain of margins that precede it: the box laid out,    *)
(* that chain with what the top of the box adds to it, and the chain that  *)
(* leaves the box at its bottom.                                           *)
LayoutBlockKids(box, depth, incoming) ==
  LET open == ~BlocksTop(box, depth)
      leaks == ~BlocksBottom(box)
      Step(st, kid) ==
        CASE ~InFlow(kid) -> [st EXCEPT !.kids = Append(@, kid)]
          [] InFlow(kid) /\ kid.type = "block" ->
               PlaceBlock(st, LayoutBlockKids(BlockWidth(kid, box.w), depth + 1,
                                              IF st.first /\ open THEN st.up ELSE st.cur), open, depth + 1)
          [] OTHER -> PlaceOther(st, LayoutChild(kid, box.w, depth + 1))
      Ended(done) ==
        LET height == BlockHeight(box, IF leaks /\ done.any THEN done.y ELSE done.y + Collapsed(done.cur))
        IN  [box |-> [box EXCEPT !.kids = done.kids, !.h = height,
                                 !.through = @ \/ (height = 0 /\ open /\ leaks)],
             incoming |-> done.up,
             outgoing |-> AddMargin(IF leaks THEN done.cur ELSE NoChain, box.margin[3])]
  IN  Ended(FoldLeft(Step,
              [kids |-> <<>>, cur |-> NoChain, y |-> 0, first |-> TRUE, any |-> FALSE,
               up |-> IF open THEN AddMargin(incoming, box.margin[1]) ELSE incoming],
              box.kids))

(* A block on its own: what its first child handed up moves that child.    *)
LayoutBlock(plain, containing, depth) ==
  LET First(kids, k) == InFlow(kids[k]) /\ \A i \in 1 .. k - 1 : ~InFlow(kids[i])
      Moved(laid) ==
        [laid.box EXCEPT !.kids =
           [k \in 1 .. Len(@) |->
              IF First(@, k) /\ @[k].type = "block" /\ @[k].intoAncestor
              THEN [laid.box.kids[k] EXCEPT !.y = @ + Collapsed(laid.incoming)]
              ELSE @[k]]]
  IN  Moved(LayoutBlockKids(BlockWidth(plain, containing), depth, NoChain))

LayoutInline(plain, containing, depth) ==
  LET font == ResolveFontSize(plain.style)
      Finish(items, top) == FinalizeLine(items, top, font, Measure(1, font), LineHeightPx(plain.style, font))
      Ended(st) == EndLine(st, Finish(st.items, st.top))
      Place(st, item, available) == PlaceInline(st, item, available, Finish(st.items, st.top))
      Filled(box, available) ==
        InlineSize(box, containing, font,
          Ended(FoldLeft(LAMBDA st, kid :
                           Place(st, IF kid.type = "text" THEN TextItem(kid, font)
                                     ELSE AtomicItem(LayoutChild(kid, available, depth + 1)), available),
                         [kids |-> <<>>, lines |-> <<>>, items |-> <<>>, endX |-> 0, widest |-> 0, top |-> 0],
                         box.kids)))
      Based(box) == Filled(box, containing - Across(box.padding))
  IN  Based(ResolveBoxModel(plain, containing, font))

LayoutChild(box, containing, depth) ==
  CASE box.type = "block"  -> LayoutBlock(box, containing, depth)
    [] box.type = "flex"   -> LayoutFlex(box, containing)
    [] box.type = "inline" -> LayoutInline(box, containing, depth)
    [] box.type = "text"   -> MeasuredText(box, ResolveFontSize(box.style))
    [] OTHER -> box

-----------------------------------------------------------------------------
(* ApplyPositioning. A text box has the style of its parent, its position  *)
(* too, and is moved by it a second time.                                  *)
Shift(first, second, size, font) ==
  IF ~IsUnset(first) THEN ResolveLength(first, size, font)
  ELSE IF ~IsUnset(second) THEN -ResolveLength(second, size, font) ELSE 0

Relative(kid, box, font) ==
  LET off == kid.style.offset
  IN  [kid EXCEPT !.x = @ + Shift(off[4], off[2], box.w, font),
                  !.y = @ + Shift(off[1], off[3], box.h, font)]

(* Only left and top place an absolute box, and its width is resolved once *)
(* against its parent and once more, when it is laid out, against itself.  *)
Absolute(plain, box, depth) ==
  LET style == plain.style
      font  == ResolveFontSize(style)
      kid   == ResolveBoxModel(plain, box.w, font)
      Against(len, size, old) == IF IsUnset(len) THEN old ELSE ResolveLength(len, size, font)
      w == Against(style.width, box.w, kid.w)
  IN  LayoutChild([kid EXCEPT !.x = Against(style.offset[4], box.w, @ - kid.margin[4]) + kid.margin[4],
                              !.y = Against(style.offset[1], box.h, @ - kid.margin[1]) + kid.margin[1],
                              !.w = w, !.h = Against(style.height, box.h, @)],
                  w, depth)

Positioned(kid, box, depth) ==
  CASE kid.style.position = "relative" -> Relative(kid, box, ResolveFontSize(box.style))
    [] kid.style.position = "absolute" -> Absolute(kid, box, depth)
    [] OTHER -> kid

RECURSIVE ApplyPositioning(_, _)
ApplyPositioning(box, depth) ==
  [box EXCEPT !.kids = [k \in 1 .. Len(@) |->
                          ApplyPositioning(Positioned(@[k], box, depth + 1), depth + 1)]]

(* LayoutEngine::Layout: the boxes are built anew, whatever was there.     *)
Boxed(styled) == ApplyPositioning(LayoutBlock(BuildTree(styled), ViewWidth, 0), 0)

-----------------------------------------------------------------------------
NoPage(styled) == [styled |-> styled, root |-> <<>>, done |-> FALSE]

LayoutInit(styled) == page = NoPage(styled)

LayoutPage ==
  /\ ~page.done
  /\ page' = [page EXCEPT !.root = <<Boxed(page.styled)>>, !.done = TRUE]

LayoutNext == LayoutPage
-----------------------------------------------------------------------------
RECURSIVE Family(_)
Family(box) == {box} \cup UNION {Family(box.kids[k]) : k \in 1 .. Len(box.kids)}

KidsInFlow(box) == SelectSeq(box.kids, InFlow)

(* What a page is along its height, read from the top: edges of boxes at   *)
(* their place, the margins between them, and where a chain of margins is  *)
(* cut. A box that is shut at the top keeps its margin apart from those    *)
(* above it; a height that is set says nothing of the margins above the    *)
(* lower edge.                                                             *)
Margin(m)  == [mark |-> "margin", v |-> m]
TopEdge(v) == [mark |-> "top", v |-> v]
Bottom(v)  == [mark |-> "bottom", v |-> v]
Cut        == [mark |-> "cut", v |-> 0]
Lost       == [mark |-> "lost", v |-> 0]

(* A relative box keeps its room in the flow and is painted away from it.  *)
MovedDown(kid, box) ==
  IF kid.style.position # "relative" THEN 0
  ELSE Shift(kid.style.offset[1], kid.style.offset[3], box.h, ResolveFontSize(box.style))
Unmoved(box) == \A k \in 1 .. Len(box.kids) : box.kids[k].style.position = "static"

RECURSIVE Marks(_, _, _)
Marks(box, origin, depth) ==
  LET y    == origin + box.y
      end  == y + BorderBoxHeight(box)
      from == y + box.border[1] + box.padding[1]
      kids == KidsInFlow(box)
      shut == BlocksTop(box, depth)
      apart == IF CreatesContext(box) THEN <<Cut>> ELSE <<>>
      inner == FlattenSeq([k \in 1 .. Len(kids) |->
                 (IF k = 1 /\ kids[k].type # "block" THEN <<Cut>> ELSE <<>>) 
                 \o Marks(kids[k], from - MovedDown(kids[k], box), depth + 1)])
      above == IF shut THEN <<Cut, Margin(box.margin[1]), TopEdge(y), Bottom(from)>>
               ELSE <<Margin(box.margin[1])>> \o (IF kids = <<>> /\ BlocksBottom(box) THEN <<TopEdge(y)>> ELSE <<>>)
      below == IF ~BlocksBottom(box) THEN <<>>
               ELSE IF IsUnset(box.style.height) /\ IsUnset(box.style.minHeight)
                    THEN <<TopEdge(from + box.h), Bottom(end)>> ELSE <<Lost, Bottom(end)>>
  IN  IF box.type = "block" THEN above \o inner \o below \o <<Margin(box.margin[3])>>
      ELSE apart \o <<Margin(box.margin[1]), TopEdge(y), Bottom(end), Margin(box.margin[3])>> \o apart

GapsAsMarked(marks) ==
  LET Read(st, m) ==
        CASE m.mark = "margin" -> [st EXCEPT !.margins = @ \cup {m.v}]
          [] m.mark = "cut"    -> [st EXCEPT !.sum = @ + Joint(st.margins), !.margins = {}]
          [] m.mark = "bottom" -> [st EXCEPT !.edge = <<m.v>>, !.sum = 0, !.margins = {}]
          [] m.mark = "lost"   -> [st EXCEPT !.edge = <<>>]
          [] m.mark = "top"    ->
               [st EXCEPT !.ok = @ /\ (st.edge # <<>> => m.v = st.edge[1] + st.sum + Joint(st.margins))]
  IN  FoldLeft(Read, [edge |-> <<>>, sum |-> 0, margins |-> {}, ok |-> TRUE], marks).ok

(* Two ways the code departs from the rule: a box whose contents sum to no *)
(* height is taken for an empty one, and margins behind an empty first     *)
(* child stop at an open parent.                                           *)
TakenForEmpty(box) ==
  box.type = "block" /\ box.through /\ \E k \in 1 .. Len(KidsInFlow(box)) : ~KidsInFlow(box)[k].through
EmptyHead(box) ==
  /\ box.type = "block" /\ KidsInFlow(box) # <<>>
  /\ box.padding[1] = 0 /\ box.border[1] = 0 /\ ~CreatesContext(box)
  /\ KidsInFlow(box)[1].through

(* Between two edges of the page that follow each other down the page,     *)
(* however deep the boxes they belong to, lies the collapsed margin of all *)
(* the margins in between and nothing else.                                *)
MarginsCollapse ==
  page.done => \/ \E box \in Family(page.root[1]) : TakenForEmpty(box) \/ EmptyHead(box)
               \/ GapsAsMarked(Marks(page.root[1], 0, 0))

-----------------------------------------------------------------------------
LineKids(box, k) ==
  LET before == FoldLeft(LAMBDA sum, line : sum + line.count, 0, SubSeq(box.lines, 1, k - 1))
  IN  SubSeq(box.kids, before + 1, before + box.lines[k].count)

EndOf(kid) == kid.x - kid.margin[4] + MarginBoxWidth(kid)

(* Lines of text and of inline boxes: every item lies within the height of *)
(* its line, whatever its alignment; lines follow each other without       *)
(* overlap; items of a line follow each other, fit (an item alone aside),  *)
(* and no line ends while the next item would have fitted.                 *)
LinesHold ==
  page.done =>
    \A outer \in Family(page.root[1]) :
      \A b \in 1 .. Len(outer.kids) :
        LET box == outer.kids[b]
            room == outer.w - Across(box.padding)
        IN  outer.type = "block" /\ box.type = "inline" /\ Unmoved(box) =>
              \A k \in 1 .. Len(box.lines) :
                LET line == box.lines[k]
                    kids == LineKids(box, k)
                IN  /\ \A i \in 1 .. Len(kids) :
                         /\ line.top <= kids[i].y
                         /\ kids[i].y + BorderBoxHeight(kids[i]) <= line.top + line.height
                         /\ i > 1 => EndOf(kids[i - 1]) <= kids[i].x - kids[i].margin[4]
                    /\ Len(kids) > 1 => EndOf(kids[Len(kids)]) <= room
                    /\ k > 1 => /\ line.top = box.lines[k - 1].top + box.lines[k - 1].height
                                /\ EndOf(LineKids(box, k - 1)[box.lines[k - 1].count])
                                     + MarginBoxWidth(kids[1]) > room

(* Flex lines: an item that grows leaves nothing of its line, items that   *)
(* can all shrink do not overflow it (roundings aside); items that fit do  *)
(* not overlap and stay inside, in either direction; a line's items stay   *)
(* clear of the next line.                                                 *)
FlexFills ==
  page.done =>
    \A box \in {x \in Family(page.root[1]) : x.type = "flex"} :
      \A n \in 1 .. Len(box.lines) : Unmoved([box EXCEPT !.kids = KidsInFlow(box)]) =>
        LET line == box.lines[n]
            row  == IsRow(box.style)
            flow == KidsInFlow(box)
            kids == SubSeq(flow, line.first, line.last)
            Start(kid) == (IF row THEN kid.x ELSE kid.y) - kid.margin[StartSide(row)]
            End(kid)   == Start(kid) + MarginBoxMain(kid, row)
            Low(kid)   == (IF row THEN kid.y ELSE kid.x) - kid.margin[StartSide(~row)]
            used == FoldLeft(LAMBDA sum, kid : sum + MarginBoxMain(kid, row), 0, kids)
                      + (IF kids = <<>> THEN 0 ELSE (Len(kids) - 1) * line.gap)
            Shrinks(kid) == /\ kid.style.shrink > 0 /\ IsUnset(MainMinimum(kid.style, row))
                            /\ (IF row THEN kid.w ELSE kid.h) > 0
        IN  /\ (\E k \in 1 .. Len(kids) : kids[k].style.grow > 0) => used >= line.main - Len(kids)
            /\ (\A k \in 1 .. Len(kids) : Shrinks(kids[k])) => used <= AtLeast(line.main, 0)
            /\ used <= line.main =>
                 \A k \in 1 .. Len(kids) :
                   /\ 0 <= Start(kids[k]) /\ End(kids[k]) <= line.main
                   /\ k > 1 => IF IsReverse(box.style)
                               THEN End(kids[k]) + line.gap <= Start(kids[k - 1])
                               ELSE End(kids[k - 1]) + line.gap <= Start(kids[k])
            /\ n < Len(box.lines) =>
                 \A k \in 1 .. Len(kids) :
                   Low(kids[k]) + MarginBoxCross(kids[k], row) <= box.lines[n + 1].from
=============================================================================
