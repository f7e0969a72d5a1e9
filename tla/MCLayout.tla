----------------------------- MODULE MCLayout ------------------------------
(* Pages for the layout.                                                   *)
EXTENDS Layout

Elem(style, kids) == [kind |-> "element", style |-> style, kids |-> kids, image |-> <<>>]
Img(style, w, h) == [kind |-> "element", style |-> style, kids |-> <<>>, image |-> <<w, h>>]
Word(size) == [kind |-> "text", size |-> size, blank |-> FALSE]
BlankText == [kind |-> "text", size |-> 2, blank |-> TRUE]

S == InitialStyle
Edges(top, bottom) == <<Px(top), Px(0), Px(bottom), Px(0)>>
Page(kids) == Elem(S, <<Elem(S, kids)>>)
EmptyPage == Page(<<>>)

(* Blocks: leaves, empty boxes, and boxes that are open or shut at an end. *)
Leaf(t, b) == Elem([S EXCEPT !.height = Px(10), !.margin = Edges(t, b)], <<>>)
Empty(t, b) == Elem([S EXCEPT !.margin = Edges(t, b)], <<>>)
Around(style, t, b, kids) == Elem([style EXCEPT !.margin = Edges(t, b)], kids)

Shapes ==
  {<<S, <<>>>>, <<[S EXCEPT !.height = Px(10)], <<>>>>,
   <<S, <<Leaf(4, 6)>>>>,
   <<S, <<Leaf(0, -3), Empty(7, 1), Leaf(2, 9)>>>>,
   <<S, <<Leaf(1, 2), Empty(-4, 8)>>>>,
   <<S, <<Leaf(0, -20), Leaf(0, 0)>>>>,
   <<S, <<Elem(S, <<Leaf(8, 8)>>)>>>>,
   <<[S EXCEPT !.padding = Edges(2, 0)], <<Leaf(4, 6)>>>>,
   <<[S EXCEPT !.padding = Edges(0, 2)], <<Leaf(-1, 6)>>>>,
   <<[S EXCEPT !.borderWidth = Edges(1, 1), !.borderStyle = [s \in 1 .. 4 |-> "solid"]], <<Leaf(4, 6)>>>>,
   <<[S EXCEPT !.overflow = "hidden"], <<Leaf(4, 6)>>>>,
   <<[S EXCEPT !.minHeight = Px(30)], <<Leaf(4, 6)>>>>,
   <<[S EXCEPT !.height = Px(30), !.boxSizing = "border", !.maxHeight = Px(25)], <<Leaf(3, 6)>>>>,
   <<[S EXCEPT !.display = "flex"], <<Leaf(4, 6)>>>>,
   <<[S EXCEPT !.display = "flex", !.overflow = "hidden"], <<Leaf(4, 6)>>>>,
   <<[S EXCEPT !.display = "inline"], <<Word(3)>>>>,
   <<[S EXCEPT !.display = "none"], <<Word(3)>>>>,
   <<[S EXCEPT !.position = "absolute", !.height = Px(9)], <<>>>>,
   <<S, <<Word(2)>>>>}

MarginPairs == {<<0, 0>>, <<3, 5>>, <<-2, 4>>, <<6, -3>>}
BlockSet == {Around(s[1], m[1], m[2], s[2]) : s \in Shapes, m \in MarginPairs}
Few == {Around(s[1], 3, 5, s[2]) : s \in Shapes}

BlockPage ==
  \/ \E a, b \in BlockSet : LayoutInit(Page(<<a, b>>))
  \/ \E a, b \in Few, m \in MarginPairs : LayoutInit(Page(<<a, Empty(m[1], m[2]), b>>))
  \/ \E a, b \in Few : LayoutInit(Page(<<Around(S, 2, 7, <<a, b>>), Leaf(4, 0)>>))

(* Lines of texts, images and inline boxes of several alignments. *)
Atom(align, height) ==
  Elem([S EXCEPT !.display = "inline-block", !.vAlign = align, !.height = Px(height), !.width = Px(40),
                 !.vOffset = Px(7), !.margin = [s \in 1 .. 4 |-> Px(3)]], <<>>)
Aligns == {"baseline", "sub", "super", "middle", "text-top", "text-bottom", "top", "bottom", "length"}
InlineSet == {Atom(al, h) : al \in Aligns, h \in {4, 50}}
             \cup {Word(1), Word(9), BlankText, Img([S EXCEPT !.display = "inline"], 30, 60),
                   Elem([S EXCEPT !.display = "inline"], <<Word(2), Word(3)>>)}
Lines(style, kids) == Page(<<Elem([style EXCEPT !.display = "inline"], kids)>>)
Tall == [S EXCEPT !.lineHeight = [unit |-> "number", value |-> 2]]
LinePage ==
  \/ \E a, b, c \in InlineSet : LayoutInit(Lines(S, <<a, b, c>>))
  \/ \E a, b \in InlineSet :
       \/ LayoutInit(Lines(Tall, <<a, b>>))
       \/ LayoutInit(Lines([S EXCEPT !.width = Px(150), !.padding = [s \in 1 .. 4 |-> Px(5)]],
                           <<a, Word(4), b>>))

(* Flex containers. *)
Item(w, grow, shrink) ==
  Elem([S EXCEPT !.width = w, !.height = Px(10), !.grow = grow, !.shrink = shrink,
                 !.margin = <<Px(1), Px(2), Px(3), Px(4)>>], <<>>)
Items ==
  {Item(w, g, s) : w \in {Px(40), Px(90), [unit |-> "percent", value |-> 50]}, g \in {0, 1}, s \in {0, 2}}
  \cup {Item(NotSet, 1, 1),
        Elem([S EXCEPT !.basis = Px(30), !.minWidth = Px(50), !.self = "center"], <<Word(2)>>),
        Elem([S EXCEPT !.basis = Px(70), !.maxWidth = Px(60), !.self = "flex-end"], <<>>),
        Elem([S EXCEPT !.position = "absolute", !.width = Px(20), !.offset = [s \in 1 .. 4 |-> Px(6)]], <<>>)}
Justifies == {"flex-start", "flex-end", "center", "space-between", "space-around"}
Flex(dir, wrap, just, gap, height) ==
  [S EXCEPT !.display = "flex", !.direction = dir, !.wrap = wrap, !.justify = just, !.gap = Px(gap),
            !.height = height]
FlexPage ==
  \E a, b \in Items :
    \/ \E d \in {"row", "row-reverse"}, w \in BOOLEAN, g \in {0, 6} :
         LayoutInit(Page(<<Elem(Flex(d, w, "center", g, NotSet), <<a, b>>)>>))
    \/ \E w \in BOOLEAN, j \in Justifies :
         LayoutInit(Page(<<Elem(Flex("row", w, j, 6, Px(80)), <<a, b, a>>), Leaf(3, 3)>>))
    \/ \E d \in {"column", "column-reverse"}, j \in Justifies :
         LayoutInit(Page(<<Elem(Flex(d, FALSE, j, 6, Px(80)), <<a, b>>)>>))
    \/ LayoutInit(Page(<<Elem(Flex("column", TRUE, "flex-start", 0, NotSet), <<a, b>>)>>))

(* Boxes out of their place: moved from it, taken out of it, or a child of *)
(* such a box.                                                             *)
Moved(position, display) ==
  [S EXCEPT !.position = position, !.display = display, !.width = [unit |-> "percent", value |-> 50],
            !.margin = Edges(3, 3), !.offset = <<Px(5), NotSet, NotSet, Px(7)>>]
MovedPage ==
  \E p, q \in {"relative", "absolute", "static"}, d \in {"block", "flex", "inline"} :
    LayoutInit(Page(<<Elem(Moved(p, d), <<Word(1), Elem(Moved(q, "block"), <<Leaf(2, 2)>>)>>), Leaf(1, 1)>>))

AnyPage == BlockPage \/ LinePage \/ FlexPage \/ MovedPage
=============================================================================
