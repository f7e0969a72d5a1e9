---------------------------- MODULE StyleProofs ----------------------------
(* What layout and the cascade compute, for every input: lines whose items *)
(* share what is left of them, items placed along and across a line,       *)
(* margins that collapse, declarations that compete.                       *)
EXTENDS CssCascade, FlexLayout, LineLayout, WellFoundedInduction, FiniteSetTheorems,
  SequenceTheorems, TLAPS

-----------------------------------------------------------------------------
(* What holds at the start of an interval and passes from a number to the  *)
(* next holds on all of it.                                                *)
LEMMA Upwards ==
  ASSUME NEW n \in Nat, NEW S, 0 \in S, \A j \in 0 .. n : j < n /\ j \in S => j + 1 \in S
  PROVE  \A j \in 0 .. n : j \in S
<1> DEFINE Bad  == {j \in 0 .. n : j \notin S}
           less == OpToRel(<, Nat)
<1> SUFFICES ASSUME Bad # {} PROVE FALSE
  OBVIOUS
<1>1. IsWellFoundedOn(less, Nat)
  BY NatLessThanWellFounded
<1>2. Bad \in SUBSET Nat
  OBVIOUS
<1>3. PICK j \in Bad : \A m \in Bad : <<m, j>> \notin less
  <2> HIDE DEF less, Bad
  <2> QED BY <1>1, <1>2, WFMin
<1>4. j \in 1 .. n /\ j - 1 \in 0 .. n
  <2>1. j \in 0 .. n /\ j # 0
    OBVIOUS
  <2> QED BY <2>1
<1>5. j - 1 \notin Bad
  <2> SUFFICES ASSUME j - 1 \in Bad PROVE FALSE
    OBVIOUS
  <2>1. <<j - 1, j>> \in Nat \X Nat /\ j - 1 < j
    BY <1>4
  <2>2. <<j - 1, j>> \in less
    BY <2>1 DEF OpToRel
  <2> QED BY <1>3, <2>2
<1>6. j - 1 \in S /\ j - 1 < n /\ (j - 1) + 1 = j
  BY <1>4, <1>5
<1>7. j \in S
  BY <1>4, <1>6
<1> QED BY <1>3, <1>7

(* The greatest of a number and of those at some places of a sequence.     *)
LEMMA MaxOfPlaces ==
  ASSUME NEW n \in Nat, NEW places \in SUBSET (1 .. n), NEW low \in Int,
         NEW of \in [places -> Int],
         NEW S, \A s : s \in S <=> s = low \/ \E k \in places : s = of[k]
  PROVE  Max(S) \in Int /\ \A s \in S : s <= Max(S)
<1> DEFINE P(j) == {low} \cup {of[k] : k \in {i \in places : i <= j}}
           Good == {j \in 0 .. n : \E x \in P(j) : \A y \in P(j) : x >= y}
<1>0. \A i \in places : i \in Nat /\ 1 <= i /\ i <= n
  OBVIOUS
<1>1. 0 \in Good
  <2>1. ASSUME NEW i \in places, i <= 0 PROVE FALSE
    <3>1. i \in Nat /\ 1 <= i
      BY <1>0
    <3> QED BY <2>1, <3>1
  <2>2. P(0) = {low}
    BY <2>1
  <2> QED BY <2>2
<1>2. ASSUME NEW j \in 0 .. n, j < n, j \in Good PROVE j + 1 \in Good
  <2>1. PICK x \in P(j) : \A y \in P(j) : x >= y
    BY <1>2
  <2>2. x \in Int
    BY <2>1
  <2>3. CASE j + 1 \in places
    <3>0. {i \in places : i <= j + 1} = {i \in places : i <= j} \cup {j + 1}
      <4>1. ASSUME NEW i \in places PROVE i <= j + 1 <=> i <= j \/ i = j + 1
        <5>1. i \in Nat /\ j \in Nat
          BY <1>0
        <5> QED BY <5>1
      <4> QED BY <2>3, <4>1
    <3>1. P(j + 1) = P(j) \cup {of[j + 1]}
      BY <3>0
    <3>2. of[j + 1] \in Int /\ \A y \in P(j) : y \in Int
      BY <2>3
    <3> HIDE DEF P
    <3>3. \E z \in P(j + 1) : \A y \in P(j + 1) : z >= y
      <4>1. CASE x >= of[j + 1]
        BY <2>1, <2>2, <3>1, <3>2, <4>1
      <4>2. CASE x < of[j + 1]
        <5>1. of[j + 1] \in P(j + 1)
          BY <3>1
        <5>2. \A y \in P(j + 1) : of[j + 1] >= y
          BY <2>1, <2>2, <3>1, <3>2, <4>2
        <5> QED BY <5>1, <5>2
      <4> QED BY <2>2, <3>2, <4>1, <4>2
    <3> QED BY <1>2, <3>3
  <2>4. CASE j + 1 \notin places
    <3>1. {i \in places : i <= j + 1} = {i \in places : i <= j}
      <4>1. ASSUME NEW i \in places PROVE i <= j + 1 <=> i <= j
        <5>1. i \in Nat /\ j \in Nat /\ i # j + 1
          BY <1>0, <2>4
        <5> QED BY <5>1
      <4> QED BY <4>1
    <3>2. P(j + 1) = P(j)
      BY <3>1
    <3> HIDE DEF P
    <3> QED BY <1>2, <2>1, <3>2
  <2> QED BY <2>3, <2>4
<1>3. n \in Good
  <2> HIDE DEF Good
  <2> QED BY <1>1, <1>2, Upwards
<1>4. P(n) = S
  <2>1. {i \in places : i <= n} = places
    BY <1>0
  <2> QED BY <2>1
<1>5. \E x \in S : \A y \in S : x >= y
  BY <1>3, <1>4
<1>6. S \in SUBSET Int
  OBVIOUS
<1>7. Max(S) \in S /\ \A y \in S : Max(S) >= y
  BY <1>5 DEF Max
<1> QED BY <1>6, <1>7

-----------------------------------------------------------------------------
(* Boxes and the items of a line, as far as the lines look into them.      *)
IsBox(b) ==
  /\ b = [f \in DOMAIN b |-> b[f]]
  /\ {"type", "style", "x", "y", "w", "h", "padding", "border", "margin"} \subseteq DOMAIN b
  /\ b.x \in Int /\ b.y \in Int /\ b.w \in Int /\ b.h \in Int
  /\ b.padding \in [1 .. 4 -> Int] /\ b.border \in [1 .. 4 -> Int] /\ b.margin \in [1 .. 4 -> Int]

IsItem(it) ==
  /\ it = [f \in DOMAIN it |-> it[f]]
  /\ {"box", "width", "ascent", "descent", "offset"} \subseteq DOMAIN it
  /\ it.width \in Int /\ it.ascent \in Int /\ it.descent \in Int /\ it.offset \in Int
  /\ IsBox(it.box) /\ it.box.style.vOffset.value \in Int

LEMMA PixelsAreWhole ==
  ASSUME NEW len, len.value \in Int, NEW containing \in Int, NEW font \in Int
  PROVE  ResolveLength(len, containing, font) \in Int
<1>1. RootFont \in Int /\ ViewWidth \in Int /\ ViewHeight \in Int
  BY LayoutAssumption
<1>2. \A x \in Int : x \div 100 \in Int
  OBVIOUS
<1>3. /\ (len.value * containing) \div 100 \in Int
      /\ (len.value * ViewWidth) \div 100 \in Int /\ (len.value * ViewHeight) \div 100 \in Int
  BY <1>1, <1>2
<1>4. len.value * font \in Int /\ len.value * RootFont \in Int
  BY <1>1
<1> QED BY <1>3, <1>4 DEF ResolveLength

(* An item keeps what it is when it is hung higher or lower.               *)
LEMMA ItemHung ==
  ASSUME NEW it, IsItem(it), NEW v \in Int
  PROVE  LET hung == [it EXCEPT !.offset = v]
         IN  /\ IsItem(hung) /\ hung.offset = v /\ hung.box = it.box
             /\ hung.ascent = it.ascent /\ hung.descent = it.descent /\ hung.width = it.width
<1> DEFINE hung == [it EXCEPT !.offset = v]
<1>1. /\ DOMAIN hung = DOMAIN it /\ hung = [f \in DOMAIN hung |-> hung[f]] /\ hung.offset = v
      /\ \A f \in DOMAIN it : f # "offset" => hung[f] = it[f]
  BY DEF IsItem
<1>2. /\ hung.box = it.box /\ hung.ascent = it.ascent /\ hung.descent = it.descent
      /\ hung.width = it.width
  BY <1>1 DEF IsItem
<1> HIDE DEF hung
<1>3. IsItem(hung)
  BY <1>1, <1>2 DEF IsItem
<1> QED BY <1>1, <1>2, <1>3 DEF hung

LEMMA AlignIsWhole ==
  ASSUME NEW it, IsItem(it), NEW font \in Int, NEW parent, parent.ascent \in Int, parent.descent \in Int
  PROVE  NonExtremeAlign(it, font, parent) \in Int
<1>1. /\ font \div 5 \in Int /\ -((font * 2) \div 5) \in Int
      /\ -((font \div 4) + ((it.ascent - it.descent) \div 2)) \in Int
  BY DEF IsItem
<1>2. it.ascent - parent.ascent \in Int /\ parent.descent - it.descent \in Int
  BY DEF IsItem
<1>3. -ResolveLength(it.box.style.vOffset, font, font) \in Int
  <2>1. ResolveLength(it.box.style.vOffset, font, font) \in Int
    BY PixelsAreWhole DEF IsItem
  <2> QED BY <2>1
<1> QED BY <1>1, <1>2, <1>3 DEF NonExtremeAlign

(* A line that has grown is at least as high as it was and holds the items *)
(* it has grown for.                                                       *)
LEMMA GrownHolds ==
  ASSUME NEW items, NEW n \in Nat, NEW places \in SUBSET (1 .. n), \A k \in places : IsItem(items[k]),
         NEW m, m.up \in Int, m.down \in Int
  PROVE  LET g == Grown(m, items, places)
         IN  /\ g.up \in Int /\ g.down \in Int /\ m.up <= g.up /\ m.down <= g.down
             /\ \A k \in places : /\ items[k].ascent - items[k].offset <= g.up
                                  /\ items[k].descent + items[k].offset <= g.down
<1> DEFINE up   == [k \in places |-> items[k].ascent - items[k].offset]
           down == [k \in places |-> items[k].descent + items[k].offset]
           U == {m.up} \cup {up[k] : k \in places}
           D == {m.down} \cup {down[k] : k \in places}
           g == Grown(m, items, places)
<1>1. (\A k \in places : up[k] \in Int) /\ (\A k \in places : down[k] \in Int)
  <2> SUFFICES ASSUME NEW k \in places PROVE up[k] \in Int /\ down[k] \in Int
    OBVIOUS
  <2>1. items[k].ascent \in Int /\ items[k].descent \in Int /\ items[k].offset \in Int
    BY DEF IsItem
  <2> QED BY <2>1
<1>2. g.up = Max(U) /\ g.down = Max(D)
  <2>1. /\ {up[k] : k \in places} = {items[k].ascent - items[k].offset : k \in places}
        /\ {down[k] : k \in places} = {items[k].descent + items[k].offset : k \in places}
    OBVIOUS
  <2> QED BY <2>1 DEF Grown
<1>3. Max(U) \in Int /\ \A s \in U : s <= Max(U)
  <2>1. up \in [places -> Int]
    BY <1>1
  <2>2. PICK low \in Int : low = m.up
    OBVIOUS
  <2>3. \A s : s \in U <=> s = low \/ \E k \in places : s = up[k]
    BY <2>2
  <2> HIDE DEF up, U
  <2> QED BY <2>1, <2>3, MaxOfPlaces
<1>4. Max(D) \in Int /\ \A s \in D : s <= Max(D)
  <2>1. down \in [places -> Int]
    BY <1>1
  <2>2. PICK low \in Int : low = m.down
    OBVIOUS
  <2>3. \A s : s \in D <=> s = low \/ \E k \in places : s = down[k]
    BY <2>2
  <2> HIDE DEF down, D
  <2> QED BY <2>1, <2>3, MaxOfPlaces
<1> HIDE DEF g
<1>5. m.up <= g.up /\ m.down <= g.down /\ g.up \in Int /\ g.down \in Int
  BY <1>2, <1>3, <1>4
<1>6. ASSUME NEW k \in places
      PROVE  items[k].ascent - items[k].offset <= g.up /\ items[k].descent + items[k].offset <= g.down
  <2>1. up[k] \in U /\ down[k] \in D
    OBVIOUS
  <2>2. up[k] <= Max(U) /\ down[k] <= Max(D)
    BY <1>3, <1>4, <2>1
  <2> QED BY <1>2, <2>2
<1> QED BY <1>5, <1>6 DEF g

(* Between the edges of a line, in numbers.                                *)
LEMMA BetweenEdges ==
  ASSUME NEW top \in Int, NEW up \in Int, NEW down \in Int, NEW half \in Int, NEW height \in Int,
         NEW a \in Int, NEW d \in Int, NEW o \in Int,
         a - o <= up, d + o <= down, 0 <= half, half <= height - up - down
  PROVE  /\ top <= (top + up + half) - a + o
         /\ ((top + up + half) - a + o) + a + d <= top + height
OBVIOUS

LEMMA LevelPlaces ==
  ASSUME NEW all, NEW m, NEW top, NEW lineHeight
  PROVE  LET height == AtLeast(lineHeight, m.up + m.down)
             half   == (height - m.up - m.down) \div 2
             line   == Leveled(all, m, top, lineHeight)
         IN  /\ line.height = height
             /\ line.kids = [k \in 1 .. Len(all) |->
                               [all[k].box EXCEPT !.y = (top + m.up + half) - all[k].ascent + all[k].offset]]
BY DEF Leveled

LEMMA IndexedIsSeq ==
  ASSUME NEW n \in Nat, NEW s, s = [k \in 1 .. n |-> s[k]]
  PROVE  s \in Seq({s[k] : k \in 1 .. n}) /\ DOMAIN s = 1 .. n /\ Len(s) = n
<1> DEFINE X == {s[k] : k \in 1 .. n}
<1>1. s \in [1 .. n -> X]
  <2>1. \A k \in 1 .. n : s[k] \in X
    OBVIOUS
  <2> HIDE DEF X
  <2> QED BY <2>1
<1> HIDE DEF X
<1>2. s \in Seq(X) /\ DOMAIN s = 1 .. n
  BY <1>1
<1>3. Len(s) = n
  BY <1>2
<1> QED BY <1>2, <1>3 DEF X

(* FinalizeLine: whatever the alignments of its items, each lies within    *)
(* the height of the line, from the line's top to its bottom; and those    *)
(* that are aligned with the baseline share it.                            *)
THEOREM ItemsWithinLine ==
  ASSUME NEW n \in Nat, NEW items, items = [k \in 1 .. n |-> items[k]],
         \A k \in 1 .. n : IsItem(items[k]),
         NEW top \in Int, NEW font \in Int, NEW lineHeight \in Int,
         NEW parent, parent.ascent \in Int, parent.descent \in Int
  PROVE  LET line == FinalizeLine(items, top, font, parent, lineHeight)
         IN  /\ line.height \in Int /\ line.height >= lineHeight
             /\ \A k \in 1 .. n :
                  /\ top <= line.kids[k].y
                  /\ line.kids[k].y + items[k].ascent + items[k].descent <= top + line.height
             /\ \A i, j \in 1 .. n :
                  items[i].box.style.vAlign = "baseline" /\ items[j].box.style.vAlign = "baseline" =>
                    line.kids[i].y + items[i].ascent = line.kids[j].y + items[j].ascent
<1> DEFINE hung  == OnBaseline(items, font, parent)
           strut == Strut(hung, parent)
           all   == OnEdges(hung, strut)
           m     == GrownByExtremes(strut, all)
           line  == Leveled(all, m, top, lineHeight)
<1>0. Len(items) = n /\ DOMAIN items = 1 .. n
  BY IndexedIsSeq
<1>1. /\ DOMAIN hung = 1 .. n /\ Len(hung) = n
      /\ \A k \in 1 .. n :
           /\ IsItem(hung[k]) /\ hung[k].box = items[k].box
           /\ hung[k].ascent = items[k].ascent /\ hung[k].descent = items[k].descent
           /\ items[k].box.style.vAlign = "baseline" => hung[k].offset = 0
  <2>1. hung = [k \in 1 .. n |-> hung[k]]
    BY <1>0 DEF OnBaseline
  <2>2. DOMAIN hung = 1 .. n /\ Len(hung) = n
    <3> HIDE DEF hung
    <3> QED BY <2>1, IndexedIsSeq
  <2>4. ASSUME NEW k \in 1 .. n
        PROVE  /\ IsItem(hung[k]) /\ hung[k].box = items[k].box
               /\ hung[k].ascent = items[k].ascent /\ hung[k].descent = items[k].descent
               /\ items[k].box.style.vAlign = "baseline" => hung[k].offset = 0
    <3>1. CASE Extreme(items[k])
      <4>1. hung[k] = items[k]
        BY <1>0, <3>1 DEF OnBaseline
      <4>2. items[k].box.style.vAlign # "baseline"
        BY <3>1 DEF Extreme
      <4> QED BY <4>1, <4>2
    <3>2. CASE ~Extreme(items[k])
      <4> DEFINE v == NonExtremeAlign(items[k], font, parent)
      <4>1. hung[k] = [items[k] EXCEPT !.offset = v]
        BY <1>0, <3>2 DEF OnBaseline
      <4>2. v \in Int
        BY AlignIsWhole
      <4>3. items[k].box.style.vAlign = "baseline" => v = 0
        BY DEF NonExtremeAlign
      <4>4. IsItem(items[k])
        OBVIOUS
      <4> HIDE DEF v, hung
      <4> QED BY <4>1, <4>2, <4>3, <4>4, ItemHung
    <3> QED BY <3>1, <3>2
  <2> QED BY <2>2, <2>4
<1> HIDE DEF hung
<1>2. /\ strut.up \in Int /\ strut.down \in Int
      /\ \A k \in 1 .. n : ~Extreme(items[k]) =>
           /\ hung[k].ascent - hung[k].offset <= strut.up
           /\ hung[k].descent + hung[k].offset <= strut.down
  <2> DEFINE places == DOMAIN hung \ Edged(hung)
             base == [up |-> AtLeast(parent.ascent, 0), down |-> AtLeast(parent.descent, 0)]
  <2>1. places \in SUBSET (1 .. n) /\ \A k \in places : IsItem(hung[k])
    BY <1>1
  <2>2. base.up \in Int /\ base.down \in Int
    BY DEF AtLeast
  <2>3. \A k \in 1 .. n : ~Extreme(items[k]) => k \in places
    BY <1>1 DEF Edged, Extreme
  <2>4. strut = Grown(base, hung, places)
    BY DEF Strut
  <2> HIDE DEF places, base, strut
  <2> QED BY <2>1, <2>2, <2>3, <2>4, GrownHolds
<1> HIDE DEF strut
<1>3. /\ DOMAIN all = 1 .. n /\ Len(all) = n
      /\ \A k \in 1 .. n :
           /\ IsItem(all[k]) /\ all[k].box = items[k].box
           /\ all[k].ascent = items[k].ascent /\ all[k].descent = items[k].descent
           /\ ~Extreme(items[k]) => all[k] = hung[k]
  <2>1. all = [k \in 1 .. n |-> all[k]]
    BY <1>1 DEF OnEdges
  <2>2. DOMAIN all = 1 .. n /\ Len(all) = n
    <3> HIDE DEF all
    <3> QED BY <2>1, IndexedIsSeq
  <2>4. ASSUME NEW k \in 1 .. n
        PROVE  /\ IsItem(all[k]) /\ all[k].box = items[k].box
               /\ all[k].ascent = items[k].ascent /\ all[k].descent = items[k].descent
               /\ ~Extreme(items[k]) => all[k] = hung[k]
    <3>1. CASE items[k].box.style.vAlign = "top"
      <4> DEFINE v == hung[k].ascent - strut.up
      <4>1. all[k] = [hung[k] EXCEPT !.offset = v]
        BY <1>1, <3>1 DEF OnEdges
      <4>2. v \in Int
        BY <1>1, <1>2 DEF IsItem
      <4>3. Extreme(items[k])
        BY <3>1 DEF Extreme
      <4> HIDE DEF v, all
      <4> QED BY <1>1, <4>1, <4>2, <4>3, ItemHung
    <3>2. CASE items[k].box.style.vAlign = "bottom"
      <4> DEFINE v == strut.down - hung[k].descent
      <4>1. all[k] = [hung[k] EXCEPT !.offset = v]
        BY <1>1, <3>2 DEF OnEdges
      <4>2. v \in Int
        BY <1>1, <1>2 DEF IsItem
      <4>3. Extreme(items[k])
        BY <3>2 DEF Extreme
      <4> HIDE DEF v, all
      <4> QED BY <1>1, <4>1, <4>2, <4>3, ItemHung
    <3>3. CASE items[k].box.style.vAlign \notin {"top", "bottom"}
      <4>1. all[k] = hung[k]
        BY <1>1, <3>3 DEF OnEdges
      <4> QED BY <1>1, <4>1
    <3> QED BY <3>1, <3>2, <3>3
  <2> QED BY <2>2, <2>4
<1> HIDE DEF all
<1>4. /\ m.up \in Int /\ m.down \in Int
      /\ \A k \in 1 .. n : /\ all[k].ascent - all[k].offset <= m.up
                           /\ all[k].descent + all[k].offset <= m.down
  <2>1. Edged(all) \in SUBSET (1 .. n) /\ \A k \in Edged(all) : IsItem(all[k])
    BY <1>3 DEF Edged
  <2>2. /\ m.up \in Int /\ m.down \in Int /\ strut.up <= m.up /\ strut.down <= m.down
        /\ \A k \in Edged(all) : /\ all[k].ascent - all[k].offset <= m.up
                                 /\ all[k].descent + all[k].offset <= m.down
    BY <1>2, <2>1, GrownHolds DEF GrownByExtremes
  <2> HIDE DEF m
  <2>3. ASSUME NEW k \in 1 .. n
        PROVE  all[k].ascent - all[k].offset <= m.up /\ all[k].descent + all[k].offset <= m.down
    <3>1. CASE Extreme(items[k])
      <4>1. k \in Edged(all)
        BY <1>3, <3>1 DEF Edged, Extreme
      <4> QED BY <2>2, <4>1
    <3>2. CASE ~Extreme(items[k])
      <4>1. all[k] = hung[k] /\ all[k].ascent \in Int /\ all[k].descent \in Int /\ all[k].offset \in Int
        BY <1>3, <3>2 DEF IsItem
      <4>2. /\ hung[k].ascent - hung[k].offset <= strut.up
            /\ hung[k].descent + hung[k].offset <= strut.down
        BY <1>2, <3>2
      <4>3. /\ all[k].ascent - all[k].offset \in Int /\ all[k].ascent - all[k].offset <= strut.up
            /\ all[k].descent + all[k].offset \in Int /\ all[k].descent + all[k].offset <= strut.down
        BY <4>1, <4>2
      <4>4. \A x, y, z \in Int : x <= y /\ y <= z => x <= z
        OBVIOUS
      <4> QED BY <1>2, <2>2, <4>3, <4>4
    <3> QED BY <3>1, <3>2
  <2> QED BY <2>2, <2>3
<1> HIDE DEF m
<1> DEFINE height == AtLeast(lineHeight, m.up + m.down)
           half   == (height - m.up - m.down) \div 2
<1>5. height \in Int /\ height >= lineHeight /\ height >= m.up + m.down
  BY <1>4 DEF AtLeast
<1>6. half \in Int /\ 0 <= half /\ half <= height - m.up - m.down
  <2> HIDE DEF height
  <2>1. \A x \in Nat : x \div 2 \in Int /\ 0 <= x \div 2 /\ x \div 2 <= x
    OBVIOUS
  <2>2. height - m.up - m.down \in Nat
    BY <1>4, <1>5
  <2> QED BY <2>1, <2>2
<1>7. /\ line.height = height
      /\ \A k \in 1 .. n : line.kids[k].y = (top + m.up + half) - all[k].ascent + all[k].offset
  <2>1. line.height = height
    BY DEF Leveled
  <2>2. ASSUME NEW k \in 1 .. n
        PROVE  line.kids[k].y = (top + m.up + half) - all[k].ascent + all[k].offset
    <3>0. line.kids = [i \in 1 .. Len(all) |->
                         [all[i].box EXCEPT !.y = (top + m.up + half) - all[i].ascent + all[i].offset]]
      BY LevelPlaces
    <3> HIDE DEF line, half, height
    <3>1. line.kids[k] = [all[k].box EXCEPT !.y = (top + m.up + half) - all[k].ascent + all[k].offset]
      BY <1>3, <3>0
    <3>2. "y" \in DOMAIN all[k].box
      BY <1>3 DEF IsItem, IsBox
    <3> QED BY <3>1, <3>2
  <2> QED BY <2>1, <2>2
<1>8. FinalizeLine(items, top, font, parent, lineHeight) = line
  BY DEF FinalizeLine, hung, strut, all, m
<1> HIDE DEF line, height, half
<1>9. ASSUME NEW k \in 1 .. n
      PROVE  /\ top <= line.kids[k].y
             /\ line.kids[k].y + items[k].ascent + items[k].descent <= top + line.height
  <2>1. /\ all[k].ascent \in Int /\ all[k].descent \in Int /\ all[k].offset \in Int
        /\ all[k].ascent = items[k].ascent /\ all[k].descent = items[k].descent
    BY <1>3 DEF IsItem
  <2>2. all[k].ascent - all[k].offset <= m.up /\ all[k].descent + all[k].offset <= m.down
    BY <1>4
  <2>3. line.kids[k].y = (top + m.up + half) - all[k].ascent + all[k].offset
    BY <1>7
  <2>4. /\ top <= (top + m.up + half) - all[k].ascent + all[k].offset
        /\ ((top + m.up + half) - all[k].ascent + all[k].offset) + all[k].ascent + all[k].descent <= top + height
    BY <1>4, <1>5, <1>6, <2>1, <2>2, BetweenEdges
  <2> QED BY <1>7, <2>1, <2>3, <2>4
<1>10. ASSUME NEW i \in 1 .. n, items[i].box.style.vAlign = "baseline"
       PROVE  line.kids[i].y + items[i].ascent = top + m.up + half
  <2>1. ~Extreme(items[i])
    BY <1>10 DEF Extreme
  <2>2. all[i].offset = 0 /\ all[i].ascent = items[i].ascent /\ items[i].ascent \in Int
    BY <1>1, <1>3, <1>10, <2>1 DEF IsItem
  <2>3. line.kids[i].y = (top + m.up + half) - all[i].ascent + all[i].offset
    BY <1>7
  <2> QED BY <1>4, <1>6, <2>2, <2>3
<1> QED BY <1>5, <1>7, <1>8, <1>9, <1>10

(* The line that is being filled: its items follow each other from the     *)
(* start of the line to endX, and they fit unless there is only one.       *)
IsLine(st) ==
  /\ st = [f \in DOMAIN st |-> st[f]]
  /\ {"kids", "lines", "items", "endX", "widest", "top"} \subseteq DOMAIN st
  /\ st.endX \in Int /\ st.items \in Seq({st.items[k] : k \in 1 .. Len(st.items)})

StartOf(it) == IF it.box.type = "text" THEN it.box.x ELSE it.box.x - it.box.margin[4]

Filling(st, available) ==
  /\ IsLine(st)
  /\ \A k \in 1 .. Len(st.items) :
       /\ IsItem(st.items[k])
       /\ StartOf(st.items[k]) = IF k = 1 THEN 0 ELSE StartOf(st.items[k - 1]) + st.items[k - 1].width
  /\ st.endX = IF st.items = <<>> THEN 0
               ELSE StartOf(st.items[Len(st.items)]) + st.items[Len(st.items)].width
  /\ Len(st.items) > 1 => st.endX <= available

(* An item that is put somewhere starts there.                             *)
LEMMA ItemPut ==
  ASSUME NEW it, IsItem(it), NEW x \in Int
  PROVE  LET box == IF it.box.type = "text" THEN [it.box EXCEPT !.x = x]
                    ELSE [it.box EXCEPT !.x = x + it.box.margin[4]]
             put == [it EXCEPT !.box = box]
         IN  IsItem(put) /\ StartOf(put) = x /\ put.width = it.width
<1> DEFINE v   == IF it.box.type = "text" THEN x ELSE x + it.box.margin[4]
           box == [it.box EXCEPT !.x = v]
           put == [it EXCEPT !.box = box]
<1>1. it.box.margin[4] \in Int /\ v \in Int /\ IsBox(it.box)
  BY DEF IsItem, IsBox
<1>2. /\ DOMAIN box = DOMAIN it.box /\ box = [f \in DOMAIN box |-> box[f]] /\ box.x = v
      /\ \A f \in DOMAIN it.box : f # "x" => box[f] = it.box[f]
  <2> HIDE DEF v
  <2> QED BY <1>1 DEF IsBox
<1>3. /\ box.style = it.box.style /\ box.margin = it.box.margin /\ box.padding = it.box.padding
      /\ box.border = it.box.border /\ box.y = it.box.y /\ box.w = it.box.w /\ box.h = it.box.h
  <2> HIDE DEF box
  <2> QED BY <1>1, <1>2 DEF IsBox
<1>4. box.type = it.box.type
  <2> HIDE DEF box
  <2> QED BY <1>1, <1>2 DEF IsBox
<1> HIDE DEF box
<1>5. IsBox(box)
  BY <1>1, <1>2, <1>3 DEF IsBox
<1>6. /\ DOMAIN put = DOMAIN it /\ put = [f \in DOMAIN put |-> put[f]] /\ put.box = box
      /\ \A f \in DOMAIN it : f # "box" => put[f] = it[f]
  BY DEF IsItem
<1> HIDE DEF put
<1>7. /\ put.width = it.width /\ put.ascent = it.ascent /\ put.descent = it.descent
      /\ put.offset = it.offset
  BY <1>6 DEF IsItem
<1>8. IsItem(put)
  BY <1>3, <1>5, <1>6, <1>7 DEF IsItem
<1>9. StartOf(put) = x
  BY <1>1, <1>2, <1>3, <1>4, <1>6 DEF StartOf
<1>10. put = [it EXCEPT !.box = IF it.box.type = "text" THEN [it.box EXCEPT !.x = x]
                                ELSE [it.box EXCEPT !.x = x + it.box.margin[4]]]
  BY DEF put, box
<1> QED BY <1>7, <1>8, <1>9, <1>10

LEMMA ItemAppended ==
  ASSUME NEW S, NEW s \in Seq(S), NEW x
  PROVE  LET t == Append(s, x)
         IN  /\ t \in Seq({t[k] : k \in 1 .. Len(t)}) /\ Len(t) = Len(s) + 1 /\ t[Len(t)] = x
             /\ \A k \in 1 .. Len(s) : t[k] = s[k]
<1> DEFINE t == Append(s, x)
<1>1. t \in Seq(S \cup {x}) /\ Len(t) = Len(s) + 1 /\ t[Len(t)] = x
      /\ \A k \in 1 .. Len(s) : t[k] = s[k]
  <2>1. s \in Seq(S \cup {x})
    OBVIOUS
  <2> QED BY <2>1
<1>2. t = [k \in 1 .. Len(t) |-> t[k]] /\ Len(t) \in Nat
  <2> HIDE DEF t
  <2> QED BY <1>1
<1>3. t \in Seq({t[k] : k \in 1 .. Len(t)})
  <2> HIDE DEF t
  <2> QED BY <1>2, IndexedIsSeq
<1> QED BY <1>1, <1>3

(* PlaceInline: the items of a line follow each other without gap or       *)
(* overlap and fit into it, an item alone aside; a line ends only for an   *)
(* item that does not fit, and the next starts where it ends.              *)
THEOREM ItemsFollow ==
  ASSUME NEW st, NEW available \in Int, Filling(st, available), NEW item, IsItem(item), NEW line
  PROVE  LET next == PlaceInline(st, item, available, line)
         IN  /\ Filling(next, available)
             /\ \/ /\ Len(next.items) = Len(st.items) + 1
                   /\ next.lines = st.lines /\ next.top = st.top /\ next.kids = st.kids
                \/ /\ st.items # <<>> /\ st.endX + item.width > available
                   /\ Len(next.items) = 1 /\ next.top = st.top + line.height
                   /\ next.kids = st.kids \o line.kids
                   /\ next.lines = Append(st.lines, [count |-> Len(st.items), top |-> st.top,
                                                     height |-> line.height])
<1> DEFINE breaks == st.endX + item.width > available /\ st.items # <<>>
           ended == [kids  |-> st.kids \o line.kids,
                     lines |-> Append(st.lines, [count |-> Len(st.items), top |-> st.top, height |-> line.height]),
                     items |-> <<>>, endX |-> 0, widest |-> AtLeast(st.widest, st.endX),
                     top |-> st.top + line.height]
           begun == IF breaks THEN ended ELSE st
           box   == IF item.box.type = "text" THEN [item.box EXCEPT !.x = begun.endX]
                    ELSE [item.box EXCEPT !.x = begun.endX + item.box.margin[4]]
           put   == [item EXCEPT !.box = box]
           next  == [begun EXCEPT !.items = Append(@, put), !.endX = begun.endX + item.width]
<1>1. Filling(ended, available)
  <2>1. ended.items = <<>> /\ ended.endX = 0 /\ Len(ended.items) = 0
    OBVIOUS
  <2>2. IsLine(ended)
    <3>1. <<>> \in Seq({ended.items[k] : k \in 1 .. Len(ended.items)})
      OBVIOUS
    <3>2. DOMAIN ended = {"kids", "lines", "items", "endX", "widest", "top"}
      OBVIOUS
    <3>3. ended = [f \in DOMAIN ended |-> ended[f]]
      OBVIOUS
    <3> HIDE DEF ended
    <3> QED BY <2>1, <3>1, <3>2, <3>3 DEF IsLine
  <2> HIDE DEF ended
  <2> QED BY <2>1, <2>2 DEF Filling
<1>2. Filling(begun, available)
  <2> HIDE DEF ended, breaks
  <2> QED BY <1>1
<1>3. begun.items = <<>> \/ begun.endX + item.width <= available
  <2>1. CASE breaks
    BY <2>1
  <2>2. CASE ~breaks
    BY <2>2 DEF Filling, IsLine, IsItem
  <2> QED BY <2>1, <2>2
<1>4. \/ breaks /\ begun = ended
      \/ ~breaks /\ begun = st
  OBVIOUS
<1> HIDE DEF begun
<1>5. begun.endX \in Int /\ item.width \in Int
  BY <1>2 DEF Filling, IsLine, IsItem
<1>6. IsItem(put) /\ StartOf(put) = begun.endX /\ put.width = item.width
  BY <1>5, ItemPut
<1> HIDE DEF put
<1>7. /\ DOMAIN next = DOMAIN begun /\ next = [f \in DOMAIN next |-> next[f]]
      /\ next.items = Append(begun.items, put) /\ next.endX = begun.endX + item.width
      /\ next.lines = begun.lines /\ next.top = begun.top /\ next.kids = begun.kids
  <2> HIDE DEF put
  <2>1. /\ begun = [f \in DOMAIN begun |-> begun[f]]
        /\ {"kids", "lines", "items", "endX", "widest", "top"} \subseteq DOMAIN begun
    BY <1>2 DEF Filling, IsLine
  <2> QED BY <2>1
<1> HIDE DEF next
<1>8. /\ next.items \in Seq({next.items[k] : k \in 1 .. Len(next.items)})
      /\ Len(next.items) = Len(begun.items) + 1 /\ next.items[Len(next.items)] = put
      /\ \A k \in 1 .. Len(begun.items) : next.items[k] = begun.items[k]
  BY <1>2, <1>7, ItemAppended DEF Filling, IsLine
<1>9. Len(begun.items) \in Nat /\ (begun.items = <<>> <=> Len(begun.items) = 0)
  BY <1>2 DEF Filling, IsLine
<1>10. IsLine(next)
  <2>1. {"kids", "lines", "items", "endX", "widest", "top"} \subseteq DOMAIN next
    BY <1>2, <1>7 DEF Filling, IsLine
  <2>2. next.endX \in Int
    BY <1>5, <1>7
  <2> QED BY <1>7, <1>8, <2>1, <2>2 DEF IsLine
<1>11. ASSUME NEW k \in 1 .. Len(next.items)
       PROVE  /\ IsItem(next.items[k])
              /\ StartOf(next.items[k]) = IF k = 1 THEN 0
                                          ELSE StartOf(next.items[k - 1]) + next.items[k - 1].width
  <2>1. CASE k <= Len(begun.items)
    <3>1. k \in 1 .. Len(begun.items) /\ next.items[k] = begun.items[k]
      BY <1>8, <1>9, <2>1
    <3>2. k # 1 => next.items[k - 1] = begun.items[k - 1]
      BY <1>8, <1>9, <2>1
    <3> QED BY <1>2, <3>1, <3>2 DEF Filling
  <2>2. CASE k = Len(begun.items) + 1
    <3>1. next.items[k] = put
      BY <1>8, <2>2
    <3>2. k # 1 => next.items[k - 1] = begun.items[Len(begun.items)]
      BY <1>8, <1>9, <2>2
    <3>3. k = 1 <=> begun.items = <<>>
      BY <1>9, <2>2
    <3> QED BY <1>2, <1>6, <3>1, <3>2, <3>3 DEF Filling
  <2> QED BY <1>8, <1>9, <2>1, <2>2
<1>12. next.items # <<>> /\ next.endX = StartOf(next.items[Len(next.items)]) + next.items[Len(next.items)].width
  BY <1>6, <1>7, <1>8, <1>9
<1>13. Len(next.items) > 1 => next.endX <= available
  BY <1>3, <1>7, <1>8, <1>9
<1>14. Filling(next, available)
  BY <1>10, <1>11, <1>12, <1>13 DEF Filling
<1>15. next = PlaceInline(st, item, available, line)
  BY DEF PlaceInline, next, put, begun
<1> HIDE DEF ended
<1>16. CASE breaks
  <2>1. begun = ended
    BY <1>4, <1>16
  <2>2. Len(begun.items) = 0
    BY <2>1 DEF ended
  <2>3. /\ next.top = st.top + line.height /\ next.kids = st.kids \o line.kids
        /\ next.lines = Append(st.lines, [count |-> Len(st.items), top |-> st.top, height |-> line.height])
    BY <1>7, <2>1 DEF ended
  <2>4. Len(next.items) = 1
    BY <1>8, <2>2
  <2>5. st.items # <<>> /\ st.endX + item.width > available
    BY <1>16
  <2> HIDE DEF breaks
  <2> QED BY <1>14, <1>15, <2>3, <2>4, <2>5
<1>17. CASE ~breaks
  <2>1. begun = st
    BY <1>4, <1>17
  <2> QED BY <1>7, <1>8, <1>14, <1>15, <2>1
<1> QED BY <1>16, <1>17

-----------------------------------------------------------------------------
(* The chain of the margins in M. *)
ChainOf(c, M) ==
  /\ c.pos \in Int /\ c.neg \in Int /\ c.neg <= 0 /\ 0 <= c.pos
  /\ c.pos \in {0} \cup M /\ c.neg \in {0} \cup M
  /\ \A m \in M : c.neg <= m /\ m <= c.pos
  /\ c = [pos |-> c.pos, neg |-> c.neg]

(* MarginChain: a chain that margins were added to one by one, or that was *)
(* merged from chains, in whatever order, collapses to the joint of all    *)
(* the margins that ever came into it, and to nothing else.                *)
THEOREM MarginsJoin ==
  ASSUME NEW M \in SUBSET Int, NEW N \in SUBSET Int, NEW c, NEW d, ChainOf(c, M), ChainOf(d, N)
  PROVE  /\ ChainOf(NoChain, {})
         /\ \A m \in Int : ChainOf(AddMargin(c, m), M \cup {m})
         /\ ChainOf(MergeFrom(c, d), M \cup N)
         /\ Collapsed(c) = Joint(M)
<1>1. ChainOf(NoChain, {})
  BY DEF ChainOf, NoChain
<1>2. ASSUME NEW m \in Int PROVE ChainOf(AddMargin(c, m), M \cup {m})
  <2>1. CASE m > 0
    <3> DEFINE e == [c EXCEPT !.pos = AtLeast(c.pos, m)]
    <3>1. AddMargin(c, m) = e
      BY <2>1 DEF AddMargin
    <3>2. e.pos = AtLeast(c.pos, m) /\ e.neg = c.neg /\ e = [pos |-> e.pos, neg |-> e.neg]
      BY DEF ChainOf
    <3> HIDE DEF e
    <3>3. /\ e.pos \in Int /\ e.neg \in Int /\ e.neg <= 0 /\ 0 <= e.pos /\ m <= e.pos /\ c.pos <= e.pos
          /\ e.pos = c.pos \/ e.pos = m
      BY <2>1, <3>2 DEF ChainOf, AtLeast
    <3>4. \A x \in M : e.neg <= x /\ x <= e.pos
      BY <3>2, <3>3 DEF ChainOf
    <3>5. e.neg <= m
      BY <2>1, <3>3
    <3> QED BY <3>1, <3>2, <3>3, <3>4, <3>5 DEF ChainOf
  <2>2. CASE ~(m > 0)
    <3> DEFINE e == [c EXCEPT !.neg = AtMost(c.neg, m)]
    <3>1. AddMargin(c, m) = e
      BY <2>2 DEF AddMargin
    <3>2. e.neg = AtMost(c.neg, m) /\ e.pos = c.pos /\ e = [pos |-> e.pos, neg |-> e.neg]
      BY DEF ChainOf
    <3> HIDE DEF e
    <3>3. /\ e.pos \in Int /\ e.neg \in Int /\ e.neg <= 0 /\ 0 <= e.pos /\ e.neg <= m /\ e.neg <= c.neg
          /\ e.neg = c.neg \/ e.neg = m
      BY <2>2, <3>2 DEF ChainOf, AtMost
    <3>4. \A x \in M : e.neg <= x /\ x <= e.pos
      BY <3>2, <3>3 DEF ChainOf
    <3>5. m <= e.pos
      BY <2>2, <3>3
    <3> QED BY <3>1, <3>2, <3>3, <3>4, <3>5 DEF ChainOf
  <2> QED BY <2>1, <2>2
<1>3. ChainOf(MergeFrom(c, d), M \cup N)
  <2> DEFINE e == MergeFrom(c, d)
  <2>1. /\ e.pos = AtLeast(c.pos, d.pos) /\ e.neg = AtMost(c.neg, d.neg)
        /\ e = [pos |-> e.pos, neg |-> e.neg]
    BY DEF MergeFrom
  <2> HIDE DEF e
  <2>2. /\ e.pos \in Int /\ e.neg \in Int /\ e.neg <= 0 /\ 0 <= e.pos
        /\ c.pos <= e.pos /\ d.pos <= e.pos /\ e.neg <= c.neg /\ e.neg <= d.neg
        /\ e.pos = c.pos \/ e.pos = d.pos
        /\ e.neg = c.neg \/ e.neg = d.neg
    BY <2>1 DEF ChainOf, AtLeast, AtMost
  <2>3. \A x \in M : e.neg <= x /\ x <= e.pos
    BY <2>2 DEF ChainOf
  <2>4. \A x \in N : e.neg <= x /\ x <= e.pos
    BY <2>2 DEF ChainOf
  <2> QED BY <2>1, <2>2, <2>3, <2>4 DEF ChainOf, e
<1>4. Collapsed(c) = Joint(M)
  <2> DEFINE Z == {0} \cup M
  <2>1. c.pos \in Z /\ c.neg \in Z /\ \A z \in Z : z \in Int /\ c.neg <= z /\ z <= c.pos
    BY DEF ChainOf
  <2> HIDE DEF Z
  <2>2. Max(Z) = c.pos
    BY <2>1 DEF Max
  <2>3. Min(Z) = c.neg
    BY <2>1 DEF Min
  <2> QED BY <2>2, <2>3 DEF Collapsed, Joint, Z
<1> QED BY <1>1, <1>2, <1>3, <1>4

-----------------------------------------------------------------------------
(* Sums over a line: f sums the first places of a line one after another.  *)
Sums(f, first, n, of) ==
  /\ f \in [0 .. n -> Int] /\ f[0] = 0
  /\ \A k \in 1 .. n : f[k] = f[k - 1] + of[first + k - 1]

LEMMA SumsExist ==
  ASSUME NEW first \in Nat, NEW n \in Nat, NEW of,
         \A k \in first .. first + n - 1 : of[k] \in Int
  PROVE  \E f : Sums(f, first, n, of)
<1> DEFINE S == {m \in 0 .. n : \E f : Sums(f, first, m, of)}
<1>1. 0 \in S
  <2> DEFINE f == [k \in 0 .. 0 |-> 0]
  <2>1. f \in [0 .. 0 -> Int] /\ f[0] = 0 /\ 1 .. 0 = {}
    OBVIOUS
  <2> HIDE DEF f
  <2>2. Sums(f, first, 0, of)
    BY <2>1 DEF Sums
  <2> QED BY <2>2
<1>2. ASSUME NEW m \in 0 .. n, m < n, m \in S PROVE m + 1 \in S
  <2>1. PICK f : Sums(f, first, m, of)
    BY <1>2
  <2> DEFINE g == [k \in 0 .. m + 1 |-> IF k <= m THEN f[k] ELSE f[m] + of[first + m]]
  <2>2. of[first + m] \in Int /\ f[m] \in Int
    BY <1>2, <2>1 DEF Sums
  <2>3. g \in [0 .. m + 1 -> Int] /\ g[0] = 0
    BY <2>1, <2>2 DEF Sums
  <2>4. ASSUME NEW k \in 1 .. m + 1 PROVE g[k] = g[k - 1] + of[first + k - 1]
    <3>1. CASE k <= m
      <4>1. g[k] = f[k] /\ g[k - 1] = f[k - 1] /\ k \in 1 .. m
        BY <3>1
      <4> QED BY <2>1, <4>1 DEF Sums
    <3>2. CASE k = m + 1
      <4>1. g[k] = f[m] + of[first + m] /\ g[k - 1] = f[m] /\ first + k - 1 = first + m
        BY <3>2
      <4> QED BY <4>1
    <3> QED BY <3>1, <3>2
  <2> HIDE DEF g
  <2>5. Sums(g, first, m + 1, of)
    BY <2>3, <2>4 DEF Sums
  <2> QED BY <1>2, <2>5
<1>3. n \in S
  <2> HIDE DEF S
  <2> QED BY <1>1, <1>2, Upwards
<1> QED BY <1>3

LEMMA SumOfLine ==
  ASSUME NEW first \in Nat, NEW n \in Nat, NEW of, NEW f, Sums(f, first, n, of)
  PROVE  SumOver(<<first, first + n - 1>>, of) = f[n]
<1> DEFINE Step(g) == [k \in 0 .. n |-> IF k = 0 THEN 0 ELSE g[k - 1] + of[first + k - 1]]
           sum == CHOOSE g : g = Step(g)
<1>1. Count(<<first, first + n - 1>>) = n
  BY DEF Count
<1>2. SumOver(<<first, first + n - 1>>, of) = sum[n]
  BY <1>1 DEF SumOver
<1>3. f = Step(f)
  BY DEF Sums
<1>4. sum = Step(sum)
  <2>1. \E g : g = Step(g)
    BY <1>3
  <2> HIDE DEF Step
  <2> QED BY <2>1
<1> HIDE DEF sum
<1>5. DOMAIN sum = 0 .. n /\ sum[0] = 0 /\ \A k \in 1 .. n : sum[k] = sum[k - 1] + of[first + k - 1]
  <2> DEFINE t == Step(sum)
  <2>1. DOMAIN t = 0 .. n /\ t[0] = 0 /\ \A k \in 1 .. n : t[k] = sum[k - 1] + of[first + k - 1]
    OBVIOUS
  <2> HIDE DEF t
  <2>2. sum = t
    BY <1>4 DEF t
  <2> QED BY <2>1, <2>2
<1> DEFINE S == {m \in 0 .. n : sum[m] = f[m]}
<1>6. 0 \in S
  BY <1>5 DEF Sums
<1>7. ASSUME NEW m \in 0 .. n, m < n, m \in S PROVE m + 1 \in S
  <2>1. m + 1 \in 1 .. n /\ (m + 1) - 1 = m /\ m + 1 \in 0 .. n
    BY <1>7
  <2>2. sum[m + 1] = sum[m] + of[first + (m + 1) - 1] /\ f[m + 1] = f[m] + of[first + (m + 1) - 1]
    BY <1>5, <2>1 DEF Sums
  <2> QED BY <1>7, <2>1, <2>2
<1>8. n \in S
  <2> HIDE DEF S
  <2> QED BY <1>6, <1>7, Upwards
<1> QED BY <1>2, <1>8

(* All prefixes of a line are summed by the same function.                 *)
SumsPrefixes(f, first, n, of) == \A m \in 0 .. n : SumOver(<<first, first + m - 1>>, of) = f[m]

LEMMA SumOfPrefix ==
  ASSUME NEW first \in Nat, NEW n \in Nat, NEW of, NEW f, Sums(f, first, n, of)
  PROVE  SumsPrefixes(f, first, n, of)
<1> SUFFICES ASSUME NEW m \in 0 .. n PROVE SumOver(<<first, first + m - 1>>, of) = f[m]
  BY DEF SumsPrefixes
<1> DEFINE g == [k \in 0 .. m |-> f[k]]
<1>1. Sums(g, first, m, of)
  <2>1. g \in [0 .. m -> Int] /\ g[0] = 0
    BY DEF Sums
  <2>2. ASSUME NEW k \in 1 .. m PROVE g[k] = g[k - 1] + of[first + k - 1]
    <3>1. g[k] = f[k] /\ g[k - 1] = f[k - 1] /\ k \in 1 .. n
      OBVIOUS
    <3> QED BY <3>1 DEF Sums
  <2> HIDE DEF g
  <2> QED BY <2>1, <2>2 DEF Sums
<1>2. g[m] = f[m]
  OBVIOUS
<1> HIDE DEF g
<1>3. SumOver(<<first, first + m - 1>>, of) = g[m]
  BY <1>1, SumOfLine
<1> QED BY <1>2, <1>3

(* Rounding a share down loses less than one.                              *)
LEMMA ShareRounded ==
  ASSUME NEW x \in Int, NEW d \in Nat \ {0}
  PROVE  x \div d \in Int /\ d * (x \div d) <= x /\ x <= d * (x \div d) + d
<1> DEFINE q == x \div d
<1>1. q \in Int /\ q * d <= x /\ x < (q + 1) * d
  BY SMT
<1> HIDE DEF q
<1>2. q \in Int /\ d * q <= x /\ x <= d * q + d
  BY <1>1, SMT
<1> QED BY <1>2 DEF q

(* From a to b every place gains its share of what is free.                *)
Shared(first, n, free, weights, w, a, b) ==
  \A k \in first .. first + n - 1 :
    /\ w[k] \in Int /\ a[k] \in Int
    /\ b[k] = a[k] + (free * w[k]) \div weights

(* Something is shared by weights: what the items gain is all of it, but   *)
(* for the roundings.                                                      *)
LEMMA SharesAddUp ==
  ASSUME NEW first \in Nat, NEW n \in Nat, NEW free \in Int, NEW weights \in Nat \ {0},
         NEW w, NEW a, NEW b, Shared(first, n, free, weights, w, a, b),
         NEW fw, NEW fa, NEW fb,
         Sums(fw, first, n, w), Sums(fa, first, n, a), Sums(fb, first, n, b), fw[n] = weights
  PROVE  free - n <= fb[n] - fa[n] /\ fb[n] - fa[n] <= free
<1> DEFINE S == {m \in 0 .. n : /\ free * fw[m] - weights * m <= weights * (fb[m] - fa[m])
                                /\ weights * (fb[m] - fa[m]) <= free * fw[m]}
<1>0. \A m \in 0 .. n : fw[m] \in Int /\ fa[m] \in Int /\ fb[m] \in Int
  BY DEF Sums
<1>1. 0 \in S
  <2>1. fw[0] = 0 /\ fa[0] = 0 /\ fb[0] = 0 /\ 0 \in 0 .. n
    BY DEF Sums
  <2>2. free * 0 - weights * 0 <= weights * (0 - 0) /\ weights * (0 - 0) <= free * 0
    OBVIOUS
  <2> QED BY <2>1, <2>2
<1>2. ASSUME NEW m \in 0 .. n, m < n, m \in S PROVE m + 1 \in S
  <2>1. m + 1 \in 1 .. n /\ (m + 1) - 1 = m /\ m + 1 \in 0 .. n /\ first + (m + 1) - 1 \in first .. first + n - 1
    BY <1>2
  <2> DEFINE k == first + (m + 1) - 1
  <2>2. /\ fw[m + 1] = fw[m] + w[k] /\ fa[m + 1] = fa[m] + a[k] /\ fb[m + 1] = fb[m] + b[k]
    BY <2>1 DEF Sums
  <2>3. w[k] \in Int /\ a[k] \in Int /\ b[k] = a[k] + (free * w[k]) \div weights
    BY <2>1 DEF Shared
  <2> HIDE DEF k
  <2> DEFINE q == (free * w[k]) \div weights
  <2>4. q \in Int /\ weights * q <= free * w[k] /\ free * w[k] <= weights * q + weights
    <3>1. free * w[k] \in Int
      BY <2>3
    <3> QED BY <3>1, ShareRounded
  <2>5. fb[m + 1] - fa[m + 1] = (fb[m] - fa[m]) + q
    <3> HIDE DEF q
    <3>1. b[k] = a[k] + q
      BY <2>3 DEF q
    <3> QED BY <1>0, <1>2, <2>2, <2>3, <2>4, <3>1
  <2> HIDE DEF q
  <2>6. free * (fw[m] + w[k]) = free * fw[m] + free * w[k]
    BY <1>0, <2>3, SMT
  <2>7. weights * ((fb[m] - fa[m]) + q) = weights * (fb[m] - fa[m]) + weights * q
    BY <1>0, <2>4, SMT
  <2>8. weights * (m + 1) = weights * m + weights
    BY SMT
  <2>9. /\ free * fw[m] - weights * m <= weights * (fb[m] - fa[m])
        /\ weights * (fb[m] - fa[m]) <= free * fw[m]
    BY <1>2
  <2> DEFINE A == free * fw[m]
             B == weights * m
             C == weights * (fb[m] - fa[m])
             D == weights * q
             E == free * w[k]
  <2>10. A \in Int /\ B \in Int /\ C \in Int /\ D \in Int /\ E \in Int
    BY <1>0, <2>3, <2>4
  <2>11. A - B <= C /\ C <= A /\ D <= E /\ E <= D + weights
    BY <2>4, <2>9
  <2> HIDE DEF A, B, C, D, E
  <2>12. (A + E) - (B + weights) <= C + D /\ C + D <= A + E
    BY <2>10, <2>11
  <2>13. /\ free * fw[m + 1] = A + E /\ weights * (m + 1) = B + weights
         /\ weights * (fb[m + 1] - fa[m + 1]) = C + D
    BY <2>2, <2>5, <2>6, <2>7, <2>8 DEF A, B, C, D, E
  <2>14. /\ free * fw[m + 1] - weights * (m + 1) <= weights * (fb[m + 1] - fa[m + 1])
         /\ weights * (fb[m + 1] - fa[m + 1]) <= free * fw[m + 1]
    BY <2>12, <2>13
  <2> QED BY <2>1, <2>14
<1>3. n \in S
  <2> HIDE DEF S
  <2> QED BY <1>1, <1>2, Upwards
<1> DEFINE gain == fb[n] - fa[n]
<1>4. gain \in Int /\ free * weights - weights * n <= weights * gain /\ weights * gain <= free * weights
  BY <1>0, <1>3
<1> HIDE DEF gain
<1>5. gain <= free
  <2> SUFFICES ASSUME free + 1 <= gain PROVE FALSE
    BY <1>4
  <2>1. weights * (free + 1) <= weights * gain
    BY <1>4, SMT
  <2>2. weights * (free + 1) = free * weights + weights
    BY SMT
  <2> QED BY <1>4, <2>1, <2>2, SMT
<1>6. free - n <= gain
  <2> SUFFICES ASSUME gain + 1 <= free - n PROVE FALSE
    BY <1>4
  <2>1. weights * (gain + 1) <= weights * (free - n)
    BY <1>4, SMT
  <2>2. weights * (gain + 1) = weights * gain + weights /\ weights * (free - n) = free * weights - weights * n
    BY <1>4, SMT
  <2> QED BY <1>4, <2>1, <2>2, SMT
<1> QED BY <1>5, <1>6 DEF gain

IsFlexItem(it) ==
  /\ it = [f \in DOMAIN it |-> it[f]]
  /\ {"kid", "main", "base", "grow", "shrink"} \subseteq DOMAIN it
  /\ it.main \in Int /\ it.base \in Int /\ it.grow \in Int /\ it.shrink \in Int
  /\ IsBox(it.kid)

LEMMA OutsideIsWhole ==
  ASSUME NEW kid, IsBox(kid), NEW row \in BOOLEAN
  PROVE  Outside(kid, row) \in Int
<1>1. StartSide(row) \in 1 .. 4 /\ EndSide(row) \in 1 .. 4
  BY DEF StartSide, EndSide
<1>2. \A s \in 1 .. 4 : kid.margin[s] \in Int /\ kid.padding[s] \in Int /\ kid.border[s] \in Int
  BY DEF IsBox
<1>3. /\ Extent(kid.margin, row) \in Int /\ Extent(kid.padding, row) \in Int
      /\ Extent(kid.border, row) \in Int
  BY <1>1, <1>2 DEF Extent
<1> QED BY <1>3 DEF Outside

(* The items of a line have changed by their shares of what was left of it.*)
Gained(items, flexed, first, n, free, weights, w) ==
  \A k \in first .. first + n - 1 :
    /\ IsFlexItem(items[k]) /\ flexed[k].kid = items[k].kid /\ w[k] \in Int
    /\ flexed[k].main = items[k].main + (free * w[k]) \div weights

LEMMA TakenIsWhole ==
  ASSUME NEW items, NEW row \in BOOLEAN, NEW k \in DOMAIN items, IsFlexItem(items[k])
  PROVE  /\ Taken(items, row)[k] = items[k].main + Outside(items[k].kid, row)
         /\ Taken(items, row)[k] \in Int /\ Outside(items[k].kid, row) \in Int
<1>1. items[k].main \in Int /\ Outside(items[k].kid, row) \in Int
  BY OutsideIsWhole DEF IsFlexItem
<1> QED BY <1>1 DEF Taken

LEMMA FreeIsWhole ==
  ASSUME NEW first \in Nat, NEW n \in Nat, NEW row \in BOOLEAN, NEW main \in Int, NEW gap \in Int,
         NEW items, first .. first + n - 1 \subseteq DOMAIN items,
         \A k \in first .. first + n - 1 : IsFlexItem(items[k])
  PROVE  FreeSpace(items, <<first, first + n - 1>>, row, main, gap) \in Int
<1> DEFINE line == <<first, first + n - 1>>
           a == Taken(items, row)
<1>1. \A k \in first .. first + n - 1 : a[k] \in Int
  BY TakenIsWhole
<1> HIDE DEF a
<1>2. PICK fa : Sums(fa, first, n, a)
  BY <1>1, SumsExist
<1>3. SumOver(line, a) = fa[n] /\ fa[n] \in Int
  <2>1. fa[n] \in Int
    BY <1>2 DEF Sums
  <2> QED BY <1>2, <2>1, SumOfLine
<1>4. Gaps(line, gap) \in Int
  <2>1. Count(line) \in Int
    BY DEF Count
  <2> QED BY <2>1 DEF Gaps
<1> QED BY <1>3, <1>4 DEF FreeSpace, a

LEMMA SharedOut ==
  ASSUME NEW first \in Nat, NEW n \in Nat, NEW row \in BOOLEAN, NEW main \in Int, NEW gap \in Int,
         NEW items, first .. first + n - 1 \subseteq DOMAIN items,
         NEW flexed, DOMAIN flexed = DOMAIN items,
         NEW w, SumOver(<<first, first + n - 1>>, w) > 0,
         Gained(items, flexed, first, n, FreeSpace(items, <<first, first + n - 1>>, row, main, gap),
                SumOver(<<first, first + n - 1>>, w), w)
  PROVE  LET left == FreeSpace(flexed, <<first, first + n - 1>>, row, main, gap) IN 0 <= left /\ left <= n
<1> DEFINE line == <<first, first + n - 1>>
           free == FreeSpace(items, line, row, main, gap)
           W    == SumOver(line, w)
           a    == Taken(items, row)
           b    == Taken(flexed, row)
<1>0. /\ \A k \in first .. first + n - 1 : IsFlexItem(items[k]) /\ k \in DOMAIN items
      /\ \A k \in first .. first + n - 1 : w[k] \in Int
  BY DEF Gained
<1>1. \A k \in first .. first + n - 1 : a[k] \in Int /\ a[k] = items[k].main + Outside(items[k].kid, row)
  BY <1>0, TakenIsWhole
<1>2. PICK fw : Sums(fw, first, n, w)
  BY <1>0, SumsExist
<1>3. W = fw[n] /\ W \in Nat \ {0}
  <2>1. W = fw[n]
    BY <1>2, SumOfLine
  <2>2. fw[n] \in Int
    BY <1>2 DEF Sums
  <2> QED BY <2>1, <2>2
<1>4. PICK fa : Sums(fa, first, n, a)
  <2> HIDE DEF a
  <2> QED BY <1>1, SumsExist
<1>5. SumOver(line, a) = fa[n] /\ fa[n] \in Int
  <2> HIDE DEF a
  <2>1. SumOver(line, a) = fa[n]
    BY <1>4, SumOfLine
  <2>2. fa[n] \in Int
    BY <1>4 DEF Sums
  <2> QED BY <2>1, <2>2
<1>6. Gaps(line, gap) \in Int
  <2>1. Count(line) \in Int
    BY DEF Count
  <2> QED BY <2>1 DEF Gaps
<1>7. free \in Int /\ free = main - fa[n] - Gaps(line, gap)
  <2>1. free = main - SumOver(line, a) - Gaps(line, gap)
    BY DEF FreeSpace
  <2> HIDE DEF free, a, line
  <2> QED BY <1>5, <1>6, <2>1
<1>8. \A k \in first .. first + n - 1 : b[k] \in Int /\ b[k] = a[k] + (free * w[k]) \div W
  <2> SUFFICES ASSUME NEW k \in first .. first + n - 1
               PROVE  b[k] \in Int /\ b[k] = a[k] + (free * w[k]) \div W
    OBVIOUS
  <2> DEFINE q == (free * w[k]) \div W
  <2>1. q \in Int
    <3> HIDE DEF free, W, line
    <3>1. free * w[k] \in Int
      BY <1>0, <1>7
    <3> QED BY <1>3, <3>1, ShareRounded
  <2>2. flexed[k].main = items[k].main + q /\ flexed[k].kid = items[k].kid
    BY DEF Gained
  <2>3. b[k] = flexed[k].main + Outside(flexed[k].kid, row)
    BY DEF Taken
  <2>4. items[k].main \in Int /\ Outside(items[k].kid, row) \in Int
    BY <1>0, OutsideIsWhole DEF IsFlexItem
  <2> HIDE DEF q, b, a, free, W, line
  <2>5. b[k] = a[k] + q /\ b[k] \in Int
    BY <1>1, <2>1, <2>2, <2>3, <2>4
  <2> QED BY <2>5 DEF q
<1>9. PICK fb : Sums(fb, first, n, b)
  <2> HIDE DEF b
  <2> QED BY <1>8, SumsExist
<1>10. SumOver(line, b) = fb[n] /\ fb[n] \in Int
  <2> HIDE DEF b
  <2>1. SumOver(line, b) = fb[n]
    BY <1>9, SumOfLine
  <2>2. fb[n] \in Int
    BY <1>9 DEF Sums
  <2> QED BY <2>1, <2>2
<1>11. FreeSpace(flexed, line, row, main, gap) = main - fb[n] - Gaps(line, gap)
  <2>1. FreeSpace(flexed, line, row, main, gap) = main - SumOver(line, b) - Gaps(line, gap)
    BY DEF FreeSpace
  <2> HIDE DEF b, line
  <2> QED BY <1>10, <2>1
<1>12. free - n <= fb[n] - fa[n] /\ fb[n] - fa[n] <= free
  <2>1. \A k \in first .. first + n - 1 : a[k] \in Int
    BY <1>1
  <2>2. \A k \in first .. first + n - 1 : b[k] = a[k] + (free * w[k]) \div W
    BY <1>8
  <2> HIDE DEF a, b, W, free, line
  <2>3. PICK weights \in Nat \ {0}, share \in Int : weights = W /\ share = free
    BY <1>3, <1>7
  <2>4. fw[n] = weights /\ Shared(first, n, share, weights, w, a, b)
    BY <1>0, <1>3, <2>1, <2>2, <2>3 DEF Shared
  <2>5. share - n <= fb[n] - fa[n] /\ fb[n] - fa[n] <= share
    BY <1>2, <1>4, <1>9, <2>1, <2>4, SharesAddUp
  <2> QED BY <2>3, <2>5
<1> DEFINE left == FreeSpace(flexed, line, row, main, gap)
<1>13. 0 <= left /\ left <= n
  <2> HIDE DEF left, free, line, a, b
  <2>1. left = main - fb[n] - Gaps(line, gap)
    BY <1>11 DEF left
  <2> QED BY <1>5, <1>6, <1>7, <1>10, <1>12, <2>1
<1> QED BY <1>13

(* Flexed: items that can grow leave nothing of a line that has room, and  *)
(* items that can shrink, none of them to nothing, no longer overflow it,  *)
(* but for a unit per item by rounding; the items of other lines stay.     *)
THEOREM LineIsFilled ==
  ASSUME NEW N \in Nat, NEW items, items = [k \in 1 .. N |-> items[k]],
         \A k \in 1 .. N : IsFlexItem(items[k]),
         NEW first \in 1 .. N, NEW last \in first .. N,
         NEW row \in BOOLEAN, NEW main \in Int, NEW gap \in Int
  PROVE  LET line   == <<first, last>>
             flexed == Flexed(items, line, row, main, gap)
             free   == FreeSpace(items, line, row, main, gap)
             left   == FreeSpace(flexed, line, row, main, gap)
         IN  /\ \/ free > 0 /\ TotalGrow(items, line) > 0
                \/ /\ free < 0 /\ TotalShrink(items, line) > 0
                   /\ \A k \in first .. last : flexed[k].main > 0
                => 0 <= left /\ left <= Count(line)
             /\ \A k \in 1 .. N : k \notin first .. last => flexed[k] = items[k]
<1> DEFINE n      == last - first + 1
           line   == <<first, last>>
           flexed == Flexed(items, line, row, main, gap)
           free   == FreeSpace(items, line, row, main, gap)
           left   == FreeSpace(flexed, line, row, main, gap)
           grow   == [k \in DOMAIN items |-> items[k].grow]
           shrink == [k \in DOMAIN items |-> items[k].shrink * items[k].base]
           Share(it) == WithShare(it, free, TotalGrow(items, line), TotalShrink(items, line))
<1>1. Len(items) = N /\ DOMAIN items = 1 .. N
  BY IndexedIsSeq
<1>2. /\ n \in Nat /\ first \in Nat /\ line = <<first, first + n - 1>> /\ first + n - 1 = last
      /\ Count(line) = n /\ first .. last \subseteq DOMAIN items
  BY <1>1 DEF Count
<1>3. flexed = [k \in 1 .. Len(items) |->
                  IF k \in first .. last THEN [items[k] EXCEPT !.main = Share(items[k])] ELSE items[k]]
  BY DEF Flexed
<1> HIDE DEF flexed
<1>4. DOMAIN flexed = DOMAIN items /\ \A k \in 1 .. N : k \notin first .. last => flexed[k] = items[k]
  BY <1>1, <1>3
<1>5. ASSUME NEW k \in first .. last
      PROVE  flexed[k].main = Share(items[k]) /\ flexed[k].kid = items[k].kid /\ IsFlexItem(items[k])
  <2> DEFINE v == Share(items[k])
  <2>1. k \in 1 .. N
    OBVIOUS
  <2>2. IsFlexItem(items[k])
    BY <2>1
  <2>3. flexed[k] = [items[k] EXCEPT !.main = v]
    BY <1>1, <1>3, <2>1
  <2> HIDE DEF v
  <2>4. flexed[k].main = v /\ flexed[k].kid = items[k].kid
    BY <2>2, <2>3 DEF IsFlexItem
  <2> QED BY <2>2, <2>4 DEF v
<1>6. \A k \in first .. last : grow[k] = items[k].grow /\ grow[k] \in Int
  BY <1>2, <1>5 DEF IsFlexItem
<1>7. \A k \in first .. last : shrink[k] = items[k].shrink * items[k].base /\ shrink[k] \in Int
  <2> SUFFICES ASSUME NEW k \in first .. last
               PROVE  shrink[k] = items[k].shrink * items[k].base /\ shrink[k] \in Int
    OBVIOUS
  <2>1. items[k].shrink \in Int /\ items[k].base \in Int
    BY <1>5 DEF IsFlexItem
  <2> QED BY <1>2, <2>1
<1>10. free \in Int
  <2> HIDE DEF line, n
  <2> QED BY <1>2, <1>5, FreeIsWhole
<1>8. ASSUME free > 0, TotalGrow(items, line) > 0
      PROVE  0 <= left /\ left <= n
  <2>1. ASSUME NEW k \in first .. last
        PROVE  flexed[k].main = items[k].main + (free * grow[k]) \div SumOver(line, grow)
    <3>1. flexed[k].main = items[k].main + (free * items[k].grow) \div TotalGrow(items, line)
      <4> HIDE DEF free
      <4>1. flexed[k].main = WithShare(items[k], free, TotalGrow(items, line), TotalShrink(items, line))
        BY <1>5
      <4>2. ~(free < 0)
        BY <1>8, <1>10
      <4> HIDE DEF line
      <4> QED BY <1>8, <4>1, <4>2 DEF WithShare
    <3> QED BY <1>6, <3>1 DEF TotalGrow
  <2>2. SumOver(line, grow) > 0
    BY <1>8 DEF TotalGrow
  <2> HIDE DEF grow, line, n, free
  <2>3. Gained(items, flexed, first, n, free, SumOver(line, grow), grow)
    BY <1>2, <1>5, <1>6, <2>1 DEF Gained
  <2> QED BY <1>2, <1>4, <2>2, <2>3, SharedOut DEF free
<1>9. ASSUME free < 0, TotalShrink(items, line) > 0, \A k \in first .. last : flexed[k].main > 0
      PROVE  0 <= left /\ left <= n
  <2>1. ASSUME NEW k \in first .. last
        PROVE  flexed[k].main = items[k].main + (free * shrink[k]) \div SumOver(line, shrink)
    <3> DEFINE sized == items[k].main + (free * (items[k].shrink * items[k].base)) \div TotalShrink(items, line)
    <3>1. flexed[k].main = AtLeast(sized, 0)
      <4> HIDE DEF free
      <4>1. flexed[k].main = WithShare(items[k], free, TotalGrow(items, line), TotalShrink(items, line))
        BY <1>5
      <4>2. ~(free > 0)
        BY <1>9, <1>10
      <4> HIDE DEF line
      <4> QED BY <1>9, <4>1, <4>2 DEF WithShare
    <3>2. flexed[k].main > 0
      BY <1>9
    <3> HIDE DEF sized
    <3>3. flexed[k].main = sized
      BY <3>1, <3>2 DEF AtLeast
    <3>4. free * (items[k].shrink * items[k].base) = free * shrink[k]
      BY <1>7
    <3> QED BY <3>3, <3>4 DEF sized, TotalShrink
  <2>2. SumOver(line, shrink) > 0
    BY <1>9 DEF TotalShrink
  <2> HIDE DEF shrink, line, n, free
  <2>3. Gained(items, flexed, first, n, free, SumOver(line, shrink), shrink)
    BY <1>2, <1>5, <1>7, <2>1 DEF Gained
  <2> QED BY <1>2, <1>4, <2>2, <2>3, SharedOut DEF free
<1> HIDE DEF free, left, n, line
<1> QED BY <1>2, <1>4, <1>8, <1>9 DEF free, left, line, flexed

(* justify-content gives away no more than the line has left.              *)
LEMMA JustifiedFits ==
  ASSUME NEW left \in Nat, NEW n \in Nat \ {0}, NEW gap \in Nat, NEW justify
  PROVE  LET just == Justified(justify, left, n, gap)
         IN  /\ just.start \in Nat /\ just.gap \in Nat /\ gap <= just.gap
             /\ just.start + (n - 1) * just.gap <= left + (n - 1) * gap
<1>1. left \div 2 \in Nat /\ left \div 2 <= left
  OBVIOUS
<1>2. CASE justify = "flex-end"
  BY <1>2 DEF Justified
<1>3. CASE justify = "center"
  BY <1>1, <1>3 DEF Justified
<1>4. CASE justify = "space-between" /\ n > 1
  <2> DEFINE q == left \div (n - 1)
  <2>1. q \in Int /\ (n - 1) * q <= left /\ left <= (n - 1) * q + (n - 1)
    <3>1. PICK d \in Nat \ {0} : d = n - 1
      BY <1>4
    <3>2. left \div d \in Int /\ d * (left \div d) <= left /\ left <= d * (left \div d) + d
      BY ShareRounded
    <3> QED BY <3>1, <3>2
  <2>2. 0 * (n - 1) <= left
    OBVIOUS
  <2>3. 0 <= q
    <3> DEFINE d == n - 1
    <3>1. d \in Nat \ {0}
      BY <1>4
    <3>2. q = left \div d
      OBVIOUS
    <3> HIDE DEF d, q
    <3> QED BY <3>1, <3>2, SMT
  <2>4. Justified(justify, left, n, gap) = [start |-> 0, gap |-> gap + q]
    BY <1>4 DEF Justified
  <2> HIDE DEF q
  <2>5. (n - 1) * (gap + q) = (n - 1) * gap + (n - 1) * q
    BY <2>1, SMT
  <2>6. (n - 1) * gap \in Int /\ (n - 1) * q \in Int
    BY <2>1
  <2> QED BY <2>1, <2>3, <2>4, <2>5, <2>6
<1>5. CASE justify = "space-around"
  <2> DEFINE q == left \div n
  <2>1. q \in Int /\ n * q <= left
    BY ShareRounded
  <2>2. 0 <= q
    BY SMT
  <2>3. Justified(justify, left, n, gap) = [start |-> q \div 2, gap |-> gap + q]
    BY <1>5 DEF Justified
  <2> HIDE DEF q
  <2>4. q \div 2 \in Nat /\ q \div 2 <= q
    BY <2>1, <2>2
  <2>5. (n - 1) * (gap + q) = (n - 1) * gap + (n * q - q)
    BY <2>1, SMT
  <2>6. (n - 1) * gap \in Int /\ n * q \in Int
    BY <2>1
  <2> QED BY <2>1, <2>2, <2>3, <2>4, <2>5, <2>6
<1>6. CASE justify \notin {"flex-end", "center", "space-around"} /\ ~(justify = "space-between" /\ n > 1)
  BY <1>6 DEF Justified
<1> QED BY <1>2, <1>3, <1>4, <1>5, <1>6

(* A sum of numbers that are not negative only grows.                      *)
LEMMA SumsGrow ==
  ASSUME NEW first \in Nat, NEW n \in Nat, NEW of, NEW f, Sums(f, first, n, of),
         \A k \in first .. first + n - 1 : of[k] \in Nat, NEW i \in 0 .. n
  PROVE  f[i] \in Nat /\ \A j \in i .. n : f[i] <= f[j]
<1> DEFINE S == {j \in 0 .. n : f[j] \in Nat /\ (i <= j => f[i] <= f[j])}
<1>1. 0 \in S
  BY DEF Sums
<1>2. ASSUME NEW j \in 0 .. n, j < n, j \in S PROVE j + 1 \in S
  <2>1. j + 1 \in 1 .. n /\ (j + 1) - 1 = j /\ first + (j + 1) - 1 \in first .. first + n - 1
    BY <1>2
  <2>2. f[j + 1] = f[j] + of[first + (j + 1) - 1] /\ of[first + (j + 1) - 1] \in Nat
    BY <2>1 DEF Sums
  <2>3. f[j + 1] \in Nat /\ f[j] <= f[j + 1]
    BY <1>2, <2>2
  <2>4. i <= j + 1 => f[i] <= f[j + 1]
    <3>1. CASE i <= j
      BY <1>2, <2>3, <3>1 DEF Sums
    <3>2. CASE i = j + 1
      BY <2>3, <3>2
    <3> QED BY <3>1, <3>2
  <2> QED BY <2>1, <2>3, <2>4
<1>3. \A j \in 0 .. n : j \in S
  <2> HIDE DEF S
  <2> QED BY <1>1, <1>2, Upwards
<1> QED BY <1>3

(* A box that is put somewhere along one axis keeps its size.              *)
LEMMA BoxPut ==
  ASSUME NEW kid, IsBox(kid), NEW row \in BOOLEAN, NEW v \in Int
  PROVE  LET put == PutAt(kid, row, v)
         IN  /\ (IF row THEN put.x ELSE put.y) = v /\ put.margin = kid.margin
             /\ MarginBoxMain(put, row) = MarginBoxMain(kid, row)
<1>1. CASE row
  <2> DEFINE put == [kid EXCEPT !.x = v]
  <2>1. /\ put.x = v /\ put.margin = kid.margin /\ put.padding = kid.padding /\ put.border = kid.border
        /\ put.w = kid.w /\ PutAt(kid, row, v) = put
    BY <1>1 DEF IsBox, PutAt
  <2> HIDE DEF put
  <2> QED BY <1>1, <2>1 DEF MarginBoxMain, MarginBoxWidth, BorderBoxWidth
<1>2. CASE ~row
  <2> DEFINE put == [kid EXCEPT !.y = v]
  <2>1. /\ put.y = v /\ put.margin = kid.margin /\ put.padding = kid.padding /\ put.border = kid.border
        /\ put.h = kid.h /\ PutAt(kid, row, v) = put
    BY <1>2 DEF IsBox, PutAt
  <2> HIDE DEF put
  <2> QED BY <1>2, <2>1 DEF MarginBoxMain, MarginBoxHeight, BorderBoxHeight
<1> QED BY <1>1, <1>2

(* Boxes of the given sizes, "step" apart behind "start", fit into "main".  *)
Fits(f, first, n, of, main, start, step) ==
  /\ Sums(f, first, n, of) /\ \A k \in first .. first + n - 1 : of[k] \in Nat
  /\ start + (f[n] + (n - 1) * step) <= main

BeforeBox(f, first, step, k) == f[k - first] + (k - first) * step

FitsAt(f, first, of, main, start, step, k) ==
  /\ BeforeBox(f, first, step, k) \in Nat /\ of[k] \in Nat
  /\ (start + BeforeBox(f, first, step, k)) + of[k] <= main
  /\ 0 <= (main - BeforeBox(f, first, step, k)) - of[k]
  /\ k > first => BeforeBox(f, first, step, k) = (BeforeBox(f, first, step, k - 1) + of[k - 1]) + step

(* The places of n boxes in a row, "step" apart: none begins before 0 or   *)
(* ends behind "main", from either end of the line.                        *)
LEMMA PlacesFit ==
  ASSUME NEW first \in Nat, NEW n \in Nat \ {0}, NEW of, NEW f,
         NEW main \in Int, NEW start \in Nat, NEW step \in Nat, Fits(f, first, n, of, main, start, step),
         NEW k \in first .. first + n - 1
  PROVE  FitsAt(f, first, of, main, start, step, k)
<1> USE DEF Fits, FitsAt, BeforeBox
<1>1. PICK i \in 0 .. n - 1 : i = k - first
  OBVIOUS
<1>2. i \in 0 .. n /\ i + 1 \in 1 .. n /\ i + 1 \in 0 .. n /\ (i + 1) - 1 = i /\ n \in i + 1 .. n
  OBVIOUS
<1>3. first + (i + 1) - 1 = k
  BY <1>1
<1>4. f[i + 1] = f[i] + of[k]
  BY <1>2, <1>3 DEF Sums
<1>5. f[i] \in Nat /\ f[i + 1] \in Nat /\ f[i + 1] <= f[n] /\ f[n] \in Nat /\ of[k] \in Nat
  BY <1>2, SumsGrow
<1>6. i * step \in Nat /\ (n - 1) * step \in Nat /\ i * step <= (n - 1) * step
  <2>1. PICK d \in Nat : d = (n - 1) - i
    OBVIOUS
  <2>2. n - 1 = i + d
    BY <2>1
  <2>3. i * step \in Nat /\ d * step \in Nat /\ (i + d) * step = i * step + d * step
    BY <2>1, SMT
  <2> QED BY <2>2, <2>3
<1>7. ASSUME k > first
      PROVE  f[i] + i * step = ((f[i - 1] + (i - 1) * step) + of[k - 1]) + step
  <2>1. i \in 1 .. n /\ first + i - 1 = k - 1 /\ i - 1 \in 0 .. n
    BY <1>1, <1>7
  <2>2. f[i] = f[i - 1] + of[k - 1]
    BY <2>1 DEF Sums
  <2>3. f[i - 1] \in Nat /\ k - 1 \in first .. first + n - 1
    BY <2>1, <1>7, SumsGrow
  <2>4. of[k - 1] \in Nat
    BY <2>3
  <2>5. i * step = (i - 1) * step + step /\ (i - 1) * step \in Int
    BY <2>1, SMT
  <2> QED BY <2>2, <2>3, <2>4, <2>5
<1>8. (k - 1) - first = i - 1
  BY <1>1
<1> QED BY <1>1, <1>4, <1>5, <1>6, <1>7, <1>8

(* The margin box of a box along one axis: its border box between its      *)
(* margins.                                                                *)
LEMMA BoxAlong ==
  ASSUME NEW kid, IsBox(kid), NEW row \in BOOLEAN
  PROVE  /\ kid.margin[StartSide(row)] \in Int /\ kid.margin[EndSide(row)] \in Int
         /\ BorderBoxMain(kid, row) \in Int
         /\ MarginBoxMain(kid, row)
              = (BorderBoxMain(kid, row) + kid.margin[StartSide(row)]) + kid.margin[EndSide(row)]
<1>1. /\ kid.w \in Int /\ kid.h \in Int
      /\ kid.margin[1] \in Int /\ kid.margin[2] \in Int /\ kid.margin[3] \in Int /\ kid.margin[4] \in Int
      /\ kid.padding[1] \in Int /\ kid.padding[2] \in Int /\ kid.padding[3] \in Int /\ kid.padding[4] \in Int
      /\ kid.border[1] \in Int /\ kid.border[2] \in Int /\ kid.border[3] \in Int /\ kid.border[4] \in Int
  BY DEF IsBox
<1>2. Across(kid.padding) \in Int /\ Across(kid.border) \in Int /\ Down(kid.padding) \in Int /\ Down(kid.border) \in Int
  BY <1>1 DEF Across, Down
<1>3. BorderBoxWidth(kid) \in Int /\ BorderBoxHeight(kid) \in Int
  BY <1>1, <1>2 DEF BorderBoxWidth, BorderBoxHeight
<1>4. CASE row
  BY <1>1, <1>3, <1>4 DEF StartSide, EndSide, BorderBoxMain, MarginBoxMain, MarginBoxWidth, Across
<1>5. CASE ~row
  BY <1>1, <1>3, <1>5 DEF StartSide, EndSide, BorderBoxMain, MarginBoxMain, MarginBoxHeight, Down
<1> QED BY <1>4, <1>5

(* The items of a container, those of one line with sizes that are not     *)
(* negative.                                                               *)
IsFlexLine(items, N, first, last, row) ==
  /\ items = [k \in 1 .. N |-> items[k]] /\ \A k \in 1 .. N : IsFlexItem(items[k])
  /\ \A k \in first .. last : MarginBoxMain(items[k].kid, row) \in Nat

(* PlaceLine: items that fit into their line lie inside it, in their order *)
(* or, in a reversed line, in the opposite one, and at least a gap apart,  *)
(* whatever justify-content makes of the rest.                             *)
THEOREM LinePlaced ==
  ASSUME NEW N \in Nat, NEW items, NEW first \in 1 .. N, NEW last \in first .. N,
         NEW box, NEW main \in Int, NEW gap \in Nat,
         IsFlexLine(items, N, first, last, IsRow(box.style)),
         Remaining(items, <<first, last>>, IsRow(box.style), main, gap) >= 0
  PROVE  LET row      == IsRow(box.style)
             placed   == PlaceLine(items, <<first, last>>, box, main, gap)
             Start(k) == (IF row THEN placed[k].kid.x ELSE placed[k].kid.y)
                           - placed[k].kid.margin[StartSide(row)]
             End(k)   == Start(k) + MarginBoxMain(placed[k].kid, row)
         IN  /\ \A k \in first .. last : 0 <= Start(k) /\ End(k) <= main
             /\ \A k \in first + 1 .. last :
                  IF IsReverse(box.style) THEN End(k) + gap <= Start(k - 1)
                  ELSE End(k - 1) + gap <= Start(k)
<1>1. PICK n \in Nat \ {0} : n = last - first + 1
  OBVIOUS
<1> DEFINE line   == <<first, last>>
           row    == IsRow(box.style)
           size   == [j \in DOMAIN items |-> MarginBoxMain(items[j].kid, row)]
           left   == Remaining(items, line, row, main, gap)
           just   == Justified(box.style.justify, left, n, gap)
           placed == PlaceLine(items, line, box, main, gap)
           Start(k) == (IF row THEN placed[k].kid.x ELSE placed[k].kid.y) - placed[k].kid.margin[StartSide(row)]
           Size(k)  == MarginBoxMain(placed[k].kid, row)
<1>2. Len(items) = N /\ DOMAIN items = 1 .. N /\ row \in BOOLEAN
  BY IndexedIsSeq DEF IsRow, IsFlexLine
<1>3. /\ n \in Nat \ {0} /\ first \in Nat /\ line = <<first, first + n - 1>> /\ first + n - 1 = last
      /\ Count(line) = n
  BY <1>1 DEF Count
<1>4. \A k \in first .. first + n - 1 : size[k] = MarginBoxMain(items[k].kid, row) /\ size[k] \in Nat
  <2> SUFFICES ASSUME NEW k \in first .. first + n - 1
               PROVE  size[k] = MarginBoxMain(items[k].kid, row) /\ size[k] \in Nat
    OBVIOUS
  <2>1. k \in first .. last /\ k \in 1 .. N
    BY <1>3
  <2>2. MarginBoxMain(items[k].kid, row) \in Nat
    BY <2>1 DEF IsFlexLine
  <2>3. size[k] = MarginBoxMain(items[k].kid, row)
    BY <1>2, <2>1
  <2> QED BY <2>2, <2>3
<1>5. /\ \A k \in first .. first + n - 1 : size[k] \in Nat
      /\ \A k \in first .. first + n - 1 : size[k] \in Int
  <2>1. \A k \in first .. first + n - 1 : size[k] \in Nat
    BY <1>4
  <2> HIDE DEF size
  <2> QED BY <2>1
<1>6. PICK sum : Sums(sum, first, n, size)
  <2> HIDE DEF size
  <2> QED BY <1>3, <1>5, SumsExist
<1>7. \A m \in 0 .. n : SumOver(<<first, first + m - 1>>, size) = sum[m] /\ sum[m] \in Nat
  <2> SUFFICES ASSUME NEW m \in 0 .. n
               PROVE  SumOver(<<first, first + m - 1>>, size) = sum[m] /\ sum[m] \in Nat
    OBVIOUS
  <2> HIDE DEF size
  <2>1. n \in Nat /\ first \in Nat
    BY <1>3
  <2>2. SumOver(<<first, first + m - 1>>, size) = sum[m]
    <3>1. SumsPrefixes(sum, first, n, size)
      BY <1>6, <2>1, SumOfPrefix
    <3> QED BY <3>1 DEF SumsPrefixes
  <2>3. sum[m] \in Nat
    BY <1>3, <1>5, <1>6, <2>1, SumsGrow
  <2> QED BY <2>2, <2>3
<1>8. left \in Nat /\ left = (main - sum[n]) - gap * (n - 1)
  <2>1. Gaps(line, gap) = gap * (n - 1)
    <3>1. n = 1 => gap * (n - 1) = 0
      OBVIOUS
    <3> QED BY <1>3, <3>1 DEF Gaps
  <2>2. left = (main - SumOver(line, size)) - Gaps(line, gap)
    BY DEF Remaining
  <2>3. SumOver(line, size) = sum[n] /\ sum[n] \in Nat
    <3> HIDE DEF size, line
    <3>1. n \in 0 .. n
      BY <1>3
    <3>2. SumOver(<<first, first + n - 1>>, size) = sum[n] /\ sum[n] \in Nat
      BY <1>7, <3>1
    <3> QED BY <1>3, <3>2
  <2>4. gap * (n - 1) \in Int
    OBVIOUS
  <2>5. left >= 0
    OBVIOUS
  <2> HIDE DEF left, size, line
  <2> QED BY <2>1, <2>2, <2>3, <2>4, <2>5
<1> HIDE DEF left
<1>9. /\ just.start \in Nat /\ just.gap \in Nat /\ gap <= just.gap
      /\ just.start + (n - 1) * just.gap <= left + (n - 1) * gap
  <2> QED BY <1>3, <1>8, JustifiedFits
<1>10. PICK start \in Nat : start = just.start
  BY <1>9
<1>11. PICK step \in Nat : step = just.gap
  BY <1>9
<1> DEFINE Before(k) == BeforeBox(sum, first, step, k)
           Long(k)   == size[k]
           at(k)     == IF IsReverse(box.style) THEN (main - Before(k)) - Long(k) ELSE start + Before(k)
<1>12. Fits(sum, first, n, size, main, start, step)
  <2>1. PICK all \in Nat : all = sum[n]
    <3>1. n \in 0 .. n
      BY <1>3
    <3> HIDE DEF size
    <3> QED BY <1>7, <3>1
  <2>2. start + (n - 1) * step <= left + (n - 1) * gap
    <3> HIDE DEF just
    <3> QED BY <1>9, <1>10, <1>11
  <2>3. left = (main - all) - gap * (n - 1)
    BY <1>8, <2>1
  <2>4. gap * (n - 1) = (n - 1) * gap /\ gap * (n - 1) \in Int /\ (n - 1) * step \in Int
    OBVIOUS
  <2>5. start + (all + (n - 1) * step) <= main
    BY <1>8, <2>2, <2>3, <2>4
  <2> HIDE DEF size
  <2> QED BY <1>5, <1>6, <2>1, <2>5 DEF Fits
<1>13. ASSUME NEW k \in first .. last
       PROVE  /\ Before(k) \in Nat /\ Long(k) \in Nat
              /\ (start + Before(k)) + Long(k) <= main
              /\ 0 <= (main - Before(k)) - Long(k)
              /\ k > first => Before(k) = (Before(k - 1) + Long(k - 1)) + step
  <2>1. k \in first .. first + n - 1
    BY <1>3
  <2> HIDE DEF size
  <2>2. FitsAt(sum, first, size, main, start, step, k)
    BY <1>3, <1>12, <2>1, PlacesFit
  <2> QED BY <2>2 DEF FitsAt
<1>14. ASSUME NEW k \in first .. last
       PROVE  Start(k) = at(k) /\ Size(k) = Long(k)
  <2>1. k - first \in 0 .. n /\ first + (k - first) - 1 = k - 1 /\ k \in 1 .. N
    BY <1>3
  <2>2. SumOver(<<first, k - 1>>, size) = sum[k - first]
    <3> HIDE DEF size
    <3>1. SumOver(<<first, first + (k - first) - 1>>, size) = sum[k - first]
      BY <1>7, <2>1
    <3> QED BY <2>1, <3>1
  <2> DEFINE kid == items[k].kid
             v   == MainPlace(items, line, k, box, main, gap)
  <2>3. IsBox(kid) /\ "kid" \in DOMAIN items[k]
    BY <2>1 DEF IsFlexItem, IsFlexLine
  <2>4. Long(k) = MarginBoxMain(kid, row)
    <3> HIDE DEF size
    <3> QED BY <1>3, <1>4
  <2>5. /\ kid.margin[StartSide(row)] \in Int /\ kid.margin[EndSide(row)] \in Int
        /\ BorderBoxMain(kid, row) \in Int
        /\ MarginBoxMain(kid, row) = (BorderBoxMain(kid, row) + kid.margin[StartSide(row)]) + kid.margin[EndSide(row)]
    <3> HIDE DEF kid, row
    <3> QED BY <1>2, <2>3, BoxAlong
  <2>6. v = IF IsReverse(box.style)
            THEN ((main - Before(k)) - kid.margin[EndSide(row)]) - BorderBoxMain(kid, row)
            ELSE (start + Before(k)) + kid.margin[StartSide(row)]
    BY <1>3, <1>10, <1>11, <2>2 DEF MainPlace, left, BeforeBox
  <2>7. v \in Int /\ v - kid.margin[StartSide(row)] = at(k)
    <3> DEFINE lead  == kid.margin[StartSide(row)]
               trail == kid.margin[EndSide(row)]
               own   == BorderBoxMain(kid, row)
    <3>1. Before(k) \in Int /\ Long(k) = (own + lead) + trail /\ own \in Int /\ lead \in Int /\ trail \in Int
      <4> HIDE DEF Before, Long, kid, row
      <4>1. Before(k) \in Int
        BY <1>13
      <4> QED BY <2>4, <2>5, <4>1
    <3>2. v = IF IsReverse(box.style) THEN ((main - Before(k)) - trail) - own ELSE (start + Before(k)) + lead
      BY <2>6
    <3> HIDE DEF v, Before, Long, kid, row, lead, trail, own
    <3>3. v \in Int /\ v - lead = at(k)
      BY <3>1, <3>2
    <3> QED BY <3>3 DEF lead
  <2>8. placed[k].kid = PutAt(kid, row, v)
    <3>1. placed[k] = [items[k] EXCEPT !.kid = PutAt(@, row, v)]
      BY <1>2, <2>1 DEF PlaceLine
    <3> HIDE DEF placed, v, row
    <3> QED BY <2>3, <3>1
  <2> HIDE DEF placed, v, row, kid, Long, Before
  <2>9. /\ (IF row THEN placed[k].kid.x ELSE placed[k].kid.y) = v
        /\ placed[k].kid.margin = kid.margin
        /\ MarginBoxMain(placed[k].kid, row) = MarginBoxMain(kid, row)
    BY <1>2, <2>3, <2>7, <2>8, BoxPut
  <2> QED BY <2>4, <2>7, <2>9
<1> DEFINE End(k) == Start(k) + Size(k)
<1>15. ASSUME NEW k \in first .. last PROVE 0 <= Start(k) /\ End(k) <= main
  <2> HIDE DEF Start, Size, Long, Before
  <2> QED BY <1>14, <1>13
<1>16. ASSUME NEW k \in first + 1 .. last
       PROVE  IF IsReverse(box.style) THEN End(k) + gap <= Start(k - 1) ELSE End(k - 1) + gap <= Start(k)
  <2>1. PICK j \in first .. last : j = k - 1 /\ k \in first .. last /\ k > first
    OBVIOUS
  <2>2. gap <= step
    BY <1>9, <1>11
  <2> HIDE DEF Start, Size, Long, Before
  <2>3. Start(k) = at(k) /\ Size(k) = Long(k) /\ Start(j) = at(j) /\ Size(j) = Long(j)
    BY <1>14, <2>1
  <2>4. Before(k) = (Before(j) + Long(j)) + step
    BY <1>13, <2>1
  <2>5. Before(k) \in Nat /\ Long(k) \in Nat /\ Before(j) \in Nat /\ Long(j) \in Nat
    BY <1>13, <2>1
  <2>6. CASE IsReverse(box.style)
    BY <2>1, <2>2, <2>3, <2>4, <2>5, <2>6
  <2>7. CASE ~IsReverse(box.style)
    BY <2>1, <2>2, <2>3, <2>4, <2>5, <2>7
  <2> QED BY <2>6, <2>7
<1> QED BY <1>15, <1>16

-----------------------------------------------------------------------------
(* The cascade: declarations applied one after another.                    *)

IsStyle(s) == s = [p \in Properties |-> s[p]]

IsDecls(decls) ==
  /\ Len(decls) \in Nat
  /\ \A i \in 1 .. Len(decls) : decls[i].prop \in Properties /\ decls[i].important \in BOOLEAN

(* A declaration of p that a pass applies. *)
Speaks(d, p, important) == d.important = important /\ d.prop = p /\ Counts(d)

(* What t is after a pass over the first m declarations, s before it. *)
Applied(s, t, decls, m, parent, important) ==
  /\ IsStyle(t)
  /\ \A p \in Properties :
       \/ \E i \in 1 .. m : /\ Speaks(decls[i], p, important) /\ t[p] = Gives(decls[i], parent)
                            /\ \A j \in i + 1 .. m : ~Speaks(decls[j], p, important)
       \/ (\A i \in 1 .. m : ~Speaks(decls[i], p, important)) /\ t[p] = s[p]

(* One declaration sets its own property, if it counts, and no other.      *)
LEMMA DeclarationSets ==
  ASSUME NEW s, IsStyle(s), NEW d, d.prop \in Properties, NEW parent, parent # <<>>
  PROVE  LET t == ApplyDeclaration(s, d, parent)
         IN  /\ IsStyle(t)
             /\ \A p \in Properties : t[p] = IF d.prop = p /\ Counts(d) THEN Gives(d, parent) ELSE s[p]
<1> DEFINE set(v) == [s EXCEPT ![d.prop] = v]
<1>1. \A v : IsStyle(set(v)) /\ \A p \in Properties : set(v)[p] = IF d.prop = p THEN v ELSE s[p]
  BY DEF IsStyle
<1> HIDE DEF set
<1>2. CASE d.value.type = "inherit" /\ d.prop \in TakesInherit
  <2>1. ApplyDeclaration(s, d, parent) = set(parent[d.prop])
    BY <1>2 DEF ApplyDeclaration, set
  <2>2. Counts(d) /\ Gives(d, parent) = parent[d.prop]
    BY <1>2 DEF Counts, Gives
  <2> QED BY <1>1, <2>1, <2>2
<1>3. CASE d.value.type = "inherit" /\ d.prop \notin TakesInherit
  <2>1. ApplyDeclaration(s, d, parent) = s
    BY <1>3 DEF ApplyDeclaration
  <2>2. ~Counts(d)
    BY <1>3 DEF Counts
  <2> QED BY <2>1, <2>2
<1>4. CASE d.value.type = "initial" /\ d.prop \in TakesInitial
  <2>1. ApplyDeclaration(s, d, parent) = set(Initial[d.prop])
    BY <1>4 DEF ApplyDeclaration, set
  <2>2. Counts(d) /\ Gives(d, parent) = Initial[d.prop]
    BY <1>4 DEF Counts, Gives
  <2> QED BY <1>1, <2>1, <2>2
<1>5. CASE d.value.type = "initial" /\ d.prop \notin TakesInitial
  <2>1. ApplyDeclaration(s, d, parent) = s
    BY <1>5 DEF ApplyDeclaration
  <2>2. ~Counts(d)
    BY <1>5 DEF Counts
  <2> QED BY <2>1, <2>2
<1>6. CASE d.value.type \notin {"inherit", "initial"}
  <2>1. ApplyDeclaration(s, d, parent) = set(ApplyValue(s[d.prop], d.prop, d.value))
    BY <1>6 DEF ApplyDeclaration, set
  <2>2. Counts(d) = (PropertyValue(d.prop, d.value) # NoValue) /\ Gives(d, parent) = PropertyValue(d.prop, d.value)
    BY <1>6 DEF Counts, Gives
  <2>3. ApplyValue(s[d.prop], d.prop, d.value) = IF Counts(d) THEN Gives(d, parent) ELSE s[d.prop]
    BY <2>2 DEF ApplyValue
  <2> QED BY <1>1, <2>1, <2>3
<1> QED BY <1>2, <1>3, <1>4, <1>5, <1>6

(* The last declaration that counts is the one that holds.                 *)
LEMMA LastSpeaks ==
  ASSUME NEW style, IsStyle(style), NEW decls, IsDecls(decls), NEW parent, parent # <<>>,
         NEW important \in BOOLEAN
  PROVE  Applied(style, ApplyAll(style, decls, parent, important), decls, Len(decls), parent, important)
<1>1. PICK n \in Nat : n = Len(decls)
  BY DEF IsDecls
<1> DEFINE Then(s, k) == IF decls[k].important = important THEN ApplyDeclaration(s, decls[k], parent) ELSE s
           Step(g)    == [k \in 0 .. n |-> IF k = 0 THEN style ELSE Then(g[k - 1], k)]
           after      == CHOOSE g : g = Step(g)
           Runs(g, m) == DOMAIN g = 0 .. m /\ g[0] = style /\ \A k \in 1 .. m : g[k] = Then(g[k - 1], k)
<1>2. ApplyAll(style, decls, parent, important) = after[n]
  BY <1>1 DEF ApplyAll
<1> HIDE DEF Then
<1>3. \E g : g = Step(g)
  <2> DEFINE S == {m \in 0 .. n : \E g : Runs(g, m)}
  <2>1. 0 \in S
    <3> DEFINE g == [k \in 0 .. 0 |-> style]
    <3>1. DOMAIN g = 0 .. 0 /\ g[0] = style /\ 1 .. 0 = {}
      OBVIOUS
    <3> HIDE DEF g
    <3>2. Runs(g, 0)
      BY <3>1
    <3> QED BY <1>1, <3>2
  <2>2. ASSUME NEW m \in 0 .. n, m < n, m \in S PROVE m + 1 \in S
    <3>1. PICK g : Runs(g, m)
      BY <2>2
    <3> DEFINE h == [k \in 0 .. m + 1 |-> IF k <= m THEN g[k] ELSE Then(g[m], m + 1)]
    <3>2. DOMAIN h = 0 .. m + 1 /\ h[0] = style
      BY <3>1
    <3>3. ASSUME NEW k \in 1 .. m + 1 PROVE h[k] = Then(h[k - 1], k)
      <4>1. CASE k <= m
        <5>1. h[k] = g[k] /\ h[k - 1] = g[k - 1] /\ k \in 1 .. m
          BY <4>1
        <5> QED BY <3>1, <5>1
      <4>2. CASE k = m + 1
        <5>1. h[k] = Then(g[m], k) /\ h[k - 1] = g[m]
          BY <4>2
        <5> QED BY <5>1
      <4> QED BY <4>1, <4>2
    <3> HIDE DEF h
    <3>4. Runs(h, m + 1)
      BY <3>2, <3>3
    <3> QED BY <1>1, <2>2, <3>4
  <2>3. n \in S
    <3> HIDE DEF S
    <3> QED BY <1>1, <2>1, <2>2, Upwards
  <2>4. PICK g : Runs(g, n)
    BY <2>3
  <2> DEFINE t == Step(g)
  <2>5. DOMAIN t = DOMAIN g /\ t = [k \in DOMAIN t |-> t[k]]
    BY <2>4
  <2>6. ASSUME NEW k \in 0 .. n PROVE t[k] = g[k]
    BY <1>1, <2>4
  <2>7. Runs(t, n)
    <3>1. ASSUME NEW k \in 1 .. n PROVE t[k] = Then(t[k - 1], k)
      <4>1. k - 1 \in 0 .. n /\ k \in 0 .. n
        BY <1>1
      <4> QED BY <2>4, <2>6, <4>1
    <3>2. t[0] = style
      BY <1>1
    <3> QED BY <1>1, <3>1, <3>2
  <2>8. t = Step(t)
    <3> DEFINE u == Step(t)
    <3>1. DOMAIN u = DOMAIN t /\ u = [k \in DOMAIN u |-> u[k]]
      OBVIOUS
    <3>2. ASSUME NEW k \in 0 .. n PROVE t[k] = u[k]
      <4>1. u[k] = IF k = 0 THEN style ELSE Then(t[k - 1], k)
        OBVIOUS
      <4> HIDE DEF t, u
      <4>2. CASE k = 0
        BY <2>7, <4>1, <4>2
      <4>3. CASE k \in 1 .. n
        BY <2>7, <4>1, <4>3
      <4> QED BY <4>2, <4>3
    <3>3. DOMAIN t = 0 .. n
      OBVIOUS
    <3> HIDE DEF t, u
    <3>4. t = u
      BY <2>5, <3>1, <3>2, <3>3
    <3> QED BY <3>4 DEF u
  <2> QED BY <2>8
<1>4. after = Step(after)
  <2> HIDE DEF Step
  <2> QED BY <1>3
<1> HIDE DEF after
<1>5. after[0] = style /\ \A k \in 1 .. n : after[k] = Then(after[k - 1], k)
  <2> DEFINE t == Step(after)
  <2>1. t[0] = style /\ \A k \in 1 .. n : t[k] = Then(after[k - 1], k)
    BY <1>1
  <2> HIDE DEF t
  <2>2. after = t
    BY <1>4 DEF t
  <2> QED BY <2>1, <2>2
<1> DEFINE S == {m \in 0 .. n : Applied(style, after[m], decls, m, parent, important)}
<1>6. 0 \in S
  BY <1>1, <1>5 DEF Applied
<1>7. ASSUME NEW m \in 0 .. n, m < n, m \in S PROVE m + 1 \in S
  <2>1. m + 1 \in 1 .. n /\ m + 1 \in 0 .. n /\ (m + 1) - 1 = m
    BY <1>1, <1>7
  <2> DEFINE s == after[m]
             d == decls[m + 1]
             t == after[m + 1]
  <2>2. t = IF d.important = important THEN ApplyDeclaration(s, d, parent) ELSE s
    BY <1>5, <2>1 DEF Then
  <2>3. d.prop \in Properties
    BY <1>1, <2>1 DEF IsDecls
  <2>4. Applied(style, s, decls, m, parent, important)
    BY <1>7
  <2> HIDE DEF s, t
  <2>5. IsStyle(t) /\ \A p \in Properties : t[p] = IF Speaks(d, p, important) THEN Gives(d, parent) ELSE s[p]
    <3>1. IsStyle(s)
      BY <2>4 DEF Applied
    <3> HIDE DEF d
    <3>2. CASE d.important = important
      BY <2>2, <2>3, <3>1, <3>2, DeclarationSets DEF Speaks
    <3>3. CASE d.important # important
      BY <2>2, <3>1, <3>3 DEF Speaks
    <3> QED BY <3>2, <3>3
  <2>6. ASSUME NEW p \in Properties
        PROVE  \/ \E i \in 1 .. m + 1 : /\ Speaks(decls[i], p, important) /\ t[p] = Gives(decls[i], parent)
                                        /\ \A j \in i + 1 .. m + 1 : ~Speaks(decls[j], p, important)
               \/ (\A i \in 1 .. m + 1 : ~Speaks(decls[i], p, important)) /\ t[p] = style[p]
    <3>1. CASE Speaks(d, p, important)
      <4>1. m + 1 \in 1 .. m + 1 /\ (m + 1) + 1 .. m + 1 = {}
        BY <2>1
      <4>2. t[p] = Gives(d, parent)
        BY <2>5, <3>1
      <4> QED BY <3>1, <4>1, <4>2
    <3>2. CASE ~Speaks(d, p, important)
      <4>1. t[p] = s[p]
        BY <2>5, <3>2
      <4>2. \A i \in 1 .. m + 1 : i \in 1 .. m \/ i = m + 1
        BY <2>1
      <4>3. CASE \E i \in 1 .. m : /\ Speaks(decls[i], p, important) /\ s[p] = Gives(decls[i], parent)
                                   /\ \A j \in i + 1 .. m : ~Speaks(decls[j], p, important)
        <5>1. PICK i \in 1 .. m : /\ Speaks(decls[i], p, important) /\ s[p] = Gives(decls[i], parent)
                                  /\ \A j \in i + 1 .. m : ~Speaks(decls[j], p, important)
          BY <4>3
        <5>2. i \in 1 .. m + 1 /\ \A j \in i + 1 .. m + 1 : j \in i + 1 .. m \/ j = m + 1
          BY <2>1
        <5>3. \A j \in i + 1 .. m + 1 : ~Speaks(decls[j], p, important)
          BY <3>2, <5>1, <5>2
        <5> QED BY <4>1, <5>1, <5>2, <5>3
      <4>4. CASE (\A i \in 1 .. m : ~Speaks(decls[i], p, important)) /\ s[p] = style[p]
        BY <3>2, <4>1, <4>2, <4>4
      <4> QED BY <2>4, <4>3, <4>4 DEF Applied
    <3> QED BY <3>1, <3>2
  <2>7. Applied(style, t, decls, m + 1, parent, important)
    BY <2>5, <2>6 DEF Applied
  <2> QED BY <2>1, <2>7 DEF t
<1>8. n \in S
  <2> HIDE DEF S
  <2> QED BY <1>1, <1>6, <1>7, Upwards
<1> QED BY <1>1, <1>8, <1>2

(* What t is after a pass over the first m origins, s before it.           *)
Silent(decls, p, important) == \A i \in 1 .. Len(decls) : ~Speaks(decls[i], p, important)

LastOf(decls, i, p, important) ==
  /\ i \in 1 .. Len(decls) /\ Speaks(decls[i], p, important)
  /\ \A j \in i + 1 .. Len(decls) : ~Speaks(decls[j], p, important)

Passed(s, t, origins, m, parent, important) ==
  /\ IsStyle(t)
  /\ \A p \in Properties :
       \/ \E k \in 1 .. m : \E i : /\ LastOf(origins[k], i, p, important)
                                   /\ t[p] = Gives(origins[k][i], parent)
                                   /\ \A l \in k + 1 .. m : Silent(origins[l], p, important)
       \/ (\A k \in 1 .. m : Silent(origins[k], p, important)) /\ t[p] = s[p]

IsOrigins(origins) == Len(origins) \in Nat /\ \A k \in 1 .. Len(origins) : IsDecls(origins[k])

(* The last origin that has such a declaration is the one that holds.      *)
LEMMA LastOriginSpeaks ==
  ASSUME NEW style, IsStyle(style), NEW origins, IsOrigins(origins), NEW parent, parent # <<>>,
         NEW important \in BOOLEAN
  PROVE  Passed(style, ApplyOrigins(style, origins, parent, important), origins, Len(origins), parent, important)
<1>1. PICK n \in Nat : n = Len(origins)
  BY DEF IsOrigins
<1> DEFINE Then(s, k) == ApplyAll(s, origins[k], parent, important)
           Step(g)    == [k \in 0 .. n |-> IF k = 0 THEN style ELSE Then(g[k - 1], k)]
           after      == CHOOSE g : g = Step(g)
           Runs(g, m) == DOMAIN g = 0 .. m /\ g[0] = style /\ \A k \in 1 .. m : g[k] = Then(g[k - 1], k)
<1>2. ApplyOrigins(style, origins, parent, important) = after[n]
  BY <1>1 DEF ApplyOrigins
<1> HIDE DEF Then
<1>3. \E g : g = Step(g)
  <2> DEFINE S == {m \in 0 .. n : \E g : Runs(g, m)}
  <2>1. 0 \in S
    <3> DEFINE g == [k \in 0 .. 0 |-> style]
    <3>1. DOMAIN g = 0 .. 0 /\ g[0] = style /\ 1 .. 0 = {}
      OBVIOUS
    <3> HIDE DEF g
    <3>2. Runs(g, 0)
      BY <3>1
    <3> QED BY <1>1, <3>2
  <2>2. ASSUME NEW m \in 0 .. n, m < n, m \in S PROVE m + 1 \in S
    <3>1. PICK g : Runs(g, m)
      BY <2>2
    <3> DEFINE h == [k \in 0 .. m + 1 |-> IF k <= m THEN g[k] ELSE Then(g[m], m + 1)]
    <3>2. DOMAIN h = 0 .. m + 1 /\ h[0] = style
      BY <3>1
    <3>3. ASSUME NEW k \in 1 .. m + 1 PROVE h[k] = Then(h[k - 1], k)
      <4>1. CASE k <= m
        <5>1. h[k] = g[k] /\ h[k - 1] = g[k - 1] /\ k \in 1 .. m
          BY <4>1
        <5> QED BY <3>1, <5>1
      <4>2. CASE k = m + 1
        <5>1. h[k] = Then(g[m], k) /\ h[k - 1] = g[m]
          BY <4>2
        <5> QED BY <5>1
      <4> QED BY <4>1, <4>2
    <3> HIDE DEF h
    <3>4. Runs(h, m + 1)
      BY <3>2, <3>3
    <3> QED BY <1>1, <2>2, <3>4
  <2>3. n \in S
    <3> HIDE DEF S
    <3> QED BY <1>1, <2>1, <2>2, Upwards
  <2>4. PICK g : Runs(g, n)
    BY <2>3
  <2> DEFINE t == Step(g)
  <2>5. DOMAIN t = DOMAIN g /\ t = [k \in DOMAIN t |-> t[k]]
    BY <2>4
  <2>6. ASSUME NEW k \in 0 .. n PROVE t[k] = g[k]
    BY <1>1, <2>4
  <2>7. Runs(t, n)
    <3>1. ASSUME NEW k \in 1 .. n PROVE t[k] = Then(t[k - 1], k)
      <4>1. k - 1 \in 0 .. n /\ k \in 0 .. n
        BY <1>1
      <4> QED BY <2>4, <2>6, <4>1
    <3>2. t[0] = style
      BY <1>1
    <3> QED BY <1>1, <3>1, <3>2
  <2>8. t = Step(t)
    <3> DEFINE u == Step(t)
    <3>1. DOMAIN u = DOMAIN t /\ u = [k \in DOMAIN u |-> u[k]]
      OBVIOUS
    <3>2. ASSUME NEW k \in 0 .. n PROVE t[k] = u[k]
      <4>1. u[k] = IF k = 0 THEN style ELSE Then(t[k - 1], k)
        OBVIOUS
      <4> HIDE DEF t, u
      <4>2. CASE k = 0
        BY <2>7, <4>1, <4>2
      <4>3. CASE k \in 1 .. n
        BY <2>7, <4>1, <4>3
      <4> QED BY <4>2, <4>3
    <3>3. DOMAIN t = 0 .. n
      OBVIOUS
    <3> HIDE DEF t, u
    <3>4. t = u
      BY <2>5, <3>1, <3>2, <3>3
    <3> QED BY <3>4 DEF u
  <2> QED BY <2>8
<1>4. after = Step(after)
  <2> HIDE DEF Step
  <2> QED BY <1>3
<1> HIDE DEF after
<1>5. after[0] = style /\ \A k \in 1 .. n : after[k] = Then(after[k - 1], k)
  <2> DEFINE t == Step(after)
  <2>1. t[0] = style /\ \A k \in 1 .. n : t[k] = Then(after[k - 1], k)
    BY <1>1
  <2> HIDE DEF t
  <2>2. after = t
    BY <1>4 DEF t
  <2> QED BY <2>1, <2>2
<1> DEFINE S == {m \in 0 .. n : Passed(style, after[m], origins, m, parent, important)}
<1>6. 0 \in S
  BY <1>1, <1>5 DEF Passed
<1>7. ASSUME NEW m \in 0 .. n, m < n, m \in S PROVE m + 1 \in S
  <2>1. m + 1 \in 1 .. n /\ m + 1 \in 0 .. n /\ (m + 1) - 1 = m
    BY <1>1, <1>7
  <2> DEFINE s     == after[m]
             decls == origins[m + 1]
             t     == after[m + 1]
  <2>2. t = ApplyAll(s, decls, parent, important)
    BY <1>5, <2>1 DEF Then
  <2>3. IsDecls(decls)
    BY <1>1, <2>1 DEF IsOrigins
  <2>4. Passed(style, s, origins, m, parent, important)
    BY <1>7
  <2>5. Applied(s, t, decls, Len(decls), parent, important)
    <3> HIDE DEF s, t, decls
    <3>1. IsStyle(s)
      BY <2>4 DEF Passed
    <3> QED BY <2>2, <2>3, <3>1, LastSpeaks
  <2> HIDE DEF s, t
  <2>6. ASSUME NEW p \in Properties
        PROVE  \/ \E k \in 1 .. m + 1 : \E i : /\ LastOf(origins[k], i, p, important)
                                               /\ t[p] = Gives(origins[k][i], parent)
                                               /\ \A l \in k + 1 .. m + 1 : Silent(origins[l], p, important)
               \/ (\A k \in 1 .. m + 1 : Silent(origins[k], p, important)) /\ t[p] = style[p]
    <3>1. CASE ~Silent(decls, p, important)
      <4>1. m + 1 \in 1 .. m + 1 /\ (m + 1) + 1 .. m + 1 = {}
        BY <2>1
      <4>2. PICK i : LastOf(decls, i, p, important) /\ t[p] = Gives(decls[i], parent)
        <5> HIDE DEF decls
        <5> QED BY <2>5, <3>1 DEF Applied, LastOf, Silent
      <4> QED BY <4>1, <4>2
    <3>2. CASE Silent(decls, p, important)
      <4>1. t[p] = s[p]
        <5> HIDE DEF decls
        <5> QED BY <2>5, <3>2 DEF Applied, Silent
      <4>2. \A k \in 1 .. m + 1 : k \in 1 .. m \/ k = m + 1
        BY <2>1
      <4>3. CASE \E k \in 1 .. m : \E i : /\ LastOf(origins[k], i, p, important)
                                         /\ s[p] = Gives(origins[k][i], parent)
                                         /\ \A l \in k + 1 .. m : Silent(origins[l], p, important)
        <5>1. PICK k \in 1 .. m : \E i : /\ LastOf(origins[k], i, p, important)
                                        /\ s[p] = Gives(origins[k][i], parent)
                                        /\ \A l \in k + 1 .. m : Silent(origins[l], p, important)
          BY <4>3
        <5>2. k \in 1 .. m + 1 /\ \A l \in k + 1 .. m + 1 : l \in k + 1 .. m \/ l = m + 1
          BY <2>1
        <5>3. \A l \in k + 1 .. m + 1 : Silent(origins[l], p, important)
          BY <3>2, <5>1, <5>2
        <5> QED BY <4>1, <5>1, <5>2, <5>3
      <4>4. CASE (\A k \in 1 .. m : Silent(origins[k], p, important)) /\ s[p] = style[p]
        BY <3>2, <4>1, <4>2, <4>4
      <4> QED BY <2>4, <4>3, <4>4 DEF Passed
    <3> QED BY <3>1, <3>2
  <2>7. IsStyle(t)
    BY <2>5 DEF Applied
  <2>8. Passed(style, t, origins, m + 1, parent, important)
    BY <2>6, <2>7 DEF Passed
  <2> QED BY <2>1, <2>8 DEF t
<1>8. n \in S
  <2> HIDE DEF S
  <2> QED BY <1>1, <1>6, <1>7, Upwards
<1> QED BY <1>1, <1>2, <1>8

(* Of two declarations, the one at a overrides the one at b: an important  *)
(* one any other, else the one of the later origin, else the later one.    *)
Overrides(origins, a, b) ==
  LET x == origins[a[1]][a[2]]
      y == origins[b[1]][b[2]]
  IN  \/ x.important /\ ~y.important
      \/ x.important = y.important /\ (a[1] > b[1] \/ (a[1] = b[1] /\ a[2] > b[2]))

DeclaredAt(origins, p) ==
  {c \in (1 .. Len(origins)) \X Nat :
     /\ c[2] \in 1 .. Len(origins[c[1]])
     /\ origins[c[1]][c[2]].prop = p /\ Counts(origins[c[1]][c[2]])}

OwnDeclared(origins, p, important) ==
  {c \in DeclaredAt(origins, p) : origins[c[1]][c[2]].important = important}

(* The value of p in t is that of the declaration that overrides all others *)
(* of a pass, or, with none, that in s.                                    *)
Decided(origins, s, t, parent, important, p) ==
  LET own == OwnDeclared(origins, p, important)
  IN  \/ \E c \in own : /\ t[p] = Gives(origins[c[1]][c[2]], parent)
                        /\ \A b \in own \ {c} : Overrides(origins, c, b)
      \/ own = {} /\ t[p] = s[p]

(* Of the declarations of a pass, the last one of the last origin is the   *)
(* one a property has its value from.                                      *)
LEMMA PassDecides ==
  ASSUME NEW origins, IsOrigins(origins), NEW s, NEW t, NEW parent, NEW important \in BOOLEAN,
         Passed(s, t, origins, Len(origins), parent, important), NEW p \in Properties
  PROVE  Decided(origins, s, t, parent, important, p)
<1> USE DEF Decided
<1> DEFINE own == OwnDeclared(origins, p, important)
<1>1. PICK n \in Nat : n = Len(origins) /\ \A k \in 1 .. n : Len(origins[k]) \in Nat
  BY DEF IsOrigins, IsDecls
<1>2. ASSUME NEW c
      PROVE  c \in own <=> /\ c \in (1 .. n) \X Nat /\ c[2] \in 1 .. Len(origins[c[1]])
                           /\ Speaks(origins[c[1]][c[2]], p, important)
  BY <1>1 DEF OwnDeclared, DeclaredAt, Speaks
<1>3. CASE \E k \in 1 .. n : \E i : /\ LastOf(origins[k], i, p, important)
                                    /\ t[p] = Gives(origins[k][i], parent)
                                    /\ \A l \in k + 1 .. n : Silent(origins[l], p, important)
  <2>0. PICK k \in 1 .. n : \E i : /\ LastOf(origins[k], i, p, important)
                                  /\ t[p] = Gives(origins[k][i], parent)
                                  /\ \A l \in k + 1 .. n : Silent(origins[l], p, important)
    BY <1>3
  <2>1. PICK i : /\ LastOf(origins[k], i, p, important) /\ t[p] = Gives(origins[k][i], parent)
                 /\ \A l \in k + 1 .. n : Silent(origins[l], p, important)
    BY <2>0
  <2>2. /\ i \in 1 .. Len(origins[k]) /\ i \in Nat /\ Speaks(origins[k][i], p, important)
        /\ \A j \in i + 1 .. Len(origins[k]) : ~Speaks(origins[k][j], p, important)
    BY <1>1, <2>1 DEF LastOf
  <2> DEFINE c == <<k, i>>
  <2>3. c \in (1 .. n) \X Nat /\ c[1] = k /\ c[2] = i
    BY <2>2
  <2> HIDE DEF c, own
  <2>4. c \in own
    BY <1>2, <2>2, <2>3
  <2>5. ASSUME NEW b \in own, b # c PROVE Overrides(origins, c, b)
    <3>1. /\ b \in (1 .. n) \X Nat /\ b[2] \in 1 .. Len(origins[b[1]])
          /\ Speaks(origins[b[1]][b[2]], p, important)
      BY <1>2
    <3>2. PICK l \in 1 .. n, j \in Nat : b = <<l, j>>
      BY <3>1
    <3>3. b[1] = l /\ b[2] = j
      BY <3>2
    <3>4. l <= k
      <4>1. SUFFICES ASSUME l > k PROVE FALSE
        OBVIOUS
      <4>2. l \in k + 1 .. n
        BY <4>1
      <4>3. Silent(origins[l], p, important)
        BY <2>1, <4>2
      <4> QED BY <3>1, <3>3, <4>3 DEF Silent
    <3>5. l = k => j < i
      <4>1. SUFFICES ASSUME l = k, j >= i PROVE FALSE
        BY <2>2
      <4>2. j # i
        BY <2>5, <3>2, <4>1 DEF c
      <4>3. Len(origins[k]) \in Nat /\ j \in 1 .. Len(origins[k])
        BY <1>1, <3>1, <3>3, <4>1
      <4>4. j \in i + 1 .. Len(origins[k])
        BY <2>2, <4>1, <4>2, <4>3
      <4> QED BY <2>2, <3>1, <3>3, <4>1, <4>4
    <3>6. origins[k][i].important = important /\ origins[l][j].important = important
      BY <2>2, <3>1, <3>3 DEF Speaks
    <3> QED BY <2>2, <2>3, <3>3, <3>4, <3>5, <3>6 DEF Overrides
  <2>6. t[p] = Gives(origins[c[1]][c[2]], parent)
    BY <2>1, <2>3
  <2>7. \E x \in own : t[p] = Gives(origins[x[1]][x[2]], parent) /\ \A b \in own \ {x} : Overrides(origins, x, b)
    BY <2>4, <2>5, <2>6
  <2> QED BY <2>7 DEF own
<1>4. CASE (\A k \in 1 .. n : Silent(origins[k], p, important)) /\ t[p] = s[p]
  <2>1. own = {}
    <3>1. ASSUME NEW c \in own PROVE FALSE
      <4> HIDE DEF own
      <4>1. /\ c \in (1 .. n) \X Nat /\ c[2] \in 1 .. Len(origins[c[1]])
            /\ Speaks(origins[c[1]][c[2]], p, important)
        BY <1>2
      <4>2. Silent(origins[c[1]], p, important)
        BY <1>4, <4>1
      <4> QED BY <4>1, <4>2 DEF Silent
    <3> HIDE DEF own
    <3> QED BY <3>1
  <2> QED BY <1>4, <2>1
<1> HIDE DEF own
<1>5. \/ \E c \in own : t[p] = Gives(origins[c[1]][c[2]], parent) /\ \A b \in own \ {c} : Overrides(origins, c, b)
      \/ own = {} /\ t[p] = s[p]
  BY <1>1, <1>3, <1>4 DEF Passed, own
<1> QED BY <1>5 DEF own

(* StyleResolver::Resolve: a property has the value of the declaration     *)
(* that overrides all others that count for it, important before not,      *)
(* inline before rules, rules in the order of their specificity; with no   *)
(* such declaration it is inherited or has its initial value.              *)
THEOREM StrongestDeclarationWins ==
  ASSUME NEW n, NEW parent, IsStyle(parent), NEW p \in Properties,
         IsOrigins(Origins(SortBySpecificity(CollectMatchingRules(n)), InlineOf(n)))
  PROVE  LET origins == Origins(SortBySpecificity(CollectMatchingRules(n)), InlineOf(n))
             all     == DeclaredAt(origins, p)
             style   == Resolve(n, parent)
         IN  \/ \E c \in all : /\ style[p] = Gives(origins[c[1]][c[2]], parent)
                               /\ \A b \in all \ {c} : Overrides(origins, c, b)
             \/ all = {} /\ style[p] = IF IsInheritedProperty(p) THEN parent[p] ELSE Initial[p]
<1> DEFINE origins == Origins(SortBySpecificity(CollectMatchingRules(n)), InlineOf(n))
           all     == DeclaredAt(origins, p)
           base    == InheritProperties(parent)
           first   == ApplyOrigins(base, origins, parent, FALSE)
           style   == ApplyOrigins(first, origins, parent, TRUE)
           own(important) == OwnDeclared(origins, p, important)
<1>1. parent # <<>>
  <2>1. "top" \in Properties
    BY DEF Properties, LengthProperties
  <2>2. "top" \in DOMAIN parent
    BY <2>1 DEF IsStyle
  <2> QED BY <2>2
<1>2. Resolve(n, parent) = style
  BY <1>1 DEF Resolve, Layered
<1>3. IsStyle(base) /\ base[p] = IF IsInheritedProperty(p) THEN parent[p] ELSE Initial[p]
  BY DEF InheritProperties, IsStyle, IsInheritedProperty
<1>4. IsOrigins(origins)
  OBVIOUS
<1> HIDE DEF origins, base
<1>5. Passed(base, first, origins, Len(origins), parent, FALSE)
  BY <1>1, <1>3, <1>4, LastOriginSpeaks
<1>6. Passed(first, style, origins, Len(origins), parent, TRUE)
  <2>1. IsStyle(first)
    BY <1>5 DEF Passed
  <2> HIDE DEF first
  <2> QED BY <1>1, <1>4, <2>1, LastOriginSpeaks
<1> HIDE DEF first, style
<1>7. \A c \in all : origins[c[1]][c[2]].important \in BOOLEAN
  BY <1>4 DEF DeclaredAt, IsOrigins, IsDecls
<1> HIDE DEF all
<1>8. \/ \E c \in own(FALSE) : /\ first[p] = Gives(origins[c[1]][c[2]], parent)
                               /\ \A b \in own(FALSE) \ {c} : Overrides(origins, c, b)
      \/ own(FALSE) = {} /\ first[p] = base[p]
  <2>1. Decided(origins, base, first, parent, FALSE, p)
    BY <1>4, <1>5, PassDecides
  <2> QED BY <2>1 DEF Decided
<1>9. \/ \E c \in own(TRUE) : /\ style[p] = Gives(origins[c[1]][c[2]], parent)
                              /\ \A b \in own(TRUE) \ {c} : Overrides(origins, c, b)
      \/ own(TRUE) = {} /\ style[p] = first[p]
  <2>1. Decided(origins, first, style, parent, TRUE, p)
    BY <1>4, <1>6, PassDecides
  <2> QED BY <2>1 DEF Decided
<1>10. \A c \in own(TRUE), b \in own(FALSE) : Overrides(origins, c, b)
  BY DEF Overrides, OwnDeclared
<1>11. \A c \in all : c \in own(TRUE) \/ c \in own(FALSE)
  BY <1>7 DEF OwnDeclared, all
<1>12. \A c : c \in own(TRUE) \/ c \in own(FALSE) => c \in all
  BY DEF OwnDeclared, all
<1> HIDE DEF own
<1>13. CASE \E c \in own(TRUE) : /\ style[p] = Gives(origins[c[1]][c[2]], parent)
                                 /\ \A b \in own(TRUE) \ {c} : Overrides(origins, c, b)
  <2>1. PICK c \in own(TRUE) : /\ style[p] = Gives(origins[c[1]][c[2]], parent)
                               /\ \A b \in own(TRUE) \ {c} : Overrides(origins, c, b)
    BY <1>13
  <2>2. c \in all /\ \A b \in all \ {c} : Overrides(origins, c, b)
    BY <1>10, <1>11, <1>12, <2>1
  <2> QED BY <1>2, <2>1, <2>2 DEF all, origins
<1>14. CASE own(TRUE) = {} /\ style[p] = first[p]
  <2>1. CASE \E c \in own(FALSE) : /\ first[p] = Gives(origins[c[1]][c[2]], parent)
                                   /\ \A b \in own(FALSE) \ {c} : Overrides(origins, c, b)
    <3>1. PICK c \in own(FALSE) : /\ first[p] = Gives(origins[c[1]][c[2]], parent)
                                  /\ \A b \in own(FALSE) \ {c} : Overrides(origins, c, b)
      BY <2>1
    <3>2. c \in all /\ \A b \in all \ {c} : Overrides(origins, c, b)
      BY <1>11, <1>12, <1>14, <3>1
    <3> QED BY <1>2, <1>14, <3>1, <3>2 DEF all, origins
  <2>2. CASE own(FALSE) = {} /\ first[p] = base[p]
    <3>1. all = {}
      BY <1>11, <1>14, <2>2
    <3>2. style[p] = IF IsInheritedProperty(p) THEN parent[p] ELSE Initial[p]
      BY <1>3, <1>14, <2>2
    <3> QED BY <1>2, <3>1, <3>2 DEF all, origins
  <2> QED BY <1>8, <2>1, <2>2
<1> QED BY <1>9, <1>13, <1>14

LEMMA PackedKinds ==
  ASSUME NEW sel,
         \A types \in {{"id"}, {"class", "attribute", "pseudo"}, {"tag"}} : CountSimples(sel, types) \in 0 .. 255
  PROVE  \E a, b, c \in 0 .. 255 : /\ a = CountSimples(sel, {"id"})
                                   /\ b = CountSimples(sel, {"class", "attribute", "pseudo"})
                                   /\ c = CountSimples(sel, {"tag"})
<1> DEFINE ids     == {"id"}
           classes == {"class", "attribute", "pseudo"}
           tags    == {"tag"}
<1>1. \A types \in {ids, classes, tags} : CountSimples(sel, types) \in 0 .. 255
  OBVIOUS
<1> HIDE DEF ids, classes, tags
<1>2. /\ CountSimples(sel, ids) \in 0 .. 255 /\ CountSimples(sel, classes) \in 0 .. 255
      /\ CountSimples(sel, tags) \in 0 .. 255
  BY <1>1
<1> QED BY <1>2 DEF ids, classes, tags

(* Three numbers compared from the first on.                               *)
LEMMA TriplesCompare ==
  ASSUME NEW a \in Nat, NEW b \in Nat, NEW c \in Nat, NEW x \in Nat, NEW y \in Nat, NEW z \in Nat
  PROVE  Stronger(<<x, y, z>>, <<a, b, c>>) <=> x > a \/ (x = a /\ y > b) \/ (x = a /\ y = b /\ z > c)
<1>1. Len(<<x, y, z>>) = 3 /\ 1 .. 3 = {1, 2, 3} /\ 1 .. 1 - 1 = {} /\ 1 .. 2 - 1 = {1} /\ 1 .. 3 - 1 = {1, 2}
  OBVIOUS
<1>2. Stronger(<<x, y, z>>, <<a, b, c>>)
        <=> \E i \in {1, 2, 3} : /\ <<x, y, z>>[i] > <<a, b, c>>[i]
                                 /\ \A j \in 1 .. i - 1 : <<x, y, z>>[j] = <<a, b, c>>[j]
  BY <1>1 DEF Stronger
<1> QED BY <1>1, <1>2

(* ComputeSpecificity: below 256 simple selectors of a kind, the numbers   *)
(* compare as ids, then classes, then tags do.                             *)
THEOREM SpecificityOrders ==
  ASSUME NEW s, NEW t,
         \A sel \in {s, t} : \A types \in {{"id"}, {"class", "attribute", "pseudo"}, {"tag"}} :
           CountSimples(sel, types) \in 0 .. 255
  PROVE  ComputeSpecificity(s) < ComputeSpecificity(t) <=> Stronger(Kinds(t), Kinds(s))
<1>1. PICK a \in 0 .. 255, b \in 0 .. 255, c \in 0 .. 255 :
        /\ a = CountSimples(s, {"id"}) /\ b = CountSimples(s, {"class", "attribute", "pseudo"})
        /\ c = CountSimples(s, {"tag"})
  BY PackedKinds
<1>2. PICK x \in 0 .. 255, y \in 0 .. 255, z \in 0 .. 255 :
        /\ x = CountSimples(t, {"id"}) /\ y = CountSimples(t, {"class", "attribute", "pseudo"})
        /\ z = CountSimples(t, {"tag"})
  BY PackedKinds
<1>3. ComputeSpecificity(s) = (65536 * a + 256 * b) + c /\ ComputeSpecificity(t) = (65536 * x + 256 * y) + z
  BY <1>1, <1>2 DEF ComputeSpecificity
<1>4. Kinds(s) = <<a, b, c>> /\ Kinds(t) = <<x, y, z>>
  BY <1>1, <1>2 DEF Kinds
<1>5. (65536 * a + 256 * b) + c < (65536 * x + 256 * y) + z
        <=> x > a \/ (x = a /\ y > b) \/ (x = a /\ y = b /\ z > c)
  OBVIOUS
<1>6. Stronger(<<x, y, z>>, <<a, b, c>>) <=> x > a \/ (x = a /\ y > b) \/ (x = a /\ y = b /\ z > c)
  BY TriplesCompare
<1>7. ComputeSpecificity(s) < ComputeSpecificity(t) <=> Stronger(Kinds(t), Kinds(s))
  BY <1>3, <1>4, <1>5, <1>6
<1> QED BY <1>7

-----------------------------------------------------------------------------
(* Recursion on a measure: places whose measure is bounded.                *)

(* What holds of a place when it holds of all with a smaller measure holds *)
(* of all.                                                                 *)
Inductive(D, N, m, S) ==
  /\ N \in Nat /\ m \in [D -> 0 .. N]
  /\ \A d \in D : (\A e \in D : m[e] < m[d] => e \in S) => d \in S

LEMMA MeasureInduction ==
  ASSUME NEW D, NEW N, NEW m, NEW S, Inductive(D, N, m, S)
  PROVE  \A d \in D : d \in S
<1> N \in Nat /\ m \in [D -> 0 .. N]
  BY DEF Inductive
<1> DEFINE T == {k \in 0 .. N : \A d \in D : m[d] <= k => d \in S}
<1>1. 0 \in T
  BY DEF Inductive
<1>2. ASSUME NEW k \in 0 .. N, k < N, k \in T PROVE k + 1 \in T
  BY <1>2 DEF Inductive
<1>3. N \in T
  <2> HIDE DEF T
  <2> QED BY <1>1, <1>2, Upwards
<1> QED BY <1>3

(* G gives a value for each place out of the values at places with a       *)
(* smaller measure.                                                        *)
IsRecursion(D, V, N, m, G) ==
  /\ V # {} /\ N \in Nat /\ m \in [D -> 0 .. N] /\ G \in [D -> [[D -> V] -> V]]
  /\ \A d \in D : \A f, g \in [D -> V] :
       (\A e \in D : m[e] < m[d] => f[e] = g[e]) => G[d][f] = G[d][g]
Solved(D, V, G) == \E f \in [D -> V] : \A d \in D : f[d] = G[d][f]

(* Then a function that has these values exists.                           *)
LEMMA Recursion ==
  ASSUME NEW D, NEW V, NEW N, NEW m, NEW G, IsRecursion(D, V, N, m, G)
  PROVE  Solved(D, V, G)
<1> PICK v : v \in V
  BY DEF IsRecursion
<1> N \in Nat /\ m \in [D -> 0 .. N] /\ G \in [D -> [[D -> V] -> V]]
  BY DEF IsRecursion
<1> DEFINE Below(f, g, d) == \A e \in D : m[e] < m[d] => f[e] = g[e]
           Good(f, k) == \A d \in D : m[d] <= k => f[d] = G[d][f]
           T == {k \in 0 .. N : \E f \in [D -> V] : Good(f, k)}
           Next(f) == [d \in D |-> G[d][f]]
<1>1. \A f \in [D -> V] : Next(f) \in [D -> V] /\ \A d \in D : Next(f)[d] = G[d][f]
  OBVIOUS
<1>0. ASSUME NEW d \in D, NEW f \in [D -> V], NEW g \in [D -> V], Below(f, g, d)
      PROVE  G[d][f] = G[d][g]
  BY <1>0 DEF IsRecursion
<1>m. \A d \in D : m[d] \in 0 .. N
  OBVIOUS
<1> HIDE DEF Next, Below
<1>2. 0 \in T
  <2> DEFINE f == [d \in D |-> v]
  <2>1. f \in [D -> V]
    OBVIOUS
  <2> HIDE DEF f
  <2>2. ASSUME NEW d \in D, m[d] <= 0 PROVE Next(f)[d] = G[d][Next(f)]
    <3>1. Below(f, Next(f), d)
      BY <1>m, <2>2 DEF Below
    <3> QED BY <1>0, <1>1, <2>1, <3>1
  <2>3. Next(f) \in [D -> V] /\ Good(Next(f), 0)
    BY <1>1, <2>1, <2>2
  <2> HIDE DEF Good
  <2> QED BY <2>3
<1>3. ASSUME NEW k \in 0 .. N, k < N, k \in T PROVE k + 1 \in T
  <2>1. PICK f \in [D -> V] : Good(f, k)
    BY <1>3
  <2>2. ASSUME NEW d \in D, m[d] <= k + 1 PROVE Next(f)[d] = G[d][Next(f)]
    <3>1. Below(f, Next(f), d)
      <4> SUFFICES ASSUME NEW e \in D, m[e] < m[d] PROVE f[e] = Next(f)[e]
        BY DEF Below
      <4>1. m[e] <= k
        BY <1>m, <2>2
      <4> QED BY <1>1, <2>1, <4>1
    <3> QED BY <1>0, <1>1, <2>1, <3>1
  <2>3. Next(f) \in [D -> V] /\ Good(Next(f), k + 1)
    BY <1>1, <2>1, <2>2
  <2> HIDE DEF Good
  <2> QED BY <1>3, <2>3
<1>4. N \in T
  <2> HIDE DEF T, Good
  <2>1. \A j \in 0 .. N : j < N /\ j \in T => j + 1 \in T
    BY <1>3
  <2>2. \A j \in 0 .. N : j \in T
    BY <1>2, <2>1, Upwards
  <2> QED BY <2>2
<1>5. PICK f \in [D -> V] : Good(f, N)
  BY <1>4
<1> QED BY <1>5, <1>m DEF Solved

-----------------------------------------------------------------------------
(* The document: the ancestors of an element.                              *)

(* A document as the parser and the script bindings build it: parents are  *)
(* older than their children, and elements.                                *)
DocumentOK ==
  /\ TreeTypeOK /\ NoCycle
  /\ \A n \in Elements : tree.parent[n] \in Elements \cup {NoNode}

LEMMA ParentIsOlder ==
  ASSUME DocumentOK
  PROVE  /\ \A m \in DomNodes : tree.parent[m] \in Ref /\ tree.parent[m] < m
         /\ Elements \subseteq DomNodes /\ NoNode \notin DomNodes /\ Ref = 0 .. MaxNodes
         /\ \A m \in Elements : tree.parent[m] \in Elements \cup {NoNode}
<1>1. tree.parent \in [DomNodes -> Ref] /\ tree.made \in DomNodes
  BY DEF DocumentOK, TreeTypeOK
<1>2. MaxNodes \in Nat \ {0}
  BY DomAssumption
<1>3. Ref = 0 .. MaxNodes /\ NoNode \notin DomNodes
  BY <1>2 DEF Ref, DomNodes, NoNode
<1>4. Elements \subseteq DomNodes
  BY <1>1, <1>2 DEF Elements, Made, DomNodes
<1> QED BY <1>1, <1>3, <1>4 DEF DocumentOK, NoCycle

LEMMA OnPathUp ==
  ASSUME DocumentOK
  PROVE  /\ \A a : ~OnPath(NoNode, a)
         /\ \A m \in DomNodes : \A a : OnPath(m, a) <=> a = m \/ OnPath(tree.parent[m], a)
<1> DEFINE Body(f, m) == IF m = NoNode THEN {} ELSE {m} \cup f[tree.parent[m]]
           Step(f)    == [m \in Ref |-> Body(f, m)]
           up         == CHOOSE f : f = Step(f)
           V          == SUBSET Ref
           G          == [m \in Ref |-> [f \in [Ref -> V] |-> Body(f, m)]]
           measure    == [m \in Ref |-> m]
<1>1. \A m, a : OnPath(m, a) <=> a \in up[m]
  BY DEF OnPath
<1>2. /\ \A m \in Ref : m # NoNode => tree.parent[m] \in Ref /\ tree.parent[m] < m
      /\ MaxNodes \in Nat /\ Ref = 0 .. MaxNodes /\ NoNode \in Ref /\ DomNodes = Ref \ {NoNode}
  BY ParentIsOlder, DomAssumption DEF Ref
<1>3. \A m \in Ref : \A f \in [Ref -> V] : Body(f, m) \in V
  BY <1>2
<1>4. ASSUME NEW m \in Ref, NEW f, NEW g, \A e \in Ref : e < m => f[e] = g[e] PROVE Body(f, m) = Body(g, m)
  BY <1>2, <1>4
<1> HIDE DEF Body
<1>5. \E f \in [Ref -> V] : \A m \in Ref : f[m] = Body(f, m)
  <2>1. G \in [Ref -> [[Ref -> V] -> V]] /\ \A m \in Ref : \A f \in [Ref -> V] : G[m][f] = Body(f, m)
    BY <1>3
  <2>2. measure \in [Ref -> 0 .. MaxNodes] /\ \A m \in Ref : measure[m] = m
    BY <1>2
  <2>3. {} \in V
    OBVIOUS
  <2> HIDE DEF G, measure, V
  <2>4. \A m \in Ref : \A f, g \in [Ref -> V] : (\A e \in Ref : measure[e] < measure[m] => f[e] = g[e]) => G[m][f] = G[m][g]
    BY <1>4, <2>1, <2>2
  <2>5. IsRecursion(Ref, V, MaxNodes, measure, G)
    BY <1>2, <2>1, <2>2, <2>3, <2>4 DEF IsRecursion
  <2> QED BY <2>1, <2>5, Recursion DEF Solved
<1>6. up = Step(up)
  <2>1. PICK f \in [Ref -> V] : \A m \in Ref : f[m] = Body(f, m)
    BY <1>5
  <2>2. f = Step(f)
    BY <2>1
  <2> HIDE DEF Step
  <2> QED BY <2>2
<1>7. \A m \in Ref : up[m] = Body(up, m)
  <2> HIDE DEF up
  <2> QED BY <1>6
<1> HIDE DEF up
<1> QED BY <1>1, <1>2, <1>7 DEF Body

LEMMA Downwards ==
  ASSUME DocumentOK, NEW S, NoNode \in S, \A m \in DomNodes : tree.parent[m] \in S => m \in S
  PROVE  \A m \in Ref : m \in S
<1> DEFINE measure == [m \in Ref |-> m]
<1>1. /\ \A m \in DomNodes : tree.parent[m] \in Ref /\ tree.parent[m] < m
      /\ MaxNodes \in Nat /\ Ref = 0 .. MaxNodes /\ DomNodes = Ref \ {NoNode}
  BY ParentIsOlder, DomAssumption DEF Ref
<1>2. measure \in [Ref -> 0 .. MaxNodes] /\ \A m \in Ref : measure[m] = m
  BY <1>1
<1> HIDE DEF measure
<1>3. \A m \in Ref : (\A e \in Ref : measure[e] < measure[m] => e \in S) => m \in S
  BY <1>1, <1>2
<1>4. Inductive(Ref, MaxNodes, measure, S)
  BY <1>1, <1>2, <1>3 DEF Inductive
<1> QED BY <1>4, MeasureInduction

LEMMA PathFacts ==
  ASSUME DocumentOK
  PROVE  /\ \A m \in Ref : \A a : OnPath(m, a) => a \in DomNodes /\ a <= m /\ (m \in Elements => a \in Elements)
         /\ \A m \in Ref : \A b : OnPath(m, b) => \A a : OnPath(b, a) => OnPath(m, a)
         /\ \A m \in DomNodes : \A a : a # m /\ OnPath(m, a) <=> OnPath(tree.parent[m], a)
<1>1. /\ \A a : ~OnPath(NoNode, a)
      /\ \A m \in DomNodes : \A a : OnPath(m, a) <=> a = m \/ OnPath(tree.parent[m], a)
  BY OnPathUp
<1>2. /\ \A m \in DomNodes : tree.parent[m] \in Ref /\ tree.parent[m] < m
      /\ Elements \subseteq DomNodes /\ NoNode \notin DomNodes /\ Ref = 0 .. MaxNodes
      /\ \A m \in Elements : tree.parent[m] \in Elements \cup {NoNode}
  BY ParentIsOlder
<1>3. MaxNodes \in Nat /\ Ref = DomNodes \cup {NoNode} /\ DomNodes \subseteq Int /\ Ref \subseteq Int
  BY <1>2, DomAssumption DEF Ref, DomNodes
<1>4. \A m \in Ref : \A a : OnPath(m, a) => a \in DomNodes /\ a <= m /\ (m \in Elements => a \in Elements)
  <2> DEFINE S == {m \in Ref : \A a : OnPath(m, a) => a \in DomNodes /\ a <= m /\ (m \in Elements => a \in Elements)}
  <2>1. NoNode \in S
    BY <1>1, <1>3
  <2>2. ASSUME NEW m \in DomNodes, tree.parent[m] \in S PROVE m \in S
    <3>1. ASSUME NEW a, OnPath(tree.parent[m], a) PROVE a \in DomNodes /\ a <= m /\ (m \in Elements => a \in Elements)
      <4>1. a \in DomNodes /\ a <= tree.parent[m] /\ (tree.parent[m] \in Elements => a \in Elements)
        BY <2>2, <3>1
      <4>2. m \in Elements => tree.parent[m] \in Elements
        BY <1>1, <1>2, <3>1
      <4> QED BY <1>2, <1>3, <4>1, <4>2
    <3> QED BY <1>1, <1>3, <3>1
  <2> HIDE DEF S
  <2>3. \A m \in Ref : m \in S
    BY <2>1, <2>2, Downwards
  <2> QED BY <2>3 DEF S
<1>5. \A m \in Ref : \A b : OnPath(m, b) => \A a : OnPath(b, a) => OnPath(m, a)
  <2> DEFINE S == {m \in Ref : \A b : OnPath(m, b) => \A a : OnPath(b, a) => OnPath(m, a)}
  <2>1. NoNode \in S
    BY <1>1, <1>3
  <2>2. ASSUME NEW m \in DomNodes, tree.parent[m] \in S PROVE m \in S
    BY <1>1, <1>3, <2>2
  <2> HIDE DEF S
  <2>3. \A m \in Ref : m \in S
    BY <2>1, <2>2, Downwards
  <2> QED BY <2>3 DEF S
<1>6. ASSUME NEW m \in DomNodes, NEW a PROVE a # m /\ OnPath(m, a) <=> OnPath(tree.parent[m], a)
  BY <1>1, <1>2, <1>3, <1>4
<1> QED BY <1>4, <1>5, <1>6

NearestHolds(c, m, x) ==
  /\ x \in Ref
  /\ x = NoNode => \A a : OnPath(m, a) => ~MatchCompound(c, a)
  /\ x # NoNode => /\ OnPath(m, x) /\ MatchCompound(c, x)
                   /\ \A a : OnPath(m, a) /\ MatchCompound(c, a) => OnPath(x, a)

LEMMA NearestMatches ==
  ASSUME DocumentOK, NEW c
  PROVE  \A m \in Ref : NearestHolds(c, m, Nearest(c, m))
<1> DEFINE Body(f, m) == IF m = NoNode \/ MatchCompound(c, m) THEN m ELSE f[tree.parent[m]]
           Step(f)    == [m \in Ref |-> Body(f, m)]
           up         == CHOOSE f : f = Step(f)
           G          == [m \in Ref |-> [f \in [Ref -> Ref] |-> Body(f, m)]]
           measure    == [m \in Ref |-> m]
<1>1. \A m : Nearest(c, m) = up[m]
  BY DEF Nearest
<1>2. /\ \A m \in Ref : m # NoNode => tree.parent[m] \in Ref /\ tree.parent[m] < m
      /\ MaxNodes \in Nat /\ Ref = 0 .. MaxNodes /\ NoNode \in Ref /\ DomNodes = Ref \ {NoNode}
  BY ParentIsOlder, DomAssumption DEF Ref
<1>3. \A m \in Ref : \A f \in [Ref -> Ref] : Body(f, m) \in Ref
  BY <1>2
<1>4. ASSUME NEW m \in Ref, NEW f, NEW g, \A e \in Ref : e < m => f[e] = g[e] PROVE Body(f, m) = Body(g, m)
  BY <1>2, <1>4
<1> HIDE DEF Body
<1>5. \E f \in [Ref -> Ref] : \A m \in Ref : f[m] = Body(f, m)
  <2>1. G \in [Ref -> [[Ref -> Ref] -> Ref]] /\ \A m \in Ref : \A f \in [Ref -> Ref] : G[m][f] = Body(f, m)
    BY <1>3
  <2>2. measure \in [Ref -> 0 .. MaxNodes] /\ \A m \in Ref : measure[m] = m
    BY <1>2
  <2> HIDE DEF G, measure
  <2>3. ASSUME NEW m \in Ref, NEW f \in [Ref -> Ref], NEW g \in [Ref -> Ref],
               \A e \in Ref : measure[e] < measure[m] => f[e] = g[e]
        PROVE  G[m][f] = G[m][g]
    <3>1. Body(f, m) = Body(g, m)
      BY <1>4, <2>2, <2>3
    <3> QED BY <2>1, <3>1
  <2>4. IsRecursion(Ref, Ref, MaxNodes, measure, G)
    BY <1>2, <2>1, <2>2, <2>3 DEF IsRecursion
  <2> QED BY <2>1, <2>4, Recursion DEF Solved
<1>6. up = Step(up)
  <2>1. PICK f \in [Ref -> Ref] : \A m \in Ref : f[m] = Body(f, m)
    BY <1>5
  <2>2. f = Step(f)
    BY <2>1
  <2> HIDE DEF Step
  <2> QED BY <2>2
<1>7. \A m \in Ref : up[m] = Body(up, m)
  <2> HIDE DEF up
  <2> QED BY <1>6
<1> HIDE DEF up
<1>8. /\ \A a : ~OnPath(NoNode, a)
      /\ \A m \in DomNodes : \A a : OnPath(m, a) <=> a = m \/ OnPath(tree.parent[m], a)
  BY OnPathUp
<1> DEFINE S == {m \in Ref : NearestHolds(c, m, up[m])}
<1>9. NoNode \in S
  BY <1>2, <1>7, <1>8 DEF Body, NearestHolds
<1>10. ASSUME NEW m \in DomNodes, tree.parent[m] \in S PROVE m \in S
  <2>1. m \in Ref /\ m # NoNode
    BY <1>2
  <2>2. CASE MatchCompound(c, m)
    <3>1. up[m] = m
      BY <1>7, <2>1, <2>2 DEF Body
    <3> QED BY <1>8, <2>1, <2>2, <3>1 DEF NearestHolds
  <2>3. CASE ~MatchCompound(c, m)
    <3>1. up[m] = up[tree.parent[m]]
      BY <1>7, <2>1, <2>3 DEF Body
    <3> QED BY <1>8, <1>10, <2>1, <2>3, <3>1 DEF NearestHolds
  <2> QED BY <2>2, <2>3
<1> HIDE DEF S
<1>11. \A m \in Ref : m \in S
  BY <1>9, <1>10, Downwards
<1> QED BY <1>1, <1>11 DEF S

-----------------------------------------------------------------------------
(* MatchesComplexSelector: the nearest matching ancestor is as good as     *)
(* any, where a selector needs no way back.                                *)

(* What a walk outwards from m comes to. *)
OutwardsHolds(c, m, x) ==
  /\ x \in Ref
  /\ x # NoNode => /\ m # NoNode /\ MatchCompound(c, x) /\ x # m /\ OnPath(m, x)
                   /\ c.comb # "descendant" => x = tree.parent[m]
  /\ m # NoNode /\ c.comb # "descendant" /\ tree.parent[m] # NoNode /\ MatchCompound(c, tree.parent[m])
       => x = tree.parent[m]
  /\ m # NoNode /\ c.comb = "descendant"
       => \A a : OnPath(m, a) /\ a # m /\ MatchCompound(c, a) => x # NoNode /\ OnPath(x, a)

LEMMA OutwardsMatches ==
  ASSUME DocumentOK, NEW c, NEW m \in Ref
  PROVE  OutwardsHolds(c, m, Outwards(c, m))
<1>1. /\ \A a : ~OnPath(NoNode, a)
      /\ \A k \in DomNodes : \A a : OnPath(k, a) <=> a = k \/ OnPath(tree.parent[k], a)
  BY OnPathUp
<1>2. /\ \A k \in DomNodes : tree.parent[k] \in Ref /\ tree.parent[k] < k
      /\ NoNode \notin DomNodes /\ NoNode \in Ref /\ Ref = DomNodes \cup {NoNode}
  BY ParentIsOlder DEF Ref
<1>3. \A k \in DomNodes : \A a : a # k /\ OnPath(k, a) <=> OnPath(tree.parent[k], a)
  BY PathFacts
<1>4. CASE m = NoNode
  BY <1>2, <1>4 DEF Outwards, OutwardsHolds
<1>5. CASE m # NoNode /\ c.comb = "descendant"
  <2>1. PICK u \in Ref : u = tree.parent[m]
    BY <1>2, <1>5
  <2>2. Outwards(c, m) = Nearest(c, u)
    BY <1>5, <2>1 DEF Outwards
  <2>3. NearestHolds(c, u, Nearest(c, u))
    BY <2>1, NearestMatches
  <2>4. \A a : a # m /\ OnPath(m, a) <=> OnPath(u, a)
    BY <1>2, <1>3, <1>5, <2>1
  <2> QED BY <1>5, <2>2, <2>3, <2>4 DEF NearestHolds, OutwardsHolds
<1>6. CASE m # NoNode /\ c.comb # "descendant"
  <2>1. PICK u \in Ref : u = tree.parent[m] /\ u < m
    BY <1>2, <1>6
  <2>2. Outwards(c, m) = IF u # NoNode /\ MatchCompound(c, u) THEN u ELSE NoNode
    BY <1>6, <2>1 DEF Outwards
  <2>3. u # NoNode => OnPath(m, u) /\ u # m
    BY <1>1, <1>2, <1>3, <1>6, <2>1
  <2> QED BY <1>2, <1>6, <2>1, <2>2, <2>3 DEF OutwardsHolds
<1> QED BY <1>4, <1>5, <1>6

IsSelector(sel) ==
  Len(sel) \in Nat \ {0} /\ \A k \in 2 .. Len(sel) : sel[k].comb \in {"child", "descendant"}

(* The elements a selector's walk stands on. *)
Walk(sel, n, current) ==
  /\ current \in [1 .. Len(sel) -> Ref]
  /\ current[1] = IF MatchCompound(sel[1], n) THEN n ELSE NoNode
  /\ \A k \in 2 .. Len(sel) : current[k] = Outwards(sel[k], current[k - 1])

LEMMA WalkExists ==
  ASSUME DocumentOK, NEW sel, IsSelector(sel), NEW n \in Ref
  PROVE  \E current : Walk(sel, n, current) /\ (Matches(sel, n) <=> current[Len(sel)] # NoNode)
<1>1. PICK L \in Nat \ {0} : L = Len(sel)
  BY DEF IsSelector
<1> DEFINE D          == 1 .. L
           start      == IF MatchCompound(sel[1], n) THEN n ELSE NoNode
           Body(f, k) == IF k = 1 THEN start ELSE Outwards(sel[k], f[k - 1])
           Step(f)    == [k \in D |-> Body(f, k)]
           current    == CHOOSE f : f = Step(f)
           G          == [k \in D |-> [f \in [D -> Ref] |-> Body(f, k)]]
           measure    == [k \in D |-> k]
<1>2. Matches(sel, n) <=> current[L] # NoNode
  BY <1>1 DEF Matches
<1>3. \A c : \A m \in Ref : Outwards(c, m) \in Ref
  BY OutwardsMatches DEF OutwardsHolds
<1>4. start \in Ref /\ NoNode \in Ref
  BY DEF Ref
<1> HIDE DEF start
<1>5. \A k \in D : k # 1 => k - 1 \in D /\ k - 1 < k
  BY <1>1
<1>6. \A k \in D : \A f \in [D -> Ref] : Body(f, k) \in Ref
  BY <1>3, <1>4, <1>5
<1>7. ASSUME NEW k \in D, NEW f, NEW g, \A e \in D : e < k => f[e] = g[e] PROVE Body(f, k) = Body(g, k)
  BY <1>5, <1>7
<1> HIDE DEF Body
<1>8. \E f \in [D -> Ref] : \A k \in D : f[k] = Body(f, k)
  <2>1. G \in [D -> [[D -> Ref] -> Ref]] /\ \A k \in D : \A f \in [D -> Ref] : G[k][f] = Body(f, k)
    BY <1>6
  <2>2. measure \in [D -> 0 .. L] /\ \A k \in D : measure[k] = k
    BY <1>1
  <2> HIDE DEF G, measure
  <2>3. ASSUME NEW k \in D, NEW f \in [D -> Ref], NEW g \in [D -> Ref],
               \A e \in D : measure[e] < measure[k] => f[e] = g[e]
        PROVE  G[k][f] = G[k][g]
    <3>1. Body(f, k) = Body(g, k)
      BY <1>7, <2>2, <2>3
    <3> QED BY <2>1, <3>1
  <2>4. IsRecursion(D, Ref, L, measure, G)
    BY <1>4, <2>1, <2>2, <2>3 DEF IsRecursion
  <2> HIDE DEF D
  <2>5. Solved(D, Ref, G)
    BY <2>4, Recursion
  <2> QED BY <2>1, <2>5 DEF Solved
<1>9. current = Step(current)
  <2>1. PICK f \in [D -> Ref] : \A k \in D : f[k] = Body(f, k)
    BY <1>8
  <2>2. f = Step(f)
    BY <2>1
  <2> HIDE DEF Step
  <2> QED BY <2>2
<1>10. DOMAIN current = D /\ \A k \in D : current[k] = Body(current, k)
  <2> HIDE DEF current
  <2> QED BY <1>9
<1>11. current = [k \in D |-> current[k]]
  <2> HIDE DEF current
  <2> QED BY <1>9
<1> HIDE DEF current
<1>12. \A k \in D : current[k] \in Ref
  <2> DEFINE S == {k \in D : current[k] \in Ref}
  <2>1. measure \in [D -> 0 .. L] /\ \A k \in D : measure[k] = k
    BY <1>1
  <2> HIDE DEF measure
  <2>2. ASSUME NEW k \in D, \A e \in D : measure[e] < measure[k] => e \in S PROVE k \in S
    <3>1. CASE k = 1
      BY <1>4, <1>10, <3>1 DEF Body
    <3>2. CASE k # 1
      <4>1. current[k - 1] \in Ref
        BY <1>5, <2>1, <2>2, <3>2
      <4> QED BY <1>3, <1>10, <3>2, <4>1 DEF Body
    <3> QED BY <3>1, <3>2
  <2>3. Inductive(D, L, measure, S)
    BY <2>1, <2>2 DEF Inductive
  <2> HIDE DEF S
  <2>4. \A k \in D : k \in S
    BY <2>3, MeasureInduction
  <2> QED BY <2>4 DEF S
<1>13. current \in [D -> Ref]
  BY <1>11, <1>12
<1>14. current[1] = start /\ \A k \in 2 .. L : current[k] = Outwards(sel[k], current[k - 1])
  BY <1>1, <1>10 DEF Body
<1>15. Walk(sel, n, current)
  BY <1>1, <1>13, <1>14 DEF Walk, start
<1> QED BY <1>1, <1>2, <1>15

(* SelectorMatcher::Matches: where no compound left of a child combinator  *)
(* may have to be tried again further out, taking the nearest ancestor     *)
(* finds a match whenever there is one.                                    *)
THEOREM GreedyIsEnough ==
  ASSUME DocumentOK, NEW sel, IsSelector(sel), ~NeedsBacktracking(sel), NEW n \in Elements
  PROVE  Matches(sel, n) <=> RefMatches(sel, n)
<1>1. PICK L \in Nat \ {0} : L = Len(sel) /\ \A k \in 2 .. L : sel[k].comb \in {"child", "descendant"}
  BY DEF IsSelector
<1>2. /\ Elements \subseteq DomNodes /\ NoNode \notin DomNodes /\ DomNodes \subseteq Ref
      /\ \A m \in Elements : tree.parent[m] \in Elements \cup {NoNode}
  BY ParentIsOlder DEF Ref
<1>3. PICK current : Walk(sel, n, current) /\ (Matches(sel, n) <=> current[L] # NoNode)
  BY <1>1, <1>2, WalkExists
<1>4. /\ current \in [1 .. L -> Ref] /\ current[1] = IF MatchCompound(sel[1], n) THEN n ELSE NoNode
      /\ \A k \in 2 .. L : current[k] = Outwards(sel[k], current[k - 1])
  BY <1>1, <1>3 DEF Walk
<1>5. \A k \in 2 .. L : k - 1 \in 1 .. L /\ k \in 1 .. L /\ k - 1 < k
  BY <1>1
<1>6. ASSUME NEW k \in 2 .. L PROVE OutwardsHolds(sel[k], current[k - 1], current[k])
  BY <1>4, <1>5, OutwardsMatches
<1>7. /\ \A m \in Ref : \A a : OnPath(m, a) => a \in DomNodes /\ a <= m /\ (m \in Elements => a \in Elements)
      /\ \A m \in Ref : \A b : OnPath(m, b) => \A a : OnPath(b, a) => OnPath(m, a)
      /\ \A m \in DomNodes : \A a : a # m /\ OnPath(m, a) <=> OnPath(tree.parent[m], a)
  BY PathFacts
<1>8. \A m \in DomNodes : OnPath(m, m)
  BY OnPathUp
<1>9. ASSUME current[L] # NoNode PROVE RefMatches(sel, n)
  <2> DEFINE Lost == {j \in 0 .. L - 1 : current[L - j] # NoNode}
  <2>1. \A j \in 0 .. L - 1 : j < L - 1 /\ j \in Lost => j + 1 \in Lost
    <3> SUFFICES ASSUME NEW j \in 0 .. L - 1, j < L - 1, j \in Lost PROVE j + 1 \in Lost
      OBVIOUS
    <3>1. L - j \in 2 .. L /\ (L - j) - 1 = L - (j + 1) /\ current[L - j] # NoNode /\ j + 1 \in 0 .. L - 1
      BY <1>1
    <3>2. current[(L - j) - 1] # NoNode
      BY <1>6, <3>1 DEF OutwardsHolds
    <3> QED BY <3>1, <3>2
  <2>2. 0 \in Lost /\ L - 1 \in Nat
    BY <1>1, <1>9
  <2>3. \A j \in 0 .. L - 1 : j \in Lost
    <3> HIDE DEF Lost
    <3> QED BY <2>1, <2>2, Upwards
  <2>4. \A k \in 1 .. L : current[k] # NoNode
    <3> TAKE k \in 1 .. L
    <3>1. L - k \in 0 .. L - 1 /\ L - (L - k) = k
      BY <1>1
    <3> QED BY <2>3, <3>1
  <2> DEFINE Up == {j \in 0 .. L - 1 : current[j + 1] \in Elements}
  <2>5. current[1] = n /\ MatchCompound(sel[1], n)
    BY <1>1, <1>4, <2>4
  <2>6. 0 \in Up
    BY <1>1, <2>5
  <2>7. ASSUME NEW k \in 2 .. L, current[k - 1] \in Elements
        PROVE  /\ current[k] \in Elements /\ MatchCompound(sel[k], current[k])
               /\ IF sel[k].comb = "child" THEN current[k] = tree.parent[current[k - 1]]
                  ELSE current[k] # current[k - 1] /\ OnPath(current[k - 1], current[k])
    <3>1. OutwardsHolds(sel[k], current[k - 1], current[k]) /\ current[k] # NoNode /\ current[k - 1] \in Ref
      BY <1>2, <1>5, <1>6, <2>4, <2>7
    <3>2. /\ MatchCompound(sel[k], current[k]) /\ current[k] # current[k - 1] /\ OnPath(current[k - 1], current[k])
          /\ sel[k].comb # "descendant" => current[k] = tree.parent[current[k - 1]]
      BY <3>1 DEF OutwardsHolds
    <3>3. current[k] \in Elements
      BY <1>7, <2>7, <3>1, <3>2
    <3> QED BY <3>2, <3>3
  <2>8. \A j \in 0 .. L - 1 : j < L - 1 /\ j \in Up => j + 1 \in Up
    <3> SUFFICES ASSUME NEW j \in 0 .. L - 1, j < L - 1, j \in Up PROVE j + 1 \in Up
      OBVIOUS
    <3>1. j + 2 \in 2 .. L /\ (j + 2) - 1 = j + 1 /\ (j + 1) + 1 = j + 2 /\ j + 1 \in 0 .. L - 1
      BY <1>1
    <3>2. current[j + 2] \in Elements
      BY <2>7, <3>1
    <3> QED BY <3>1, <3>2
  <2>9. \A j \in 0 .. L - 1 : j \in Up
    <3> HIDE DEF Up
    <3> QED BY <2>2, <2>6, <2>8, Upwards
  <2>10. \A k \in 1 .. L : current[k] \in Elements
    <3> TAKE k \in 1 .. L
    <3>1. k - 1 \in 0 .. L - 1 /\ (k - 1) + 1 = k
      BY <1>1
    <3> QED BY <2>9, <3>1
  <2>11. current \in [1 .. L -> Elements]
    BY <1>4, <2>10
  <2>12. \A k \in 1 .. L : MatchCompound(sel[k], current[k])
    <3> TAKE k \in 1 .. L
    <3>1. CASE k = 1
      BY <2>5, <3>1
    <3>2. CASE k # 1
      <4>1. k \in 2 .. L /\ current[k - 1] \in Elements
        BY <1>5, <2>10, <3>2
      <4> QED BY <2>7, <4>1
    <3> QED BY <3>1, <3>2
  <2>13. \A k \in 2 .. L : IF sel[k].comb = "child" THEN current[k] = tree.parent[current[k - 1]]
                           ELSE current[k] # current[k - 1] /\ OnPath(current[k - 1], current[k])
    BY <1>5, <2>7, <2>10
  <2> QED BY <1>1, <2>5, <2>11, <2>12, <2>13 DEF RefMatches
<1>10. ASSUME RefMatches(sel, n) PROVE current[L] # NoNode
  <2>1. PICK w \in [1 .. L -> Elements] :
          /\ w[1] = n
          /\ \A k \in 1 .. L : MatchCompound(sel[k], w[k])
          /\ \A k \in 2 .. L : IF sel[k].comb = "child" THEN w[k] = tree.parent[w[k - 1]]
                                ELSE w[k] # w[k - 1] /\ OnPath(w[k - 1], w[k])
    BY <1>1, <1>10 DEF RefMatches
  <2> DEFINE Free(k) == \E j \in 2 .. k : sel[j].comb = "descendant"
             Q(k)    == /\ current[k] # NoNode /\ OnPath(current[k], w[k])
                        /\ current[k] = w[k] \/ Free(k)
             S       == {j \in 0 .. L - 1 : Q(j + 1)}
  <2>2. Q(1)
    <3>1. 1 \in 1 .. L
      BY <1>1
    <3>2. current[1] = n /\ w[1] = n
      BY <1>4, <2>1, <3>1
    <3> QED BY <1>2, <1>8, <3>2
  <2>3. ASSUME NEW k \in 2 .. L, Q(k - 1) PROVE Q(k)
    <3>1. /\ k - 1 \in 1 .. L /\ k \in 1 .. L /\ w[k] \in Elements /\ w[k - 1] \in Elements
          /\ current[k - 1] \in Ref /\ current[k - 1] # NoNode /\ current[k - 1] \in DomNodes
      <4>1. k - 1 \in 1 .. L /\ k \in 1 .. L
        BY <1>5
      <4>2. current[k - 1] \in Ref /\ w[k] \in Elements /\ w[k - 1] \in Elements
        BY <1>4, <2>1, <4>1
      <4>3. current[k - 1] # NoNode
        BY <2>3
      <4> QED BY <4>1, <4>2, <4>3 DEF Ref
    <3>2. /\ OutwardsHolds(sel[k], current[k - 1], current[k]) /\ MatchCompound(sel[k], w[k])
          /\ OnPath(current[k - 1], w[k - 1]) /\ (current[k - 1] = w[k - 1] \/ Free(k - 1))
      BY <1>6, <2>1, <2>3, <3>1
    <3> HIDE DEF Free
    <3>3. CASE sel[k].comb = "child"
      <4>1. ~Free(k - 1)
        <5> SUFFICES ASSUME NEW j \in 2 .. k - 1, sel[j].comb = "descendant" PROVE FALSE
          BY DEF Free
        <5>1. j \in 2 .. L /\ j < k
          OBVIOUS
        <5> QED BY <1>1, <3>3, <5>1 DEF NeedsBacktracking
      <4>2. w[k] = tree.parent[current[k - 1]] /\ w[k] # NoNode
        BY <1>2, <2>1, <3>1, <3>2, <3>3, <4>1
      <4>3. current[k] = w[k]
        BY <3>1, <3>2, <3>3, <4>2 DEF OutwardsHolds
      <4> QED BY <1>2, <1>8, <3>1, <4>2, <4>3
    <3>4. CASE sel[k].comb = "descendant"
      <4>1. w[k] # w[k - 1] /\ OnPath(w[k - 1], w[k])
        BY <2>1, <3>4
      <4>2. OnPath(current[k - 1], w[k])
        BY <1>7, <3>1, <3>2, <4>1
      <4>3. w[k] # current[k - 1]
        <5>1. w[k] <= w[k - 1] /\ w[k - 1] <= current[k - 1]
          BY <1>2, <1>7, <3>1, <3>2, <4>1
        <5>2. DomNodes \subseteq Int
          BY DomAssumption DEF DomNodes
        <5>3. w[k] \in Int /\ w[k - 1] \in Int /\ current[k - 1] \in Int
          <6> HIDE DEF Q
          <6> QED BY <1>2, <3>1, <5>2
        <5> QED BY <4>1, <5>1, <5>3
      <4>4. current[k] # NoNode /\ OnPath(current[k], w[k])
        BY <3>1, <3>2, <3>4, <4>2, <4>3 DEF OutwardsHolds
      <4>5. Free(k)
        <5>1. k \in 2 .. k
          OBVIOUS
        <5> QED BY <3>4, <5>1 DEF Free
      <4> QED BY <4>4, <4>5
    <3> QED BY <1>1, <3>3, <3>4
  <2> HIDE DEF Q
  <2>4. \A j \in 0 .. L - 1 : j < L - 1 /\ j \in S => j + 1 \in S
    <3> SUFFICES ASSUME NEW j \in 0 .. L - 1, j < L - 1, j \in S PROVE j + 1 \in S
      OBVIOUS
    <3>1. j + 2 \in 2 .. L /\ (j + 2) - 1 = j + 1 /\ (j + 1) + 1 = j + 2 /\ j + 1 \in 0 .. L - 1
      BY <1>1
    <3>2. Q(j + 2)
      BY <2>3, <3>1
    <3> QED BY <3>1, <3>2
  <2>5. 0 \in S /\ L - 1 \in Nat
    BY <1>1, <2>2
  <2>6. \A j \in 0 .. L - 1 : j \in S
    <3> HIDE DEF S
    <3> QED BY <2>4, <2>5, Upwards
  <2>7. Q(L)
    <3>1. L - 1 \in 0 .. L - 1 /\ (L - 1) + 1 = L
      BY <1>1
    <3> QED BY <2>6, <3>1
  <2> QED BY <2>7 DEF Q
<1> QED BY <1>3, <1>9, <1>10

-----------------------------------------------------------------------------
(* std::sort: the matched rules in the order of their specificity.         *)

(* What std::sort comes to: each of the matched rules at a place of its    *)
(* own, behind those that come before it.                                  *)
IsMatched(matched, L) ==
  /\ L \in Nat /\ L = Len(matched)
  /\ \A k \in 1 .. L : matched[k].specificity \in Int /\ matched[k].order = k - 1
IsSorting(matched, L, from) ==
  /\ from \in [1 .. L -> 1 .. L]
  /\ \A k \in 1 .. L : \E i \in 1 .. L : from[i] = k
  /\ \A i, j \in 1 .. L : i < j => from[i] \in Ahead(matched, from[j])

(* SortBySpecificity: the result has each of the matched rules once, by     *)
(* specificity and, where that is the same, in their order.                *)
THEOREM SortingSorts ==
  ASSUME NEW matched, NEW L, IsMatched(matched, L)
  PROVE  /\ Len(SortBySpecificity(matched)) = L
         /\ \E from : IsSorting(matched, L, from) /\ \A i \in 1 .. L : SortBySpecificity(matched)[i] = matched[from[i]]
<1> DEFINE P        == 1 .. L
           spec(k)  == matched[k].specificity
           rank(k)  == Cardinality(Ahead(matched, k))
           place    == [k \in P |-> rank(k) + 1]
           from     == [i \in P |-> CHOOSE k \in P : rank(k) = i - 1]
<1>1. L \in Nat /\ L = Len(matched) /\ \A k \in P : spec(k) \in Int /\ matched[k].order = k - 1
  BY DEF IsMatched
<1> HIDE DEF spec
<1>2. \A k \in P : \A j : j \in Ahead(matched, k) <=> j \in P /\ (spec(j) < spec(k) \/ (spec(j) = spec(k) /\ j < k))
  BY <1>1 DEF Ahead, spec
<1>3. IsFiniteSet(P) /\ Cardinality(P) = L
  <2>1. 1 \in Int /\ L \in Int
    BY <1>1
  <2>2. IsFiniteSet(1 .. L) /\ Cardinality(1 .. L) = (IF 1 > L THEN 0 ELSE L - 1 + 1)
    <3> HIDE DEF P, rank, place, from
    <3> QED BY <2>1, FS_Interval
  <2> QED BY <1>1, <2>2
<1>4. ASSUME NEW k \in P PROVE rank(k) \in 0 .. L - 1 /\ IsFiniteSet(Ahead(matched, k))
  <2>1. Ahead(matched, k) \in SUBSET P /\ Ahead(matched, k) # P
    BY <1>1, <1>2
  <2> HIDE DEF P
  <2>2. IsFiniteSet(Ahead(matched, k)) /\ rank(k) <= L /\ (rank(k) = L => Ahead(matched, k) = P)
    BY <1>3, <2>1, FS_Subset
  <2>3. rank(k) \in Nat
    BY <2>2, FS_CardinalityType
  <2> HIDE DEF rank
  <2> QED BY <1>1, <2>1, <2>2, <2>3
<1>5. ASSUME NEW j \in P, NEW k \in P, j \in Ahead(matched, k) PROVE rank(j) < rank(k)
  <2>1. Ahead(matched, j) \in SUBSET Ahead(matched, k) /\ j \notin Ahead(matched, j)
    <3>1. ASSUME NEW x \in Ahead(matched, j) PROVE x \in Ahead(matched, k)
      <4>1. x \in P /\ (spec(x) < spec(j) \/ (spec(x) = spec(j) /\ x < j))
        BY <1>2, <3>1
      <4>2. spec(j) < spec(k) \/ (spec(j) = spec(k) /\ j < k)
        BY <1>2, <1>5
      <4>3. spec(x) \in Int /\ spec(j) \in Int /\ spec(k) \in Int
        BY <1>1, <4>1
      <4>4. spec(x) < spec(k) \/ (spec(x) = spec(k) /\ x < k)
        BY <4>1, <4>2, <4>3
      <4> QED BY <1>2, <4>1, <4>4
    <3>2. j \notin Ahead(matched, j)
      BY <1>1, <1>2
    <3> QED BY <3>1, <3>2
  <2>2. IsFiniteSet(Ahead(matched, k)) /\ rank(j) \in Int /\ rank(k) \in Int
    BY <1>4
  <2>3. rank(j) <= rank(k) /\ (rank(j) = rank(k) => Ahead(matched, j) = Ahead(matched, k))
    BY <2>1, <2>2, FS_Subset
  <2> HIDE DEF rank
  <2> QED BY <1>5, <2>1, <2>2, <2>3
<1>6. \A j, k \in P : j = k \/ j \in Ahead(matched, k) \/ k \in Ahead(matched, j)
  BY <1>1, <1>2
<1>7. \A k \in P : rank(k) \in Int
  BY <1>4
<1>8. \A j, k \in P : rank(j) = rank(k) => j = k
  <2> HIDE DEF rank
  <2> QED BY <1>5, <1>6, <1>7
<1>9. place \in Injection(P, P)
  <2>1. \A k \in P : rank(k) + 1 \in P
    BY <1>1, <1>4
  <2>2. \A k \in P : place[k] = rank(k) + 1
    OBVIOUS
  <2>3. place \in [P -> P]
    BY <2>1
  <2> HIDE DEF place, rank
  <2>4. \A j, k \in P : place[j] = place[k] => j = k
    BY <1>7, <1>8, <2>2
  <2> QED BY <2>3, <2>4 DEF Injection, IsInjective
<1>10. place \in Surjection(P, P)
  <2> HIDE DEF place, P
  <2> QED BY <1>3, <1>9, FS_Injection
<1>11. \A i \in P : \E k \in P : rank(k) = i - 1
  <2> SUFFICES ASSUME NEW i \in P PROVE \E k \in P : rank(k) = i - 1
    OBVIOUS
  <2>1. PICK k \in P : place[k] = i
    BY <1>10 DEF Surjection
  <2>2. place[k] = rank(k) + 1
    BY <1>1
  <2>3. rank(k) = i - 1
    BY <1>7, <2>1, <2>2
  <2> QED BY <2>3
<1>12. \A i \in P : from[i] \in P /\ rank(from[i]) = i - 1
  BY <1>11
<1>13. from \in [P -> P]
  BY <1>12
<1>14. \A k \in P : \E i \in P : from[i] = k
  <2> SUFFICES ASSUME NEW k \in P PROVE \E i \in P : from[i] = k
    OBVIOUS
  <2>1. PICK i \in P : i - 1 = rank(k)
    <3>1. rank(k) + 1 \in P /\ (rank(k) + 1) - 1 = rank(k)
      BY <1>1, <1>4
    <3> QED BY <3>1
  <2>2. rank(from[i]) = rank(k) /\ from[i] \in P
    BY <1>12, <2>1
  <2>3. from[i] = k
    BY <1>8, <2>2
  <2> QED BY <2>3
<1>15. \A i, j \in P : i < j => from[i] \in Ahead(matched, from[j])
  <2> SUFFICES ASSUME NEW i \in P, NEW j \in P, i < j, from[i] \notin Ahead(matched, from[j]) PROVE FALSE
    OBVIOUS
  <2>1. from[i] \in P /\ from[j] \in P /\ rank(from[i]) = i - 1 /\ rank(from[j]) = j - 1
    BY <1>12
  <2> HIDE DEF from, rank
  <2>2. from[i] # from[j]
    BY <1>1, <2>1
  <2>3. rank(from[j]) < rank(from[i])
    BY <1>5, <1>6, <2>1, <2>2
  <2> QED BY <1>1, <2>1, <2>3
<1>16. SortBySpecificity(matched) = [i \in P |-> matched[from[i]]]
  BY <1>1 DEF SortBySpecificity
<1>17. Len(SortBySpecificity(matched)) = L /\ \A i \in P : SortBySpecificity(matched)[i] = matched[from[i]]
  <2> HIDE DEF from
  <2> QED BY <1>1, <1>16
<1> HIDE DEF from
<1> QED BY <1>13, <1>14, <1>15, <1>17 DEF IsSorting

-----------------------------------------------------------------------------
(* CollectMatchingRules: the rules of all sheets, in order, that match an  *)
(* element.                                                                *)

IsSeq(s) == Len(s) \in Nat /\ s = [i \in 1 .. Len(s) |-> s[i]]

IsRule(r) ==
  /\ IsDecls(r.decls)
  /\ Len(r.sels) \in Nat /\ \A j \in 1 .. Len(r.sels) : IsSelector(r.sels[j])

(* What the parser has got out of the texts is rules and declarations.     *)
SheetsOK ==
  /\ Len(css.got) \in Nat
  /\ \A n \in 1 .. Len(css.got) :
       IF css.texts[n].inline THEN IsDecls(css.got[n])
       ELSE IsSeq(css.got[n]) /\ \A k \in 1 .. Len(css.got[n]) : IsRule(css.got[n][k])

LEMMA RulesAreRules ==
  ASSUME SheetsOK
  PROVE  Len(Rules) \in Nat /\ \A k \in 1 .. Len(Rules) : IsRule(Rules[k])
<1>1. PICK N \in Nat : N = Len(css.got)
  BY DEF SheetsOK
<1> DEFINE D          == 0 .. N
           Some       == {css.got[n][k] : n \in 1 .. N, k \in Nat}
           All        == {r \in Some : IsRule(r)}
           V          == Seq(All)
           Body(f, n) == IF n = 0 THEN <<>>
                         ELSE IF css.texts[n].inline THEN f[n - 1] ELSE f[n - 1] \o css.got[n]
           Step(f)    == [n \in D |-> Body(f, n)]
           upTo       == CHOOSE f : f = Step(f)
           G          == [n \in D |-> [f \in [D -> V] |-> Body(f, n)]]
           measure    == [n \in D |-> n]
<1>0. <<>> \in V
  BY EmptySeq
<1>2. Rules = upTo[N]
  BY <1>1 DEF Rules
<1>3. ASSUME NEW n \in 1 .. N, ~css.texts[n].inline PROVE css.got[n] \in V
  <2>1. IsSeq(css.got[n]) /\ \A k \in 1 .. Len(css.got[n]) : IsRule(css.got[n][k])
    BY <1>1, <1>3 DEF SheetsOK
  <2>2. PICK m \in Nat : m = Len(css.got[n]) /\ css.got[n] = [k \in 1 .. m |-> css.got[n][k]]
    BY <2>1 DEF IsSeq
  <2>3. ASSUME NEW k \in 1 .. m PROVE css.got[n][k] \in All
    <3>1. css.got[n][k] \in Some /\ k \in 1 .. Len(css.got[n])
      BY <2>2
    <3>2. IsRule(css.got[n][k])
      BY <2>1, <3>1
    <3> QED BY <3>1, <3>2
  <2> HIDE DEF All
  <2>4. css.got[n] \in [1 .. m -> All]
    BY <2>2, <2>3
  <2> QED BY <2>4, SeqDef
<1>4. \A n \in D : n # 0 => n - 1 \in D /\ n - 1 < n /\ n \in 1 .. N
  BY <1>1
<1> HIDE DEF All
<1>5. \A n \in D : \A f \in [D -> V] : Body(f, n) \in V
  <2> SUFFICES ASSUME NEW n \in D, NEW f \in [D -> V] PROVE Body(f, n) \in V
    OBVIOUS
  <2>1. CASE n = 0
    BY <2>1
  <2>2. CASE n # 0 /\ css.texts[n].inline
    BY <1>4, <2>2
  <2>3. CASE n # 0 /\ ~css.texts[n].inline
    <3>1. f[n - 1] \in Seq(All) /\ css.got[n] \in Seq(All)
      BY <1>3, <1>4, <2>3
    <3> QED BY <2>3, <3>1
  <2> QED BY <2>1, <2>2, <2>3
<1>6. ASSUME NEW n \in D, NEW f, NEW g, \A e \in D : e < n => f[e] = g[e] PROVE Body(f, n) = Body(g, n)
  BY <1>4, <1>6
<1> HIDE DEF Body
<1>7. \E f \in [D -> V] : \A n \in D : f[n] = Body(f, n)
  <2>1. G \in [D -> [[D -> V] -> V]] /\ \A n \in D : \A f \in [D -> V] : G[n][f] = Body(f, n)
    BY <1>5
  <2>2. measure \in [D -> 0 .. N] /\ \A n \in D : measure[n] = n
    BY <1>1
  <2>3. V # {}
    BY <1>0
  <2> HIDE DEF G, measure, V
  <2>4. ASSUME NEW n \in D, NEW f \in [D -> V], NEW g \in [D -> V],
               \A e \in D : measure[e] < measure[n] => f[e] = g[e]
        PROVE  G[n][f] = G[n][g]
    <3>1. Body(f, n) = Body(g, n)
      BY <1>6, <2>2, <2>4
    <3> QED BY <2>1, <3>1
  <2>5. IsRecursion(D, V, N, measure, G)
    BY <2>1, <2>2, <2>3, <2>4 DEF IsRecursion
  <2> HIDE DEF D
  <2>6. Solved(D, V, G)
    BY <2>5, Recursion
  <2> QED BY <2>1, <2>6 DEF Solved
<1>8. upTo = Step(upTo)
  <2>1. PICK f \in [D -> V] : \A n \in D : f[n] = Body(f, n)
    BY <1>7
  <2>2. f = Step(f)
    BY <2>1
  <2> HIDE DEF Step
  <2> QED BY <2>2
<1>9. \A n \in D : upTo[n] = Body(upTo, n)
  <2> HIDE DEF upTo
  <2> QED BY <1>8
<1> HIDE DEF upTo
<1> DEFINE S == {n \in D : upTo[n] \in V}
<1>10. 0 \in S
  <2>1. 0 \in D /\ upTo[0] = <<>>
    BY <1>1, <1>9 DEF Body
  <2> HIDE DEF V
  <2> QED BY <1>0, <2>1
<1>11. ASSUME NEW n \in D, n < N, n \in S PROVE n + 1 \in S
  <2>1. n + 1 \in 1 .. N /\ n + 1 \in D /\ (n + 1) - 1 = n /\ n + 1 # 0
    BY <1>1, <1>11
  <2>2. upTo[n + 1] = IF css.texts[n + 1].inline THEN upTo[n] ELSE upTo[n] \o css.got[n + 1]
    BY <1>9, <2>1 DEF Body
  <2>3. upTo[n] \in Seq(All)
    BY <1>11
  <2>4. CASE css.texts[n + 1].inline
    BY <2>1, <2>2, <2>3, <2>4
  <2>5. CASE ~css.texts[n + 1].inline
    <3>1. css.got[n + 1] \in Seq(All)
      BY <1>3, <2>1, <2>5
    <3>2. upTo[n] \o css.got[n + 1] \in Seq(All)
      BY <2>3, <3>1
    <3> QED BY <2>1, <2>2, <2>5, <3>2
  <2> QED BY <2>4, <2>5
<1>12. N \in S
  <2> HIDE DEF S
  <2>1. \A n \in 0 .. N : n \in S
    BY <1>10, <1>11, Upwards
  <2> QED BY <2>1
<1>13. Rules \in Seq(All)
  BY <1>2, <1>12
<1>14. \A r \in All : IsRule(r)
  BY DEF All
<1> QED BY <1>13, <1>14

(* The selectors of a rule that match, and the first of them.              *)
Matching(r, n)   == {j \in 1 .. Len(r.sels) : Matches(r.sels[j], n)}
FirstMatch(r, n) == r.sels[FirstOf(Matching(r, n))]

Entry(r, order, n) ==
  [decls |-> r.decls, order |-> order, specificity |-> ComputeSpecificity(FirstMatch(r, n))]

(* What is collected out of the first k rules: those with a selector that  *)
(* matches, in their order.                                                *)
Collected(matched, k, n, place) ==
  /\ Len(matched) \in Nat /\ place \in [1 .. Len(matched) -> 1 .. k]
  /\ \A i, j \in 1 .. Len(matched) : i < j => place[i] < place[j]
  /\ \A r \in 1 .. k : Matching(Rules[r], n) # {} => \E i \in 1 .. Len(matched) : place[i] = r
  /\ \A i \in 1 .. Len(matched) :
       /\ Matching(Rules[place[i]], n) # {}
       /\ matched[i] = Entry(Rules[place[i]], i - 1, n)

LEMMA MatchedCollects ==
  ASSUME NEW n, NEW k \in Nat, NEW all, NEW S, all \in Seq(S), NEW place, Collected(all, k, n, place),
         Matching(Rules[k + 1], n) # {}
  PROVE  \E q : Collected(Matched(Rules[k + 1], all, FirstMatch(Rules[k + 1], n)), k + 1, n, q)
<1> DEFINE r    == Rules[k + 1]
           e    == Entry(r, Len(all), n)
           more == Append(all, e)
<1>1. PICK L \in Nat : L = Len(all)
  BY DEF Collected
<1> DEFINE q == [i \in 1 .. L + 1 |-> IF i = L + 1 THEN k + 1 ELSE place[i]]
<1>2. Matched(r, all, FirstMatch(r, n)) = more
  BY DEF Matched, Entry
<1> HIDE DEF e
<1>3. Len(more) = L + 1 /\ more[L + 1] = e /\ \A i \in 1 .. L : more[i] = all[i]
  <2>1. all \in Seq(S \cup {e}) /\ e \in S \cup {e}
    OBVIOUS
  <2> QED BY <1>1, <2>1
<1>4. /\ place \in [1 .. L -> 1 .. k] /\ \A i, j \in 1 .. L : i < j => place[i] < place[j]
      /\ \A x \in 1 .. k : Matching(Rules[x], n) # {} => \E i \in 1 .. L : place[i] = x
      /\ \A i \in 1 .. L :
           /\ Matching(Rules[place[i]], n) # {}
           /\ all[i] = Entry(Rules[place[i]], i - 1, n)
  BY <1>1 DEF Collected
<1>5. q \in [1 .. L + 1 -> 1 .. k + 1]
  BY <1>1, <1>4
<1>6. q[L + 1] = k + 1 /\ \A i \in 1 .. L : q[i] = place[i] /\ place[i] \in 1 .. k
  BY <1>1, <1>4
<1> HIDE DEF q, more
<1>7. \A i, j \in 1 .. L + 1 : i < j => q[i] < q[j]
  <2> SUFFICES ASSUME NEW i \in 1 .. L + 1, NEW j \in 1 .. L + 1, i < j PROVE q[i] < q[j]
    OBVIOUS
  <2>1. i \in 1 .. L
    BY <1>1
  <2>2. CASE j \in 1 .. L
    BY <1>4, <1>6, <2>1, <2>2
  <2>3. CASE j = L + 1
    <3>1. q[i] \in 1 .. k /\ q[j] = k + 1
      BY <1>6, <2>1, <2>3
    <3> QED BY <3>1
  <2> QED BY <1>1, <2>2, <2>3
<1>8. ASSUME NEW x \in 1 .. k + 1, Matching(Rules[x], n) # {} PROVE \E i \in 1 .. L + 1 : q[i] = x
  <2>1. CASE x = k + 1
    <3>1. L + 1 \in 1 .. L + 1
      BY <1>1
    <3> QED BY <1>6, <2>1, <3>1
  <2>2. CASE x # k + 1
    <3>1. x \in 1 .. k
      BY <2>2
    <3>2. PICK i \in 1 .. L : place[i] = x
      BY <1>4, <1>8, <3>1
    <3>3. i \in 1 .. L + 1
      BY <1>1
    <3> QED BY <1>6, <3>2, <3>3
  <2> QED BY <2>1, <2>2
<1>9. ASSUME NEW i \in 1 .. L + 1
      PROVE  /\ Matching(Rules[q[i]], n) # {}
             /\ more[i] = Entry(Rules[q[i]], i - 1, n)
  <2>1. CASE i = L + 1
    <3>1. q[i] = k + 1 /\ more[i] = e /\ i - 1 = Len(all)
      BY <1>1, <1>3, <1>6, <2>1
    <3> QED BY <3>1 DEF e
  <2>2. CASE i # L + 1
    <3>1. i \in 1 .. L
      BY <1>1, <2>2
    <3> QED BY <1>3, <1>4, <1>6, <3>1
  <2> QED BY <2>1, <2>2
<1>10. Collected(more, k + 1, n, q)
  <2>1. PICK m \in Nat : m = L + 1 /\ m = Len(more)
    BY <1>1, <1>3
  <2>2. \A i \in 1 .. m : Matching(Rules[q[i]], n) # {} /\ more[i] = Entry(Rules[q[i]], i - 1, n)
    BY <1>9, <2>1
  <2>3. \A x \in 1 .. k + 1 : Matching(Rules[x], n) # {} => \E i \in 1 .. m : q[i] = x
    BY <1>8, <2>1
  <2>4. q \in [1 .. m -> 1 .. k + 1] /\ \A i, j \in 1 .. m : i < j => q[i] < q[j]
    BY <1>5, <1>7, <2>1
  <2> HIDE DEF r
  <2> QED BY <2>1, <2>2, <2>3, <2>4 DEF Collected
<1> QED BY <1>2, <1>10

LEMMA CollectsInOrder ==
  ASSUME SheetsOK, NEW n
  PROVE  \E place : Collected(CollectMatchingRules(n), Len(Rules), n, place)
<1>1. PICK N \in Nat : N = Len(Rules)
  BY RulesAreRules
<1> DEFINE D          == 0 .. N
           Some       == [decls : {Rules[k].decls : k \in 1 .. N}, order : Nat,
                          specificity : {ComputeSpecificity(FirstMatch(Rules[k], n)) : k \in 1 .. N}]
           V          == Seq(Some)
           Body(f, k) == IF k = 0 THEN <<>>
                         ELSE IF Matching(Rules[k], n) = {} THEN f[k - 1]
                         ELSE Matched(Rules[k], f[k - 1], FirstMatch(Rules[k], n))
           Step(f)    == [k \in D |-> Body(f, k)]
           upTo       == CHOOSE f : f = Step(f)
           G          == [k \in D |-> [f \in [D -> V] |-> Body(f, k)]]
           measure    == [k \in D |-> k]
<1>0. <<>> \in V
  BY EmptySeq
<1>2. CollectMatchingRules(n) = upTo[N]
  BY <1>1 DEF CollectMatchingRules, Matching, FirstMatch
<1>3. \A k \in D : k # 0 => k - 1 \in D /\ k - 1 < k /\ k \in 1 .. N
  BY <1>1
<1>4. ASSUME NEW k \in 1 .. N, NEW all \in V PROVE Matched(Rules[k], all, FirstMatch(Rules[k], n)) \in V
  <2> DEFINE e == [decls |-> Rules[k].decls, order |-> Len(all),
                   specificity |-> ComputeSpecificity(FirstMatch(Rules[k], n))]
  <2>1. e \in Some
    BY <1>4
  <2>2. Matched(Rules[k], all, FirstMatch(Rules[k], n)) = Append(all, e)
    BY DEF Matched
  <2> HIDE DEF e, Some
  <2> QED BY <2>1, <2>2
<1> HIDE DEF Some
<1>5. \A k \in D : \A f \in [D -> V] : Body(f, k) \in V
  <2> SUFFICES ASSUME NEW k \in D, NEW f \in [D -> V] PROVE Body(f, k) \in V
    OBVIOUS
  <2>1. CASE k = 0
    BY <1>0, <2>1
  <2>2. CASE k # 0
    <3>1. f[k - 1] \in V /\ k \in 1 .. N
      BY <1>3, <2>2
    <3> HIDE DEF V
    <3> QED BY <1>4, <2>2, <3>1
  <2> QED BY <2>1, <2>2
<1>6. ASSUME NEW k \in D, NEW f, NEW g, \A e \in D : e < k => f[e] = g[e] PROVE Body(f, k) = Body(g, k)
  BY <1>3, <1>6
<1> HIDE DEF Body
<1>7. \E f \in [D -> V] : \A k \in D : f[k] = Body(f, k)
  <2>1. G \in [D -> [[D -> V] -> V]] /\ \A k \in D : \A f \in [D -> V] : G[k][f] = Body(f, k)
    BY <1>5
  <2>2. measure \in [D -> 0 .. N] /\ \A k \in D : measure[k] = k
    BY <1>1
  <2>3. V # {}
    BY <1>0
  <2> HIDE DEF G, measure, V
  <2>4. ASSUME NEW k \in D, NEW f \in [D -> V], NEW g \in [D -> V],
               \A e \in D : measure[e] < measure[k] => f[e] = g[e]
        PROVE  G[k][f] = G[k][g]
    <3>1. Body(f, k) = Body(g, k)
      BY <1>6, <2>2, <2>4
    <3> QED BY <2>1, <3>1
  <2>5. IsRecursion(D, V, N, measure, G)
    BY <2>1, <2>2, <2>3, <2>4 DEF IsRecursion
  <2> HIDE DEF D
  <2>6. Solved(D, V, G)
    BY <2>5, Recursion
  <2> QED BY <2>1, <2>6 DEF Solved
<1>8. upTo = Step(upTo)
  <2>1. PICK f \in [D -> V] : \A k \in D : f[k] = Body(f, k)
    BY <1>7
  <2>2. f = Step(f)
    BY <2>1
  <2> HIDE DEF Step
  <2> QED BY <2>2
<1>9. \A k \in D : upTo[k] = Body(upTo, k)
  <2> HIDE DEF upTo
  <2> QED BY <1>8
<1> HIDE DEF upTo
<1> DEFINE S == {k \in D : upTo[k] \in V /\ \E place : Collected(upTo[k], k, n, place)}
<1>10. 0 \in S
  <2>1. upTo[0] = <<>> /\ 0 \in D
    BY <1>1, <1>9 DEF Body
  <2> DEFINE none == [i \in 1 .. 0 |-> 1]
  <2>2. none \in [1 .. Len(<<>>) -> 1 .. 0] /\ Len(<<>>) = 0 /\ 1 .. 0 = {}
    OBVIOUS
  <2> HIDE DEF none
  <2>3. Collected(<<>>, 0, n, none)
    BY <2>2 DEF Collected
  <2> QED BY <1>0, <2>1, <2>3
<1>11. ASSUME NEW k \in D, k < N, k \in S PROVE k + 1 \in S
  <2>1. k + 1 \in 1 .. N /\ k + 1 \in D /\ (k + 1) - 1 = k /\ k + 1 # 0 /\ k \in Nat
    BY <1>1, <1>11
  <2>2. upTo[k + 1] = IF Matching(Rules[k + 1], n) = {} THEN upTo[k]
                      ELSE Matched(Rules[k + 1], upTo[k], FirstMatch(Rules[k + 1], n))
    BY <1>9, <2>1 DEF Body
  <2>3. PICK place : Collected(upTo[k], k, n, place)
    BY <1>11
  <2>4. upTo[k] \in V
    BY <1>11
  <2>5. CASE Matching(Rules[k + 1], n) = {}
    <3>1. Collected(upTo[k], k + 1, n, place)
      <4>1. PICK L \in Nat : L = Len(upTo[k])
        BY <2>3 DEF Collected
      <4>2. place \in [1 .. L -> 1 .. k + 1]
        BY <2>1, <2>3, <4>1 DEF Collected
      <4>3. \A r \in 1 .. k + 1 : Matching(Rules[r], n) # {} => r \in 1 .. k
        BY <2>1, <2>5
      <4> QED BY <2>3, <4>1, <4>2, <4>3 DEF Collected
    <3> HIDE DEF V
    <3> QED BY <2>1, <2>2, <2>4, <2>5, <3>1
  <2>6. CASE Matching(Rules[k + 1], n) # {}
    <3>1. upTo[k + 1] \in V
      <4> HIDE DEF V
      <4> QED BY <1>4, <2>1, <2>2, <2>4, <2>6
    <3>2. \E q : Collected(upTo[k + 1], k + 1, n, q)
      BY <2>1, <2>2, <2>3, <2>4, <2>6, MatchedCollects
    <3> QED BY <2>1, <3>1, <3>2
  <2> QED BY <2>5, <2>6
<1>12. N \in S
  <2> HIDE DEF S
  <2>1. \A k \in 0 .. N : k \in S
    BY <1>10, <1>11, Upwards
  <2> QED BY <2>1
<1> QED BY <1>1, <1>2, <1>12

-----------------------------------------------------------------------------
(* What Resolve applies: the rules that match by specificity and order,    *)
(* then the inline declarations.                                           *)

PackedRules == \A k \in 1 .. Len(Rules) : \A j \in 1 .. Len(Rules[k].sels) : Packed(Rules[k].sels[j])

SpecificityOf(r, n) == ComputeSpecificity(FirstMatch(Rules[r], n))
Before(r, s, n) ==
  \/ SpecificityOf(r, n) < SpecificityOf(s, n)
  \/ SpecificityOf(r, n) = SpecificityOf(s, n) /\ r < s

(* The declarations that reach n: those of the rules that match, by        *)
(* specificity and place, then the inline ones.                            *)
Arranged(origins, n, L, at) ==
  /\ L \in Nat /\ Len(origins) = L + 1 /\ origins[L + 1] = InlineOf(n)
  /\ at \in [1 .. L -> 1 .. Len(Rules)]
  /\ \A i \in 1 .. L : origins[i] = Rules[at[i]].decls /\ Matching(Rules[at[i]], n) # {}
  /\ \A r \in 1 .. Len(Rules) : Matching(Rules[r], n) # {} => \E i \in 1 .. L : at[i] = r
  /\ \A i, j \in 1 .. L : i < j => Before(at[i], at[j], n)

LEMMA FirstIsIn ==
  ASSUME NEW N \in Nat, NEW S \in SUBSET (1 .. N), S # {}
  PROVE  FirstOf(S) \in S /\ \A j \in S : FirstOf(S) <= j
<1> DEFINE less == OpToRel(<, Nat)
<1>1. IsWellFoundedOn(less, Nat)
  BY NatLessThanWellFounded
<1>2. S \subseteq Nat
  OBVIOUS
<1>3. PICK x \in S : \A y \in S : <<y, x>> \notin less
  <2> HIDE DEF less
  <2> QED BY <1>1, <1>2, WFMin
<1>4. \A y \in S : x <= y
  <2> SUFFICES ASSUME NEW y \in S, y < x PROVE FALSE
    BY <1>2
  <2>1. <<y, x>> \in Nat \X Nat
    BY <1>2
  <2>2. <<y, x>> \in less
    BY <2>1 DEF OpToRel
  <2> QED BY <1>3, <2>2
<1> QED BY <1>4 DEF FirstOf

LEMMA SpecificityIsWhole ==
  ASSUME NEW sel, Packed(sel)
  PROVE  ComputeSpecificity(sel) \in Nat
<1>1. PICK a \in 0 .. 255, b \in 0 .. 255, c \in 0 .. 255 :
        /\ a = CountSimples(sel, {"id"}) /\ b = CountSimples(sel, {"class", "attribute", "pseudo"})
        /\ c = CountSimples(sel, {"tag"})
  BY DEF Packed
<1>2. ComputeSpecificity(sel) = (65536 * a + 256 * b) + c
  BY <1>1 DEF ComputeSpecificity
<1> QED BY <1>2

LEMMA FirstMatchIsSelector ==
  ASSUME SheetsOK, NEW r \in 1 .. Len(Rules), NEW n, Matching(Rules[r], n) # {}
  PROVE  /\ FirstOf(Matching(Rules[r], n)) \in Matching(Rules[r], n)
         /\ \E j \in 1 .. Len(Rules[r].sels) : FirstMatch(Rules[r], n) = Rules[r].sels[j]
         /\ PackedRules => SpecificityOf(r, n) \in Nat /\ Packed(FirstMatch(Rules[r], n))
<1>1. PICK N \in Nat : N = Len(Rules[r].sels)
  BY RulesAreRules DEF IsRule
<1>2. Matching(Rules[r], n) \in SUBSET (1 .. N)
  BY <1>1 DEF Matching
<1>3. FirstOf(Matching(Rules[r], n)) \in Matching(Rules[r], n)
  BY <1>2, FirstIsIn
<1>4. \E j \in 1 .. N : FirstMatch(Rules[r], n) = Rules[r].sels[j]
  BY <1>2, <1>3 DEF FirstMatch
<1> QED BY <1>1, <1>3, <1>4, SpecificityIsWhole DEF PackedRules, SpecificityOf

LEMMA OriginsAreArranged ==
  ASSUME SheetsOK, PackedRules, NEW n
  PROVE  \E L, at : Arranged(Origins(SortBySpecificity(CollectMatchingRules(n)), InlineOf(n)), n, L, at)
<1> DEFINE matched == CollectMatchingRules(n)
           sorted  == SortBySpecificity(matched)
           origins == Origins(sorted, InlineOf(n))
<1>1. PICK place : Collected(matched, Len(Rules), n, place)
  BY CollectsInOrder
<1>2. PICK L \in Nat : L = Len(matched)
  BY <1>1 DEF Collected
<1>3. PICK K \in Nat : K = Len(Rules)
  BY RulesAreRules
<1> HIDE DEF matched
<1>4. /\ place \in [1 .. L -> 1 .. K] /\ \A i, j \in 1 .. L : i < j => place[i] < place[j]
      /\ \A r \in 1 .. K : Matching(Rules[r], n) # {} => \E i \in 1 .. L : place[i] = r
      /\ \A i \in 1 .. L : Matching(Rules[place[i]], n) # {} /\ matched[i] = Entry(Rules[place[i]], i - 1, n)
  BY <1>1, <1>2, <1>3 DEF Collected
<1>5. ASSUME NEW i \in 1 .. L
      PROVE  /\ matched[i].decls = Rules[place[i]].decls /\ matched[i].order = i - 1
             /\ matched[i].specificity = SpecificityOf(place[i], n) /\ SpecificityOf(place[i], n) \in Nat
  <2>1. SpecificityOf(place[i], n) \in Nat
    BY <1>3, <1>4, FirstMatchIsSelector
  <2>2. PICK r : r = place[i]
    OBVIOUS
  <2>3. matched[i] = [decls |-> Rules[r].decls, order |-> i - 1,
                      specificity |-> ComputeSpecificity(FirstMatch(Rules[r], n))]
    BY <1>4, <2>2 DEF Entry
  <2> QED BY <2>1, <2>2, <2>3 DEF SpecificityOf
<1>6. IsMatched(matched, L)
  BY <1>2, <1>5 DEF IsMatched
<1>7. PICK from : Len(sorted) = L /\ IsSorting(matched, L, from) /\ \A i \in 1 .. L : sorted[i] = matched[from[i]]
  BY <1>6, SortingSorts
<1>8. /\ from \in [1 .. L -> 1 .. L] /\ \A k \in 1 .. L : \E i \in 1 .. L : from[i] = k
      /\ \A i, j \in 1 .. L : i < j => from[i] \in Ahead(matched, from[j])
  BY <1>7 DEF IsSorting
<1> DEFINE at == [i \in 1 .. L |-> place[from[i]]]
<1>9. at \in [1 .. L -> 1 .. K] /\ \A i \in 1 .. L : at[i] = place[from[i]]
  BY <1>4, <1>8
<1> HIDE DEF at, sorted
<1>10. Len(origins) = L + 1 /\ origins[L + 1] = InlineOf(n) /\ \A i \in 1 .. L : origins[i] = sorted[i].decls
  <2> DEFINE rules == [k \in 1 .. L |-> sorted[k].decls]
             S     == {sorted[k].decls : k \in 1 .. L} \cup {InlineOf(n)}
  <2>1. rules \in [1 .. L -> S] /\ InlineOf(n) \in S /\ \A i \in 1 .. L : rules[i] = sorted[i].decls
    OBVIOUS
  <2>2. origins = Append(rules, InlineOf(n))
    BY <1>7 DEF Origins
  <2> HIDE DEF rules, S, origins
  <2>3. rules \in Seq(S) /\ Len(rules) = L
    BY <2>1, SeqDef
  <2> QED BY <2>1, <2>2, <2>3
<1>11. \A i \in 1 .. L : origins[i] = Rules[at[i]].decls /\ Matching(Rules[at[i]], n) # {}
  <2> TAKE i \in 1 .. L
  <2>1. PICK k \in 1 .. L : k = from[i]
    BY <1>8
  <2>2. sorted[i] = matched[k] /\ at[i] = place[k]
    BY <1>7, <1>9, <2>1
  <2> HIDE DEF origins
  <2>3. origins[i] = matched[k].decls
    BY <1>10, <2>2
  <2>4. matched[k].decls = Rules[place[k]].decls
    BY <1>5
  <2>5. Matching(Rules[place[k]], n) # {}
    BY <1>4
  <2> HIDE DEF Matching
  <2> QED BY <2>2, <2>3, <2>4, <2>5
<1>12. \A r \in 1 .. K : Matching(Rules[r], n) # {} => \E i \in 1 .. L : at[i] = r
  <2> SUFFICES ASSUME NEW r \in 1 .. K, Matching(Rules[r], n) # {} PROVE \E i \in 1 .. L : at[i] = r
    OBVIOUS
  <2>1. PICK k \in 1 .. L : place[k] = r
    BY <1>4
  <2>2. PICK i \in 1 .. L : from[i] = k
    BY <1>8
  <2> QED BY <1>9, <2>1, <2>2
<1>13. ASSUME NEW i \in 1 .. L, NEW j \in 1 .. L, i < j PROVE Before(at[i], at[j], n)
  <2>1. PICK x \in 1 .. L, y \in 1 .. L : x = from[i] /\ y = from[j] /\ x \in Ahead(matched, y)
    BY <1>8, <1>13
  <2>2. /\ at[i] = place[x] /\ at[j] = place[y]
        /\ x < y => place[x] < place[y]
    BY <1>4, <1>9, <2>1
  <2>3. \/ matched[x].specificity < matched[y].specificity
        \/ matched[x].specificity = matched[y].specificity /\ matched[x].order < matched[y].order
    BY <2>1 DEF Ahead
  <2>4. /\ matched[x].specificity = SpecificityOf(place[x], n) /\ matched[x].order = x - 1
        /\ matched[y].specificity = SpecificityOf(place[y], n) /\ matched[y].order = y - 1
    BY <1>5
  <2>5. \/ SpecificityOf(place[x], n) < SpecificityOf(place[y], n)
        \/ SpecificityOf(place[x], n) = SpecificityOf(place[y], n) /\ x < y
    BY <2>3, <2>4
  <2> QED BY <2>2, <2>5 DEF Before
<1>14. Arranged(origins, n, L, at)
  <2> HIDE DEF origins
  <2> QED BY <1>3, <1>9, <1>10, <1>11, <1>12, <1>13 DEF Arranged
<1> QED BY <1>14 DEF matched, sorted

-----------------------------------------------------------------------------
(* Styles keep to the values that the declarations give.                   *)

(* Styles whose values are in U, and declarations that give such values.   *)
Within(style, U) == style \in [Properties -> U]
GivesWithin(decls, U) ==
  IsDecls(decls) /\ \A i \in 1 .. Len(decls) : PropertyValue(decls[i].prop, decls[i].value) \in U
UnderWithin(parent, U) == (parent = <<>> \/ Within(parent, U)) /\ \A p \in Properties : Initial[p] \in U

LEMMA DeclarationKeeps ==
  ASSUME NEW U, NEW style, Within(style, U), NEW parent, UnderWithin(parent, U),
         NEW d, d.prop \in Properties, PropertyValue(d.prop, d.value) \in U
  PROVE  Within(ApplyDeclaration(style, d, parent), U)
<1> DEFINE set(v) == [style EXCEPT ![d.prop] = v]
<1>1. \A v \in U : set(v) \in [Properties -> U]
  BY DEF Within
<1>2. style[d.prop] \in U /\ Initial[d.prop] \in U /\ (parent # <<>> => parent[d.prop] \in U)
  BY DEF Within, UnderWithin
<1>3. style \in [Properties -> U]
  BY DEF Within
<1> HIDE DEF set
<1>4. CASE d.value.type = "inherit" /\ parent # <<>>
  <2>1. ApplyDeclaration(style, d, parent) = IF d.prop \in TakesInherit THEN set(parent[d.prop]) ELSE style
    BY <1>4 DEF ApplyDeclaration, set
  <2> QED BY <1>1, <1>2, <1>3, <1>4, <2>1 DEF Within
<1>5. CASE d.value.type = "initial"
  <2>1. ApplyDeclaration(style, d, parent) = IF d.prop \in TakesInitial THEN set(Initial[d.prop]) ELSE style
    BY <1>5 DEF ApplyDeclaration, set
  <2> QED BY <1>1, <1>2, <1>3, <2>1 DEF Within
<1>6. CASE d.value.type # "initial" /\ ~(d.value.type = "inherit" /\ parent # <<>>)
  <2>1. ApplyDeclaration(style, d, parent) = set(ApplyValue(style[d.prop], d.prop, d.value))
    BY <1>6 DEF ApplyDeclaration, set
  <2>2. ApplyValue(style[d.prop], d.prop, d.value) \in U
    BY <1>2 DEF ApplyValue
  <2> QED BY <1>1, <2>1, <2>2 DEF Within
<1> QED BY <1>4, <1>5, <1>6

LEMMA DeclarationsKeep ==
  ASSUME NEW U, NEW style, Within(style, U), NEW parent, UnderWithin(parent, U),
         NEW decls, GivesWithin(decls, U), NEW important
  PROVE  Within(ApplyAll(style, decls, parent, important), U)
<1>1. PICK N \in Nat : N = Len(decls)
  BY DEF GivesWithin, IsDecls
<1> DEFINE D          == 0 .. N
           V          == [Properties -> U]
           Then(s, k) == IF decls[k].important = important THEN ApplyDeclaration(s, decls[k], parent) ELSE s
           Body(f, k) == IF k = 0 THEN style ELSE Then(f[k - 1], k)
           Step(f)    == [k \in D |-> Body(f, k)]
           after      == CHOOSE f : f = Step(f)
           G          == [k \in D |-> [f \in [D -> V] |-> Body(f, k)]]
           measure    == [k \in D |-> k]
<1>2. ApplyAll(style, decls, parent, important) = after[N]
  BY <1>1 DEF ApplyAll
<1>3. \A k \in D : k # 0 => k - 1 \in D /\ k - 1 < k /\ k \in 1 .. N
  BY <1>1
<1>4. style \in V
  BY DEF Within
<1>5. ASSUME NEW k \in 1 .. N, NEW s \in V PROVE Then(s, k) \in V
  <2>1. decls[k].prop \in Properties /\ PropertyValue(decls[k].prop, decls[k].value) \in U
    BY <1>1 DEF GivesWithin, IsDecls
  <2>2. Within(s, U)
    BY DEF Within
  <2>3. Within(ApplyDeclaration(s, decls[k], parent), U)
    BY <2>1, <2>2, DeclarationKeeps
  <2> QED BY <2>3 DEF Within
<1> HIDE DEF V, Then
<1>6. \A k \in D : \A f \in [D -> V] : Body(f, k) \in V
  BY <1>3, <1>4, <1>5
<1>7. ASSUME NEW k \in D, NEW f, NEW g, \A e \in D : e < k => f[e] = g[e] PROVE Body(f, k) = Body(g, k)
  BY <1>3, <1>7
<1> HIDE DEF Body
<1>8. \E f \in [D -> V] : \A k \in D : f[k] = Body(f, k)
  <2>1. G \in [D -> [[D -> V] -> V]] /\ \A k \in D : \A f \in [D -> V] : G[k][f] = Body(f, k)
    BY <1>6
  <2>2. measure \in [D -> 0 .. N] /\ \A k \in D : measure[k] = k
    BY <1>1
  <2>3. V # {}
    BY <1>4
  <2> HIDE DEF G, measure
  <2>4. ASSUME NEW k \in D, NEW f \in [D -> V], NEW g \in [D -> V],
               \A e \in D : measure[e] < measure[k] => f[e] = g[e]
        PROVE  G[k][f] = G[k][g]
    <3>1. Body(f, k) = Body(g, k)
      BY <1>7, <2>2, <2>4
    <3> QED BY <2>1, <3>1
  <2>5. IsRecursion(D, V, N, measure, G)
    BY <2>1, <2>2, <2>3, <2>4 DEF IsRecursion
  <2> HIDE DEF D
  <2>6. Solved(D, V, G)
    BY <2>5, Recursion
  <2> QED BY <2>1, <2>6 DEF Solved
<1>9. after = Step(after)
  <2>1. PICK f \in [D -> V] : \A k \in D : f[k] = Body(f, k)
    BY <1>8
  <2>2. f = Step(f)
    BY <2>1
  <2> HIDE DEF Step
  <2> QED BY <2>2
<1>10. \A k \in D : after[k] = Body(after, k)
  <2> HIDE DEF after
  <2> QED BY <1>9
<1> HIDE DEF after
<1> DEFINE S == {k \in D : after[k] \in V}
<1>11. 0 \in S
  BY <1>1, <1>4, <1>10 DEF Body
<1>12. ASSUME NEW k \in D, k < N, k \in S PROVE k + 1 \in S
  <2>1. k + 1 \in 1 .. N /\ k + 1 \in D /\ (k + 1) - 1 = k /\ k + 1 # 0
    BY <1>1, <1>12
  <2>2. after[k + 1] = Then(after[k], k + 1)
    BY <1>10, <2>1 DEF Body
  <2> QED BY <1>5, <1>12, <2>1, <2>2
<1>13. N \in S
  <2> HIDE DEF S
  <2>1. \A k \in 0 .. N : k \in S
    BY <1>11, <1>12, Upwards
  <2> QED BY <2>1
<1> QED BY <1>2, <1>13 DEF Within, V

LEMMA OriginsKeep ==
  ASSUME NEW U, NEW style, Within(style, U), NEW parent, UnderWithin(parent, U),
         NEW origins, NEW N \in Nat, N = Len(origins), \A k \in 1 .. N : GivesWithin(origins[k], U), NEW important
  PROVE  Within(ApplyOrigins(style, origins, parent, important), U)
<1> DEFINE D          == 0 .. N
           V          == [Properties -> U]
           Then(s, k) == ApplyAll(s, origins[k], parent, important)
           Body(f, k) == IF k = 0 THEN style ELSE Then(f[k - 1], k)
           Step(f)    == [k \in D |-> Body(f, k)]
           after      == CHOOSE f : f = Step(f)
           G          == [k \in D |-> [f \in [D -> V] |-> Body(f, k)]]
           measure    == [k \in D |-> k]
<1>2. ApplyOrigins(style, origins, parent, important) = after[N]
  BY DEF ApplyOrigins
<1>3. \A k \in D : k # 0 => k - 1 \in D /\ k - 1 < k /\ k \in 1 .. N
  OBVIOUS
<1>4. style \in V
  BY DEF Within
<1>5. ASSUME NEW k \in 1 .. N, NEW s \in V PROVE Then(s, k) \in V
  <2>1. GivesWithin(origins[k], U)
    OBVIOUS
  <2>2. Within(s, U)
    BY DEF Within
  <2>3. Within(ApplyAll(s, origins[k], parent, important), U)
    BY <2>1, <2>2, DeclarationsKeep
  <2> QED BY <2>3 DEF Within
<1> HIDE DEF V, Then
<1>6. \A k \in D : \A f \in [D -> V] : Body(f, k) \in V
  BY <1>3, <1>4, <1>5
<1>7. ASSUME NEW k \in D, NEW f, NEW g, \A e \in D : e < k => f[e] = g[e] PROVE Body(f, k) = Body(g, k)
  BY <1>3, <1>7
<1> HIDE DEF Body
<1>8. \E f \in [D -> V] : \A k \in D : f[k] = Body(f, k)
  <2>1. G \in [D -> [[D -> V] -> V]] /\ \A k \in D : \A f \in [D -> V] : G[k][f] = Body(f, k)
    BY <1>6
  <2>2. measure \in [D -> 0 .. N] /\ \A k \in D : measure[k] = k
    OBVIOUS
  <2>3. V # {}
    BY <1>4
  <2> HIDE DEF G, measure
  <2>4. ASSUME NEW k \in D, NEW f \in [D -> V], NEW g \in [D -> V],
               \A e \in D : measure[e] < measure[k] => f[e] = g[e]
        PROVE  G[k][f] = G[k][g]
    <3>1. Body(f, k) = Body(g, k)
      BY <1>7, <2>2, <2>4
    <3> QED BY <2>1, <3>1
  <2>5. IsRecursion(D, V, N, measure, G)
    BY <2>1, <2>2, <2>3, <2>4 DEF IsRecursion
  <2> HIDE DEF D
  <2>6. Solved(D, V, G)
    BY <2>5, Recursion
  <2> QED BY <2>1, <2>6 DEF Solved
<1>9. after = Step(after)
  <2>1. PICK f \in [D -> V] : \A k \in D : f[k] = Body(f, k)
    BY <1>8
  <2>2. f = Step(f)
    BY <2>1
  <2> HIDE DEF Step
  <2> QED BY <2>2
<1>10. \A k \in D : after[k] = Body(after, k)
  <2> HIDE DEF after
  <2> QED BY <1>9
<1> HIDE DEF after
<1> DEFINE S == {k \in D : after[k] \in V}
<1>11. 0 \in S
  BY <1>4, <1>10 DEF Body
<1>12. ASSUME NEW k \in D, k < N, k \in S PROVE k + 1 \in S
  <2>1. k + 1 \in 1 .. N /\ k + 1 \in D /\ (k + 1) - 1 = k /\ k + 1 # 0
    BY <1>12
  <2>2. after[k + 1] = Then(after[k], k + 1)
    BY <1>10, <2>1 DEF Body
  <2> QED BY <1>5, <1>12, <2>1, <2>2
<1>13. N \in S
  <2> HIDE DEF S
  <2>1. \A k \in 0 .. N : k \in S
    BY <1>11, <1>12, Upwards
  <2> QED BY <2>1
<1> QED BY <1>2, <1>13 DEF Within, V

-----------------------------------------------------------------------------
(* ResolveTree: every element resolved against the style of its parent.    *)

LEMMA InlineIsDecls ==
  ASSUME SheetsOK, NEW n
  PROVE  IsDecls(InlineOf(n))
<1>1. PICK N \in Nat : N = Len(css.got)
  BY DEF SheetsOK
<1> DEFINE lists == {k \in 1 .. N : css.texts[k].inline}
<1>2. CASE n # Styled \/ lists = {}
  <2>1. InlineOf(n) = <<>>
    BY <1>1, <1>2 DEF InlineOf
  <2> QED BY <2>1 DEF IsDecls
<1>3. CASE n = Styled /\ lists # {}
  <2> DEFINE turned == {j \in 1 .. N : css.texts[N + 1 - j].inline}
             last   == CHOOSE k \in lists : \A j \in lists : j <= k
  <2>1. turned \in SUBSET (1 .. N)
    OBVIOUS
  <2>2. PICK k \in 1 .. N : css.texts[k].inline
    BY <1>3
  <2>3. N + 1 - k \in 1 .. N /\ N + 1 - (N + 1 - k) = k
    BY <1>1
  <2>4. N + 1 - k \in turned
    BY <2>2, <2>3
  <2>5. PICK f \in turned : \A j \in turned : f <= j
    <3> HIDE DEF turned
    <3> QED BY <1>1, <2>1, <2>4, FirstIsIn
  <2>6. N + 1 - f \in lists
    BY <1>1, <2>5
  <2>7. ASSUME NEW j \in lists PROVE j <= N + 1 - f
    <3>1. N + 1 - j \in 1 .. N /\ N + 1 - (N + 1 - j) = j
      BY <1>1
    <3>2. N + 1 - j \in turned
      BY <3>1
    <3>3. f \in 1 .. N /\ j \in 1 .. N /\ f <= N + 1 - j
      BY <2>5, <3>2
    <3> HIDE DEF lists, turned
    <3> QED BY <1>1, <3>3
  <2>8. last \in lists
    <3> HIDE DEF lists
    <3> QED BY <2>6, <2>7
  <2>9. InlineOf(n) = css.got[last]
    BY <1>1, <1>3 DEF InlineOf
  <2> HIDE DEF last
  <2> QED BY <1>1, <2>8, <2>9 DEF SheetsOK
<1> QED BY <1>2, <1>3

(* All that a style can have for a value.                                  *)
Palette ==
  {Initial[p] : p \in Properties}
    \cup {PropertyValue(Rules[r].decls[i].prop, Rules[r].decls[i].value) : r \in 1 .. Len(Rules), i \in Nat}
    \cup {PropertyValue(InlineOf(Styled)[i].prop, InlineOf(Styled)[i].value) : i \in Nat}

LEMMA PaletteSuffices ==
  ASSUME SheetsOK
  PROVE  /\ \A p \in Properties : Initial[p] \in Palette
         /\ \A r \in 1 .. Len(Rules) : GivesWithin(Rules[r].decls, Palette)
         /\ \A n : GivesWithin(InlineOf(n), Palette)
<1>1. \A p \in Properties : Initial[p] \in Palette
  BY DEF Palette
<1>2. ASSUME NEW r \in 1 .. Len(Rules) PROVE GivesWithin(Rules[r].decls, Palette)
  <2>1. IsDecls(Rules[r].decls)
    BY RulesAreRules DEF IsRule
  <2>2. \A i \in 1 .. Len(Rules[r].decls) : i \in Nat
    BY <2>1 DEF IsDecls
  <2> QED BY <2>1, <2>2 DEF GivesWithin, Palette
<1>3. ASSUME NEW n PROVE GivesWithin(InlineOf(n), Palette)
  <2>1. IsDecls(InlineOf(n))
    BY InlineIsDecls
  <2>2. CASE n = Styled
    <3>1. \A i \in 1 .. Len(InlineOf(n)) : i \in Nat
      BY <2>1 DEF IsDecls
    <3> QED BY <2>1, <2>2, <3>1 DEF GivesWithin, Palette
  <2>3. CASE n # Styled
    <3>1. InlineOf(n) = <<>>
      BY <2>3 DEF InlineOf
    <3>2. 1 .. Len(InlineOf(n)) = {}
      BY <3>1
    <3> QED BY <2>1, <3>2 DEF GivesWithin
  <2> QED BY <2>2, <2>3
<1> QED BY <1>1, <1>2, <1>3

LEMMA OriginsGiveWithin ==
  ASSUME SheetsOK, PackedRules, NEW n
  PROVE  LET origins == Origins(SortBySpecificity(CollectMatchingRules(n)), InlineOf(n))
         IN  Len(origins) \in Nat /\ \A k \in 1 .. Len(origins) : GivesWithin(origins[k], Palette)
<1> DEFINE origins == Origins(SortBySpecificity(CollectMatchingRules(n)), InlineOf(n))
<1>1. PICK L, at : Arranged(origins, n, L, at)
  BY OriginsAreArranged
<1> HIDE DEF origins
<1>2. /\ L \in Nat /\ Len(origins) = L + 1 /\ origins[L + 1] = InlineOf(n)
      /\ \A i \in 1 .. L : at[i] \in 1 .. Len(Rules) /\ origins[i] = Rules[at[i]].decls
  BY <1>1 DEF Arranged
<1>3. ASSUME NEW k \in 1 .. L + 1 PROVE GivesWithin(origins[k], Palette)
  <2>1. k = L + 1 \/ k \in 1 .. L
    BY <1>2
  <2> QED BY <1>2, <2>1, PaletteSuffices
<1>4. Len(origins) \in Nat /\ \A k \in 1 .. Len(origins) : GivesWithin(origins[k], Palette)
  BY <1>2, <1>3
<1> QED BY <1>4 DEF origins

LEMMA ResolveStaysWithin ==
  ASSUME SheetsOK, PackedRules, NEW n, NEW parent, parent = <<>> \/ Within(parent, Palette)
  PROVE  Within(Resolve(n, parent), Palette)
<1> DEFINE origins == Origins(SortBySpecificity(CollectMatchingRules(n)), InlineOf(n))
           base    == IF parent = <<>> THEN Initial ELSE InheritProperties(parent)
           first   == ApplyOrigins(base, origins, parent, FALSE)
<1>1. Resolve(n, parent) = ApplyOrigins(first, origins, parent, TRUE)
  BY DEF Resolve, Layered
<1>2. PICK N \in Nat : N = Len(origins) /\ \A k \in 1 .. N : GivesWithin(origins[k], Palette)
  <2>1. Len(origins) \in Nat /\ \A k \in 1 .. Len(origins) : GivesWithin(origins[k], Palette)
    BY OriginsGiveWithin
  <2> QED BY <2>1
<1> HIDE DEF origins
<1>3. UnderWithin(parent, Palette)
  BY PaletteSuffices DEF UnderWithin
<1>4. Within(base, Palette)
  <2>1. Initial \in [Properties -> Palette]
    <3>1. Initial = [p \in Properties |-> Initial[p]]
      BY DEF Initial
    <3>2. \A p \in Properties : Initial[p] \in Palette
      BY PaletteSuffices
    <3> QED BY <3>1, <3>2
  <2>2. CASE parent = <<>>
    BY <2>1, <2>2 DEF Within
  <2>3. CASE parent # <<>>
    <3>1. parent \in [Properties -> Palette]
      BY <2>3 DEF Within
    <3>2. InheritProperties(parent) \in [Properties -> Palette]
      BY <2>1, <3>1 DEF InheritProperties
    <3> QED BY <2>3, <3>2 DEF Within
  <2> QED BY <2>2, <2>3
<1> HIDE DEF base
<1>5. Within(first, Palette)
  BY <1>2, <1>3, <1>4, OriginsKeep
<1> HIDE DEF first
<1>6. Within(ApplyOrigins(first, origins, parent, TRUE), Palette)
  BY <1>2, <1>3, <1>5, OriginsKeep
<1> QED BY <1>1, <1>6

(* LayoutEngine::BuildTree: from the root down, each element has the style *)
(* that is resolved under the style of its parent.                         *)
THEOREM StylesGoDown ==
  ASSUME SheetsOK, DocumentOK, PackedRules
  PROVE  \A n \in DomNodes : /\ IsStyle(StyleOf(n))
                             /\ StyleOf(n) = Resolve(n, StyleOf(tree.parent[n]))
<1> DEFINE V          == [Properties -> Palette] \cup {<<>>}
           D          == Ref
           N          == MaxNodes
           Body(f, m) == IF m = NoNode THEN <<>> ELSE Resolve(m, f[tree.parent[m]])
           Step(f)    == [m \in D |-> Body(f, m)]
           down       == CHOOSE f : f = Step(f)
           G          == [m \in D |-> [f \in [D -> V] |-> Body(f, m)]]
           measure    == [m \in D |-> m]
<1>0. MaxNodes \in Nat /\ Ref = DomNodes \cup {NoNode} /\ NoNode \notin DomNodes
  BY DomAssumption DEF Ref, DomNodes, NoNode
<1>1. /\ \A m \in DomNodes : tree.parent[m] \in Ref /\ tree.parent[m] < m
      /\ Ref = 0 .. MaxNodes /\ NoNode \notin DomNodes
  BY ParentIsOlder
<1>2. \A n : StyleOf(n) = down[n]
  BY DEF StyleOf
<1>3. <<>> \in V
  OBVIOUS
<1>4. ASSUME NEW m, NEW s \in V PROVE Resolve(m, s) \in [Properties -> Palette]
  <2>1. s = <<>> \/ Within(s, Palette)
    BY DEF Within
  <2>2. Within(Resolve(m, s), Palette)
    BY <2>1, ResolveStaysWithin
  <2> QED BY <2>2 DEF Within
<1>5. \A m \in D : m = NoNode \/ (m \in DomNodes /\ tree.parent[m] \in D /\ tree.parent[m] < m)
  BY <1>0, <1>1
<1>6. \A m \in D : \A f \in [D -> V] : Body(f, m) \in V
  <2> SUFFICES ASSUME NEW m \in D, NEW f \in [D -> V] PROVE Body(f, m) \in V
    OBVIOUS
  <2>1. CASE m = NoNode
    BY <1>3, <2>1
  <2>2. CASE m # NoNode
    <3>1. f[tree.parent[m]] \in V
      BY <1>5, <2>2
    <3> HIDE DEF V
    <3>2. Resolve(m, f[tree.parent[m]]) \in [Properties -> Palette]
      BY <1>4, <3>1
    <3> QED BY <2>2, <3>2 DEF V
  <2> QED BY <2>1, <2>2
<1> HIDE DEF V
<1>7. ASSUME NEW m \in D, NEW f, NEW g, \A e \in D : e < m => f[e] = g[e] PROVE Body(f, m) = Body(g, m)
  BY <1>5, <1>7
<1> HIDE DEF Body
<1>8. \E f \in [D -> V] : \A m \in D : f[m] = Body(f, m)
  <2>1. G \in [D -> [[D -> V] -> V]] /\ \A m \in D : \A f \in [D -> V] : G[m][f] = Body(f, m)
    BY <1>6
  <2>2. measure \in [D -> 0 .. N] /\ \A m \in D : measure[m] = m
    BY <1>1
  <2>3. V # {}
    BY <1>3
  <2> HIDE DEF G, measure
  <2>4. ASSUME NEW m \in D, NEW f \in [D -> V], NEW g \in [D -> V],
               \A e \in D : measure[e] < measure[m] => f[e] = g[e]
        PROVE  G[m][f] = G[m][g]
    <3>1. Body(f, m) = Body(g, m)
      BY <1>7, <2>2, <2>4
    <3> QED BY <2>1, <3>1
  <2>5. IsRecursion(D, V, N, measure, G)
    BY <1>0, <2>1, <2>2, <2>3, <2>4 DEF IsRecursion
  <2> HIDE DEF D
  <2>6. Solved(D, V, G)
    BY <2>5, Recursion
  <2> QED BY <2>1, <2>6 DEF Solved
<1>9. down = Step(down)
  <2>1. PICK f \in [D -> V] : \A m \in D : f[m] = Body(f, m)
    BY <1>8
  <2>2. f = Step(f)
    BY <2>1
  <2> HIDE DEF Step
  <2> QED BY <2>2
<1>10. \A m \in D : down[m] = Body(down, m)
  <2> HIDE DEF down
  <2> QED BY <1>9
<1> HIDE DEF down
<1> DEFINE S == {m \in D : down[m] \in V}
<1>11. NoNode \in S
  <2>1. NoNode \in D /\ down[NoNode] = <<>>
    BY <1>0, <1>10 DEF Body
  <2> QED BY <1>3, <2>1
<1>12. ASSUME NEW m \in DomNodes, tree.parent[m] \in S PROVE m \in S /\ down[m] \in [Properties -> Palette]
  <2>1. m \in D /\ m # NoNode
    BY <1>0
  <2>2. down[m] = Resolve(m, down[tree.parent[m]])
    BY <1>10, <2>1 DEF Body
  <2>3. down[tree.parent[m]] \in V
    BY <1>12
  <2>4. down[m] \in [Properties -> Palette]
    BY <1>4, <2>2, <2>3
  <2> QED BY <2>1, <2>4 DEF V
<1>13. \A m \in Ref : m \in S
  <2> HIDE DEF S
  <2> QED BY <1>11, <1>12, Downwards
<1>14. ASSUME NEW n \in DomNodes PROVE IsStyle(down[n]) /\ down[n] = Resolve(n, down[tree.parent[n]])
  <2>1. n \in D /\ n # NoNode /\ tree.parent[n] \in S
    BY <1>0, <1>1, <1>13
  <2>2. down[n] \in [Properties -> Palette]
    BY <1>12, <2>1
  <2> QED BY <1>10, <2>1, <2>2 DEF Body, IsStyle
<1> QED BY <1>2, <1>14

-----------------------------------------------------------------------------
(* The candidates for a property, as the standard orders them.             *)

(* Seven numbers compared from the first on.                               *)
IsKey(k) == Len(k) = 7 /\ \A i \in 1 .. 7 : k[i] \in Nat
FromFirst(k, l) ==
  \/ k[1] > l[1]
  \/ k[1] = l[1] /\ k[2] > l[2]
  \/ k[1] = l[1] /\ k[2] = l[2] /\ k[3] > l[3]
  \/ k[1] = l[1] /\ k[2] = l[2] /\ k[3] = l[3] /\ k[4] > l[4]
  \/ k[1] = l[1] /\ k[2] = l[2] /\ k[3] = l[3] /\ k[4] = l[4] /\ k[5] > l[5]
  \/ k[1] = l[1] /\ k[2] = l[2] /\ k[3] = l[3] /\ k[4] = l[4] /\ k[5] = l[5] /\ k[6] > l[6]
  \/ k[1] = l[1] /\ k[2] = l[2] /\ k[3] = l[3] /\ k[4] = l[4] /\ k[5] = l[5] /\ k[6] = l[6] /\ k[7] > l[7]

LEMMA KeysCompare ==
  ASSUME NEW k, NEW l, IsKey(k), IsKey(l)
  PROVE  Stronger(k, l) <=> FromFirst(k, l)
<1> DEFINE at(i) == k[i] > l[i] /\ \A j \in 1 .. i - 1 : k[j] = l[j]
<1>1. /\ 1 .. 1 - 1 = {} /\ 1 .. 2 - 1 = {1} /\ 1 .. 3 - 1 = {1, 2} /\ 1 .. 4 - 1 = {1, 2, 3}
      /\ 1 .. 5 - 1 = {1, 2, 3, 4} /\ 1 .. 6 - 1 = {1, 2, 3, 4, 5} /\ 1 .. 7 - 1 = {1, 2, 3, 4, 5, 6}
      /\ 1 .. 7 = {1, 2, 3, 4, 5, 6, 7}
  OBVIOUS
<1>2. Stronger(k, l) <=> \E i \in {1, 2, 3, 4, 5, 6, 7} : at(i)
  BY <1>1 DEF Stronger, IsKey
<1>3. /\ at(1) <=> k[1] > l[1]
      /\ at(2) <=> k[1] = l[1] /\ k[2] > l[2]
      /\ at(3) <=> k[1] = l[1] /\ k[2] = l[2] /\ k[3] > l[3]
  BY <1>1
<1>4. /\ at(4) <=> k[1] = l[1] /\ k[2] = l[2] /\ k[3] = l[3] /\ k[4] > l[4]
      /\ at(5) <=> k[1] = l[1] /\ k[2] = l[2] /\ k[3] = l[3] /\ k[4] = l[4] /\ k[5] > l[5]
  BY <1>1
<1>5. /\ at(6) <=> k[1] = l[1] /\ k[2] = l[2] /\ k[3] = l[3] /\ k[4] = l[4] /\ k[5] = l[5] /\ k[6] > l[6]
      /\ at(7) <=> /\ k[1] = l[1] /\ k[2] = l[2] /\ k[3] = l[3] /\ k[4] = l[4] /\ k[5] = l[5]
                   /\ k[6] = l[6] /\ k[7] > l[7]
  BY <1>1
<1>6. Stronger(k, l) <=> at(1) \/ at(2) \/ at(3) \/ at(4) \/ at(5) \/ at(6) \/ at(7)
  BY <1>2
<1> HIDE DEF at
<1> QED BY <1>3, <1>4, <1>5, <1>6 DEF FromFirst

LEMMA StrongerOneWay ==
  ASSUME NEW k, NEW l, IsKey(k), IsKey(l)
  PROVE  ~(Stronger(k, l) /\ Stronger(l, k))
<1>1. \A i \in 1 .. 7 : k[i] \in Nat /\ l[i] \in Nat
  BY DEF IsKey
<1>2. /\ k[1] \in Nat /\ k[2] \in Nat /\ k[3] \in Nat /\ k[4] \in Nat /\ k[5] \in Nat /\ k[6] \in Nat /\ k[7] \in Nat
      /\ l[1] \in Nat /\ l[2] \in Nat /\ l[3] \in Nat /\ l[4] \in Nat /\ l[5] \in Nat /\ l[6] \in Nat /\ l[7] \in Nat
  BY <1>1
<1>3. ~(FromFirst(k, l) /\ FromFirst(l, k))
  BY <1>2 DEF FromFirst
<1> QED BY <1>3, KeysCompare

-----------------------------------------------------------------------------
(* The declarations of a rule and the inline ones among the candidates.    *)
Weight(d) == IF d.important THEN 1 ELSE 0
RuleKey(d, sel, r, k) ==
  <<Weight(d), 0, CountSimples(sel, {"id"}), CountSimples(sel, {"class", "attribute", "pseudo"}),
    CountSimples(sel, {"tag"}), r, k>>
InlineKey(d, k) == <<Weight(d), 1, 0, 0, 0, 0, k>>
OfRule(r, k, n) ==
  [key |-> RuleKey(Rules[r].decls[k], FirstMatch(Rules[r], n), r, k), decl |-> Rules[r].decls[k]]
OfInline(k, n) == [key |-> InlineKey(InlineOf(n)[k], k), decl |-> InlineOf(n)[k]]
Counted(d, p) == d.prop = p /\ Counts(d)

(* The greedy walk finds the selectors that match.                         *)
GreedySheets ==
  \A k \in 1 .. Len(Rules) : \A j \in 1 .. Len(Rules[k].sels) : ~NeedsBacktracking(Rules[k].sels[j])

RuledFor(n, p) ==
  UNION {{OfRule(r, k, n) : k \in {i \in 1 .. Len(Rules[r].decls) : Counted(Rules[r].decls[i], p)}} :
           r \in {s \in 1 .. Len(Rules) : Matching(Rules[s], n) # {}}}
InlinedFor(n, p) == {OfInline(k, n) : k \in {i \in 1 .. Len(InlineOf(n)) : Counted(InlineOf(n)[i], p)}}

(* No rule has a selector for n that is more specific than the one the     *)
(* resolver counts it by.                                                  *)
CountedRight(n) == \A r \in 1 .. Len(Rules) : ~Undercounted(Rules[r], n)

LEMMA WalkFindsMatching ==
  ASSUME SheetsOK, DocumentOK, GreedySheets, NEW n \in Elements, NEW r \in 1 .. Len(Rules)
  PROVE  RefMatching(Rules[r], n) = Matching(Rules[r], n)
<1>1. \A j \in 1 .. Len(Rules[r].sels) : Matches(Rules[r].sels[j], n) <=> RefMatches(Rules[r].sels[j], n)
  <2> TAKE j \in 1 .. Len(Rules[r].sels)
  <2>1. IsSelector(Rules[r].sels[j])
    BY RulesAreRules DEF IsRule
  <2>2. ~NeedsBacktracking(Rules[r].sels[j])
    BY DEF GreedySheets
  <2> QED BY <2>1, <2>2, GreedyIsEnough
<1> QED BY <1>1 DEF Matching, RefMatching

(* Numbers of simple selectors are below 256 in packed rules.              *)
LEMMA KindsOfPacked ==
  ASSUME SheetsOK, PackedRules, NEW r \in 1 .. Len(Rules), NEW j \in 1 .. Len(Rules[r].sels)
  PROVE  \E a, b, c \in Nat : Kinds(Rules[r].sels[j]) = <<a, b, c>>
<1> DEFINE sel == Rules[r].sels[j]
<1>1. PICK a \in 0 .. 255, b \in 0 .. 255, c \in 0 .. 255 :
        /\ a = CountSimples(sel, {"id"}) /\ b = CountSimples(sel, {"class", "attribute", "pseudo"})
        /\ c = CountSimples(sel, {"tag"})
  BY PackedKinds DEF PackedRules, Packed
<1>2. Kinds(sel) = <<a, b, c>>
  BY <1>1 DEF Kinds
<1> QED BY <1>2

(* Where the first selector that matches is as specific as any, it is what *)
(* the rule has to be counted by.                                          *)
LEMMA FirstIsMostSpecific ==
  ASSUME SheetsOK, DocumentOK, GreedySheets, PackedRules, NEW n \in Elements, CountedRight(n),
         NEW r \in 1 .. Len(Rules), Matching(Rules[r], n) # {}
  PROVE  MostSpecific(Rules[r], n) = Kinds(FirstMatch(Rules[r], n))
<1> DEFINE M == RefMatching(Rules[r], n)
           all == {Kinds(Rules[r].sels[j]) : j \in M}
           w   == Kinds(FirstMatch(Rules[r], n))
<1>1. M = Matching(Rules[r], n) /\ M # {}
  BY WalkFindsMatching
<1>2. FirstMatch(Rules[r], n) = Rules[r].sels[FirstOf(M)] /\ FirstOf(M) \in M
  <2>1. FirstOf(Matching(Rules[r], n)) \in Matching(Rules[r], n)
    BY FirstMatchIsSelector
  <2> HIDE DEF M
  <2> QED BY <1>1, <2>1 DEF FirstMatch
<1>3. M \subseteq 1 .. Len(Rules[r].sels)
  BY DEF RefMatching
<1>4. \A j \in M : ~Stronger(Kinds(Rules[r].sels[j]), w)
  BY <1>2 DEF CountedRight, Undercounted
<1>5. \A j \in M : \E a, b, c \in Nat : Kinds(Rules[r].sels[j]) = <<a, b, c>>
  BY <1>3, KindsOfPacked
<1>6. PICK a \in Nat, b \in Nat, c \in Nat : w = <<a, b, c>>
  BY <1>2, <1>5
<1> HIDE DEF w, M
<1>7. w \in all
  BY <1>2 DEF w
<1>8. ASSUME NEW x \in all \ {w} PROVE Stronger(w, x) /\ ~Stronger(x, w)
  <2>1. PICK j \in M : x = Kinds(Rules[r].sels[j])
    OBVIOUS
  <2>2. PICK d \in Nat, e \in Nat, f \in Nat : x = <<d, e, f>>
    BY <1>5, <2>1
  <2>3. ~Stronger(x, w) /\ (d # a \/ e # b \/ f # c)
    BY <1>4, <1>6, <1>8, <2>1, <2>2
  <2>4. /\ Stronger(x, w) <=> d > a \/ (d = a /\ e > b) \/ (d = a /\ e = b /\ f > c)
        /\ Stronger(w, x) <=> a > d \/ (a = d /\ b > e) \/ (a = d /\ b = e /\ c > f)
    BY <1>6, <2>2, TriplesCompare
  <2> QED BY <2>3, <2>4
<1> HIDE DEF all
<1>9. (CHOOSE v \in all : \A x \in all \ {v} : Stronger(v, x)) = w
  BY <1>7, <1>8
<1> QED BY <1>9 DEF MostSpecific, all, w, M

LEMMA CandidatesAre ==
  ASSUME SheetsOK, DocumentOK, GreedySheets, PackedRules, NEW n \in Elements, CountedRight(n), NEW p
  PROVE  Candidates(n, p) = RuledFor(n, p) \cup InlinedFor(n, p)
<1>1. ASSUME NEW r \in 1 .. Len(Rules) PROVE RefMatching(Rules[r], n) = Matching(Rules[r], n)
  BY WalkFindsMatching
<1> DEFINE most(r) == MostSpecific(Rules[r], n)
           ofRule(r, k) ==
             [key |-> <<Weight(Rules[r].decls[k]), 0, most(r)[1], most(r)[2], most(r)[3], r, k>>,
              decl |-> Rules[r].decls[k]]
<1>2. Candidates(n, p) =
        (UNION {{ofRule(r, k) : k \in {i \in 1 .. Len(Rules[r].decls) : Counted(Rules[r].decls[i], p)}} :
                  r \in {s \in 1 .. Len(Rules) : RefMatching(Rules[s], n) # {}}})
          \cup {OfInline(k, n) : k \in {i \in 1 .. Len(InlineOf(n)) : Counted(InlineOf(n)[i], p)}}
  BY DEF Candidates, InlineKey, Weight, OfInline, Counted
<1> DEFINE reach == {s \in 1 .. Len(Rules) : Matching(Rules[s], n) # {}}
<1>3. \A r \in reach : \A k : ofRule(r, k) = OfRule(r, k, n)
  <2> SUFFICES ASSUME NEW r \in reach, NEW k PROVE ofRule(r, k) = OfRule(r, k, n)
    OBVIOUS
  <2>1. most(r) = Kinds(FirstMatch(Rules[r], n))
    BY FirstIsMostSpecific
  <2> QED BY <2>1 DEF OfRule, RuleKey, Kinds
<1> HIDE DEF ofRule, most
<1>4. {s \in 1 .. Len(Rules) : RefMatching(Rules[s], n) # {}} = reach
  BY <1>1
<1>5. ASSUME NEW r \in reach, NEW K PROVE {ofRule(r, k) : k \in K} = {OfRule(r, k, n) : k \in K}
  BY <1>3
<1> DEFINE K(r) == {i \in 1 .. Len(Rules[r].decls) : Counted(Rules[r].decls[i], p)}
           theirs(r) == {ofRule(r, k) : k \in K(r)}
           ours(r)   == {OfRule(r, k, n) : k \in K(r)}
<1>6. \A r \in reach : theirs(r) = ours(r)
  <2> HIDE DEF K
  <2> QED BY <1>5
<1>7. {theirs(r) : r \in reach} = {ours(r) : r \in reach}
  <2> HIDE DEF theirs, ours, reach
  <2> QED BY <1>6
<1>8. Candidates(n, p) = (UNION {theirs(r) : r \in reach}) \cup InlinedFor(n, p)
  BY <1>2, <1>4 DEF InlinedFor
<1>9. RuledFor(n, p) = UNION {ours(r) : r \in reach}
  BY DEF RuledFor
<1> DEFINE found == {theirs(r) : r \in reach}
           meant == {ours(r) : r \in reach}
<1>10. found = meant /\ Candidates(n, p) = (UNION found) \cup InlinedFor(n, p) /\ RuledFor(n, p) = UNION meant
  BY <1>7, <1>8, <1>9
<1> HIDE DEF found, meant
<1> QED BY <1>10

-----------------------------------------------------------------------------
(* The origins of a style and the candidates are the same declarations.    *)

(* A place among the origins, as a candidate.                              *)
CandidateOf(L, at, n, c) == IF c[1] = L + 1 THEN OfInline(c[2], n) ELSE OfRule(at[c[1]], c[2], n)

(* What reaches an element, all of it in the origins of its style.         *)
Reaches(origins, n, L, at) ==
  /\ Arranged(origins, n, L, at) /\ IsOrigins(origins)
  /\ SheetsOK /\ DocumentOK /\ GreedySheets /\ PackedRules /\ n \in Elements /\ CountedRight(n)

LEMMA PlacesAreCandidates ==
  ASSUME NEW origins, NEW n, NEW L, NEW at, Reaches(origins, n, L, at), NEW p \in Properties
  PROVE  /\ \A c \in DeclaredAt(origins, p) : CandidateOf(L, at, n, c) \in Candidates(n, p)
         /\ \A x \in Candidates(n, p) : \E c \in DeclaredAt(origins, p) : CandidateOf(L, at, n, c) = x
         /\ \A c \in DeclaredAt(origins, p) : CandidateOf(L, at, n, c).decl = origins[c[1]][c[2]]
<1>1. /\ L \in Nat /\ Len(origins) = L + 1 /\ origins[L + 1] = InlineOf(n)
      /\ \A i \in 1 .. L : at[i] \in 1 .. Len(Rules) /\ origins[i] = Rules[at[i]].decls /\ Matching(Rules[at[i]], n) # {}
      /\ \A r \in 1 .. Len(Rules) : Matching(Rules[r], n) # {} => \E i \in 1 .. L : at[i] = r
  BY DEF Reaches, Arranged
<1>2. \A k \in 1 .. L + 1 : Len(origins[k]) \in Nat
  BY <1>1 DEF Reaches, IsOrigins, IsDecls
<1> DEFINE ruled == RuledFor(n, p)
           inlined == InlinedFor(n, p)
<1>3. Candidates(n, p) = ruled \cup inlined
  <2>1. SheetsOK /\ DocumentOK /\ GreedySheets /\ PackedRules /\ n \in Elements /\ CountedRight(n)
    BY DEF Reaches
  <2> HIDE DEF ruled, inlined
  <2>2. Candidates(n, p) = RuledFor(n, p) \cup InlinedFor(n, p)
    BY <2>1, CandidatesAre
  <2> QED BY <2>2 DEF ruled, inlined
<1>4. ASSUME NEW c \in DeclaredAt(origins, p)
      PROVE  /\ CandidateOf(L, at, n, c) \in ruled \cup inlined
             /\ CandidateOf(L, at, n, c).decl = origins[c[1]][c[2]]
  <2>1. /\ c \in (1 .. L + 1) \X Nat /\ c[2] \in 1 .. Len(origins[c[1]])
        /\ Counted(origins[c[1]][c[2]], p)
    BY <1>1 DEF DeclaredAt, Counted
  <2>2. PICK i \in 1 .. L + 1, k \in Nat : c[1] = i /\ c[2] = k
    BY <2>1
  <2>3. CASE i = L + 1
    <3>1. CandidateOf(L, at, n, c) = OfInline(k, n)
      BY <2>2, <2>3 DEF CandidateOf
    <3>2. k \in 1 .. Len(InlineOf(n)) /\ Counted(InlineOf(n)[k], p)
      BY <1>1, <2>1, <2>2, <2>3
    <3>3. OfInline(k, n) \in inlined
      BY <3>2 DEF InlinedFor
    <3>4. OfInline(k, n).decl = InlineOf(n)[k]
      BY DEF OfInline
    <3> QED BY <1>1, <2>2, <2>3, <3>1, <3>3, <3>4
  <2>4. CASE i \in 1 .. L
    <3>0. i # L + 1
      BY <1>1, <2>4
    <3>1. CandidateOf(L, at, n, c) = OfRule(at[i], k, n)
      BY <2>2, <3>0 DEF CandidateOf
    <3>2. PICK r \in 1 .. Len(Rules) : r = at[i] /\ origins[i] = Rules[r].decls /\ Matching(Rules[r], n) # {}
      BY <1>1, <2>4
    <3>3. k \in 1 .. Len(Rules[r].decls) /\ Counted(Rules[r].decls[k], p)
      BY <2>1, <2>2, <3>2
    <3> DEFINE own(s) == {OfRule(s, i1, n) : i1 \in {i2 \in 1 .. Len(Rules[s].decls) : Counted(Rules[s].decls[i2], p)}}
    <3>6. OfRule(r, k, n) \in own(r)
      BY <3>3
    <3>7. ruled = UNION {own(s) : s \in {s1 \in 1 .. Len(Rules) : Matching(Rules[s1], n) # {}}}
      BY DEF RuledFor
    <3> HIDE DEF own, ruled
    <3>4. OfRule(r, k, n) \in ruled
      BY <3>2, <3>6, <3>7
    <3> USE DEF ruled
    <3>5. OfRule(r, k, n).decl = Rules[r].decls[k]
      BY DEF OfRule
    <3> QED BY <2>2, <3>1, <3>2, <3>4, <3>5
  <2>5. i = L + 1 \/ i \in 1 .. L
    BY <1>1
  <2> QED BY <2>3, <2>4, <2>5
<1>5. ASSUME NEW x \in ruled PROVE \E c \in DeclaredAt(origins, p) : CandidateOf(L, at, n, c) = x
  <2>0. PICK r \in 1 .. Len(Rules) :
          /\ Matching(Rules[r], n) # {}
          /\ x \in {OfRule(r, k, n) : k \in {i \in 1 .. Len(Rules[r].decls) : Counted(Rules[r].decls[i], p)}}
    BY DEF RuledFor
  <2>1. PICK k \in 1 .. Len(Rules[r].decls) : Counted(Rules[r].decls[k], p) /\ x = OfRule(r, k, n)
    BY <2>0
  <2>2. PICK i \in 1 .. L : at[i] = r /\ origins[i] = Rules[r].decls
    BY <1>1, <2>0
  <2> DEFINE c == <<i, k>>
  <2>3. i \in 1 .. L + 1 /\ i # L + 1
    BY <1>1
  <2>4. k \in Nat
    BY <1>2, <2>2, <2>3
  <2>5. c \in (1 .. L + 1) \X Nat /\ c[1] = i /\ c[2] = k
    BY <2>3, <2>4
  <2> HIDE DEF c
  <2>6. c \in DeclaredAt(origins, p)
    BY <1>1, <2>1, <2>2, <2>5 DEF DeclaredAt, Counted
  <2>7. CandidateOf(L, at, n, c) = x
    BY <2>1, <2>2, <2>3, <2>5 DEF CandidateOf
  <2> QED BY <2>6, <2>7
<1>6. ASSUME NEW x \in inlined PROVE \E c \in DeclaredAt(origins, p) : CandidateOf(L, at, n, c) = x
  <2>1. PICK k \in 1 .. Len(InlineOf(n)) : Counted(InlineOf(n)[k], p) /\ x = OfInline(k, n)
    BY DEF InlinedFor
  <2> DEFINE c == <<L + 1, k>>
  <2>3. L + 1 \in 1 .. L + 1
    BY <1>1
  <2>4. k \in Nat
    BY <1>1, <1>2, <2>3
  <2>5. c \in (1 .. L + 1) \X Nat /\ c[1] = L + 1 /\ c[2] = k
    BY <2>3, <2>4
  <2> HIDE DEF c
  <2>6. c \in DeclaredAt(origins, p)
    BY <1>1, <2>1, <2>5 DEF DeclaredAt, Counted
  <2>7. CandidateOf(L, at, n, c) = x
    BY <2>1, <2>5 DEF CandidateOf
  <2> QED BY <2>6, <2>7
<1> HIDE DEF ruled, inlined
<1> QED BY <1>3, <1>4, <1>5, <1>6

RuleCounts(r, n, a, b, c) ==
  /\ \A d, k : RuleKey(d, FirstMatch(Rules[r], n), r, k) = <<Weight(d), 0, a, b, c, r, k>>
  /\ SpecificityOf(r, n) = (65536 * a + 256 * b) + c

LEMMA CountsAreWhole ==
  ASSUME SheetsOK, PackedRules, NEW r \in 1 .. Len(Rules), NEW n, Matching(Rules[r], n) # {}
  PROVE  \E a, b, c \in 0 .. 255 : RuleCounts(r, n, a, b, c)
<1>1. Packed(FirstMatch(Rules[r], n))
  BY FirstMatchIsSelector
<1>2. PICK a \in 0 .. 255, b \in 0 .. 255, c \in 0 .. 255 :
        /\ a = CountSimples(FirstMatch(Rules[r], n), {"id"})
        /\ b = CountSimples(FirstMatch(Rules[r], n), {"class", "attribute", "pseudo"})
        /\ c = CountSimples(FirstMatch(Rules[r], n), {"tag"})
  BY <1>1 DEF Packed
<1>3. SpecificityOf(r, n) = (65536 * a + 256 * b) + c
  BY <1>2 DEF SpecificityOf, ComputeSpecificity
<1>4. \A d, k : RuleKey(d, FirstMatch(Rules[r], n), r, k) = <<Weight(d), 0, a, b, c, r, k>>
  BY <1>2 DEF RuleKey
<1>5. RuleCounts(r, n, a, b, c)
  BY <1>3, <1>4 DEF RuleCounts
<1> QED BY <1>5

KeyHas(key, d, r, k) == IsKey(key) /\ key[1] = Weight(d) /\ key[2] = 0 /\ key[6] = r /\ key[7] = k

LEMMA RuleKeysAreKeys ==
  ASSUME SheetsOK, PackedRules, NEW r \in 1 .. Len(Rules), NEW n, Matching(Rules[r], n) # {}, NEW d, NEW k \in Nat
  PROVE  KeyHas(RuleKey(d, FirstMatch(Rules[r], n), r, k), d, r, k)
<1>1. PICK a \in 0 .. 255, b \in 0 .. 255, c \in 0 .. 255 : RuleCounts(r, n, a, b, c)
  BY CountsAreWhole
<1>0. RuleKey(d, FirstMatch(Rules[r], n), r, k) = <<Weight(d), 0, a, b, c, r, k>>
  BY <1>1 DEF RuleCounts
<1>2. Weight(d) \in Nat
  BY DEF Weight
<1>3. r \in Nat
  BY RulesAreRules
<1> DEFINE key == <<Weight(d), 0, a, b, c, r, k>>
<1>4. /\ Len(key) = 7 /\ key[1] = Weight(d) /\ key[2] = 0 /\ key[3] = a /\ key[4] = b /\ key[5] = c
      /\ key[6] = r /\ key[7] = k
  OBVIOUS
<1>5. 1 .. 7 = {1, 2, 3, 4, 5, 6, 7}
  OBVIOUS
<1> HIDE DEF key
<1>6. IsKey(key)
  <2>1. /\ key[1] \in Nat /\ key[2] \in Nat /\ key[3] \in Nat /\ key[4] \in Nat /\ key[5] \in Nat
        /\ key[6] \in Nat /\ key[7] \in Nat
    BY <1>2, <1>3, <1>4
  <2>2. \A i \in 1 .. 7 : key[i] \in Nat
    BY <1>5, <2>1
  <2> QED BY <1>4, <2>2 DEF IsKey
<1>7. KeyHas(key, d, r, k)
  BY <1>4, <1>6 DEF KeyHas
<1> QED BY <1>0, <1>7 DEF key

LEMMA InlineKeysAreKeys ==
  ASSUME NEW d, NEW k \in Nat
  PROVE  LET key == InlineKey(d, k)
         IN  /\ IsKey(key) /\ key[1] = Weight(d) /\ key[2] = 1 /\ key[3] = 0 /\ key[4] = 0 /\ key[5] = 0
             /\ key[6] = 0 /\ key[7] = k
<1> DEFINE key == InlineKey(d, k)
<1>2. Weight(d) \in Nat
  BY DEF Weight
<1>4. /\ Len(key) = 7 /\ key[1] = Weight(d) /\ key[2] = 1 /\ key[3] = 0 /\ key[4] = 0 /\ key[5] = 0
      /\ key[6] = 0 /\ key[7] = k
  BY DEF InlineKey
<1>5. 1 .. 7 = {1, 2, 3, 4, 5, 6, 7}
  OBVIOUS
<1> HIDE DEF key
<1>6. IsKey(key)
  BY <1>2, <1>4, <1>5 DEF IsKey
<1> QED BY <1>4, <1>6 DEF key

(* Of two rules, the one applied later has the stronger key, importance    *)
(* and place aside.                                                        *)
LEMMA LaterIsStronger ==
  ASSUME SheetsOK, PackedRules, NEW n, NEW r \in 1 .. Len(Rules), NEW s \in 1 .. Len(Rules),
         Matching(Rules[r], n) # {}, Matching(Rules[s], n) # {}, Before(r, s, n),
         NEW d, NEW e, Weight(d) = Weight(e), NEW j \in Nat, NEW k \in Nat
  PROVE  Stronger(RuleKey(d, FirstMatch(Rules[s], n), s, j), RuleKey(e, FirstMatch(Rules[r], n), r, k))
<1>1. PICK a \in 0 .. 255, b \in 0 .. 255, c \in 0 .. 255 : RuleCounts(r, n, a, b, c)
  BY CountsAreWhole
<1>2. PICK u \in 0 .. 255, v \in 0 .. 255, w \in 0 .. 255 : RuleCounts(s, n, u, v, w)
  BY CountsAreWhole
<1> DEFINE key  == RuleKey(d, FirstMatch(Rules[s], n), s, j)
           lesser == RuleKey(e, FirstMatch(Rules[r], n), r, k)
<1>3. IsKey(key) /\ IsKey(lesser)
  BY RuleKeysAreKeys DEF KeyHas
<1>4. key = <<Weight(d), 0, u, v, w, s, j>> /\ lesser = <<Weight(e), 0, a, b, c, r, k>>
  BY <1>1, <1>2 DEF RuleCounts
<1> HIDE DEF key, lesser
<1>5. /\ key[1] = lesser[1] /\ key[2] = lesser[2]
      /\ key[3] = u /\ key[4] = v /\ key[5] = w /\ key[6] = s
      /\ lesser[3] = a /\ lesser[4] = b /\ lesser[5] = c /\ lesser[6] = r
  BY <1>4
<1>6. r \in Nat /\ s \in Nat
  BY RulesAreRules
<1>7. \/ (65536 * a + 256 * b) + c < (65536 * u + 256 * v) + w
      \/ (65536 * a + 256 * b) + c = (65536 * u + 256 * v) + w /\ r < s
  BY <1>1, <1>2 DEF Before, RuleCounts
<1>8. u > a \/ (u = a /\ v > b) \/ (u = a /\ v = b /\ w > c) \/ (u = a /\ v = b /\ w = c /\ s > r)
  BY <1>6, <1>7
<1>9. FromFirst(key, lesser)
  BY <1>5, <1>8 DEF FromFirst
<1>10. Stronger(key, lesser)
  BY <1>3, <1>9, KeysCompare
<1> QED BY <1>10 DEF key, lesser

-----------------------------------------------------------------------------
(* The declaration that overrides all others has the strongest key.        *)

LEMMA OverridingIsStronger ==
  ASSUME NEW origins, NEW n, NEW L, NEW at, Reaches(origins, n, L, at), NEW p \in Properties,
         NEW a \in DeclaredAt(origins, p), NEW b \in DeclaredAt(origins, p), Overrides(origins, a, b)
  PROVE  /\ IsKey(CandidateOf(L, at, n, a).key) /\ IsKey(CandidateOf(L, at, n, b).key)
         /\ Stronger(CandidateOf(L, at, n, a).key, CandidateOf(L, at, n, b).key)
<1>1. /\ L \in Nat /\ Len(origins) = L + 1 /\ origins[L + 1] = InlineOf(n)
      /\ \A i \in 1 .. L : at[i] \in 1 .. Len(Rules) /\ origins[i] = Rules[at[i]].decls /\ Matching(Rules[at[i]], n) # {}
      /\ \A i, j \in 1 .. L : i < j => Before(at[i], at[j], n)
      /\ SheetsOK /\ PackedRules
  BY DEF Reaches, Arranged
<1>2. ASSUME NEW c \in DeclaredAt(origins, p)
      PROVE  /\ c[1] \in 1 .. L + 1 /\ c[2] \in Nat /\ origins[c[1]][c[2]].important \in BOOLEAN
  <2>1. c \in (1 .. L + 1) \X Nat /\ c[2] \in 1 .. Len(origins[c[1]])
    BY <1>1 DEF DeclaredAt
  <2> QED BY <1>1, <2>1 DEF Reaches, IsOrigins, IsDecls
<1> DEFINE decl(c) == origins[c[1]][c[2]]
           key(c)  == CandidateOf(L, at, n, c).key
<1>3. ASSUME NEW c \in DeclaredAt(origins, p), c[1] = L + 1
      PROVE  /\ IsKey(key(c)) /\ key(c)[1] = Weight(decl(c)) /\ key(c)[2] = 1 /\ key(c)[7] = c[2]
             /\ key(c)[3] = 0 /\ key(c)[4] = 0 /\ key(c)[5] = 0 /\ key(c)[6] = 0
  <2>1. key(c) = InlineKey(decl(c), c[2])
    BY <1>1, <1>3 DEF CandidateOf, OfInline
  <2>2. c[2] \in Nat
    BY <1>2
  <2> HIDE DEF key, decl
  <2> QED BY <2>1, <2>2, InlineKeysAreKeys
<1>4. ASSUME NEW c \in DeclaredAt(origins, p), c[1] # L + 1
      PROVE  /\ c[1] \in 1 .. L
             /\ key(c) = RuleKey(decl(c), FirstMatch(Rules[at[c[1]]], n), at[c[1]], c[2])
             /\ IsKey(key(c)) /\ key(c)[1] = Weight(decl(c)) /\ key(c)[2] = 0 /\ key(c)[6] = at[c[1]] /\ key(c)[7] = c[2]
  <2>1. c[1] \in 1 .. L /\ c[2] \in Nat
    BY <1>1, <1>2, <1>4
  <2>2. PICK r \in 1 .. Len(Rules) : r = at[c[1]] /\ origins[c[1]] = Rules[r].decls /\ Matching(Rules[r], n) # {}
    BY <1>1, <2>1
  <2>3. key(c) = RuleKey(decl(c), FirstMatch(Rules[r], n), r, c[2])
    BY <1>4, <2>2 DEF CandidateOf, OfRule
  <2> HIDE DEF key, decl
  <2>4. KeyHas(RuleKey(decl(c), FirstMatch(Rules[r], n), r, c[2]), decl(c), r, c[2])
    BY <1>1, <2>1, <2>2, RuleKeysAreKeys
  <2> QED BY <2>1, <2>2, <2>3, <2>4 DEF KeyHas
<1>5. Weight(decl(a)) \in {0, 1} /\ Weight(decl(b)) \in {0, 1}
  BY DEF Weight
<1>6. /\ a[1] \in 1 .. L + 1 /\ a[2] \in Nat /\ b[1] \in 1 .. L + 1 /\ b[2] \in Nat
      /\ decl(a).important \in BOOLEAN /\ decl(b).important \in BOOLEAN
  BY <1>2
<1>7. IsKey(key(a)) /\ IsKey(key(b)) /\ key(a)[1] = Weight(decl(a)) /\ key(b)[1] = Weight(decl(b))
  BY <1>3, <1>4
<1>8. \/ decl(a).important /\ ~decl(b).important
      \/ decl(a).important = decl(b).important /\ (a[1] > b[1] \/ (a[1] = b[1] /\ a[2] > b[2]))
  BY DEF Overrides
<1>9. SUFFICES Stronger(key(a), key(b))
  BY <1>7
<1>10. FromFirst(key(a), key(b)) => Stronger(key(a), key(b))
  BY <1>7, KeysCompare
<1>11. CASE decl(a).important /\ ~decl(b).important
  <2>1. Weight(decl(a)) = 1 /\ Weight(decl(b)) = 0
    BY <1>11 DEF Weight
  <2> HIDE DEF key, decl
  <2> QED BY <1>7, <1>10, <2>1 DEF FromFirst
<1>12. ASSUME decl(a).important = decl(b).important PROVE Weight(decl(a)) = Weight(decl(b))
  BY <1>12 DEF Weight
<1>13. CASE decl(a).important = decl(b).important /\ a[1] > b[1] /\ a[1] = L + 1
  <2>1. b[1] # L + 1
    BY <1>1, <1>6, <1>13
  <2>2. key(a)[2] = 1 /\ key(b)[2] = 0
    BY <1>3, <1>4, <1>13, <2>1
  <2> HIDE DEF key, decl
  <2> QED BY <1>7, <1>10, <1>12, <1>13, <2>2 DEF FromFirst
<1>14. CASE decl(a).important = decl(b).important /\ a[1] > b[1] /\ a[1] # L + 1
  <2>1. b[1] # L + 1 /\ a[1] \in 1 .. L /\ b[1] \in 1 .. L /\ b[1] < a[1]
    BY <1>1, <1>6, <1>14
  <2>2. PICK r \in 1 .. Len(Rules), s \in 1 .. Len(Rules) :
          r = at[b[1]] /\ s = at[a[1]] /\ Matching(Rules[r], n) # {} /\ Matching(Rules[s], n) # {}
    BY <1>1, <2>1
  <2>3. Before(r, s, n)
    BY <1>1, <2>1, <2>2
  <2>4. Weight(decl(a)) = Weight(decl(b))
    BY <1>12, <1>14
  <2>5. Stronger(RuleKey(decl(a), FirstMatch(Rules[s], n), s, a[2]), RuleKey(decl(b), FirstMatch(Rules[r], n), r, b[2]))
    <3> HIDE DEF decl
    <3> QED BY <1>1, <1>6, <2>2, <2>3, <2>4, LaterIsStronger
  <2>6. key(a) = RuleKey(decl(a), FirstMatch(Rules[s], n), s, a[2])
    BY <1>4, <1>14, <2>2
  <2>7. key(b) = RuleKey(decl(b), FirstMatch(Rules[r], n), r, b[2])
    BY <1>4, <2>1, <2>2
  <2> QED BY <2>5, <2>6, <2>7
<1>15. CASE decl(a).important = decl(b).important /\ a[1] = b[1] /\ a[2] > b[2]
  <2>1. CASE a[1] = L + 1
    <3>1. /\ key(a)[2] = 1 /\ key(a)[7] = a[2]
          /\ key(a)[3] = 0 /\ key(a)[4] = 0 /\ key(a)[5] = 0 /\ key(a)[6] = 0
      BY <1>3, <2>1
    <3>2. /\ key(b)[2] = 1 /\ key(b)[7] = b[2]
          /\ key(b)[3] = 0 /\ key(b)[4] = 0 /\ key(b)[5] = 0 /\ key(b)[6] = 0
      BY <1>3, <1>15, <2>1
    <3> HIDE DEF key, decl
    <3> QED BY <1>7, <1>10, <1>12, <1>15, <3>1, <3>2 DEF FromFirst
  <2>2. CASE a[1] # L + 1
    <3>1. PICK r : r = at[a[1]] /\ r = at[b[1]]
      BY <1>15
    <3>2. key(a) = RuleKey(decl(a), FirstMatch(Rules[r], n), r, a[2])
      BY <1>4, <2>2, <3>1
    <3>3. key(b) = RuleKey(decl(b), FirstMatch(Rules[r], n), r, b[2])
      BY <1>4, <1>15, <2>2, <3>1
    <3> HIDE DEF key, decl
    <3>4. /\ key(a)[2] = key(b)[2] /\ key(a)[3] = key(b)[3] /\ key(a)[4] = key(b)[4] /\ key(a)[5] = key(b)[5]
          /\ key(a)[6] = key(b)[6] /\ key(a)[7] = a[2] /\ key(b)[7] = b[2]
      BY <3>2, <3>3 DEF RuleKey
    <3> QED BY <1>7, <1>10, <1>12, <1>15, <3>4 DEF FromFirst
  <2> QED BY <2>1, <2>2
<1> HIDE DEF key, decl
<1> QED BY <1>8, <1>11, <1>13, <1>14, <1>15

(* Whatever decides among the candidates, one decides.                     *)
LEMMA StrongestIsUnique ==
  ASSUME NEW all, NEW c \in all, \A d \in all \ {c} : Stronger(c.key, d.key) /\ IsKey(c.key) /\ IsKey(d.key)
  PROVE  (CHOOSE x \in all : \A d \in all \ {x} : Stronger(x.key, d.key)) = c
<1> DEFINE wins(x) == \A d \in all \ {x} : Stronger(x.key, d.key)
<1>1. wins(c)
  OBVIOUS
<1>2. ASSUME NEW x \in all, wins(x) PROVE x = c
  <2> SUFFICES ASSUME x # c PROVE FALSE
    OBVIOUS
  <2>1. Stronger(c.key, x.key) /\ IsKey(c.key) /\ IsKey(x.key)
    OBVIOUS
  <2>2. Stronger(x.key, c.key)
    BY <1>2
  <2> QED BY <2>1, <2>2, StrongerOneWay
<1> HIDE DEF wins
<1>3. (CHOOSE x \in all : wins(x)) = c
  BY <1>1, <1>2
<1> QED BY <1>3 DEF wins

LEMMA ResolveIsExact ==
  ASSUME SheetsOK, DocumentOK, PackedRules, GreedySheets, NEW n \in Elements, CountedRight(n),
         NEW parent, IsStyle(parent), NEW p \in Properties
  PROVE  Resolve(n, parent)[p] = RefStyle(n, parent)[p]
<1> DEFINE origins == Origins(SortBySpecificity(CollectMatchingRules(n)), InlineOf(n))
<1>1. IsOrigins(origins)
  <2>1. Len(origins) \in Nat /\ \A k \in 1 .. Len(origins) : GivesWithin(origins[k], Palette)
    BY OriginsGiveWithin
  <2> HIDE DEF origins
  <2> QED BY <2>1 DEF IsOrigins, GivesWithin
<1>2. PICK L, at : Arranged(origins, n, L, at)
  BY OriginsAreArranged
<1>3. \/ \E c \in DeclaredAt(origins, p) :
           /\ Resolve(n, parent)[p] = Gives(origins[c[1]][c[2]], parent)
           /\ \A b \in DeclaredAt(origins, p) \ {c} : Overrides(origins, c, b)
      \/ DeclaredAt(origins, p) = {} /\ Resolve(n, parent)[p] = IF IsInheritedProperty(p) THEN parent[p] ELSE Initial[p]
  BY <1>1, StrongestDeclarationWins
<1> HIDE DEF origins
<1>4. Reaches(origins, n, L, at)
  BY <1>1, <1>2 DEF Reaches
<1> DEFINE all     == Candidates(n, p)
           here    == DeclaredAt(origins, p)
           cand(c) == CandidateOf(L, at, n, c)
           first   == CHOOSE c \in all : \A d \in all \ {c} : Stronger(c.key, d.key)
<1>5. /\ \A c \in here : cand(c) \in all
      /\ \A x \in all : \E c \in here : cand(c) = x
      /\ \A c \in here : cand(c).decl = origins[c[1]][c[2]]
  BY <1>4, PlacesAreCandidates
<1>6. RefStyle(n, parent)[p] =
        IF all # {} THEN Gives(first.decl, parent)
        ELSE IF IsInheritedProperty(p) THEN parent[p] ELSE Initial[p]
  BY DEF RefStyle
<1>7. CASE here = {}
  <2>1. all = {}
    <3> HIDE DEF all, here, cand
    <3> QED BY <1>5, <1>7
  <2>2. Resolve(n, parent)[p] = IF IsInheritedProperty(p) THEN parent[p] ELSE Initial[p]
    BY <1>3, <1>7
  <2> HIDE DEF all, here, cand, first
  <2> QED BY <1>6, <2>1, <2>2
<1>8. CASE here # {}
  <2>1. PICK c \in here : /\ Resolve(n, parent)[p] = Gives(origins[c[1]][c[2]], parent)
                          /\ \A b \in here \ {c} : Overrides(origins, c, b)
    BY <1>3, <1>8
  <2>2. ASSUME NEW b \in here, b # c PROVE Stronger(cand(c).key, cand(b).key) /\ IsKey(cand(c).key) /\ IsKey(cand(b).key)
    <3>1. Overrides(origins, c, b)
      BY <2>1, <2>2
    <3> QED BY <1>4, <3>1, OverridingIsStronger
  <2> HIDE DEF all, here, cand
  <2>3. ASSUME NEW d \in all \ {cand(c)} PROVE Stronger(cand(c).key, d.key) /\ IsKey(cand(c).key) /\ IsKey(d.key)
    <3>1. PICK b \in here : cand(b) = d
      BY <1>5
    <3>2. b # c
      BY <3>1
    <3> QED BY <2>2, <3>1, <3>2
  <2>4. first = cand(c)
    <3>1. cand(c) \in all
      BY <1>5
    <3> QED BY <2>3, <3>1, StrongestIsUnique
  <2> HIDE DEF first
  <2>5. all # {} /\ first.decl = origins[c[1]][c[2]]
    BY <1>5, <2>4
  <2> QED BY <1>6, <2>1, <2>5
<1> QED BY <1>7, <1>8

(* Whatever sheets are parsed and whatever document they are for: each     *)
(* property of an element that no rule is undercounted for has the value   *)
(* of the strongest declaration that reaches the element, its parent's     *)
(* value, or the initial one (StyleResolver::Resolve).                     *)
THEOREM CascadeIsExact ==
  ASSUME SheetsOK, DocumentOK
  PROVE  CascadeExact
<1> SUFFICES ASSUME \A k \in 1 .. Len(Rules) : \A j \in 1 .. Len(Rules[k].sels) :
                      ~NeedsBacktracking(Rules[k].sels[j]) /\ Packed(Rules[k].sels[j]),
                    NEW n \in Elements, tree.parent[n] # NoNode, CountedRight(n)
             PROVE  StyleOf(n) = RefStyle(n, StyleOf(tree.parent[n]))
  BY DEF CascadeExact, CountedRight
<1>1. PackedRules /\ GreedySheets
  BY DEF PackedRules, GreedySheets
<1>2. n \in DomNodes /\ tree.parent[n] \in DomNodes
  BY ParentIsOlder
<1>3. IsStyle(StyleOf(n)) /\ StyleOf(n) = Resolve(n, StyleOf(tree.parent[n])) /\ IsStyle(StyleOf(tree.parent[n]))
  BY <1>1, <1>2, StylesGoDown
<1> DEFINE mine == StyleOf(n)
           ref  == RefStyle(n, StyleOf(tree.parent[n]))
<1>4. \A p \in Properties : mine[p] = ref[p]
  BY <1>1, <1>3, ResolveIsExact
<1>5. mine = [p \in Properties |-> mine[p]] /\ ref = [p \in Properties |-> ref[p]]
  <2>1. ref = [p \in Properties |-> ref[p]]
    BY DEF RefStyle
  <2> QED BY <1>3, <2>1 DEF IsStyle
<1> HIDE DEF mine, ref
<1>6. mine = ref
  BY <1>4, <1>5
<1> QED BY <1>6 DEF mine, ref

-----------------------------------------------------------------------------
(* The parser: every recursion goes forward in its text or its tokens.     *)

(* G gives a value for each place out of the values at the places behind   *)
(* it, and for the places behind L out of nothing.                         *)
Forward(L, V, G) ==
  /\ L \in Nat /\ V # {} /\ G \in [Places -> [[Places -> V] -> V]]
  /\ \A p \in Places : \A f, g \in [Places -> V] :
       (\A q \in Places : p <= L /\ q > p => f[q] = g[q]) => G[p][f] = G[p][g]

Backwards(L, S) == L \in Nat /\ \A p \in Places : (\A q \in Places : p <= L /\ q > p => q \in S) => p \in S

LEMMA ForwardInduction ==
  ASSUME NEW L, NEW S, Backwards(L, S)
  PROVE  \A p \in Places : p \in S
<1> USE DEF Places
<1> DEFINE left == [p \in Places |-> IF p > L THEN 0 ELSE L + 1 - p]
           N    == L + 1
<1>1. L \in Nat /\ N \in Nat
  BY DEF Backwards
<1>2. left \in [Places -> 0 .. N] /\ \A p, q \in Places : left[q] < left[p] => p <= L /\ q > p
  BY <1>1
<1>3. \A p, q \in Places : p <= L /\ q > p => left[q] < left[p]
  BY <1>1
<1> HIDE DEF left, N
<1>4. Inductive(Places, N, left, S)
  BY <1>1, <1>2, <1>3 DEF Inductive, Backwards
<1> QED BY <1>4, MeasureInduction

LEMMA ForwardRecursion ==
  ASSUME NEW L, NEW V, NEW G, Forward(L, V, G)
  PROVE  Solved(Places, V, G)
<1> USE DEF Places
<1> DEFINE left == [p \in Places |-> IF p > L THEN 0 ELSE L + 1 - p]
           N    == L + 1
<1>1. L \in Nat /\ N \in Nat
  BY DEF Forward
<1>2. left \in [Places -> 0 .. N] /\ \A p, q \in Places : p <= L /\ q > p => left[q] < left[p]
  BY <1>1
<1> HIDE DEF left, N
<1>3. ASSUME NEW p \in Places, NEW f \in [Places -> V], NEW g \in [Places -> V],
             \A q \in Places : left[q] < left[p] => f[q] = g[q]
      PROVE  G[p][f] = G[p][g]
  BY <1>2, <1>3 DEF Forward
<1>4. IsRecursion(Places, V, N, left, G)
  BY <1>1, <1>2, <1>3 DEF IsRecursion, Forward
<1> QED BY <1>4, Recursion

-----------------------------------------------------------------------------
(* The tokenizer.                                                          *)

(* The first of some places. *)
LEMMA FirstPlace ==
  ASSUME NEW S \in SUBSET Nat, S # {}
  PROVE  /\ Min(S) \in S /\ \A q \in S : Min(S) <= q
         /\ (CHOOSE q \in S : \A e \in S : q <= e) \in S
<1> DEFINE less == OpToRel(<, Nat)
<1>1. IsWellFoundedOn(less, Nat)
  BY NatLessThanWellFounded
<1>3. PICK x \in S : \A y \in S : <<y, x>> \notin less
  <2> HIDE DEF less
  <2> QED BY <1>1, WFMin
<1>4. \A y \in S : x <= y
  <2> SUFFICES ASSUME NEW y \in S, y < x PROVE FALSE
    OBVIOUS
  <2>1. <<y, x>> \in Nat \X Nat
    OBVIOUS
  <2>2. <<y, x>> \in less
    BY <2>1 DEF OpToRel
  <2> QED BY <1>3, <2>2
<1> QED BY <1>4 DEF Min

LEMMA SkipCommentGoesOn ==
  ASSUME NEW s, Len(s) \in Nat, NEW p \in Places
  PROVE  LET q == TrySkipComment(s, p)
         IN  q \in Places /\ q >= p /\ (q # p => p <= Len(s))
<1> USE DEF Places
<1>1. PICK L \in Nat : L = Len(s)
  OBVIOUS
<1> DEFINE closes == {q \in p + 2 .. L - 1 : s[q] = "*" /\ s[q + 1] = "/"}
           first  == CHOOSE q \in closes : \A e \in closes : q <= e
<1>2. CASE CharAt(s, p) # "/" \/ CharAt(s, p + 1) # "*"
  BY <1>2 DEF TrySkipComment
<1>3. CASE ~(CharAt(s, p) # "/" \/ CharAt(s, p + 1) # "*")
  <2>1. p <= L
    <3>1. "" # "/"
      OBVIOUS
    <3> QED BY <1>1, <1>3, <3>1 DEF CharAt
  <2>2. TrySkipComment(s, p) = IF closes = {} THEN L + 1 ELSE 2 + first
    BY <1>1, <1>3 DEF TrySkipComment
  <2>3. CASE closes = {}
    BY <1>1, <2>1, <2>2, <2>3
  <2>4. CASE closes # {}
    <3>1. closes \in SUBSET Nat
      OBVIOUS
    <3> HIDE DEF closes
    <3>2. first \in closes
      BY <2>4, <3>1, FirstPlace
    <3>3. first \in p + 2 .. L - 1
      BY <3>2 DEF closes
    <3> HIDE DEF first
    <3> QED BY <1>1, <2>1, <2>2, <2>4, <3>3
  <2> QED BY <2>3, <2>4
<1> QED BY <1>2, <1>3

LEMMA CommentsEnd ==
  ASSUME NEW s, Len(s) \in Nat, NEW i \in Places
  PROVE  SkipComments(s, i) \in Places /\ SkipComments(s, i) >= i
<1> USE DEF Places
<1>1. PICK L \in Nat : L = Len(s)
  OBVIOUS
<1> DEFINE V          == Places
           try(p)     == TrySkipComment(s, p)
           Body(f, p) == IF try(p) = p THEN p ELSE f[try(p)]
           Step(f)    == [p \in Places |-> Body(f, p)]
           from       == CHOOSE f : f = Step(f)
           G          == [p \in Places |-> [f \in [Places -> V] |-> Body(f, p)]]
<1>2. SkipComments(s, i) = from[i]
  BY DEF SkipComments
<1>3. \A p \in Places : try(p) \in Places /\ try(p) >= p /\ (try(p) # p => p <= L)
  BY <1>1, SkipCommentGoesOn
<1> HIDE DEF try
<1>4. \A p \in Places : \A f \in [Places -> V] : Body(f, p) \in V
  BY <1>3
<1>5. ASSUME NEW p \in Places, NEW f, NEW g, \A q \in Places : p <= L /\ q > p => f[q] = g[q]
      PROVE  Body(f, p) = Body(g, p)
  BY <1>3, <1>5
<1> HIDE DEF Body
<1>6. \E f \in [Places -> V] : \A p \in Places : f[p] = Body(f, p)
  <2>1. G \in [Places -> [[Places -> V] -> V]] /\ \A p \in Places : \A f \in [Places -> V] : G[p][f] = Body(f, p)
    BY <1>4
  <2>2. V # {}
    OBVIOUS
  <2> HIDE DEF G, V
  <2>3. ASSUME NEW p \in Places, NEW f \in [Places -> V], NEW g \in [Places -> V],
               \A q \in Places : p <= L /\ q > p => f[q] = g[q]
        PROVE  G[p][f] = G[p][g]
    <3>1. Body(f, p) = Body(g, p)
      BY <1>5, <2>3
    <3> QED BY <2>1, <3>1
  <2>4. Forward(L, V, G)
    BY <2>1, <2>2, <2>3 DEF Forward
  <2>5. Solved(Places, V, G)
    BY <2>4, ForwardRecursion
  <2> QED BY <2>1, <2>5 DEF Solved
<1>7. PICK f \in [Places -> V] : \A p \in Places : f[p] = Body(f, p)
  BY <1>6
<1>8. \A p \in Places : from[p] = Body(from, p)
  <2>1. f = Step(f)
    BY <1>7
  <2>2. from = Step(from)
    <3> HIDE DEF Step
    <3> QED BY <2>1
  <2> HIDE DEF from
  <2> QED BY <2>2
<1> HIDE DEF from
<1> DEFINE S == {p \in Places : from[p] \in Places /\ from[p] >= p}
<1>9. ASSUME NEW p \in Places, \A q \in Places : p <= L /\ q > p => q \in S PROVE p \in S
  <2>1. CASE try(p) = p
    BY <1>8, <2>1 DEF Body
  <2>2. CASE try(p) # p
    <3>1. try(p) \in Places /\ p <= L /\ try(p) > p
      BY <1>3, <2>2
    <3>2. try(p) \in S
      BY <1>9, <3>1
    <3>3. from[p] = from[try(p)]
      BY <1>8, <2>2 DEF Body
    <3>4. PICK q \in Places : q = try(p)
      BY <3>1
    <3>5. q > p /\ from[q] \in Places /\ from[q] >= q
      BY <3>1, <3>2, <3>4
    <3>6. from[p] = from[q]
      BY <3>3, <3>4
    <3>7. from[p] \in Places /\ from[p] >= p
      <4>1. PICK x \in Places : x = from[q]
        BY <3>5
      <4>2. x >= q /\ q > p
        BY <3>5, <4>1
      <4>3. x >= p
        BY <4>2
      <4> QED BY <3>6, <4>1, <4>3
    <3> QED BY <3>7
  <2> QED BY <2>1, <2>2
<1>10. i \in S
  <2> HIDE DEF S
  <2>1. Backwards(L, S)
    BY <1>9 DEF Backwards
  <2> QED BY <2>1, ForwardInduction
<1> QED BY <1>2, <1>10

LEMMA NoCharBehind ==
  ASSUME NEW s, NEW L \in Nat, L = Len(s), NEW p \in Places
  PROVE  (p > L => CharAt(s, p) = "") /\ (CharAt(s, p) # "" => p <= L)
<1> USE DEF Places
<1>1. p > L => CharAt(s, p) = ""
  BY DEF CharAt
<1>2. p > L \/ p <= L
  OBVIOUS
<1> QED BY <1>1, <1>2

LEMMA BlanksEnd ==
  ASSUME NEW s, Len(s) \in Nat, NEW i \in Places
  PROVE  /\ WhitespaceEnd(s, i) \in Places /\ WhitespaceEnd(s, i) >= i
         /\ IsWhitespace(CharAt(s, i)) => WhitespaceEnd(s, i) > i
<1> USE DEF Places
<1>1. PICK L \in Nat : L = Len(s)
  OBVIOUS
<1> DEFINE V          == Places
           blank(p)   == IsWhitespace(CharAt(s, p))
           try(p)     == TrySkipComment(s, p)
           Body(f, p) == IF blank(p) THEN f[p + 1] ELSE IF try(p) # p THEN f[try(p)] ELSE p
           Step(f)    == [p \in Places |-> Body(f, p)]
           from       == CHOOSE f : f = Step(f)
           G          == [p \in Places |-> [f \in [Places -> V] |-> Body(f, p)]]
<1>2. WhitespaceEnd(s, i) = from[i]
  BY DEF WhitespaceEnd
<1>3. \A p \in Places : try(p) \in Places /\ try(p) >= p /\ (try(p) # p => p <= L)
  BY <1>1, SkipCommentGoesOn
<1>4. \A p \in Places : blank(p) => p <= L
  <2>1. "" \notin Blanks
    BY DEF Blanks
  <2>2. \A p \in Places : CharAt(s, p) # "" => p <= L
    BY <1>1, NoCharBehind
  <2>3. \A p \in Places : blank(p) => CharAt(s, p) # ""
    BY <2>1 DEF IsWhitespace
  <2> QED BY <2>2, <2>3
<1> HIDE DEF try, blank
<1>41. \A p \in Places : \A f \in [Places -> V] : Body(f, p) \in V
  <2> SUFFICES ASSUME NEW p \in Places, NEW f \in [Places -> V] PROVE Body(f, p) \in V
    OBVIOUS
  <2>1. p + 1 \in Places /\ try(p) \in Places
    <3>1. try(p) \in Places
      BY <1>3
    <3> QED BY <3>1
  <2>2. f[p + 1] \in Places /\ f[try(p)] \in Places
    BY <2>1
  <2> QED BY <2>2
<1>42. ASSUME NEW p \in Places, NEW f, NEW g, \A q \in Places : p <= L /\ q > p => f[q] = g[q]
      PROVE  Body(f, p) = Body(g, p)
  <2>1. CASE blank(p)
    <3>1. p <= L /\ p + 1 \in Places /\ p + 1 > p
      BY <1>4, <2>1
    <3>2. f[p + 1] = g[p + 1]
      BY <1>42, <3>1
    <3> QED BY <2>1, <3>2
  <2>2. CASE ~blank(p) /\ try(p) # p
    <3>1. PICK q \in Places : q = try(p) /\ p <= L /\ q > p
      BY <1>3, <2>2
    <3>2. f[q] = g[q]
      BY <1>42, <3>1
    <3> QED BY <2>2, <3>1, <3>2
  <2> QED BY <2>1, <2>2
<1> HIDE DEF Body
<1>43. \E f \in [Places -> V] : \A p \in Places : f[p] = Body(f, p)
  <2>1. G \in [Places -> [[Places -> V] -> V]] /\ \A p \in Places : \A f \in [Places -> V] : G[p][f] = Body(f, p)
    BY <1>41
  <2>2. V # {}
    OBVIOUS
  <2> HIDE DEF G, V
  <2>3. ASSUME NEW p \in Places, NEW f \in [Places -> V], NEW g \in [Places -> V],
               \A q \in Places : p <= L /\ q > p => f[q] = g[q]
        PROVE  G[p][f] = G[p][g]
    <3>1. Body(f, p) = Body(g, p)
      BY <1>42, <2>3
    <3> QED BY <2>1, <3>1
  <2>4. Forward(L, V, G)
    BY <1>1, <2>1, <2>2, <2>3 DEF Forward
  <2>5. Solved(Places, V, G)
    BY <2>4, ForwardRecursion
  <2> QED BY <2>1, <2>5 DEF Solved
<1>44. PICK f \in [Places -> V] : \A p \in Places : f[p] = Body(f, p)
  BY <1>43
<1>45. \A p \in Places : from[p] = Body(from, p)
  <2>1. f = Step(f)
    BY <1>44
  <2>2. from = Step(from)
    <3> HIDE DEF Step
    <3> QED BY <2>1
  <2> HIDE DEF from
  <2> QED BY <2>2
<1> HIDE DEF from
<1> DEFINE S == {p \in Places : from[p] \in Places /\ from[p] >= p}
<1>50. ASSUME NEW p \in Places, NEW q \in Places, q > p, q \in S, from[p] = from[q] PROVE p \in S /\ from[p] > p
  <2>0. from[q] \in Places /\ from[q] >= q
    BY <1>50
  <2> HIDE DEF S
  <2>1. PICK x \in Places : x = from[q]
    BY <2>0
  <2>4. x >= q
    BY <2>0, <2>1
  <2>2. x > p /\ x >= p
    BY <1>50, <2>4
  <2>3. from[p] \in Places /\ from[p] >= p /\ from[p] > p
    BY <1>50, <2>1, <2>2
  <2> QED BY <2>3 DEF S
<1>51. ASSUME NEW p \in Places, \A q \in Places : p <= L /\ q > p => q \in S PROVE p \in S /\ (blank(p) => from[p] > p)
  <2>1. CASE blank(p)
    <3>1. p <= L /\ p + 1 \in Places /\ p + 1 > p
      BY <1>4, <2>1
    <3>2. from[p] = from[p + 1] /\ p + 1 \in S
      BY <1>45, <1>51, <2>1, <3>1 DEF Body
    <3> HIDE DEF S
    <3> QED BY <1>50, <3>1, <3>2
  <2>2. CASE ~blank(p) /\ try(p) # p
    <3>1. PICK q \in Places : q = try(p) /\ p <= L /\ q > p
      BY <1>3, <2>2
    <3>2. from[p] = from[q] /\ q \in S
      BY <1>45, <1>51, <2>2, <3>1 DEF Body
    <3> HIDE DEF S
    <3> QED BY <1>50, <2>2, <3>1, <3>2
  <2>3. CASE ~blank(p) /\ try(p) = p
    BY <1>45, <2>3 DEF Body
  <2> QED BY <2>1, <2>2, <2>3
<1>52. \A p \in Places : p \in S
  <2> HIDE DEF S
  <2>1. Backwards(L, S)
    BY <1>1, <1>51 DEF Backwards
  <2> QED BY <2>1, ForwardInduction
<1>53. from[i] \in Nat /\ from[i] >= i
  BY <1>52
<1>54. blank(i) => from[i] > i
  <2> HIDE DEF S
  <2> QED BY <1>51, <1>52
<1> QED BY <1>2, <1>53, <1>54 DEF blank

LEMMA StringsEnd ==
  ASSUME NEW s, Len(s) \in Nat, NEW i \in Places, NEW quote
  PROVE  StringEnd(s, i, quote) \in Places /\ StringEnd(s, i, quote) >= i
<1> USE DEF Places
<1>1. PICK L \in Nat : L = Len(s)
  OBVIOUS
<1> DEFINE V          == Places
           ends(p)    == CharAt(s, p) \in {quote, ""}
           hides(p)   == s[p] = "\\" /\ p + 1 <= Len(s)
           Body(f, p) == IF ends(p) THEN p ELSE IF hides(p) THEN f[p + 2] ELSE f[p + 1]
           Step(f)    == [p \in Places |-> Body(f, p)]
           from       == CHOOSE f : f = Step(f)
           G          == [p \in Places |-> [f \in [Places -> V] |-> Body(f, p)]]
<1>2. StringEnd(s, i, quote) = from[i]
  BY DEF StringEnd
<1>3. \A p \in Places : ~ends(p) => p <= L
  <2>1. \A p \in Places : CharAt(s, p) # "" => p <= L
    BY <1>1, NoCharBehind
  <2> QED BY <2>1
<1> HIDE DEF ends, hides
<1>41. \A p \in Places : \A f \in [Places -> V] : Body(f, p) \in V
  <2> SUFFICES ASSUME NEW p \in Places, NEW f \in [Places -> V] PROVE Body(f, p) \in V
    OBVIOUS
  <2>1. p + 1 \in Places /\ p + 2 \in Places
    OBVIOUS
  <2>2. f[p + 1] \in Places /\ f[p + 2] \in Places
    BY <2>1
  <2> QED BY <2>2
<1>42. ASSUME NEW p \in Places, NEW f, NEW g, \A q \in Places : p <= L /\ q > p => f[q] = g[q]
      PROVE  Body(f, p) = Body(g, p)
  <2>1. CASE ~ends(p)
    <3>1. p <= L /\ p + 1 \in Places /\ p + 1 > p /\ p + 2 \in Places /\ p + 2 > p
      BY <1>3, <2>1
    <3>2. f[p + 1] = g[p + 1] /\ f[p + 2] = g[p + 2]
      BY <1>42, <3>1
    <3> QED BY <2>1, <3>2
  <2> QED BY <2>1
<1> HIDE DEF Body
<1>43. \E f \in [Places -> V] : \A p \in Places : f[p] = Body(f, p)
  <2>1. G \in [Places -> [[Places -> V] -> V]] /\ \A p \in Places : \A f \in [Places -> V] : G[p][f] = Body(f, p)
    BY <1>41
  <2>2. V # {}
    OBVIOUS
  <2> HIDE DEF G, V
  <2>3. ASSUME NEW p \in Places, NEW f \in [Places -> V], NEW g \in [Places -> V],
               \A q \in Places : p <= L /\ q > p => f[q] = g[q]
        PROVE  G[p][f] = G[p][g]
    <3>1. Body(f, p) = Body(g, p)
      BY <1>42, <2>3
    <3> QED BY <2>1, <3>1
  <2>4. Forward(L, V, G)
    BY <1>1, <2>1, <2>2, <2>3 DEF Forward
  <2>5. Solved(Places, V, G)
    BY <2>4, ForwardRecursion
  <2> QED BY <2>1, <2>5 DEF Solved
<1>44. PICK f \in [Places -> V] : \A p \in Places : f[p] = Body(f, p)
  BY <1>43
<1>45. \A p \in Places : from[p] = Body(from, p)
  <2>1. f = Step(f)
    BY <1>44
  <2>2. from = Step(from)
    <3> HIDE DEF Step
    <3> QED BY <2>1
  <2> HIDE DEF from
  <2> QED BY <2>2
<1> HIDE DEF from
<1> DEFINE S == {p \in Places : from[p] \in Places /\ from[p] >= p}
<1>50. ASSUME NEW p \in Places, NEW q \in Places, q > p, q \in S, from[p] = from[q] PROVE p \in S
  <2>0. from[q] \in Places /\ from[q] >= q
    BY <1>50
  <2> HIDE DEF S
  <2>1. PICK x \in Places : x = from[q]
    BY <2>0
  <2>4. x >= q
    BY <2>0, <2>1
  <2>2. x >= p
    BY <1>50, <2>4
  <2>3. from[p] \in Places /\ from[p] >= p
    BY <1>50, <2>1, <2>2
  <2> QED BY <2>3 DEF S
<1>51. ASSUME NEW p \in Places, \A q \in Places : p <= L /\ q > p => q \in S PROVE p \in S
  <2>1. CASE ~ends(p)
    <3>1. p <= L /\ p + 1 \in Places /\ p + 1 > p /\ p + 2 \in Places /\ p + 2 > p
      BY <1>3, <2>1
    <3> HIDE DEF S
    <3>2. p + 1 \in S /\ p + 2 \in S
      BY <1>51, <3>1
    <3>3. from[p] = from[p + 1] \/ from[p] = from[p + 2]
      BY <1>45, <2>1 DEF Body
    <3> QED BY <1>50, <3>1, <3>2, <3>3
  <2>2. CASE ends(p)
    BY <1>45, <2>2 DEF Body
  <2> QED BY <2>1, <2>2
<1>52. \A p \in Places : p \in S
  <2> HIDE DEF S
  <2>1. Backwards(L, S)
    BY <1>1, <1>51 DEF Backwards
  <2> QED BY <2>1, ForwardInduction
<1> QED BY <1>2, <1>52

LEMMA ScansEnd ==
  ASSUME NEW s, NEW L \in Nat, L = Len(s), NEW p \in 1 .. L + 1
  PROVE  /\ ScanName(s, p) \in p .. L + 1 /\ (IsNameChar(CharAt(s, p)) => ScanName(s, p) > p)
         /\ DigitsEnd(s, p) \in p .. L + 1 /\ (IsDigit(CharAt(s, p)) => DigitsEnd(s, p) > p)
<1> USE DEF Places
<1> DEFINE names  == {q \in p .. L + 1 : ~IsNameChar(CharAt(s, q))}
           digits == {q \in p .. L + 1 : ~IsDigit(CharAt(s, q))}
<1>1. CharAt(s, L + 1) = "" /\ L + 1 \in p .. L + 1
  <2>1. L + 1 \in Places /\ L + 1 > L /\ L + 1 \in p .. L + 1
    OBVIOUS
  <2> QED BY <2>1, NoCharBehind
<1>2. ~IsDigit("") /\ ~IsNameChar("")
  <2>1. "" \notin DOMAIN DigitValue
    BY DEF DigitValue
  <2> QED BY <2>1 DEF IsNameChar, IsNameStart, IsDigit
<1>3. names \in SUBSET Nat /\ names # {} /\ digits \in SUBSET Nat /\ digits # {}
  <2>1. ~IsDigit(CharAt(s, L + 1)) /\ ~IsNameChar(CharAt(s, L + 1))
    BY <1>1, <1>2
  <2>2. L + 1 \in names /\ L + 1 \in digits
    BY <1>1, <2>1
  <2>3. p .. L + 1 \in SUBSET Nat
    OBVIOUS
  <2> QED BY <2>2, <2>3
<1> HIDE DEF names, digits
<1>4. Min(names) \in names /\ Min(digits) \in digits
  BY <1>3, FirstPlace
<1>5. ScanName(s, p) = Min(names) /\ DigitsEnd(s, p) = Min(digits)
  BY DEF ScanName, DigitsEnd, names, digits
<1>6. /\ Min(names) \in p .. L + 1 /\ ~IsNameChar(CharAt(s, Min(names)))
      /\ Min(digits) \in p .. L + 1 /\ ~IsDigit(CharAt(s, Min(digits)))
  BY <1>4 DEF names, digits
<1>7. PICK x \in p .. L + 1, y \in p .. L + 1 :
        x = Min(names) /\ y = Min(digits) /\ ~IsNameChar(CharAt(s, x)) /\ ~IsDigit(CharAt(s, y))
  BY <1>6
<1>8. (x = p \/ x > p) /\ (y = p \/ y > p)
  OBVIOUS
<1> QED BY <1>5, <1>7, <1>8

GoesOn(t, p) == t.end \in Places /\ t.end > p

LEMMA NumbersEnd ==
  ASSUME NEW s, NEW L \in Nat, L = Len(s), NEW p \in 1 .. L,
         \/ IsDigit(s[p])
         \/ s[p] = "-"
         \/ s[p] = "."
  PROVE  ScanNumberValue(s, p).end \in p + 1 .. L + 1
<1> USE DEF Places
<1> DEFINE signed == CharAt(s, p) \in {"-", "+"}
           start  == IF signed THEN p + 1 ELSE p
           point  == DigitsEnd(s, start)
           dotted == CharAt(s, point) = "."
           end    == IF dotted THEN DigitsEnd(s, point + 1) ELSE point
<1>1. ScanNumberValue(s, p).end = end
  BY DEF ScanNumberValue
<1>2. CharAt(s, p) = s[p]
  <2>1. ~(p > Len(s))
    OBVIOUS
  <2> QED BY <2>1 DEF CharAt
<1>3. start \in 1 .. L + 1 /\ start >= p /\ (signed => start = p + 1) /\ (~signed => start = p)
  <2> HIDE DEF signed
  <2> QED OBVIOUS
<1> HIDE DEF start
<1>4. point \in start .. L + 1 /\ (IsDigit(CharAt(s, start)) => point > start)
  BY <1>3, ScansEnd
<1> HIDE DEF point
<1>5. PICK x \in 1 .. L + 1, a \in p .. L + 1 : x = point /\ a = start /\ x >= a
  BY <1>3, <1>4
<1>6. dotted => x <= L
  <2>1. CharAt(s, x) # "" => x <= L
    <3>1. x \in Places
      OBVIOUS
    <3> HIDE DEF Places
    <3> QED BY <3>1, NoCharBehind
  <2>2. dotted => CharAt(s, x) # ""
    BY <1>5
  <2> QED BY <2>1, <2>2
<1>7. CASE dotted
  <2>1. x + 1 \in 1 .. L + 1
    BY <1>6, <1>7
  <2>2. DigitsEnd(s, x + 1) \in x + 1 .. L + 1
    BY <2>1, ScansEnd
  <2>3. end = DigitsEnd(s, x + 1)
    BY <1>5, <1>7
  <2> HIDE DEF end, dotted
  <2>4. x >= p
    BY <1>5
  <2>5. PICK y \in x + 1 .. L + 1 : y = DigitsEnd(s, x + 1)
    BY <2>2
  <2>6. y \in p + 1 .. L + 1
    BY <2>4, <2>5
  <2> QED BY <1>1, <2>3, <2>5, <2>6
<1>8. CASE ~dotted
  <2>1. end = x
    BY <1>5, <1>8
  <2>2. x > p
    <3>1. CASE signed
      <4>1. a = p + 1
        BY <1>3, <1>5, <3>1
      <4> QED BY <1>5, <4>1
    <3>2. CASE ~signed
      <4>1. a = p /\ CharAt(s, start) = s[p] /\ s[p] # "-"
        BY <1>2, <1>3, <1>5, <3>2
      <4>2. IsDigit(s[p]) \/ s[p] = "."
        BY <4>1
      <4>3. ASSUME s[p] = ".", x = p PROVE FALSE
        <5>1. CharAt(s, point) = s[p]
          BY <1>2, <1>5, <4>3
        <5> QED BY <1>8, <4>3, <5>1
      <4>4. IsDigit(s[p]) => point > start
        BY <1>4, <4>1
      <4>5. IsDigit(s[p]) => x > p
        BY <1>5, <4>1, <4>4
      <4>6. x # p => x > p
        BY <1>5, <4>1
      <4> QED BY <4>2, <4>3, <4>5, <4>6
    <3> QED BY <3>1, <3>2
  <2> QED BY <1>1, <2>1, <2>2
<1> QED BY <1>7, <1>8

(* Every token ends behind its start. *)
LEMMA TokensGoOn ==
  ASSUME NEW s, NEW L \in Nat, L = Len(s), NEW p \in 1 .. L
  PROVE  GoesOn(NextToken(s, p), p)
<1> USE DEF Places
<1>1. CharAt(s, p) = s[p]
  <2>1. ~(p > Len(s))
    OBVIOUS
  <2> QED BY <2>1 DEF CharAt
<1>2. p \in 1 .. L + 1 /\ p + 1 \in 1 .. L + 1 /\ p \in Places /\ p + 1 \in Places
  OBVIOUS
<1>3. IsWhitespace(s[p]) => GoesOn(ScanWhitespace(s, p), p)
  <2>1. IsWhitespace(s[p]) => WhitespaceEnd(s, p) \in Places /\ WhitespaceEnd(s, p) > p
    BY <1>1, <1>2, BlanksEnd
  <2> QED BY <2>1 DEF GoesOn, ScanWhitespace, Scanned
<1>4. GoesOn(ScanString(s, p), p)
  <2>1. PICK e \in Places : e = StringEnd(s, p + 1, s[p]) /\ e >= p + 1
    BY <1>2, StringsEnd
  <2>2. e \in Places /\ e > p /\ e + 1 \in Places /\ e + 1 > p
    BY <2>1
  <2>3. ScanString(s, p).end = IF e > Len(s) THEN e ELSE e + 1
    BY <2>1 DEF ScanString, Scanned
  <2> QED BY <2>2, <2>3 DEF GoesOn
<1>5. PICK e \in p + 1 .. L + 1 : e = ScanName(s, p + 1)
  BY <1>2, ScansEnd
<1>6. GoesOn(ScanHash(s, p), p) /\ GoesOn(ScanAtKeyword(s, p), p)
  <2>1. ScanHash(s, p).end = e /\ ScanAtKeyword(s, p).end = e
    BY <1>5 DEF ScanHash, ScanAtKeyword, Scanned
  <2>2. e \in Places /\ e > p
    OBVIOUS
  <2> QED BY <2>1, <2>2 DEF GoesOn
<1>7. IsNameChar(s[p]) => GoesOn(ScanIdentLike(s, p), p)
  <2>1. PICK b \in p .. L + 1 : b = ScanName(s, p)
    BY <1>2, ScansEnd
  <2>2. IsNameChar(s[p]) => b > p
    BY <1>1, <1>2, <2>1, ScansEnd
  <2>3. ScanIdentLike(s, p).end \in {b, b + 1}
    BY <2>1 DEF ScanIdentLike, Scanned
  <2>4. b > p => b \in Places /\ b + 1 \in Places /\ b + 1 > p
    OBVIOUS
  <2> QED BY <2>2, <2>3, <2>4 DEF GoesOn
<1>8. IsDigit(s[p]) \/ s[p] = "-" \/ s[p] = "." => GoesOn(ScanNumeric(s, p), p)
  <2> SUFFICES ASSUME IsDigit(s[p]) \/ s[p] = "-" \/ s[p] = "." PROVE GoesOn(ScanNumeric(s, p), p)
    OBVIOUS
  <2> DEFINE n == ScanNumberValue(s, p)
  <2>1. PICK b \in p + 1 .. L + 1 : b = n.end
    BY NumbersEnd
  <2>2. PICK d \in b .. L + 1 : d = ScanName(s, b)
    <3>1. b \in 1 .. L + 1
      OBVIOUS
    <3> QED BY <3>1, ScansEnd
  <2> HIDE DEF n
  <2>3. ScanNumeric(s, p).end \in {b, b + 1, d}
    <3>1. CASE CharAt(s, n.end) = "%"
      BY <2>1, <2>2, <3>1 DEF ScanNumeric, Scanned, n
    <3>2. CASE CharAt(s, n.end) # "%" /\ IsNameStart(CharAt(s, n.end))
      BY <2>1, <2>2, <3>2 DEF ScanNumeric, Scanned, n
    <3>3. CASE CharAt(s, n.end) # "%" /\ ~IsNameStart(CharAt(s, n.end))
      BY <2>1, <2>2, <3>3 DEF ScanNumeric, Scanned, n
    <3> QED BY <3>1, <3>2, <3>3
  <2>4. \A x \in {b, b + 1, d} : x \in Places /\ x > p
    OBVIOUS
  <2> QED BY <2>3, <2>4 DEF GoesOn
<1>9. GoesOn(ScanSign(s, p), p)
  <2>1. ScanSign(s, p).end = p + 1
    BY DEF ScanSign, Scanned
  <2> QED BY <2>1 DEF GoesOn
<1>10. IsNameStart(s[p]) \/ s[p] = "-" => IsNameChar(s[p])
  BY DEF IsNameChar
<1> HIDE DEF GoesOn, Places
<1> QED BY <1>3, <1>4, <1>6, <1>7, <1>8, <1>9, <1>10 DEF NextToken

(* Whatever the text: its tokens come to an end. *)
LEMMA TokensEnd ==
  ASSUME NEW s, Len(s) \in Nat
  PROVE  Len(Tokens(s)) \in Nat
<1> USE DEF Places
<1>1. PICK L \in Nat : L = Len(s)
  OBVIOUS
<1> DEFINE at(p)  == SkipComments(s, p)
           tok(p) == NextToken(s, p).tok
           end(p) == NextToken(s, p).end
<1> DEFINE V          == Seq({tok(p) : p \in Places})
           Body(f, p) == IF at(p) > Len(s) THEN <<>> ELSE <<tok(at(p))>> \o f[end(at(p))]
           Step(f)    == [p \in Places |-> Body(f, p)]
           from       == CHOOSE f : f = Step(f)
           G          == [p \in Places |-> [f \in [Places -> V] |-> Body(f, p)]]
<1>2. Tokens(s) = from[1]
  BY DEF Tokens
<1>3. \A p \in Places : at(p) \in Places /\ at(p) >= p
  BY <1>1, CommentsEnd
<1>4. \A p \in 1 .. L : end(p) \in Places /\ end(p) > p
  BY <1>1, TokensGoOn DEF GoesOn
<1>5. ASSUME NEW p \in Places, ~(at(p) > Len(s)) PROVE at(p) \in Places /\ end(at(p)) \in Places /\ p <= L /\ end(at(p)) > p
  <2>1. PICK q \in Places : q = at(p) /\ q >= p /\ q <= L
    BY <1>1, <1>3, <1>5
  <2>2. PICK r \in Places : r = end(q) /\ r > q
    BY <1>4, <2>1
  <2> HIDE DEF at, end
  <2> QED BY <2>1, <2>2
<1> HIDE DEF at, tok, end
<1>41. \A p \in Places : \A f \in [Places -> V] : Body(f, p) \in V
  <2> SUFFICES ASSUME NEW p \in Places, NEW f \in [Places -> V] PROVE Body(f, p) \in V
    OBVIOUS
  <2>1. CASE at(p) > Len(s)
    <3>1. <<>> \in V
      BY EmptySeq
    <3> HIDE DEF V
    <3> QED BY <2>1, <3>1
  <2>2. CASE ~(at(p) > Len(s))
    <3>1. at(p) \in Places /\ end(at(p)) \in Places
      BY <1>5, <2>2
    <3>2. f[end(at(p))] \in V
      BY <3>1
    <3>3. <<tok(at(p))>> \in V
      BY <3>1
    <3>4. <<tok(at(p))>> \o f[end(at(p))] \in V
      BY <3>2, <3>3, ConcatProperties
    <3> HIDE DEF V
    <3> QED BY <2>2, <3>4
  <2> QED BY <2>1, <2>2
<1>42. ASSUME NEW p \in Places, NEW f, NEW g, \A q \in Places : p <= L /\ q > p => f[q] = g[q]
      PROVE  Body(f, p) = Body(g, p)
  <2>1. CASE ~(at(p) > Len(s))
    <3>1. f[end(at(p))] = g[end(at(p))]
      BY <1>5, <1>42, <2>1
    <3> QED BY <2>1, <3>1
  <2>2. CASE at(p) > Len(s)
    BY <2>2
  <2> QED BY <2>1, <2>2
<1> HIDE DEF Body
<1>43. \E f \in [Places -> V] : \A p \in Places : f[p] = Body(f, p)
  <2>1. G \in [Places -> [[Places -> V] -> V]] /\ \A p \in Places : \A f \in [Places -> V] : G[p][f] = Body(f, p)
    BY <1>41
  <2>2. V # {}
    BY EmptySeq
  <2> HIDE DEF G, V
  <2>3. ASSUME NEW p \in Places, NEW f \in [Places -> V], NEW g \in [Places -> V],
               \A q \in Places : p <= L /\ q > p => f[q] = g[q]
        PROVE  G[p][f] = G[p][g]
    <3>1. Body(f, p) = Body(g, p)
      BY <1>42, <2>3
    <3> QED BY <2>1, <3>1
  <2>4. Forward(L, V, G)
    BY <1>1, <2>1, <2>2, <2>3 DEF Forward
  <2>5. Solved(Places, V, G)
    BY <2>4, ForwardRecursion
  <2> QED BY <2>1, <2>5 DEF Solved
<1>44. PICK f \in [Places -> V] : \A p \in Places : f[p] = Body(f, p)
  BY <1>43
<1>45. \A p \in Places : from[p] = Body(from, p)
  <2>1. f = Step(f)
    BY <1>44
  <2>2. from = Step(from)
    <3> HIDE DEF Step
    <3> QED BY <2>1
  <2> HIDE DEF from
  <2> QED BY <2>2
<1> HIDE DEF from
<1> DEFINE Same == {p \in Places : from[p] = f[p]}
<1>46. ASSUME NEW p \in Places, \A q \in Places : p <= L /\ q > p => q \in Same PROVE p \in Same
  <2>1. \A q \in Places : p <= L /\ q > p => from[q] = f[q]
    BY <1>46
  <2>2. Body(from, p) = Body(f, p)
    BY <1>42, <2>1
  <2> QED BY <1>44, <1>45, <2>2
<1>47. \A p \in Places : from[p] = f[p]
  <2> HIDE DEF Same
  <2>1. Backwards(L, Same)
    BY <1>1, <1>46 DEF Backwards
  <2>2. \A p \in Places : p \in Same
    BY <2>1, ForwardInduction
  <2> QED BY <2>2 DEF Same
<1>48. f[1] \in V
  <2>1. 1 \in Places
    OBVIOUS
  <2> HIDE DEF V
  <2> QED BY <1>44, <2>1
<1>49. Tokens(s) \in V
  BY <1>2, <1>47, <1>48
<1> QED BY <1>49

-----------------------------------------------------------------------------
(* The parser: what it reads is behind what it has read.                   *)

NotBefore(q, p) == q \in Places /\ q >= p
Behind(q, p)    == q \in Places /\ q > p

LEMMA PlacesAreOrdered ==
  ASSUME NEW p \in Places, NEW q
  PROVE  /\ NotBefore(p, p) /\ Behind(p + 1, p)
         /\ Behind(q, p) => NotBefore(q, p) /\ NotBefore(q, p + 1)
         /\ NotBefore(q, p + 1) => Behind(q, p)
         /\ \A r : /\ NotBefore(q, p) /\ NotBefore(r, q) => NotBefore(r, p)
                   /\ NotBefore(q, p) /\ Behind(r, q) => Behind(r, p)
                   /\ Behind(q, p) /\ NotBefore(r, q) => Behind(r, p)
                   /\ Behind(q, p) /\ Behind(r, q) => Behind(r, p)
BY DEF Places, NotBefore, Behind

(* The next token, and the next that is no blank. *)
LEMMA Onwards ==
  ASSUME NEW ts, NEW i \in Places, NEW k, NotBefore(k, i)
  PROVE  /\ k \in Places /\ k + 1 \in Places /\ NotBefore(k + 1, i) /\ Behind(k + 1, i)
         /\ NotBefore(NonWS(ts, k), i) /\ NotBefore(NonWS(ts, k + 1), i)
BY DEF Places, NonWS, NotBefore, Behind

LEMMA NoBlankBefore ==
  ASSUME NEW ts, NEW p \in Places
  PROVE  NotBefore(NonWS(ts, p), p) /\ NonWS(ts, p) \in Places /\ p + 1 \in Places
BY DEF Places, NonWS, NotBefore

LEMMA NoTokenBehind ==
  ASSUME NEW ts, NEW L \in Nat, L = Len(ts), NEW p \in Places
  PROVE  (p > L => At(ts, p) = Eof) /\ (At(ts, p).type # "eof" => p <= L)
<1>1. p > L => At(ts, p) = Eof
  BY DEF At
<1>2. Eof.type = "eof"
  BY DEF Eof, Sign, Tok
<1>3. p > L \/ p <= L
  BY DEF Places
<1> QED BY <1>1, <1>2, <1>3

LEMMA SeqIsSeq ==
  ASSUME NEW X, NEW s \in Seq(X)
  PROVE  IsSeq(s) /\ \A i \in 1 .. Len(s) : s[i] \in X
<1>1. Len(s) \in Nat /\ s \in [1 .. Len(s) -> X]
  BY LenProperties
<1> QED BY <1>1 DEF IsSeq

(* What joined sequences consist of. *)
LEMMA SeqsJoin ==
  ASSUME NEW s, NEW t, IsSeq(s), IsSeq(t)
  PROVE  /\ IsSeq(s \o t) /\ Len(s \o t) = Len(s) + Len(t)
         /\ \A i \in 1 .. Len(s \o t) : \/ \E k \in 1 .. Len(s) : (s \o t)[i] = s[k]
                                        \/ \E k \in 1 .. Len(t) : (s \o t)[i] = t[k]
<1>1. PICK m \in Nat, n \in Nat : m = Len(s) /\ n = Len(t)
  BY DEF IsSeq
<1>2. s = [i \in 1 .. m |-> s[i]] /\ t = [i \in 1 .. n |-> t[i]]
  BY <1>1 DEF IsSeq
<1> DEFINE X == {s[i] : i \in 1 .. m} \cup {t[i] : i \in 1 .. n}
<1>3. s \in Seq(X) /\ t \in Seq(X)
  <2>1. s \in [1 .. m -> X] /\ t \in [1 .. n -> X]
    <3>1. \A i \in 1 .. m : s[i] \in X
      OBVIOUS
    <3>2. \A i \in 1 .. n : t[i] \in X
      OBVIOUS
    <3> HIDE DEF X
    <3> QED BY <1>2, <3>1, <3>2
  <2> HIDE DEF X
  <2> QED BY <2>1, SeqDef
<1> HIDE DEF X
<1>4. /\ s \o t \in Seq(X) /\ Len(s \o t) = m + n
      /\ \A i \in 1 .. m + n : (s \o t)[i] = IF i <= m THEN s[i] ELSE t[i - m]
  BY <1>1, <1>3, ConcatProperties
<1>5. IsSeq(s \o t)
  BY <1>4, SeqIsSeq
<1>6. ASSUME NEW i \in 1 .. m + n
      PROVE  (\E k \in 1 .. m : (s \o t)[i] = s[k]) \/ \E k \in 1 .. n : (s \o t)[i] = t[k]
  <2>1. CASE i <= m
    <3>1. i \in 1 .. m /\ (s \o t)[i] = s[i]
      BY <1>4, <2>1
    <3> QED BY <3>1
  <2>2. CASE ~(i <= m)
    <3>1. i - m \in 1 .. n /\ (s \o t)[i] = t[i - m]
      BY <1>4, <2>2
    <3> QED BY <3>1
  <2> QED BY <2>1, <2>2
<1> QED BY <1>1, <1>4, <1>5, <1>6

LEMMA SeqGrows ==
  ASSUME NEW s, IsSeq(s), NEW x
  PROVE  /\ IsSeq(Append(s, x)) /\ Len(Append(s, x)) = Len(s) + 1 /\ Append(s, x)[Len(s) + 1] = x
         /\ \A i \in 1 .. Len(s) : Append(s, x)[i] = s[i]
<1>1. PICK m \in Nat : m = Len(s)
  BY DEF IsSeq
<1>2. s = [i \in 1 .. m |-> s[i]]
  BY <1>1 DEF IsSeq
<1> DEFINE X == {s[i] : i \in 1 .. m} \cup {x}
<1>3. s \in Seq(X) /\ x \in X
  <2>1. s \in [1 .. m -> X]
    <3>1. \A i \in 1 .. m : s[i] \in X
      OBVIOUS
    <3> HIDE DEF X
    <3> QED BY <1>2, <3>1
  <2>2. x \in X
    OBVIOUS
  <2> HIDE DEF X
  <2> QED BY <2>1, <2>2, SeqDef
<1> HIDE DEF X
<1>4. /\ Append(s, x) \in Seq(X) /\ Len(Append(s, x)) = m + 1 /\ Append(s, x)[m + 1] = x
      /\ \A i \in 1 .. m : Append(s, x)[i] = s[i]
  BY <1>1, <1>3, AppendProperties
<1>5. IsSeq(Append(s, x))
  BY <1>4, SeqIsSeq
<1> QED BY <1>1, <1>4, <1>5

LEMMA TupleIsSeq ==
  /\ IsSeq(<<>>) /\ Len(<<>>) = 0
  /\ \A a : IsSeq(<<a>>) /\ Len(<<a>>) = 1
  /\ \A a, b, c : IsSeq(<<a, b, c>>) /\ Len(<<a, b, c>>) = 3
  /\ \A a, b, c, d : IsSeq(<<a, b, c, d>>) /\ Len(<<a, b, c, d>>) = 4
<1>0. IsSeq(<<>>) /\ Len(<<>>) = 0
  <2>1. <<>> \in Seq({})
    BY EmptySeq
  <2> QED BY <2>1, SeqIsSeq
<1>1. ASSUME NEW a PROVE IsSeq(<<a>>) /\ Len(<<a>>) = 1
  <2>1. <<a>> \in Seq({a})
    OBVIOUS
  <2> QED BY <2>1, SeqIsSeq
<1>2. ASSUME NEW a, NEW b, NEW c PROVE IsSeq(<<a, b, c>>) /\ Len(<<a, b, c>>) = 3
  <2>1. <<a, b, c>> \in Seq({a, b, c})
    OBVIOUS
  <2> QED BY <2>1, SeqIsSeq
<1>3. ASSUME NEW a, NEW b, NEW c, NEW d PROVE IsSeq(<<a, b, c, d>>) /\ Len(<<a, b, c, d>>) = 4
  <2>1. <<a, b, c, d>> \in Seq({a, b, c, d})
    OBVIOUS
  <2> QED BY <2>1, SeqIsSeq
<1> QED BY <1>0, <1>1, <1>2, <1>3

-----------------------------------------------------------------------------
(* Declarations.                                                           *)

(* Declarations of properties, before it is known how important they are.  *)
IsBare(decls) == IsSeq(decls) /\ \A k \in 1 .. Len(decls) : decls[k].prop \in Properties
(* What an attempt at a declaration leaves, when it began at i.            *)
IsDeclared(d, i) == NotBefore(d.at, i) /\ IsSeq(d.out) /\ IsDecls(d.out)
IsEnd(e, i) == NotBefore(e.at, i) /\ e.important \in BOOLEAN

LEMMA GivenAreBare ==
  ASSUME NEW decls, IsBare(decls)
  PROVE  IsBare(Given(decls))
<1>1. PICK L \in Nat : L = Len(decls)
  BY DEF IsBare, IsSeq
<1> DEFINE X          == {decls[k] : k \in 1 .. L}
           D          == 0 .. L
           V          == Seq(X)
           none(k)    == decls[k].value.type = "none"
           Body(f, k) == IF k = 0 THEN <<>> ELSE IF none(k) THEN f[k - 1] ELSE Append(f[k - 1], decls[k])
           Step(f)    == [k \in D |-> Body(f, k)]
           upTo       == CHOOSE f : f = Step(f)
           G          == [k \in D |-> [f \in [D -> V] |-> Body(f, k)]]
           measure    == [k \in D |-> k]
<1>2. Given(decls) = upTo[L]
  BY <1>1 DEF Given
<1>3. <<>> \in V
  BY EmptySeq
<1>4. \A k \in 1 .. L : decls[k] \in X
  OBVIOUS
<1>5. \A k \in D : k # 0 => k - 1 \in D /\ k - 1 < k /\ k \in 1 .. L
  OBVIOUS
<1> HIDE DEF X, none
<1>6. \A k \in D : \A f \in [D -> V] : Body(f, k) \in V
  <2> SUFFICES ASSUME NEW k \in D, NEW f \in [D -> V] PROVE Body(f, k) \in V
    OBVIOUS
  <2>1. CASE k = 0
    BY <1>3, <2>1
  <2>2. CASE k # 0
    <3>1. f[k - 1] \in V /\ decls[k] \in X
      BY <1>4, <1>5, <2>2
    <3>2. Append(f[k - 1], decls[k]) \in V
      BY <3>1, AppendProperties
    <3> HIDE DEF V
    <3> QED BY <2>2, <3>1, <3>2
  <2> QED BY <2>1, <2>2
<1>7. ASSUME NEW k \in D, NEW f, NEW g, \A e \in D : e < k => f[e] = g[e]
      PROVE  Body(f, k) = Body(g, k)
  <2>1. k # 0 => f[k - 1] = g[k - 1]
    BY <1>5, <1>7
  <2> QED BY <2>1
<1> HIDE DEF Body, V
<1>8. \E f \in [D -> V] : \A k \in D : f[k] = Body(f, k)
  <2>1. G \in [D -> [[D -> V] -> V]] /\ \A k \in D : \A f \in [D -> V] : G[k][f] = Body(f, k)
    BY <1>6
  <2>2. measure \in [D -> 0 .. L] /\ \A k \in D : measure[k] = k
    OBVIOUS
  <2> HIDE DEF G, measure, D
  <2>3. ASSUME NEW k \in D, NEW f \in [D -> V], NEW g \in [D -> V],
               \A e \in D : measure[e] < measure[k] => f[e] = g[e]
        PROVE  G[k][f] = G[k][g]
    <3>1. \A e \in D : e < k => f[e] = g[e]
      BY <2>2, <2>3
    <3>2. Body(f, k) = Body(g, k)
      BY <1>7, <3>1
    <3> QED BY <2>1, <3>2
  <2>4. V # {}
    BY <1>3
  <2>5. IsRecursion(D, V, L, measure, G)
    BY <2>1, <2>2, <2>3, <2>4 DEF IsRecursion
  <2>6. Solved(D, V, G)
    BY <2>5, Recursion
  <2> QED BY <2>1, <2>6 DEF Solved
<1>9. PICK f \in [D -> V] : \A k \in D : f[k] = Body(f, k)
  BY <1>8
<1>10. \A k \in D : upTo[k] = Body(upTo, k)
  <2>1. f = Step(f)
    BY <1>9
  <2>2. upTo = Step(upTo)
    <3> HIDE DEF Step
    <3> QED BY <2>1
  <2> HIDE DEF upTo
  <2> QED BY <2>2
<1> HIDE DEF upTo
<1> DEFINE S == {k \in D : upTo[k] \in V}
<1>11. 0 \in S
  BY <1>3, <1>10 DEF Body
<1>12. ASSUME NEW k \in 0 .. L, k < L, k \in S PROVE k + 1 \in S
  <2>1. k + 1 \in D /\ k + 1 # 0 /\ (k + 1) - 1 = k /\ k + 1 \in 1 .. L
    BY <1>12
  <2>2. upTo[k + 1] = IF none(k + 1) THEN upTo[k] ELSE Append(upTo[k], decls[k + 1])
    BY <1>10, <2>1 DEF Body
  <2>3. upTo[k] \in V /\ decls[k + 1] \in X
    BY <1>4, <1>12, <2>1
  <2>4. Append(upTo[k], decls[k + 1]) \in V
    BY <2>3, AppendProperties DEF V
  <2> QED BY <2>1, <2>2, <2>3, <2>4
<1>13. L \in S
  <2> HIDE DEF S
  <2>1. \A k \in 0 .. L : k < L /\ k \in S => k + 1 \in S
    BY <1>12
  <2>2. \A k \in 0 .. L : k \in S
    BY <1>11, <2>1, Upwards
  <2> QED BY <2>2
<1>14. Given(decls) \in Seq(X)
  BY <1>2, <1>13 DEF V
<1>15. \A x \in X : x.prop \in Properties
  BY <1>1 DEF IsBare, X
<1> QED BY <1>14, <1>15, SeqIsSeq DEF IsBare

LEMMA AcceptedIsDeclared ==
  ASSUME NEW i, NEW end, IsEnd(end, i), NEW decls, IsBare(decls)
  PROVE  IsDeclared(Accepted(end, decls), i)
<1>1. PICK L \in Nat : L = Len(decls) /\ \A k \in 1 .. L : decls[k].prop \in Properties
  BY DEF IsBare, IsSeq
<1> DEFINE out == [k \in 1 .. L |-> Decl(decls[k].prop, decls[k].value, end.important)]
<1>2. Accepted(end, decls).out = out /\ Accepted(end, decls).at = end.at
  BY <1>1 DEF Accepted
<1>3. \A k \in 1 .. L : out[k].prop \in Properties /\ out[k].important \in BOOLEAN
  BY <1>1 DEF Decl, IsEnd
<1>4. Len(out) = L /\ out = [k \in 1 .. L |-> out[k]]
  <2>1. out = [k \in 1 .. L |-> out[k]]
    OBVIOUS
  <2> HIDE DEF out
  <2> QED BY <2>1, IndexedIsSeq
<1> HIDE DEF out
<1> QED BY <1>2, <1>3, <1>4 DEF IsDeclared, IsDecls, IsSeq, IsEnd

LEMMA RejectedIsDeclared ==
  ASSUME NEW i, NEW k, NotBefore(k, i)
  PROVE  IsDeclared(Rejected(k), i)
BY TupleIsSeq DEF IsDeclared, IsDecls, Rejected

-----------------------------------------------------------------------------
(* Values, and where a declaration ends.                                   *)

(* The properties that shorthands stand for. *)
LEMMA ShorthandsStandForProperties ==
  /\ \A name \in BoxShorthands : \A k \in 1 .. 4 : SidesOf[name][k] \in Properties
  /\ \A name \in DOMAIN BorderOf : \A k \in 1 .. 3 : BorderOf[name][k] \in Properties
  /\ {"flex-grow", "flex-shrink", "flex-basis"} \cup TransitionProperties \subseteq Properties
<1> DEFINE sides(name) == ToSet(SidesOf[name])
<1>1. /\ sides("margin") \cup sides("padding") \cup sides("border-width") \subseteq LengthProperties
      /\ sides("border-color") \subseteq ColorProperties /\ sides("border-style") \subseteq EnumProperties
  BY DEF LengthProperties, ColorProperties, EnumProperties
<1>2. /\ LengthProperties \subseteq Properties /\ ColorProperties \subseteq Properties
      /\ EnumProperties \subseteq Properties /\ NumberProperties \subseteq Properties
      /\ TransitionProperties \subseteq Properties
  BY DEF Properties
<1>3. \A name \in BoxShorthands : sides(name) \subseteq Properties
  <2> HIDE DEF sides
  <2> QED BY <1>1, <1>2 DEF BoxShorthands
<1>4. /\ SidesOf["margin"] = <<"margin-top", "margin-right", "margin-bottom", "margin-left">>
      /\ SidesOf["padding"] = <<"padding-top", "padding-right", "padding-bottom", "padding-left">>
      /\ SidesOf["border-width"] = <<"border-top-width", "border-right-width", "border-bottom-width",
                                     "border-left-width">>
      /\ SidesOf["border-style"] = <<"border-top-style", "border-right-style", "border-bottom-style",
                                     "border-left-style">>
      /\ SidesOf["border-color"] = <<"border-top-color", "border-right-color", "border-bottom-color",
                                     "border-left-color">>
  BY DEF SidesOf, BoxShorthands
<1>5. \A name \in BoxShorthands : DOMAIN SidesOf[name] = 1 .. 4
  BY <1>4 DEF BoxShorthands
<1>6. \A name \in BoxShorthands : \A k \in 1 .. 4 : SidesOf[name][k] \in Properties
  <2> TAKE name \in BoxShorthands
  <2> TAKE k \in 1 .. 4
  <2>1. SidesOf[name][k] \in sides(name)
    BY <1>5 DEF ToSet
  <2> HIDE DEF sides
  <2> QED BY <1>3, <2>1
<1>7. {"border-top-width", "border-right-width", "border-bottom-width", "border-left-width"} \subseteq Properties
  BY <1>4, <1>6 DEF BoxShorthands
<1>8. {"border-top-style", "border-right-style", "border-bottom-style", "border-left-style"} \subseteq Properties
  BY <1>4, <1>6 DEF BoxShorthands
<1>9. {"border-top-color", "border-right-color", "border-bottom-color", "border-left-color"} \subseteq Properties
  BY <1>4, <1>6 DEF BoxShorthands
<1>10. /\ BorderOf["border-top"] = <<"border-top-width", "border-top-style", "border-top-color">>
       /\ BorderOf["border-right"] = <<"border-right-width", "border-right-style", "border-right-color">>
       /\ BorderOf["border-bottom"] = <<"border-bottom-width", "border-bottom-style", "border-bottom-color">>
       /\ BorderOf["border-left"] = <<"border-left-width", "border-left-style", "border-left-color">>
       /\ DOMAIN BorderOf = {"border-top", "border-right", "border-bottom", "border-left"}
  BY DEF BorderOf
<1>11. \A name \in DOMAIN BorderOf : \A k \in 1 .. 3 : BorderOf[name][k] \in Properties
  BY <1>7, <1>8, <1>9, <1>10
<1>12. {"flex-grow", "flex-shrink"} \subseteq NumberProperties /\ "flex-basis" \in LengthProperties
  BY DEF NumberProperties, LengthProperties
<1> QED BY <1>2, <1>6, <1>11, <1>12

LEMMA EndsAreEnds ==
  ASSUME NEW ts, NEW i \in Places, NEW j, NotBefore(j, i)
  PROVE  NotBefore(SkipSemicolon(ts, j), i) /\ IsEnd(ParseEnd(ts, j), i)
<1>1. \A m : NotBefore(m, i) => NotBefore(SkipSemicolon(ts, m), i)
  BY Onwards DEF SkipSemicolon
<1> DEFINE k == NonWS(ts, j)
           w == NonWS(ts, k + 1)
<1>2. NotBefore(k, i) /\ NotBefore(w, i) /\ NotBefore(w + 1, i)
  <2>1. NotBefore(k, i)
    BY Onwards
  <2> HIDE DEF k
  <2> QED BY <2>1, Onwards
<1>3. Is(At(ts, w), "important") \in BOOLEAN
  BY DEF Is
<1>4. ParseEnd(ts, j) = IF IsDelim(At(ts, k), "!")
                        THEN [important |-> Is(At(ts, w), "important"), at |-> SkipSemicolon(ts, w + 1)]
                        ELSE [important |-> FALSE, at |-> SkipSemicolon(ts, k)]
  BY DEF ParseEnd
<1> HIDE DEF k, w
<1>5. /\ NotBefore(SkipSemicolon(ts, j), i) /\ NotBefore(SkipSemicolon(ts, w + 1), i)
      /\ NotBefore(SkipSemicolon(ts, k), i)
  BY <1>1, <1>2
<1>6. CASE IsDelim(At(ts, k), "!")
  <2>1. ParseEnd(ts, j).important = Is(At(ts, w), "important") /\ ParseEnd(ts, j).at = SkipSemicolon(ts, w + 1)
    BY <1>4, <1>6
  <2> QED BY <1>3, <1>5, <2>1 DEF IsEnd
<1>7. CASE ~IsDelim(At(ts, k), "!")
  <2>1. ParseEnd(ts, j).important = FALSE /\ ParseEnd(ts, j).at = SkipSemicolon(ts, k)
    BY <1>4, <1>7
  <2> QED BY <1>5, <2>1 DEF IsEnd
<1> QED BY <1>5, <1>6, <1>7

LEMMA ValuesGoOn ==
  ASSUME NEW ts, NEW i \in Places, NEW j, NotBefore(j, i)
  PROVE  /\ NotBefore(ParseLengthOrPercent(ts, j).at, i) /\ NotBefore(ParseColor(ts, j).at, i)
         /\ \A prop : NotBefore(ParseValue(ts, j, prop).at, i)
<1>1. NotBefore(NonWS(ts, j), i) /\ NotBefore(NonWS(ts, j) + 1, i)
  <2>1. NotBefore(NonWS(ts, j), i)
    BY Onwards
  <2> QED BY <2>1, Onwards
<1>2. ParseLengthOrPercent(ts, j).at = NonWS(ts, j) + 1
  BY DEF ParseLengthOrPercent
<1>3. ASSUME NEW k, NotBefore(k, i) PROVE NotBefore(FunctionColor(ts, k).at, i)
  <2> DEFINE redAt   == NonWS(ts, k + 1)
             greenAt == NonWS(ts, NonWS(ts, redAt + 1) + 1)
             blueAt  == NonWS(ts, NonWS(ts, greenAt + 1) + 1)
             alphaAt == NonWS(ts, NonWS(ts, blueAt + 1) + 1)
             last    == IF Says(ts[k], "rgba") THEN alphaAt ELSE blueAt
             close   == NonWS(ts, last + 1)
  <2>0. \A m : NotBefore(m, i) => /\ NotBefore(NonWS(ts, m + 1), i)
                                  /\ NotBefore(NonWS(ts, NonWS(ts, m + 1) + 1), i)
    BY Onwards
  <2>1. FunctionColor(ts, k).at = IF At(ts, close).type = ")" THEN close + 1 ELSE close
    BY DEF FunctionColor
  <2>2. NotBefore(redAt, i)
    BY <1>3, <2>0
  <2> HIDE DEF redAt
  <2>3. NotBefore(greenAt, i)
    BY <2>0, <2>2
  <2> HIDE DEF greenAt
  <2>4. NotBefore(blueAt, i)
    BY <2>0, <2>3
  <2> HIDE DEF blueAt
  <2>5. NotBefore(alphaAt, i)
    BY <2>0, <2>4
  <2> HIDE DEF alphaAt
  <2>6. NotBefore(close, i)
    BY <2>0, <2>4, <2>5
  <2> HIDE DEF close
  <2> QED BY <2>1, <2>6, Onwards
<1>4. NotBefore(ParseColor(ts, j).at, i)
  <2>1. PICK k : k = NonWS(ts, j) /\ NotBefore(k, i) /\ NotBefore(k + 1, i)
    BY <1>1
  <2>2. NotBefore(FunctionColor(ts, k).at, i)
    BY <1>3, <2>1
  <2>3. ParseColor(ts, j).at \in {k + 1, FunctionColor(ts, k).at}
    <3>1. CASE At(ts, k).type = "function"
      BY <2>1, <3>1 DEF ParseColor
    <3>2. CASE At(ts, k).type # "function"
      BY <2>1, <3>2 DEF ParseColor
    <3> QED BY <3>1, <3>2
  <2> QED BY <2>1, <2>2, <2>3
<1>5. ASSUME NEW prop PROVE ParseEnumValue(ts, j, prop).at = NonWS(ts, j) + 1
  BY DEF ParseEnumValue
<1>6. ASSUME NEW prop PROVE ParseValue(ts, j, prop).at \in {j, NonWS(ts, j) + 1, ParseColor(ts, j).at}
  BY <1>2, <1>5 DEF ParseValue
<1> QED BY <1>1, <1>2, <1>4, <1>6

LEMMA ValuesEnd ==
  ASSUME NEW ts, Len(ts) \in Nat, NEW i \in Places, NEW parse,
         \A k \in 1 .. Len(ts) : NotBefore(parse[k].at, k)
  PROVE  NotBefore(Values(ts, i, parse).at, i)
<1>1. PICK L \in Nat : L = Len(ts)
  OBVIOUS
<1> DEFINE isTurn(v) == v = [vals |-> v.vals, at |-> v.at, more |-> v.more] /\ NotBefore(v.at, i)
           taken(v, p) == [vals |-> IF p.value.type = "none" THEN v.vals ELSE Append(v.vals, p.value),
                           at |-> p.at, more |-> p.value.type # "none"]
           another(v) ==
             LET k == NonWS(ts, v.at)
             IN  CASE ~v.more                              -> v
                   [] v.more /\ EndsValue(At(ts, k))       -> [v EXCEPT !.at = k, !.more = FALSE]
                   [] v.more /\ ~EndsValue(At(ts, k))      -> taken(v, parse[k])
           first      == [vals |-> <<>>, at |-> i, more |-> TRUE]
           Step(f)    == [n \in 0 .. 4 |-> IF n = 0 THEN first ELSE another(f[n - 1])]
           after      == CHOOSE f : f = Step(f)
<1>2. Values(ts, i, parse) = after[4]
  BY DEF Values
<1>3. isTurn(first)
  BY PlacesAreOrdered
<1>4. ASSUME NEW v, isTurn(v) PROVE isTurn(another(v))
  <2> DEFINE k == NonWS(ts, v.at)
  <2>1. k \in Places /\ NotBefore(k, i)
    BY <1>4, Onwards
  <2>2. CASE ~v.more
    BY <1>4, <2>2
  <2>3. CASE v.more /\ EndsValue(At(ts, k))
    <3>1. another(v) = [v EXCEPT !.at = k, !.more = FALSE]
      BY <2>3
    <3>2. another(v) = [vals |-> v.vals, at |-> k, more |-> FALSE]
      BY <1>4, <3>1
    <3> HIDE DEF k, another
    <3> QED BY <2>1, <3>2
  <2>4. CASE v.more /\ ~EndsValue(At(ts, k))
    <3>1. another(v) = taken(v, parse[k])
      BY <2>4
    <3>2. ~(k > Len(ts))
      <4>1. EndsValue(Eof)
        BY DEF EndsValue, Eof, Sign, Tok
      <4> QED BY <2>4, <4>1 DEF At
    <3>3. k \in 1 .. Len(ts)
      BY <1>1, <2>1, <3>2 DEF Places
    <3>4. NotBefore(parse[k].at, i)
      <4>1. NotBefore(parse[k].at, k)
        BY <3>3
      <4> HIDE DEF k
      <4> QED BY <2>1, <4>1, PlacesAreOrdered
    <3> HIDE DEF k, another
    <3> QED BY <3>1, <3>4
  <2> QED BY <2>2, <2>3, <2>4
<1> HIDE DEF isTurn, another, first
<1>5. after = Step(after)
  <2> DEFINE a1 == another(first)
             a2 == another(a1)
             a3 == another(a2)
             a4 == another(a3)
             g  == [n \in 0 .. 4 |-> CASE n = 0 -> first [] n = 1 -> a1 [] n = 2 -> a2 [] n = 3 -> a3 [] n = 4 -> a4]
  <2>1. g[0] = first /\ g[1] = a1 /\ g[2] = a2 /\ g[3] = a3 /\ g[4] = a4
    <3> HIDE DEF a1, a2, a3, a4
    <3> QED OBVIOUS
  <2>2. \A n \in 0 .. 4 : g[n] = IF n = 0 THEN first ELSE another(g[n - 1])
    <3> SUFFICES ASSUME NEW n \in 0 .. 4 PROVE g[n] = IF n = 0 THEN first ELSE another(g[n - 1])
      OBVIOUS
    <3>1. n \in {0, 1, 2, 3, 4}
      OBVIOUS
    <3> HIDE DEF g
    <3> QED BY <2>1, <3>1
  <2>3. g = Step(g)
    <3>1. g = [n \in 0 .. 4 |-> g[n]]
      OBVIOUS
    <3> HIDE DEF g
    <3> QED BY <2>2, <3>1
  <2> HIDE DEF Step, g
  <2> QED BY <2>3
<1> HIDE DEF after
<1>6. after[0] = first /\ after[1] = another(after[0]) /\ after[2] = another(after[1])
      /\ after[3] = another(after[2]) /\ after[4] = another(after[3])
  BY <1>5
<1> HIDE DEF Step
<1>7. isTurn(after[4])
  <2>1. isTurn(after[1])
    BY <1>3, <1>4, <1>6
  <2>2. isTurn(after[2])
    BY <1>4, <1>6, <2>1
  <2>3. isTurn(after[3])
    BY <1>4, <1>6, <2>2
  <2> QED BY <1>4, <1>6, <2>3
<1> QED BY <1>2, <1>7 DEF isTurn

LEMMA BorderPartsEnd ==
  ASSUME NEW ts, NEW i \in Places
  PROVE  NotBefore(BorderParts(ts, i).at, i)
<1> DEFINE isTurn(v) == v = [width |-> v.width, style |-> v.style, color |-> v.color, at |-> v.at, more |-> v.more]
                        /\ NotBefore(v.at, i)
           put(v, part, p) == [v EXCEPT ![part] = p.value, !.at = p.at]
           another(v) ==
             LET k == NonWS(ts, v.at)
                 t == At(ts, k)
             IN  CASE ~v.more -> v
                   [] v.more /\ t.type \in Numeric -> put(v, "width", ParseLengthOrPercent(ts, k))
                   [] v.more /\ WordOf(t) \in BorderStyles ->
                        put(v, "style", [value |-> Enum(WordOf(t)), at |-> k + 1])
                   [] v.more /\ WordOf(t) \notin BorderStyles /\ t.type \in {"hash", "function", "ident"} ->
                        put(v, "color", ParseColor(ts, k))
                   [] OTHER -> [v EXCEPT !.at = k, !.more = FALSE]
           first   == [width |-> NoValue, style |-> NoValue, color |-> NoValue, at |-> i, more |-> TRUE]
           Step(f) == [n \in 0 .. 3 |-> IF n = 0 THEN first ELSE another(f[n - 1])]
           after   == CHOOSE f : f = Step(f)
<1>2. BorderParts(ts, i) = after[3]
  BY DEF BorderParts
<1>3. isTurn(first)
  BY PlacesAreOrdered
<1>4. ASSUME NEW v, isTurn(v) PROVE isTurn(another(v))
  <2> DEFINE k == NonWS(ts, v.at)
             w == ParseLengthOrPercent(ts, k)
             c == ParseColor(ts, k)
             e == [value |-> Enum(WordOf(At(ts, k))), at |-> k + 1]
  <2>1. NotBefore(k, i) /\ NotBefore(k + 1, i)
    <3>1. NotBefore(k, i)
      BY <1>4, Onwards
    <3> HIDE DEF k
    <3> QED BY <3>1, Onwards
  <2>2. NotBefore(w.at, i) /\ NotBefore(c.at, i) /\ NotBefore(e.at, i)
    <3> HIDE DEF k
    <3> QED BY <2>1, ValuesGoOn
  <2>3. \/ another(v) = v
        \/ another(v) = put(v, "width", w)
        \/ another(v) = put(v, "style", e)
        \/ another(v) = put(v, "color", c)
        \/ another(v) = [v EXCEPT !.at = k, !.more = FALSE]
    <3> HIDE DEF put
    <3> QED OBVIOUS
  <2> HIDE DEF another, k, w, c, e
  <2>4. PICK a, b, d, x, m : v = [width |-> a, style |-> b, color |-> d, at |-> x, more |-> m]
    <3>1. v = [width |-> v.width, style |-> v.style, color |-> v.color, at |-> v.at, more |-> v.more]
      BY <1>4
    <3> QED BY <3>1
  <2>5. ASSUME NEW p, NotBefore(p.at, i)
        PROVE  isTurn(put(v, "width", p)) /\ isTurn(put(v, "style", p)) /\ isTurn(put(v, "color", p))
    <3>1. put(v, "width", p) = [width |-> p.value, style |-> b, color |-> d, at |-> p.at, more |-> m]
      <4>1. put(v, "width", p) = [[v EXCEPT !["width"] = p.value] EXCEPT !["at"] = p.at]
        OBVIOUS
      <4> HIDE DEF put
      <4> QED BY <2>4, <4>1
    <3>2. put(v, "style", p) = [width |-> a, style |-> p.value, color |-> d, at |-> p.at, more |-> m]
      <4>1. put(v, "style", p) = [[v EXCEPT !["style"] = p.value] EXCEPT !["at"] = p.at]
        OBVIOUS
      <4> HIDE DEF put
      <4> QED BY <2>4, <4>1
    <3>3. put(v, "color", p) = [width |-> a, style |-> b, color |-> p.value, at |-> p.at, more |-> m]
      <4>1. put(v, "color", p) = [[v EXCEPT !["color"] = p.value] EXCEPT !["at"] = p.at]
        OBVIOUS
      <4> HIDE DEF put
      <4> QED BY <2>4, <4>1
    <3> HIDE DEF put
    <3> QED BY <2>5, <3>1, <3>2, <3>3
  <2>6. isTurn([v EXCEPT !.at = k, !.more = FALSE])
    <3>1. [v EXCEPT !.at = k, !.more = FALSE]
            = [width |-> a, style |-> b, color |-> d, at |-> k, more |-> FALSE]
      <4> DEFINE w1 == [v EXCEPT !["at"] = k]
      <4>1. PICK no : no = FALSE
        OBVIOUS
      <4>2. [v EXCEPT !.at = k, !.more = FALSE] = [w1 EXCEPT !["more"] = no]
        BY <4>1
      <4>3. w1 = [width |-> a, style |-> b, color |-> d, at |-> k, more |-> m]
        BY <2>4
      <4> HIDE DEF w1
      <4>4. [w1 EXCEPT !["more"] = no] = [width |-> a, style |-> b, color |-> d, at |-> k, more |-> no]
        BY <4>3
      <4> QED BY <4>1, <4>2, <4>4
    <3> QED BY <2>1, <3>1
  <2> HIDE DEF isTurn, put
  <2> QED BY <1>4, <2>2, <2>3, <2>5, <2>6
<1> HIDE DEF isTurn, another, first
<1>5. after = Step(after)
  <2> DEFINE a1 == another(first)
             a2 == another(a1)
             a3 == another(a2)
             g  == [n \in 0 .. 3 |-> CASE n = 0 -> first [] n = 1 -> a1 [] n = 2 -> a2 [] n = 3 -> a3]
  <2>1. g[0] = first /\ g[1] = a1 /\ g[2] = a2 /\ g[3] = a3
    <3> HIDE DEF a1, a2, a3
    <3> QED OBVIOUS
  <2>2. \A n \in 0 .. 3 : g[n] = IF n = 0 THEN first ELSE another(g[n - 1])
    <3> SUFFICES ASSUME NEW n \in 0 .. 3 PROVE g[n] = IF n = 0 THEN first ELSE another(g[n - 1])
      OBVIOUS
    <3>1. n \in {0, 1, 2, 3}
      OBVIOUS
    <3> HIDE DEF g
    <3> QED BY <2>1, <3>1
  <2>3. g = Step(g)
    <3>1. g = [n \in 0 .. 3 |-> g[n]]
      OBVIOUS
    <3> HIDE DEF g
    <3> QED BY <2>2, <3>1
  <2> HIDE DEF Step, g
  <2> QED BY <2>3
<1> HIDE DEF after
<1>6. after[0] = first /\ after[1] = another(after[0]) /\ after[2] = another(after[1])
      /\ after[3] = another(after[2])
  BY <1>5
<1> HIDE DEF Step
<1>7. isTurn(after[3])
  <2>1. isTurn(after[1])
    BY <1>3, <1>4, <1>6
  <2>2. isTurn(after[2])
    BY <1>4, <1>6, <2>1
  <2> QED BY <1>4, <1>6, <2>2
<1> QED BY <1>2, <1>7 DEF isTurn

-----------------------------------------------------------------------------
(* What a declaration leaves, of each kind.                                *)

(* What each kind of declaration leaves.                                   *)
LEMMA SidesAreDeclared ==
  ASSUME NEW ts, NEW i \in Places, NEW v, NotBefore(v.at, i), NEW name \in BoxShorthands
  PROVE  IsDeclared(Sides(ts, v, name), i)
<1>1. IsEnd(ParseEnd(ts, v.at), i) /\ NotBefore(ParseEnd(ts, v.at).at, i)
  BY EndsAreEnds DEF IsEnd
<1> DEFINE four == [k \in 1 .. 4 |-> Bare(SidesOf[name][k], FourSides(v.vals)[k])]
<1>2. IsBare(four)
  <2>1. four \in Seq({four[k] : k \in 1 .. 4}) /\ Len(four) = 4
    OBVIOUS
  <2>2. \A k \in 1 .. 4 : four[k].prop = SidesOf[name][k]
    BY DEF Bare
  <2> HIDE DEF four
  <2>3. IsSeq(four)
    BY <2>1, SeqIsSeq
  <2> QED BY <2>1, <2>2, <2>3, ShorthandsStandForProperties DEF IsBare
<1>3. Sides(ts, v, name) = IF v.vals = <<>> THEN Rejected(ParseEnd(ts, v.at).at)
                           ELSE Accepted(ParseEnd(ts, v.at), four)
  BY DEF Sides
<1> HIDE DEF four
<1> QED BY <1>1, <1>2, <1>3, AcceptedIsDeclared, RejectedIsDeclared

LEMMA BoxesAreDeclared ==
  ASSUME NEW ts, Len(ts) \in Nat, NEW i \in Places, NEW name \in BoxShorthands
  PROVE  IsDeclared(BoxShorthand(ts, i, name), i) /\ IsDeclared(BorderShorthand(ts, i, name), i)
<1>1. 1 .. Len(ts) \subseteq Places
  BY DEF Places
<1>2. IsDeclared(BoxShorthand(ts, i, name), i)
  <2> DEFINE parse == [k \in 1 .. Len(ts) |-> ParseLengthOrPercent(ts, k)]
  <2>1. \A k \in 1 .. Len(ts) : NotBefore(parse[k].at, k)
    BY <1>1, ValuesGoOn, PlacesAreOrdered
  <2>2. BoxShorthand(ts, i, name) = Sides(ts, Values(ts, i, parse), name)
    BY DEF BoxShorthand
  <2> HIDE DEF parse
  <2>3. NotBefore(Values(ts, i, parse).at, i)
    BY <2>1, ValuesEnd
  <2> QED BY <2>2, <2>3, SidesAreDeclared
<1>3. IsDeclared(BorderShorthand(ts, i, name), i)
  <2> DEFINE nothing(k) == [value |-> NoValue, at |-> k]
             one(k) ==
               LET t == At(ts, k)
               IN  CASE name = "border-width" /\ t.type \in Numeric -> ParseLengthOrPercent(ts, k)
                     [] name = "border-style" /\ WordOf(t) \in BorderStyles ->
                          [value |-> Enum(WordOf(t)), at |-> k + 1]
                     [] name = "border-color" /\ t.type \in {"hash", "function", "ident"} ->
                          ParseColor(ts, k)
                     [] OTHER -> nothing(k)
             parse == [k \in 1 .. Len(ts) |-> one(k)]
  <2>1. BorderShorthand(ts, i, name) = Sides(ts, Values(ts, i, parse), name)
    BY DEF BorderShorthand
  <2>2. ASSUME NEW k \in 1 .. Len(ts) PROVE NotBefore(one(k).at, k)
    <3>1. k \in Places /\ NotBefore(k, k) /\ NotBefore(k + 1, k)
      BY <1>1, PlacesAreOrdered, Onwards
    <3>2. NotBefore(ParseLengthOrPercent(ts, k).at, k) /\ NotBefore(ParseColor(ts, k).at, k)
      BY <3>1, ValuesGoOn
    <3>3. one(k) \in {ParseLengthOrPercent(ts, k), [value |-> Enum(WordOf(At(ts, k))), at |-> k + 1],
                      ParseColor(ts, k), nothing(k)}
      OBVIOUS
    <3> HIDE DEF one
    <3> QED BY <3>1, <3>2, <3>3
  <2> HIDE DEF one
  <2>3. \A k \in 1 .. Len(ts) : NotBefore(parse[k].at, k)
    BY <2>2
  <2> HIDE DEF parse
  <2>4. NotBefore(Values(ts, i, parse).at, i)
    BY <2>3, ValuesEnd
  <2> QED BY <2>1, <2>4, SidesAreDeclared
<1> QED BY <1>2, <1>3

LEMMA BordersAreDeclared ==
  ASSUME NEW ts, NEW i \in Places, NEW parts, NotBefore(parts.at, i)
  PROVE  /\ IsDeclared(Border(ts, parts), i)
         /\ \A name \in DOMAIN BorderOf : IsDeclared(BorderSide(ts, parts, name), i)
<1>1. IsEnd(ParseEnd(ts, parts.at), i)
  BY EndsAreEnds
<1> DEFINE four(name, v) == [k \in 1 .. 4 |-> Bare(SidesOf[name][k], v)]
<1>2. ASSUME NEW name \in BoxShorthands, NEW v PROVE IsBare(four(name, v))
  <2> DEFINE f == four(name, v)
  <2>1. f \in Seq({f[k] : k \in 1 .. 4}) /\ Len(f) = 4
    OBVIOUS
  <2>2. \A k \in 1 .. 4 : f[k].prop = SidesOf[name][k]
    BY DEF Bare
  <2> HIDE DEF f
  <2>3. IsSeq(f)
    BY <2>1, SeqIsSeq
  <2>4. IsBare(f)
    BY <2>1, <2>2, <2>3, ShorthandsStandForProperties DEF IsBare
  <2> QED BY <2>4 DEF f
<1>3. ASSUME NEW s, NEW t, IsBare(s), IsBare(t) PROVE IsBare(s \o t)
  <2>1. IsSeq(s) /\ IsSeq(t)
    BY <1>3 DEF IsBare
  <2>2. IsSeq(s \o t)
    BY <2>1, SeqsJoin
  <2>3. ASSUME NEW j \in 1 .. Len(s \o t) PROVE (s \o t)[j].prop \in Properties
    <3>1. \/ \E k \in 1 .. Len(s) : (s \o t)[j] = s[k]
          \/ \E k \in 1 .. Len(t) : (s \o t)[j] = t[k]
      BY <2>1, SeqsJoin
    <3> QED BY <1>3, <3>1 DEF IsBare
  <2> QED BY <2>2, <2>3 DEF IsBare
<1>4. IsDeclared(Border(ts, parts), i)
  <2> DEFINE a == four("border-width", parts.width)
             b == four("border-style", parts.style)
             c == four("border-color", parts.color)
  <2>1. IsBare(a) /\ IsBare(b) /\ IsBare(c)
    <3> HIDE DEF four
    <3> QED BY <1>2 DEF BoxShorthands
  <2>2. Border(ts, parts) = Accepted(ParseEnd(ts, parts.at), Given(a \o b \o c))
    BY DEF Border
  <2> HIDE DEF a, b, c
  <2>3. IsBare(a \o b)
    BY <1>3, <2>1
  <2>4. IsBare(a \o b \o c)
    BY <1>3, <2>1, <2>3
  <2> QED BY <1>1, <2>2, <2>4, GivenAreBare, AcceptedIsDeclared
<1>5. ASSUME NEW name \in DOMAIN BorderOf PROVE IsDeclared(BorderSide(ts, parts, name), i)
  <2> DEFINE a == Bare(BorderOf[name][1], parts.width)
             b == Bare(BorderOf[name][2], parts.style)
             c == Bare(BorderOf[name][3], parts.color)
  <2>1. a.prop \in Properties /\ b.prop \in Properties /\ c.prop \in Properties
    BY ShorthandsStandForProperties DEF Bare
  <2>2. BorderSide(ts, parts, name) = Accepted(ParseEnd(ts, parts.at), Given(<<a, b, c>>))
    BY DEF BorderSide
  <2> HIDE DEF a, b, c
  <2>3. IsBare(<<a, b, c>>)
    BY <2>1, TupleIsSeq DEF IsBare
  <2> QED BY <1>1, <2>2, <2>3, GivenAreBare, AcceptedIsDeclared
<1> QED BY <1>4, <1>5

LEMMA FlexIsDeclared ==
  ASSUME NEW ts, NEW i \in Places
  PROVE  IsDeclared(FlexShorthand(ts, i), i)
<1> DEFINE g      == NonWS(ts, i)
           s      == NonWS(ts, g + 1)
           shrunk == At(ts, s).type = "number"
           basis  == NonWS(ts, s + 1)
           based  == /\ shrunk
                     /\ \/ At(ts, basis).type \in {"dimension", "percentage"}
                        \/ At(ts, basis).type = "number" /\ At(ts, basis).number = 0
           end    == CASE based             -> basis + 1
                       [] shrunk /\ ~based  -> basis
                       [] OTHER             -> s
           a == Bare("flex-grow", Number(At(ts, g).number))
           b == Bare("flex-shrink", IF shrunk THEN Number(At(ts, s).number) ELSE NoValue)
           c == Bare("flex-basis", IF based THEN ParseLengthOrPercent(ts, basis).value ELSE NoValue)
<1>1. FlexShorthand(ts, i) = IF At(ts, g).type # "number" THEN Rejected(g + 1)
                             ELSE Accepted(ParseEnd(ts, end), Given(<<a, b, c>>))
  BY DEF FlexShorthand
<1>2. a.prop \in Properties /\ b.prop \in Properties /\ c.prop \in Properties
  <2>1. a.prop = "flex-grow" /\ b.prop = "flex-shrink" /\ c.prop = "flex-basis"
    BY DEF Bare
  <2> HIDE DEF a, b, c
  <2> QED BY <2>1, ShorthandsStandForProperties
<1> HIDE DEF a, b, c
<1>3. NotBefore(g, i) /\ NotBefore(g + 1, i)
  <2>1. NotBefore(g, i)
    BY Onwards, PlacesAreOrdered
  <2> HIDE DEF g
  <2> QED BY <2>1, Onwards
<1>4. end \in {basis + 1, basis, s}
  <2> HIDE DEF based, shrunk, basis, s
  <2> QED OBVIOUS
<1> HIDE DEF end, based, shrunk, g
<1>5. NotBefore(s, i) /\ NotBefore(s + 1, i)
  <2>1. NotBefore(s, i)
    BY <1>3, Onwards
  <2> HIDE DEF s
  <2> QED BY <2>1, Onwards
<1> HIDE DEF s
<1>6. NotBefore(basis, i) /\ NotBefore(basis + 1, i)
  <2>1. NotBefore(basis, i)
    BY <1>5, Onwards
  <2> HIDE DEF basis
  <2> QED BY <2>1, Onwards
<1> HIDE DEF basis
<1>7. IsEnd(ParseEnd(ts, end), i)
  BY <1>4, <1>5, <1>6, EndsAreEnds
<1>8. IsBare(<<a, b, c>>)
  BY <1>2, TupleIsSeq DEF IsBare
<1>9. IsDeclared(Accepted(ParseEnd(ts, end), Given(<<a, b, c>>)), i)
  BY <1>7, <1>8, GivenAreBare, AcceptedIsDeclared
<1> QED BY <1>1, <1>3, <1>9, RejectedIsDeclared

LEMMA TransitionIsDeclared ==
  ASSUME NEW ts, NEW i \in Places
  PROVE  IsDeclared(TransitionShorthand(ts, i), i)
<1> DEFINE p     == NonWS(ts, i)
           named == At(ts, p).type = "ident"
           d     == NonWS(ts, IF named THEN p + 1 ELSE p)
           isTime(k) == At(ts, k).type \in {"dimension", "number"}
           ms(k) == Number(IF At(ts, k).type = "dimension" /\ At(ts, k).unit \in {<<"s">>, <<"S">>}
                           THEN At(ts, k).number * 1000 ELSE At(ts, k).number)
           f     == NonWS(ts, d + 1)
           timed == isTime(d) /\ WordOf(At(ts, f)) \in Timings
           l     == IF timed THEN NonWS(ts, f + 1) ELSE f
           late  == isTime(d) /\ isTime(l)
           end   == CASE late -> l + 1 [] isTime(d) /\ ~late -> l [] OTHER -> d
           a == Bare("transition-property",
                     CASE ~named -> NoValue
                       [] named /\ Is(At(ts, p), "all") -> Enum("unknown")
                       [] OTHER -> Enum(PropertyIdFromName(At(ts, p).value)))
           b == Bare("transition-duration", IF isTime(d) THEN ms(d) ELSE NoValue)
           c == Bare("transition-timing-function", Enum(IF timed THEN WordOf(At(ts, f)) ELSE "ease"))
           e == Bare("transition-delay", IF late THEN ms(l) ELSE Number(0))
<1>1. TransitionShorthand(ts, i) =
        IF Is(At(ts, p), "none") THEN [ok |-> TRUE, at |-> SkipSemicolon(ts, p + 1), out |-> <<>>]
        ELSE Accepted(ParseEnd(ts, end), Given(<<a, b, c, e>>))
  BY DEF TransitionShorthand
<1>2. /\ a.prop \in Properties /\ b.prop \in Properties /\ c.prop \in Properties
      /\ e.prop \in Properties
  <2>1. /\ a.prop = "transition-property" /\ b.prop = "transition-duration"
        /\ c.prop = "transition-timing-function" /\ e.prop = "transition-delay"
    BY DEF Bare
  <2> HIDE DEF a, b, c, e
  <2>2. TransitionProperties \subseteq Properties
    BY ShorthandsStandForProperties
  <2> QED BY <2>1, <2>2 DEF TransitionProperties
<1> HIDE DEF a, b, c, e
<1>3. end \in {l + 1, l, d}
  <2> HIDE DEF late, isTime, l, d
  <2> QED OBVIOUS
<1> HIDE DEF end
<1>4. NotBefore(p, i) /\ NotBefore(p + 1, i)
  <2>1. NotBefore(p, i)
    BY Onwards, PlacesAreOrdered
  <2> HIDE DEF p
  <2> QED BY <2>1, Onwards
<1> HIDE DEF p, named
<1>5. NotBefore(d, i) /\ NotBefore(d + 1, i)
  <2>1. NotBefore(d, i)
    BY <1>4, Onwards
  <2> HIDE DEF d
  <2> QED BY <2>1, Onwards
<1> HIDE DEF d
<1>6. NotBefore(f, i) /\ NotBefore(f + 1, i)
  <2>1. NotBefore(f, i)
    BY <1>5, Onwards
  <2> HIDE DEF f
  <2> QED BY <2>1, Onwards
<1> HIDE DEF f, timed
<1>7. NotBefore(l, i) /\ NotBefore(l + 1, i)
  <2>1. NotBefore(l, i)
    BY <1>6, Onwards
  <2> HIDE DEF l
  <2> QED BY <2>1, Onwards
<1> HIDE DEF l, late, isTime
<1>8. IsEnd(ParseEnd(ts, end), i)
  BY <1>3, <1>5, <1>7, EndsAreEnds
<1>9. IsBare(<<a, b, c, e>>)
  <2>1. IsSeq(<<a, b, c, e>>) /\ Len(<<a, b, c, e>>) = 4
    BY TupleIsSeq
  <2> QED BY <1>2, <2>1 DEF IsBare
<1>10. IsDeclared(Accepted(ParseEnd(ts, end), Given(<<a, b, c, e>>)), i)
  BY <1>8, <1>9, GivenAreBare, AcceptedIsDeclared
<1>11. IsDeclared([ok |-> TRUE, at |-> SkipSemicolon(ts, p + 1), out |-> <<>>], i)
  BY <1>4, EndsAreEnds, TupleIsSeq DEF IsDeclared, IsDecls
<1> QED BY <1>1, <1>10, <1>11

LEMMA LonghandIsDeclared ==
  ASSUME NEW ts, NEW i \in Places, NEW prop \in Properties
  PROVE  IsDeclared(Longhand(ts, i, prop), i)
<1> DEFINE k == NonWS(ts, i)
           v == IF WordOf(At(ts, k)) \in {"auto", "inherit", "initial"}
                THEN [value |-> Whole(WordOf(At(ts, k))), at |-> k + 1]
                ELSE ParseValue(ts, k, prop)
<1>1. Longhand(ts, i, prop) = IF v.value.type = "none" THEN Rejected(v.at)
                              ELSE Accepted(ParseEnd(ts, v.at), <<Bare(prop, v.value)>>)
  BY DEF Longhand
<1>2. NotBefore(k, i) /\ NotBefore(k + 1, i)
  <2>1. NotBefore(k, i)
    BY Onwards, PlacesAreOrdered
  <2> HIDE DEF k
  <2> QED BY <2>1, Onwards
<1>3. NotBefore(v.at, i)
  <2> HIDE DEF k
  <2> QED BY <1>2, ValuesGoOn
<1> HIDE DEF v
<1>4. IsEnd(ParseEnd(ts, v.at), i)
  BY <1>3, EndsAreEnds
<1> DEFINE b == Bare(prop, v.value)
<1>5. b.prop \in Properties
  BY DEF Bare
<1>6. IsBare(<<b>>)
  <2> HIDE DEF b
  <2>1. IsSeq(<<b>>) /\ Len(<<b>>) = 1 /\ <<b>>[1] = b
    BY TupleIsSeq
  <2> QED BY <1>5, <2>1 DEF IsBare
<1> HIDE DEF b
<1>7. IsDeclared(Accepted(ParseEnd(ts, v.at), <<b>>), i)
  BY <1>4, <1>6, AcceptedIsDeclared
<1> QED BY <1>1, <1>3, <1>7, RejectedIsDeclared DEF b

(* What an attempt at a declaration leaves is declarations of properties,  *)
(* and a place behind the one it began at.                                 *)
LEMMA DeclarationIsDeclared ==
  ASSUME NEW ts, Len(ts) \in Nat, NEW i \in Places
  PROVE  IsDeclared(ParseDeclaration(ts, i), i + 1)
<1> DEFINE n     == NonWS(ts, i)
           prop  == PropertyIdFromName(At(ts, n).value)
           word  == WordOf(At(ts, n))
           colon == NonWS(ts, n + 1)
           short == word \in DOMAIN SidesOf \cup DOMAIN BorderOf \cup {"border", "flex", "transition"}
<1> DEFINE next == i + 1
<1>1. next \in Places /\ NotBefore(n + 1, next)
  <2>1. NotBefore(n, i)
    BY NoBlankBefore
  <2> HIDE DEF n
  <2> QED BY <2>1 DEF NotBefore, Places
<1>2. prop # "unknown" => prop \in Properties
  BY DEF PropertyIdFromName
<1>3. DOMAIN SidesOf = BoxShorthands
  BY DEF SidesOf
<1>4. ParseDeclaration(ts, i) =
        IF At(ts, n).type # "ident" \/ (prop = "unknown" /\ ~short) THEN Rejected(n + 1)
        ELSE IF At(ts, colon).type # ":" THEN Rejected(colon + 1)
        ELSE CASE prop # "unknown"               -> Longhand(ts, colon + 1, prop)
               [] word \in {"margin", "padding"} -> BoxShorthand(ts, colon + 1, word)
               [] word = "border"                -> Border(ts, BorderParts(ts, colon + 1))
               [] word \in DOMAIN BorderOf       -> BorderSide(ts, BorderParts(ts, colon + 1), word)
               [] word \in {"border-width", "border-style", "border-color"} ->
                    BorderShorthand(ts, colon + 1, word)
               [] word = "flex"                  -> FlexShorthand(ts, colon + 1)
               [] word = "transition"            -> TransitionShorthand(ts, colon + 1)
  BY DEF ParseDeclaration
<1> HIDE DEF n, prop, word
<1> HIDE DEF next
<1>5. NotBefore(colon, next) /\ NotBefore(colon + 1, next)
  <2>1. NotBefore(colon, next)
    <3>1. PICK j : j = n + 1
      OBVIOUS
    <3> QED BY <1>1, <3>1, Onwards
  <2> HIDE DEF colon
  <2> QED BY <1>1, <2>1, Onwards
<1>6. PICK k \in Places : k = colon + 1 /\ NotBefore(k, next)
  BY <1>5 DEF NotBefore
<1> DEFINE d == CASE prop # "unknown"               -> Longhand(ts, k, prop)
                  [] word \in {"margin", "padding"} -> BoxShorthand(ts, k, word)
                  [] word = "border"                -> Border(ts, BorderParts(ts, k))
                  [] word \in DOMAIN BorderOf       -> BorderSide(ts, BorderParts(ts, k), word)
                  [] word \in {"border-width", "border-style", "border-color"} ->
                       BorderShorthand(ts, k, word)
                  [] word = "flex"                  -> FlexShorthand(ts, k)
                  [] word = "transition"            -> TransitionShorthand(ts, k)
<1>7. ASSUME ~(prop = "unknown" /\ ~short) PROVE IsDeclared(d, next)
  <2>1. prop # "unknown" => IsDeclared(Longhand(ts, k, prop), k)
    BY <1>2, LonghandIsDeclared
  <2>2. word \in {"margin", "padding"} => IsDeclared(BoxShorthand(ts, k, word), k)
    BY BoxesAreDeclared DEF BoxShorthands
  <2>3. IsDeclared(Border(ts, BorderParts(ts, k)), k)
    BY BordersAreDeclared, BorderPartsEnd
  <2>4. word \in DOMAIN BorderOf => IsDeclared(BorderSide(ts, BorderParts(ts, k), word), k)
    BY BordersAreDeclared, BorderPartsEnd
  <2>5. word \in {"border-width", "border-style", "border-color"} => IsDeclared(BorderShorthand(ts, k, word), k)
    BY BoxesAreDeclared DEF BoxShorthands
  <2>6. IsDeclared(FlexShorthand(ts, k), k) /\ IsDeclared(TransitionShorthand(ts, k), k)
    BY FlexIsDeclared, TransitionIsDeclared
  <2>7. \/ prop # "unknown" \/ word \in {"margin", "padding"} \/ word = "border"
        \/ word \in DOMAIN BorderOf \/ word \in {"border-width", "border-style", "border-color"}
        \/ word = "flex" \/ word = "transition"
    BY <1>3, <1>7 DEF BoxShorthands
  <2>8. \/ prop # "unknown" /\ d = Longhand(ts, k, prop)
        \/ word \in {"margin", "padding"} /\ d = BoxShorthand(ts, k, word)
        \/ d = Border(ts, BorderParts(ts, k))
        \/ word \in DOMAIN BorderOf /\ d = BorderSide(ts, BorderParts(ts, k), word)
        \/ word \in {"border-width", "border-style", "border-color"} /\ d = BorderShorthand(ts, k, word)
        \/ d = FlexShorthand(ts, k)
        \/ d = TransitionShorthand(ts, k)
    BY <2>7
  <2> HIDE DEF d
  <2>9. IsDeclared(d, k)
    BY <2>1, <2>2, <2>3, <2>4, <2>5, <2>6, <2>8
  <2> QED BY <1>1, <1>6, <2>9, PlacesAreOrdered DEF IsDeclared
<1>8. ParseDeclaration(ts, i) =
        IF At(ts, n).type # "ident" \/ (prop = "unknown" /\ ~short) THEN Rejected(n + 1)
        ELSE IF At(ts, colon).type # ":" THEN Rejected(colon + 1) ELSE d
  BY <1>4, <1>6
<1> HIDE DEF d, short, colon
<1>9. IsDeclared(ParseDeclaration(ts, i), next)
  BY <1>1, <1>5, <1>7, <1>8, RejectedIsDeclared
<1> QED BY <1>9 DEF next

(* Where recovery and an at-rule end. *)
LEMMA RecoveryEnds ==
  ASSUME NEW ts, Len(ts) \in Nat, NEW i \in Places
  PROVE  NotBefore(Recover(ts, i), i)
<1> DEFINE ends == {k \in i .. Len(ts) + 1 : At(ts, k).type \in {";", "}", "eof"}}
           k    == CHOOSE e \in ends : \A f \in ends : e <= f
<1>1. PICK L \in Nat : L = Len(ts)
  OBVIOUS
<1>2. CASE i > Len(ts)
  <2>1. Recover(ts, i) = i
    BY <1>2 DEF Recover
  <2> QED BY <2>1, PlacesAreOrdered
<1>3. CASE ~(i > Len(ts))
  <2>1. L + 1 \in i .. Len(ts) + 1 /\ L + 1 > Len(ts) /\ ends \in SUBSET Nat /\ \A e \in ends : NotBefore(e, i)
    <3>1. L + 1 \in i .. Len(ts) + 1 /\ L + 1 > Len(ts) /\ i .. Len(ts) + 1 \subseteq Nat
          /\ \A e \in i .. Len(ts) + 1 : NotBefore(e, i)
      BY <1>1, <1>3 DEF Places, NotBefore
    <3>2. ends \subseteq i .. Len(ts) + 1
      OBVIOUS
    <3> HIDE DEF ends
    <3> QED BY <3>1, <3>2
  <2>2. At(ts, L + 1).type = "eof"
    BY <2>1 DEF At, Eof, Sign, Tok
  <2>3. ends # {}
    BY <2>1, <2>2
  <2>4. k \in ends
    <3> HIDE DEF ends
    <3> QED BY <2>1, <2>3, FirstPlace
  <2>5. Recover(ts, i) \in {k, k + 1}
    BY <1>3 DEF Recover
  <2> HIDE DEF k, ends
  <2>6. NotBefore(k, i)
    BY <2>1, <2>4
  <2> QED BY <2>5, <2>6, Onwards
<1> QED BY <1>2, <1>3

LEMMA AtRulesEnd ==
  ASSUME NEW ts, Len(ts) \in Nat, NEW i \in Places, i <= Len(ts) + 1
  PROVE  NotBefore(AtRuleEnd(ts, i), i)
<1> DEFINE step(t) == CASE t.type = "{" -> 1 [] t.type = "}" -> -1 [] OTHER -> 0
           depth[j \in i .. Len(ts) + 1] == IF j = i THEN 0 ELSE depth[j - 1] + step(ts[j - 1])
           ends == {j \in i .. Len(ts) + 1 :
                      At(ts, j).type = "eof" \/ (At(ts, j).type = "}" /\ depth[j] <= 1)}
<1>1. PICK L \in Nat : L = Len(ts)
  OBVIOUS
<1>2. AtRuleEnd(ts, i) = IF At(ts, Min(ends)).type = "eof" THEN Min(ends) ELSE Min(ends) + 1
  BY DEF AtRuleEnd
<1> HIDE DEF depth
<1>3. L + 1 \in i .. Len(ts) + 1 /\ L + 1 > Len(ts) /\ ends \in SUBSET Nat /\ \A e \in ends : NotBefore(e, i)
  <2>1. L + 1 \in i .. Len(ts) + 1 /\ L + 1 > Len(ts) /\ i .. Len(ts) + 1 \subseteq Nat
        /\ \A e \in i .. Len(ts) + 1 : NotBefore(e, i)
    BY <1>1 DEF Places, NotBefore
  <2>2. ends \subseteq i .. Len(ts) + 1
    OBVIOUS
  <2> HIDE DEF ends
  <2> QED BY <2>1, <2>2
<1>4. At(ts, L + 1).type = "eof"
  BY <1>3 DEF At, Eof, Sign, Tok
<1>5. ends # {}
  BY <1>3, <1>4
<1> HIDE DEF ends
<1>6. Min(ends) \in ends
  BY <1>3, <1>5, FirstPlace
<1>7. NotBefore(Min(ends), i) /\ NotBefore(Min(ends) + 1, i)
  BY <1>3, <1>6, Onwards
<1> QED BY <1>2, <1>7

-----------------------------------------------------------------------------
(* Selectors.                                                              *)

(* A simple selector is one or, at a name that is missing, none, and what  *)
(* is behind it is behind where it began.                                  *)
LEMMA SimplesGoOn ==
  ASSUME NEW ts, NEW L \in Nat, L = Len(ts), NEW p \in Places, StartsSimple(At(ts, p))
  PROVE  LET s == ParseSimple(ts, p)
         IN  p <= L /\ Behind(s.at, p) /\ (s.simple = <<>> \/ s.simple = <<s.simple[1]>>)
<1> DEFINE t == At(ts, p)
           s == ParseSimple(ts, p)
           isOne(u) == u = <<>> \/ u = <<u[1]>>
<1>1. t.type # "eof"
  BY DEF StartsSimple, IsDelim
<1>2. p <= L
  BY <1>1, NoTokenBehind
<1>3. p + 1 \in Places /\ p + 1 + 1 \in Places /\ Behind(p + 1, p) /\ Behind(p + 1 + 1, p)
  BY DEF Places, Behind
<1>4. Behind(ParseAttribute(ts, p + 1).at, p) /\ isOne(ParseAttribute(ts, p + 1).simple)
  <2> DEFINE i      == p + 1
             nameAt == NonWS(ts, i)
             eq     == NonWS(ts, nameAt + 1)
             v      == NonWS(ts, eq + 1)
             w      == NonWS(ts, v + 1)
             valued == IsDelim(At(ts, eq), "=")
             name  == IF At(ts, nameAt).type = "ident" THEN At(ts, nameAt).value ELSE <<>>
             value == IF valued /\ At(ts, v).type \in {"ident", "string"} THEN At(ts, v).value ELSE <<>>
  <2>1. /\ ParseAttribute(ts, i).at = IF valued THEN w + 1 ELSE eq + 1
        /\ ParseAttribute(ts, i).simple = <<Simple("attribute", name, value)>>
    BY DEF ParseAttribute
  <2>2. i \in Places /\ Behind(i, p)
    BY <1>3
  <2> HIDE DEF name, value, valued, i
  <2>3. nameAt \in Places /\ Behind(nameAt, p)
    BY <2>2, NoBlankBefore, PlacesAreOrdered
  <2> HIDE DEF nameAt
  <2>4. ASSUME NEW q \in Places, Behind(q, p) PROVE q + 1 \in Places /\ Behind(q + 1, p)
    BY <2>4, NoBlankBefore, PlacesAreOrdered
  <2>5. ASSUME NEW q \in Places, Behind(q, p) PROVE NonWS(ts, q + 1) \in Places /\ Behind(NonWS(ts, q + 1), p)
    BY <2>4, <2>5, NoBlankBefore, PlacesAreOrdered
  <2>6. eq \in Places /\ Behind(eq, p)
    BY <2>3, <2>5
  <2> HIDE DEF eq
  <2>7. v \in Places /\ Behind(v, p)
    BY <2>5, <2>6
  <2> HIDE DEF v
  <2>8. w \in Places /\ Behind(w, p)
    BY <2>5, <2>7
  <2> HIDE DEF w
  <2>9. Behind(ParseAttribute(ts, i).at, p)
    BY <2>1, <2>4, <2>6, <2>8
  <2>10. isOne(ParseAttribute(ts, i).simple)
    BY <2>1
  <2> QED BY <2>9, <2>10 DEF i
<1>5. ASSUME NEW type PROVE Named(ts, p + 1, type).at = p + 1 + 1 /\ isOne(Named(ts, p + 1, type).simple)
  BY DEF Named
<1>6. \/ s = ParseAttribute(ts, p + 1)
      \/ s = Named(ts, p + 1, "pseudo")
      \/ s = Named(ts, p + 1, "class")
      \/ s.at = p + 1 /\ isOne(s.simple)
  BY DEF StartsSimple, ParseSimple, IsDelim
<1> HIDE DEF isOne, s
<1>7. Behind(s.at, p) /\ isOne(s.simple)
  BY <1>3, <1>4, <1>5, <1>6
<1> QED BY <1>2, <1>7 DEF isOne, s

LEMMA CompoundsGoOn ==
  ASSUME NEW ts, Len(ts) \in Nat, NEW i \in Places
  PROVE  NotBefore(ParseCompoundSelector(ts, i).at, i)
<1>1. PICK L \in Nat : L = Len(ts)
  OBVIOUS
<1> DEFINE starts(p) == StartsSimple(At(ts, p))
           one(p)    == ParseSimple(ts, p)
<1> DEFINE V          == [simples : Seq({one(p).simple[1] : p \in Places}), at : Places]
           Simples    == Seq({one(p).simple[1] : p \in Places})
           Body(f, p) == IF starts(p) THEN [f[one(p).at] EXCEPT !.simples = one(p).simple \o @] ELSE [simples |-> <<>>, at |-> p]
           Step(f)    == [p \in Places |-> Body(f, p)]
           from       == CHOOSE f : f = Step(f)
           G          == [p \in Places |-> [f \in [Places -> V] |-> Body(f, p)]]
<1>2. ParseCompoundSelector(ts, i) = from[i]
  BY DEF ParseCompoundSelector
<1>3. ASSUME NEW p \in Places, starts(p)
      PROVE  /\ p <= L /\ one(p).at \in Places /\ one(p).at > p
             /\ one(p).simple = <<>> \/ one(p).simple = <<one(p).simple[1]>>
  BY <1>1, <1>3, SimplesGoOn DEF Behind
<1> HIDE DEF starts, one
<1>41. \A p \in Places : \A f \in [Places -> V] : Body(f, p) \in V
  <2> SUFFICES ASSUME NEW p \in Places, NEW f \in [Places -> V] PROVE Body(f, p) \in V
    OBVIOUS
  <2>1. CASE starts(p)
    <3>1. one(p).at \in Places
      BY <1>3, <2>1
    <3>2. PICK v \in V : v = f[one(p).at]
      BY <3>1
    <3>3. one(p).simple[1] \in {one(q).simple[1] : q \in Places}
      OBVIOUS
    <3>4. one(p).simple \in Simples
      <4>1. one(p).simple = <<>> \/ one(p).simple = <<one(p).simple[1]>>
        BY <1>3, <2>1
      <4> DEFINE S == {one(q).simple[1] : q \in Places}
                 x == one(p).simple[1]
                 y == one(p).simple
      <4>2. Simples = Seq(S) /\ x \in S
        BY <3>3
      <4>3. y = <<>> \/ y = <<x>>
        BY <4>1
      <4> HIDE DEF S, x, y, Simples
      <4>4. <<>> \in Seq(S) /\ <<x>> \in Seq(S)
        <5>1. ASSUME NEW T, NEW z \in T PROVE <<>> \in Seq(T) /\ <<z>> \in Seq(T)
          OBVIOUS
        <5> QED BY <4>2, <5>1
      <4>5. y \in Simples
        BY <4>2, <4>3, <4>4
      <4> QED BY <4>5 DEF y
    <3>5. v.simples \in Simples
      BY <3>2
    <3>6. one(p).simple \o v.simples \in Simples
      <4> DEFINE S == {one(q).simple[1] : q \in Places}
      <4>1. Simples = Seq(S)
        OBVIOUS
      <4> HIDE DEF S, Simples
      <4> QED BY <3>4, <3>5, <4>1, ConcatProperties
    <3>7. [v EXCEPT !.simples = one(p).simple \o v.simples] \in V
      <4>1. V = [simples : Simples, at : Places]
        OBVIOUS
      <4> HIDE DEF V, Simples
      <4> QED BY <3>2, <3>6, <4>1
    <3>8. Body(f, p) = [v EXCEPT !.simples = one(p).simple \o v.simples]
      BY <2>1, <3>2
    <3> HIDE DEF V, Body
    <3> QED BY <3>7, <3>8
  <2>2. CASE ~starts(p)
    <3>1. <<>> \in Simples
      OBVIOUS
    <3> QED BY <2>2, <3>1
  <2> QED BY <2>1, <2>2
<1>42. ASSUME NEW p \in Places, NEW f, NEW g, \A q \in Places : p <= L /\ q > p => f[q] = g[q]
      PROVE  Body(f, p) = Body(g, p)
  <2>1. CASE starts(p)
    <3>1. f[one(p).at] = g[one(p).at]
      BY <1>3, <1>42, <2>1
    <3> QED BY <2>1, <3>1
  <2>2. CASE ~starts(p)
    BY <2>2
  <2> QED BY <2>1, <2>2
<1> HIDE DEF Body
<1>43. \E f \in [Places -> V] : \A p \in Places : f[p] = Body(f, p)
  <2>1. G \in [Places -> [[Places -> V] -> V]] /\ \A p \in Places : \A f \in [Places -> V] : G[p][f] = Body(f, p)
    BY <1>41
  <2>2. V # {}
    <3>1. [simples |-> <<>>, at |-> i] \in V
      OBVIOUS
    <3> HIDE DEF V
    <3> QED BY <3>1
  <2> HIDE DEF G, V
  <2>3. ASSUME NEW p \in Places, NEW f \in [Places -> V], NEW g \in [Places -> V],
               \A q \in Places : p <= L /\ q > p => f[q] = g[q]
        PROVE  G[p][f] = G[p][g]
    <3>1. Body(f, p) = Body(g, p)
      BY <1>42, <2>3
    <3> QED BY <2>1, <3>1
  <2>4. Forward(L, V, G)
    BY <1>1, <2>1, <2>2, <2>3 DEF Forward
  <2>5. Solved(Places, V, G)
    BY <2>4, ForwardRecursion
  <2> QED BY <2>1, <2>5 DEF Solved
<1>44. PICK f \in [Places -> V] : \A p \in Places : f[p] = Body(f, p)
  BY <1>43
<1>45. \A p \in Places : from[p] = Body(from, p)
  <2>1. f = Step(f)
    BY <1>44
  <2>2. from = Step(from)
    <3> HIDE DEF Step
    <3> QED BY <2>1
  <2> HIDE DEF from
  <2> QED BY <2>2
<1> HIDE DEF from
<1> DEFINE Same == {p \in Places : from[p] = f[p]}
<1>46. ASSUME NEW p \in Places, \A q \in Places : p <= L /\ q > p => q \in Same PROVE p \in Same
  <2>1. \A q \in Places : p <= L /\ q > p => from[q] = f[q]
    BY <1>46
  <2>2. Body(from, p) = Body(f, p)
    BY <1>42, <2>1
  <2> QED BY <1>44, <1>45, <2>2
<1>47. \A p \in Places : from[p] = f[p]
  <2> HIDE DEF Same
  <2>1. Backwards(L, Same)
    BY <1>1, <1>46 DEF Backwards
  <2>2. \A p \in Places : p \in Same
    BY <2>1, ForwardInduction
  <2> QED BY <2>2 DEF Same
<1> DEFINE S == {p \in Places : NotBefore(from[p].at, p)}
<1>48. ASSUME NEW p \in Places, \A q \in Places : p <= L /\ q > p => q \in S PROVE p \in S
  <2>1. CASE starts(p)
    <3>1. p <= L /\ one(p).at \in Places /\ one(p).at > p
      BY <1>3, <2>1
    <3>2. PICK q \in Places : q = one(p).at /\ q > p
      BY <3>1
    <3>3. q \in S
      BY <1>48, <3>1, <3>2
    <3>4. from[q] \in V
      <4> HIDE DEF V
      <4> QED BY <1>44, <1>47
    <3>5. from[p] = [from[q] EXCEPT !.simples = one(p).simple \o @]
      BY <1>45, <2>1, <3>2 DEF Body
    <3>6. from[p].at = from[q].at
      BY <3>4, <3>5
    <3>7. NotBefore(from[p].at, q)
      BY <3>3, <3>6
    <3>8. Behind(q, p)
      BY <3>2 DEF Behind
    <3>9. NotBefore(from[p].at, p)
      BY <3>7, <3>8, PlacesAreOrdered
    <3> QED BY <3>9
  <2>2. CASE ~starts(p)
    <3>0. from[p] = [simples |-> <<>>, at |-> p]
      BY <1>45, <2>2 DEF Body
    <3>1. from[p].at = p
      BY <3>0
    <3> QED BY <3>1, PlacesAreOrdered
  <2> QED BY <2>1, <2>2
<1>49. \A p \in Places : p \in S
  <2> HIDE DEF S
  <2>1. Backwards(L, S)
    BY <1>1, <1>48 DEF Backwards
  <2> QED BY <2>1, ForwardInduction
<1> QED BY <1>2, <1>49

LEMMA CombinatorsGoOn ==
  ASSUME NEW ts, NEW L \in Nat, L = Len(ts), NEW p \in Places
  PROVE  LET f == ParseCombinator(ts, p)
         IN  /\ f.at \in Places /\ NotBefore(f.at, p) /\ f.comb \in {"none", "child", "descendant"}
             /\ f.comb # "none" => p <= L /\ Behind(f.at, p)
<1> DEFINE k == NonWS(ts, p)
           t == At(ts, k)
           f == ParseCombinator(ts, p)
<1>1. \/ f.comb = "child" /\ f.at = NonWS(ts, k + 1) /\ t.type = "delim"
      \/ f.comb = "descendant" /\ f.at = k /\ k # p /\ t.type # "eof"
      \/ f.comb = "none" /\ f.at = k
  BY DEF ParseCombinator, IsDelim
<1>2. k \in Places /\ NotBefore(k, p) /\ k + 1 \in Places
  <2>1. k \in Places /\ NotBefore(k, p)
    BY NoBlankBefore
  <2> HIDE DEF k
  <2> QED BY <2>1, NoBlankBefore
<1> HIDE DEF k, f
<1>3. NotBefore(NonWS(ts, k + 1), p) /\ Behind(NonWS(ts, k + 1), p)
  <2>1. NotBefore(NonWS(ts, k + 1), k + 1)
    BY <1>2, NoBlankBefore
  <2>2. Behind(NonWS(ts, k + 1), k)
    BY <1>2, <2>1, PlacesAreOrdered
  <2>3. Behind(NonWS(ts, k + 1), p)
    BY <1>2, <2>2, PlacesAreOrdered
  <2> QED BY <2>3, PlacesAreOrdered
<1>4. t.type # "eof" => p <= L
  <2>1. t.type # "eof" => k <= L
    BY <1>2, NoTokenBehind
  <2>2. k <= L => p <= L
    BY <1>2 DEF NotBefore, Places
  <2> HIDE DEF t
  <2> QED BY <2>1, <2>2
<1>5. k # p => Behind(k, p)
  BY <1>2 DEF NotBefore, Behind, Places
<1>6. Behind(f.at, p) => f.at \in Places
  BY DEF Behind
<1> HIDE DEF t
<1>7. f.comb # "none" => t.type # "eof"
  BY <1>1
<1>8. f.comb \in {"none", "child", "descendant"}
  BY <1>1
<1>9. NotBefore(f.at, p) /\ f.at \in Places
  BY <1>1, <1>2, <1>3 DEF NotBefore
<1>10. f.comb # "none" => Behind(f.at, p)
  BY <1>1, <1>3, <1>5
<1> QED BY <1>4, <1>7, <1>8, <1>9, <1>10 DEF f

(* A selector has a compound at least, and every compound but the one it   *)
(* began with is a child's or a descendant's ancestor.                     *)
LEMMA SelectorsGrow ==
  ASSUME NEW X, NEW sel \in Seq(X), IsSelector(sel), NEW c \in X, c.comb \in {"child", "descendant"}
  PROVE  Append(sel, c) \in Seq(X) /\ IsSelector(Append(sel, c))
<1>1. Append(sel, c) \in Seq(X)
  OBVIOUS
<1>2. PICK n \in Nat \ {0} : n = Len(sel)
  BY DEF IsSelector
<1>3. IsSeq(sel)
  BY SeqIsSeq
<1>4. Len(Append(sel, c)) = n + 1 /\ Append(sel, c)[n + 1] = c /\ \A k \in 1 .. n : Append(sel, c)[k] = sel[k]
  BY <1>2, <1>3, SeqGrows
<1>5. ASSUME NEW k \in 2 .. n + 1 PROVE Append(sel, c)[k].comb \in {"child", "descendant"}
  <2>1. k = n + 1 \/ k \in 2 .. n
    BY <1>5
  <2>2. ASSUME NEW j \in 2 .. n PROVE Append(sel, c)[j].comb \in {"child", "descendant"}
    <3>1. j \in 1 .. n /\ j \in 2 .. Len(sel)
      BY <1>2
    <3> QED BY <1>4, <3>1 DEF IsSelector
  <2> QED BY <1>4, <2>1, <2>2
<1>6. n + 1 \in Nat \ {0}
  OBVIOUS
<1> QED BY <1>1, <1>4, <1>5, <1>6 DEF IsSelector

LEMMA SelectorsGoOn ==
  ASSUME NEW ts, Len(ts) \in Nat, NEW i \in Places
  PROVE  LET s == ParseSelector(ts, i)
         IN  NotBefore(s.at, i) /\ IsSelector(s.compounds)
<1>1. PICK L \in Nat : L = Len(ts)
  OBVIOUS
<1> DEFINE c(p)  == ParseCompoundSelector(ts, p)
           fc(p) == ParseCombinator(ts, c(p).at)
           ends(p) == fc(p).comb = "none"
           place(p) == fc(p).at
           compound(p) == [simples |-> c(p).simples, comb |-> fc(p).comb]
           last(p)   == [simples |-> c(p).simples, comb |-> "none"]
           Compounds == [simples : {c(p).simples : p \in Places}, comb : {"none", "child", "descendant"}]
           Sels      == {s \in Seq(Compounds) : IsSelector(s)}
<1> DEFINE V          == [compounds : Sels, at : Places]
           Body(f, p) == IF ends(p) THEN [compounds |-> <<last(p)>>, at |-> place(p)]
                         ELSE [f[place(p)] EXCEPT !.compounds = Append(@, compound(p))]
           Step(f)    == [p \in Places |-> Body(f, p)]
           from       == CHOOSE f : f = Step(f)
           G          == [p \in Places |-> [f \in [Places -> V] |-> Body(f, p)]]
<1>2. ParseSelector(ts, i) = from[i]
  BY DEF ParseSelector
<1>3. ASSUME NEW p \in Places
      PROVE  /\ NotBefore(place(p), p) /\ place(p) \in Places
             /\ ~ends(p) => p <= L /\ Behind(place(p), p) /\ place(p) > p
             /\ compound(p) \in Compounds /\ last(p) \in Compounds
             /\ ~ends(p) => compound(p).comb \in {"child", "descendant"}
  <2>1. NotBefore(c(p).at, p)
    BY <1>1, CompoundsGoOn
  <2>2. c(p).at \in Places
    BY <2>1 DEF NotBefore
  <2>3. /\ fc(p).at \in Places /\ NotBefore(fc(p).at, c(p).at) /\ fc(p).comb \in {"none", "child", "descendant"}
        /\ fc(p).comb # "none" => c(p).at <= L /\ Behind(fc(p).at, c(p).at)
    <3> HIDE DEF c
    <3> QED BY <1>1, <2>2, CombinatorsGoOn
  <2>4. c(p).simples \in {c(q).simples : q \in Places}
    OBVIOUS
  <2> HIDE DEF c, fc
  <2>5. NotBefore(place(p), p) /\ place(p) \in Places
    BY <2>1, <2>2, <2>3, PlacesAreOrdered
  <2>6. ~ends(p) => Behind(place(p), p)
    BY <2>1, <2>2, <2>3, PlacesAreOrdered
  <2>7. c(p).at <= L => p <= L
    BY <2>1 DEF NotBefore, Places
  <2>8. ~ends(p) => p <= L /\ place(p) > p
    BY <2>3, <2>6, <2>7 DEF Behind
  <2>9. compound(p) \in Compounds /\ last(p) \in Compounds
    BY <2>3, <2>4
  <2>10. ~ends(p) => compound(p).comb \in {"child", "descendant"}
    BY <2>3
  <2> QED BY <2>5, <2>6, <2>8, <2>9, <2>10
<1>4. ASSUME NEW p \in Places PROVE <<last(p)>> \in Sels
  <2>1. last(p) \in Compounds
    BY <1>3
  <2> HIDE DEF last, Compounds
  <2>2. ASSUME NEW T, NEW z \in T PROVE <<z>> \in Seq(T) /\ Len(<<z>>) = 1
    OBVIOUS
  <2>3. <<last(p)>> \in Seq(Compounds) /\ Len(<<last(p)>>) = 1
    BY <2>1, <2>2
  <2>4. IsSelector(<<last(p)>>)
    BY <2>3 DEF IsSelector
  <2> QED BY <2>3, <2>4
<1> HIDE DEF c, fc, ends, place, compound, last, Compounds
<1>41. \A p \in Places : \A f \in [Places -> V] : Body(f, p) \in V
  <2> SUFFICES ASSUME NEW p \in Places, NEW f \in [Places -> V] PROVE Body(f, p) \in V
    OBVIOUS
  <2>1. CASE ~ends(p)
    <3>1. place(p) \in Places /\ compound(p) \in Compounds /\ compound(p).comb \in {"child", "descendant"}
      BY <1>3, <2>1
    <3>2. PICK v \in V : v = f[place(p)]
      BY <3>1
    <3>3. v.compounds \in Seq(Compounds) /\ IsSelector(v.compounds)
      BY <3>2
    <3>4. Append(v.compounds, compound(p)) \in Sels
      BY <3>1, <3>3, SelectorsGrow
    <3>5. [v EXCEPT !.compounds = Append(v.compounds, compound(p))] \in V
      <4> HIDE DEF Sels
      <4> QED BY <3>2, <3>4
    <3>6. Body(f, p) = [v EXCEPT !.compounds = Append(v.compounds, compound(p))]
      BY <2>1, <3>2
    <3> HIDE DEF V, Body
    <3> QED BY <3>5, <3>6
  <2>2. CASE ends(p)
    <3>1. <<last(p)>> \in Sels /\ place(p) \in Places
      BY <1>3, <1>4
    <3> HIDE DEF Sels
    <3> QED BY <2>2, <3>1
  <2> QED BY <2>1, <2>2
<1>42. ASSUME NEW p \in Places, NEW f, NEW g, \A q \in Places : p <= L /\ q > p => f[q] = g[q]
      PROVE  Body(f, p) = Body(g, p)
  <2>1. CASE ~ends(p)
    <3>1. f[place(p)] = g[place(p)]
      BY <1>3, <1>42, <2>1
    <3> QED BY <2>1, <3>1
  <2>2. CASE ends(p)
    BY <2>2
  <2> QED BY <2>1, <2>2
<1> HIDE DEF Body
<1>43. \E f \in [Places -> V] : \A p \in Places : f[p] = Body(f, p)
  <2>1. G \in [Places -> [[Places -> V] -> V]] /\ \A p \in Places : \A f \in [Places -> V] : G[p][f] = Body(f, p)
    BY <1>41
  <2>2. V # {}
    <3>1. <<last(i)>> \in Sels
      BY <1>4
    <3>2. [compounds |-> <<last(i)>>, at |-> i] \in V
      <4> HIDE DEF Sels
      <4> QED BY <3>1
    <3> HIDE DEF V
    <3> QED BY <3>2
  <2> HIDE DEF G, V
  <2>3. ASSUME NEW p \in Places, NEW f \in [Places -> V], NEW g \in [Places -> V],
               \A q \in Places : p <= L /\ q > p => f[q] = g[q]
        PROVE  G[p][f] = G[p][g]
    <3>1. Body(f, p) = Body(g, p)
      BY <1>42, <2>3
    <3> QED BY <2>1, <3>1
  <2>4. Forward(L, V, G)
    BY <1>1, <2>1, <2>2, <2>3 DEF Forward
  <2>5. Solved(Places, V, G)
    BY <2>4, ForwardRecursion
  <2> QED BY <2>1, <2>5 DEF Solved
<1>44. PICK f \in [Places -> V] : \A p \in Places : f[p] = Body(f, p)
  BY <1>43
<1>45. \A p \in Places : from[p] = Body(from, p)
  <2>1. f = Step(f)
    BY <1>44
  <2>2. from = Step(from)
    <3> HIDE DEF Step
    <3> QED BY <2>1
  <2> HIDE DEF from
  <2> QED BY <2>2
<1> HIDE DEF from
<1> DEFINE Same == {p \in Places : from[p] = f[p]}
<1>46. ASSUME NEW p \in Places, \A q \in Places : p <= L /\ q > p => q \in Same PROVE p \in Same
  <2>1. \A q \in Places : p <= L /\ q > p => from[q] = f[q]
    BY <1>46
  <2>2. Body(from, p) = Body(f, p)
    BY <1>42, <2>1
  <2> QED BY <1>44, <1>45, <2>2
<1>47. \A p \in Places : from[p] = f[p]
  <2> HIDE DEF Same
  <2>1. Backwards(L, Same)
    BY <1>1, <1>46 DEF Backwards
  <2>2. \A p \in Places : p \in Same
    BY <2>1, ForwardInduction
  <2> QED BY <2>2 DEF Same
<1>48. \A p \in Places : from[p] \in V
  <2> HIDE DEF V
  <2> QED BY <1>44, <1>47
<1> DEFINE S == {p \in Places : NotBefore(from[p].at, p)}
<1>49. ASSUME NEW p \in Places, \A q \in Places : p <= L /\ q > p => q \in S PROVE p \in S
  <2>1. CASE ~ends(p)
    <3>2. PICK q \in Places : q = place(p) /\ q > p /\ p <= L /\ Behind(q, p)
      BY <1>3, <2>1
    <3>3. q \in S
      BY <1>49, <3>2
    <3>4. from[q] \in V
      <4> HIDE DEF V
      <4> QED BY <1>48
    <3>5. from[p] = [from[q] EXCEPT !.compounds = Append(@, compound(p))]
      BY <1>45, <2>1, <3>2 DEF Body
    <3>6. from[p].at = from[q].at
      BY <3>4, <3>5
    <3>7. NotBefore(from[p].at, q)
      BY <3>3, <3>6
    <3>9. NotBefore(from[p].at, p)
      BY <3>2, <3>7, PlacesAreOrdered
    <3> QED BY <3>9
  <2>2. CASE ends(p)
    <3>0. from[p] = [compounds |-> <<last(p)>>, at |-> place(p)]
      BY <1>45, <2>2 DEF Body
    <3>1. from[p].at = place(p)
      BY <3>0
    <3>2. NotBefore(place(p), p)
      BY <1>3
    <3> QED BY <3>1, <3>2
  <2> QED BY <2>1, <2>2
<1>50. \A p \in Places : p \in S
  <2> HIDE DEF S
  <2>1. Backwards(L, S)
    BY <1>1, <1>49 DEF Backwards
  <2> QED BY <2>1, ForwardInduction
<1>51. IsSelector(from[i].compounds)
  <2>1. from[i] \in V
    <3> HIDE DEF V
    <3> QED BY <1>48
  <2> QED BY <2>1
<1> QED BY <1>2, <1>50, <1>51

(* The selectors of a list, and the place behind them. *)
LEMMA SelectorListsEnd ==
  ASSUME NEW ts, Len(ts) \in Nat, NEW i \in Places
  PROVE  LET l == ParseSelectorList(ts, i)
         IN  /\ NotBefore(l.at, i)
             /\ Len(l.sels) \in Nat /\ \A j \in 1 .. Len(l.sels) : IsSelector(l.sels[j])
<1>1. PICK L \in Nat : L = Len(ts)
  OBVIOUS
<1> DEFINE s(p)    == ParseSelector(ts, p)
           k(p)    == NonWS(ts, s(p).at)
           ends(p) == At(ts, k(p)).type # ","
           sel(p)  == s(p).compounds
           Sels    == {sel(p) : p \in Places}
<1> DEFINE V          == [sels : Seq(Sels), at : Places]
           Body(f, p) == IF ends(p) THEN [sels |-> <<sel(p)>>, at |-> k(p)]
                         ELSE [f[k(p) + 1] EXCEPT !.sels = <<sel(p)>> \o @]
           Step(f)    == [p \in Places |-> Body(f, p)]
           from       == CHOOSE f : f = Step(f)
           G          == [p \in Places |-> [f \in [Places -> V] |-> Body(f, p)]]
<1>2. ParseSelectorList(ts, i) = from[i]
  BY DEF ParseSelectorList
<1>3. ASSUME NEW p \in Places
      PROVE  /\ k(p) \in Places /\ k(p) + 1 \in Places /\ NotBefore(k(p), p)
             /\ ~ends(p) => p <= L /\ k(p) + 1 > p
             /\ <<sel(p)>> \in Seq(Sels) /\ IsSelector(sel(p))
  <2>1. NotBefore(s(p).at, p) /\ IsSelector(sel(p))
    BY <1>1, SelectorsGoOn
  <2>2. s(p).at \in Places
    BY <2>1 DEF NotBefore
  <2>3. NotBefore(k(p), s(p).at) /\ k(p) \in Places
    <3> HIDE DEF s
    <3> QED BY <2>2, NoBlankBefore
  <2>4. <<sel(p)>> \in Seq(Sels)
    <3>1. ASSUME NEW T, NEW z \in T PROVE <<z>> \in Seq(T)
      OBVIOUS
    <3>2. sel(p) \in Sels
      OBVIOUS
    <3> HIDE DEF sel, Sels
    <3> QED BY <3>1, <3>2
  <2> HIDE DEF s, k, sel, Sels
  <2>5. NotBefore(k(p), p)
    BY <2>1, <2>2, <2>3, PlacesAreOrdered
  <2>6. ~ends(p) => k(p) <= L
    BY <1>1, <2>3, NoTokenBehind
  <2> HIDE DEF ends
  <2>7. k(p) + 1 \in Places /\ k(p) + 1 > p /\ (k(p) <= L => p <= L)
    BY <2>3, <2>5 DEF NotBefore, Places
  <2> QED BY <2>1, <2>3, <2>4, <2>5, <2>6, <2>7
<1> HIDE DEF s, k, ends, sel
<1>41. \A p \in Places : \A f \in [Places -> V] : Body(f, p) \in V
  <2> SUFFICES ASSUME NEW p \in Places, NEW f \in [Places -> V] PROVE Body(f, p) \in V
    OBVIOUS
  <2>1. CASE ~ends(p)
    <3>1. k(p) + 1 \in Places /\ <<sel(p)>> \in Seq(Sels)
      BY <1>3
    <3> HIDE DEF Sels
    <3>2. PICK v \in V : v = f[k(p) + 1]
      BY <3>1
    <3>3. v.sels \in Seq(Sels)
      BY <3>2
    <3>4. <<sel(p)>> \o v.sels \in Seq(Sels)
      BY <3>1, <3>3, ConcatProperties
    <3>5. [v EXCEPT !.sels = <<sel(p)>> \o v.sels] \in V
      BY <3>2, <3>4
    <3>6. Body(f, p) = [v EXCEPT !.sels = <<sel(p)>> \o v.sels]
      BY <2>1, <3>2
    <3> HIDE DEF V, Body
    <3> QED BY <3>5, <3>6
  <2>2. CASE ends(p)
    <3>1. <<sel(p)>> \in Seq(Sels) /\ k(p) \in Places
      BY <1>3
    <3> HIDE DEF Sels
    <3> QED BY <2>2, <3>1
  <2> QED BY <2>1, <2>2
<1>42. ASSUME NEW p \in Places, NEW f, NEW g, \A q \in Places : p <= L /\ q > p => f[q] = g[q]
      PROVE  Body(f, p) = Body(g, p)
  <2>1. CASE ~ends(p)
    <3>1. f[k(p) + 1] = g[k(p) + 1]
      BY <1>3, <1>42, <2>1
    <3> QED BY <2>1, <3>1
  <2>2. CASE ends(p)
    BY <2>2
  <2> QED BY <2>1, <2>2
<1> HIDE DEF Body
<1>43. \E f \in [Places -> V] : \A p \in Places : f[p] = Body(f, p)
  <2>1. G \in [Places -> [[Places -> V] -> V]] /\ \A p \in Places : \A f \in [Places -> V] : G[p][f] = Body(f, p)
    BY <1>41
  <2>2. V # {}
    <3>1. <<sel(i)>> \in Seq(Sels)
      BY <1>3
    <3>2. [sels |-> <<sel(i)>>, at |-> i] \in V
      <4> HIDE DEF Sels
      <4> QED BY <3>1
    <3> HIDE DEF V
    <3> QED BY <3>2
  <2> HIDE DEF G, V
  <2>3. ASSUME NEW p \in Places, NEW f \in [Places -> V], NEW g \in [Places -> V],
               \A q \in Places : p <= L /\ q > p => f[q] = g[q]
        PROVE  G[p][f] = G[p][g]
    <3>1. Body(f, p) = Body(g, p)
      BY <1>42, <2>3
    <3> QED BY <2>1, <3>1
  <2>4. Forward(L, V, G)
    BY <1>1, <2>1, <2>2, <2>3 DEF Forward
  <2>5. Solved(Places, V, G)
    BY <2>4, ForwardRecursion
  <2> QED BY <2>1, <2>5 DEF Solved
<1>44. PICK f \in [Places -> V] : \A p \in Places : f[p] = Body(f, p)
  BY <1>43
<1>45. \A p \in Places : from[p] = Body(from, p)
  <2>1. f = Step(f)
    BY <1>44
  <2>2. from = Step(from)
    <3> HIDE DEF Step
    <3> QED BY <2>1
  <2> HIDE DEF from
  <2> QED BY <2>2
<1> HIDE DEF from
<1> DEFINE Same == {p \in Places : from[p] = f[p]}
<1>46. ASSUME NEW p \in Places, \A q \in Places : p <= L /\ q > p => q \in Same PROVE p \in Same
  <2>1. \A q \in Places : p <= L /\ q > p => from[q] = f[q]
    BY <1>46
  <2>2. Body(from, p) = Body(f, p)
    BY <1>42, <2>1
  <2> QED BY <1>44, <1>45, <2>2
<1>47. \A p \in Places : from[p] = f[p]
  <2> HIDE DEF Same
  <2>1. Backwards(L, Same)
    BY <1>1, <1>46 DEF Backwards
  <2>2. \A p \in Places : p \in Same
    BY <2>1, ForwardInduction
  <2> QED BY <2>2 DEF Same
<1>48. \A p \in Places : from[p] \in V
  <2> HIDE DEF V
  <2> QED BY <1>44, <1>47
<1> DEFINE S == {p \in Places : NotBefore(from[p].at, p)}
<1>49. ASSUME NEW p \in Places, \A q \in Places : p <= L /\ q > p => q \in S PROVE p \in S
  <2>1. CASE ~ends(p)
    <3>1. PICK q \in Places : q = k(p) + 1 /\ q > p /\ p <= L
      BY <1>3, <2>1
    <3>2. NotBefore(from[q].at, q)
      BY <1>49, <3>1
    <3> HIDE DEF S, Sels
    <3>3. from[q] \in V
      <4> HIDE DEF V
      <4> QED BY <1>48
    <3>4. from[p] = [from[q] EXCEPT !.sels = <<sel(p)>> \o @]
      BY <1>45, <2>1, <3>1 DEF Body
    <3>5. from[p].at = from[q].at
      BY <3>3, <3>4
    <3>6. NotBefore(from[p].at, p)
      BY <3>1, <3>2, <3>5, PlacesAreOrdered DEF Behind
    <3> QED BY <3>6 DEF S
  <2>2. CASE ends(p)
    <3>1. from[p] = [sels |-> <<sel(p)>>, at |-> k(p)]
      BY <1>45, <2>2 DEF Body
    <3>2. from[p].at = k(p)
      BY <3>1
    <3> QED BY <1>3, <3>2
  <2> QED BY <2>1, <2>2
<1>50. \A p \in Places : p \in S
  <2> HIDE DEF S
  <2>1. Backwards(L, S)
    BY <1>1, <1>49 DEF Backwards
  <2> QED BY <2>1, ForwardInduction
<1>51. NotBefore(from[i].at, i) /\ from[i].sels \in Seq(Sels)
  <2>1. NotBefore(from[i].at, i)
    BY <1>50
  <2>2. from[i] \in V
    <3> HIDE DEF V
    <3> QED BY <1>48
  <2> HIDE DEF Sels, S
  <2> QED BY <2>1, <2>2
<1>52. PICK l \in Seq(Sels) : l = from[i].sels
  BY <1>51
<1>53. \A z \in Sels : IsSelector(z)
  BY <1>3
<1>54. Len(l) \in Nat /\ \A j \in 1 .. Len(l) : IsSelector(l[j])
  <2> HIDE DEF Sels
  <2>1. Len(l) \in Nat /\ \A j \in 1 .. Len(l) : l[j] \in Sels
    BY SeqIsSeq DEF IsSeq
  <2> QED BY <1>53, <2>1
<1> QED BY <1>2, <1>51, <1>52, <1>54

-----------------------------------------------------------------------------
(* The parser's steps.                                                     *)

(* Texts to parse: each is so and so many characters. *)
TextsOK(lists) ==
  \A texts \in lists :
    Len(texts) \in Nat /\ \A n \in 1 .. Len(texts) : Len(texts[n].text) \in Nat

IsRules(rules) == IsSeq(rules) /\ \A k \in 1 .. Len(rules) : IsRule(rules[k])
IsSelectors(sels) == Len(sels) \in Nat /\ \A j \in 1 .. Len(sels) : IsSelector(sels[j])

TextUnread == css.texts[Len(css.got) + 1]

(* The state between two turns of the parser's loops. *)
ParserOK ==
  /\ css = [texts |-> css.texts, ts |-> css.ts, at |-> css.at, mode |-> css.mode, sels |-> css.sels,
            decls |-> css.decls, rules |-> css.rules, got |-> css.got]
  /\ TextsOK({css.texts})
  /\ Len(css.ts) \in Nat /\ css.at \in Places
  /\ css.mode \in {"sheet", "block"} => ~TextUnread.inline
  /\ css.mode = "inline" => TextUnread.inline
  /\ IsSeq(css.decls) /\ IsDecls(css.decls)
  /\ IsSelectors(css.sels)
  /\ IsRules(css.rules)
  /\ IsSeq(css.got) /\ SheetsOK

LEMMA RulesGrow ==
  ASSUME NEW rules, IsRules(rules), NEW sels, IsSelectors(sels), NEW decls, IsDecls(decls)
  PROVE  IsRules(Append(rules, [sels |-> sels, decls |-> decls]))
<1> DEFINE r  == [sels |-> sels, decls |-> decls]
           rs == Append(rules, r)
<1>1. IsRule(r)
  BY DEF IsRule, IsSelectors
<1> HIDE DEF r
<1>2. PICK n \in Nat : n = Len(rules)
  BY DEF IsRules, IsSeq
<1>3. IsSeq(rs) /\ Len(rs) = n + 1 /\ rs[n + 1] = r /\ \A k \in 1 .. n : rs[k] = rules[k]
  BY <1>2, SeqGrows DEF IsRules
<1> HIDE DEF rs
<1>4. \A k \in 1 .. n + 1 : k = n + 1 \/ k \in 1 .. n
  OBVIOUS
<1>5. \A k \in 1 .. Len(rs) : IsRule(rs[k])
  BY <1>1, <1>2, <1>3, <1>4 DEF IsRules
<1>6. IsRules(rs)
  BY <1>3, <1>5 DEF IsRules
<1> QED BY <1>6 DEF rs, r

LEMMA DeclsGrow ==
  ASSUME NEW s, IsSeq(s), IsDecls(s), NEW t, IsSeq(t), IsDecls(t)
  PROVE  IsSeq(s \o t) /\ IsDecls(s \o t)
<1>1. IsSeq(s \o t) /\ Len(s \o t) = Len(s) + Len(t)
  BY SeqsJoin
<1>2. Len(s \o t) \in Nat
  BY <1>1 DEF IsSeq
<1>3. ASSUME NEW i \in 1 .. Len(s \o t)
      PROVE  (s \o t)[i].prop \in Properties /\ (s \o t)[i].important \in BOOLEAN
  <2>1. \/ \E k \in 1 .. Len(s) : (s \o t)[i] = s[k]
        \/ \E k \in 1 .. Len(t) : (s \o t)[i] = t[k]
    BY SeqsJoin
  <2> QED BY <2>1 DEF IsDecls
<1> QED BY <1>1, <1>2, <1>3 DEF IsDecls

(* What is got grows by what the text unread was parsed into. *)
LEMMA SheetsGrow ==
  ASSUME ParserOK, NEW x, IF TextUnread.inline THEN IsDecls(x) ELSE IsRules(x),
         css'.texts = css.texts, css'.got = Append(css.got, x)
  PROVE  IsSeq(css'.got) /\ SheetsOK'
<1>1. IsSeq(css.got) /\ SheetsOK
  BY DEF ParserOK
<1>2. PICK n \in Nat : n = Len(css.got)
  BY <1>1 DEF IsSeq
<1>3. IsSeq(css'.got) /\ Len(css'.got) = n + 1 /\ css'.got[n + 1] = x /\ \A k \in 1 .. n : css'.got[k] = css.got[k]
  BY <1>1, <1>2, SeqGrows
<1>4. TextUnread = css.texts[n + 1]
  BY <1>2 DEF TextUnread
<1>5. ASSUME NEW m \in 1 .. Len(css'.got)
      PROVE  IF css.texts[m].inline THEN IsDecls(css'.got[m]) ELSE IsRules(css'.got[m])
  <2>1. m = n + 1 \/ m \in 1 .. n
    BY <1>3
  <2>2. CASE m = n + 1
    BY <1>3, <1>4, <2>2
  <2>3. CASE m \in 1 .. n
    <3>1. css'.got[m] = css.got[m]
      BY <1>3, <2>3
    <3>2. IF css.texts[m].inline THEN IsDecls(css.got[m]) ELSE IsRules(css.got[m])
      BY <1>1, <1>2, <2>3 DEF SheetsOK, IsRules
    <3> QED BY <3>1, <3>2
  <2> QED BY <2>1, <2>2, <2>3
<1>6. Len(css'.got) \in Nat
  BY <1>3
<1>7. SheetsOK'
  BY <1>5, <1>6 DEF SheetsOK, IsRules
<1> QED BY <1>3, <1>7

LEMMA ParserInit ==
  ASSUME NEW lists, TextsOK(lists), CssInit(lists)
  PROVE  ParserOK
<1>1. PICK texts \in lists : css = [texts |-> texts, ts |-> <<>>, at |-> 1, mode |-> "idle", sels |-> <<>>,
                                    decls |-> <<>>, rules |-> <<>>, got |-> <<>>]
  BY DEF CssInit
<1>2. IsSeq(<<>>) /\ Len(<<>>) = 0
  BY TupleIsSeq
<1>3. /\ css.texts = texts /\ css.ts = <<>> /\ css.at = 1 /\ css.mode = "idle" /\ css.sels = <<>>
      /\ css.decls = <<>> /\ css.rules = <<>> /\ css.got = <<>>
  BY <1>1
<1>4. TextsOK({css.texts})
  BY <1>3 DEF TextsOK
<1>5. Len(css.ts) \in Nat /\ css.at \in Places
  BY <1>2, <1>3 DEF Places
<1>6. IsSeq(css.decls) /\ IsDecls(css.decls) /\ IsSelectors(css.sels) /\ IsRules(css.rules)
  BY <1>2, <1>3 DEF IsDecls, IsSelectors, IsRules
<1>7. IsSeq(css.got) /\ SheetsOK
  BY <1>2, <1>3 DEF SheetsOK
<1>8. css.mode \notin {"sheet", "block", "inline"}
  BY <1>3
<1> QED BY <1>1, <1>3, <1>4, <1>5, <1>6, <1>7, <1>8 DEF ParserOK

(* Where the parser is, and that it is at a token when it sees one. *)
LEMMA HereIsPlace ==
  ASSUME ParserOK
  PROVE  /\ Here \in Places /\ Here + 1 \in Places /\ NotBefore(Here, css.at)
         /\ Next1 # "eof" => Here + 1 <= Len(css.ts) + 1
<1>1. PICK L \in Nat : L = Len(css.ts)
  BY DEF ParserOK
<1>2. css.at \in Places
  BY DEF ParserOK
<1>3. Here \in Places /\ NotBefore(Here, css.at)
  BY <1>2, NoBlankBefore DEF Here
<1>4. Next1 # "eof" => Here <= L
  BY <1>1, <1>3, NoTokenBehind DEF Next1
<1> HIDE DEF Here, Next1
<1>5. Here + 1 \in Places /\ (Here <= L => Here + 1 <= L + 1)
  BY <1>3 DEF Places
<1> QED BY <1>1, <1>3, <1>4, <1>5

(* One turn of the parser. *)
LEMMA ParserStep ==
  ASSUME ParserOK, [CssNext]_css
  PROVE  ParserOK'
<1> DEFINE record(x) == x = [texts |-> x.texts, ts |-> x.ts, at |-> x.at, mode |-> x.mode, sels |-> x.sels,
                             decls |-> x.decls, rules |-> x.rules, got |-> x.got]
<1>0. record(css) /\ TextsOK({css.texts}) /\ Len(css.ts) \in Nat /\ css.at \in Places
      /\ IsSeq(css.decls) /\ IsDecls(css.decls) /\ IsSelectors(css.sels) /\ IsRules(css.rules)
      /\ IsSeq(css.got) /\ SheetsOK
  BY DEF ParserOK
<1>1. ASSUME css'.texts = css.texts /\ css'.got = css.got
      PROVE  TextUnread' = TextUnread /\ IsSeq(css'.got) /\ SheetsOK'
  BY <1>0, <1>1 DEF TextUnread, SheetsOK
<1>2. CASE UNCHANGED css
  BY <1>2 DEF ParserOK, SheetsOK, TextUnread
<1>3. CASE BeginText
  <2> DEFINE text == css.texts[Len(css.got) + 1]
             mode == IF text.inline THEN "inline" ELSE "sheet"
  <2>1. css' = [css EXCEPT !.ts = Tokens(text.text), !.at = 1, !.decls = <<>>, !.rules = <<>>, !.mode = mode]
        /\ Len(css.got) < Len(css.texts)
    BY <1>3 DEF BeginText
  <2>2. Len(text.text) \in Nat
    <3>1. Len(css.texts) \in Nat /\ \A n \in 1 .. Len(css.texts) : Len(css.texts[n].text) \in Nat
      BY <1>0 DEF TextsOK
    <3>2. PICK n \in Nat : n = Len(css.got)
      BY <1>0 DEF IsSeq
    <3>3. n + 1 \in 1 .. Len(css.texts)
      BY <2>1, <3>1, <3>2
    <3> QED BY <3>1, <3>2, <3>3
  <2> HIDE DEF text, mode
  <2>3. css' = [texts |-> css.texts, ts |-> Tokens(text.text), at |-> 1, mode |-> mode, sels |-> css.sels,
                decls |-> <<>>, rules |-> <<>>, got |-> css.got]
    BY <1>0, <2>1
  <2>4. /\ record(css') /\ css'.texts = css.texts /\ css'.ts = Tokens(text.text) /\ css'.at = 1 /\ css'.mode = mode
        /\ css'.sels = css.sels /\ css'.decls = <<>> /\ css'.rules = <<>> /\ css'.got = css.got
    BY <2>3
  <2>5. Len(css'.ts) \in Nat /\ css'.at \in Places
    BY <2>2, <2>4, TokensEnd DEF Places
  <2>6. IsSeq(css'.decls) /\ IsDecls(css'.decls) /\ IsRules(css'.rules)
    BY <2>4, TupleIsSeq DEF IsDecls, IsRules
  <2>7. (css'.mode \in {"sheet", "block"} => ~TextUnread.inline) /\ (css'.mode = "inline" => TextUnread.inline)
    BY <2>4 DEF mode, text, TextUnread
  <2>8. TextUnread' = TextUnread /\ IsSeq(css'.got) /\ SheetsOK'
    BY <1>1, <2>4
  <2> QED BY <1>0, <2>4, <2>5, <2>6, <2>7, <2>8 DEF ParserOK
<1>4. CASE EndSheet
  <2>1. css' = [css EXCEPT !.got = Append(css.got, css.rules), !.mode = "idle"] /\ css.mode = "sheet"
    BY <1>4 DEF EndSheet
  <2>2. css' = [texts |-> css.texts, ts |-> css.ts, at |-> css.at, mode |-> "idle", sels |-> css.sels,
                decls |-> css.decls, rules |-> css.rules, got |-> Append(css.got, css.rules)]
    BY <1>0, <2>1
  <2>3. /\ record(css') /\ css'.texts = css.texts /\ css'.ts = css.ts /\ css'.at = css.at /\ css'.mode = "idle"
        /\ css'.sels = css.sels /\ css'.decls = css.decls /\ css'.rules = css.rules
        /\ css'.got = Append(css.got, css.rules)
    BY <2>2
  <2>4. ~TextUnread.inline
    BY <2>1 DEF ParserOK
  <2>5. IsSeq(css'.got) /\ SheetsOK'
    BY <1>0, <2>3, <2>4, SheetsGrow
  <2>6. css'.mode \notin {"sheet", "block", "inline"}
    BY <2>3
  <2> QED BY <1>0, <2>3, <2>5, <2>6 DEF ParserOK
<1>5. CASE SkipAtRule
  <2>1. css' = [css EXCEPT !.at = AtRuleEnd(css.ts, Here + 1)] /\ Next1 # "eof"
    BY <1>5 DEF SkipAtRule
  <2>2. AtRuleEnd(css.ts, Here + 1) \in Places
    BY <1>0, <2>1, HereIsPlace, AtRulesEnd DEF NotBefore
  <2>3. css' = [texts |-> css.texts, ts |-> css.ts, at |-> AtRuleEnd(css.ts, Here + 1), mode |-> css.mode,
                sels |-> css.sels, decls |-> css.decls, rules |-> css.rules, got |-> css.got]
    BY <1>0, <2>1
  <2>4. /\ record(css') /\ css'.texts = css.texts /\ css'.ts = css.ts /\ css'.at \in Places /\ css'.mode = css.mode
        /\ css'.sels = css.sels /\ css'.decls = css.decls /\ css'.rules = css.rules /\ css'.got = css.got
    BY <2>2, <2>3
  <2>5. TextUnread' = TextUnread /\ IsSeq(css'.got) /\ SheetsOK'
    BY <1>1, <2>4
  <2> QED BY <1>0, <2>4, <2>5 DEF ParserOK
<1>6. CASE BeginRule
  <2> DEFINE l    == ParseSelectorList(css.ts, Here)
             k    == NonWS(css.ts, l.at)
             open == At(css.ts, k).type = "{"
             mode == IF open THEN "block" ELSE "sheet"
             rules == IF open THEN css.rules ELSE Append(css.rules, [sels |-> l.sels, decls |-> <<>>])
  <2>1. css' = [css EXCEPT !.at = k + 1, !.sels = l.sels, !.decls = <<>>, !.mode = mode, !.rules = rules]
        /\ css.mode = "sheet"
    BY <1>6 DEF BeginRule
  <2>2. l.at \in Places /\ IsSelectors(l.sels)
    BY <1>0, HereIsPlace, SelectorListsEnd DEF IsSelectors, NotBefore
  <2>3. k + 1 \in Places
    <3> HIDE DEF l
    <3>1. k \in Places
      BY <2>2, NoBlankBefore
    <3> HIDE DEF k
    <3> QED BY <3>1, NoBlankBefore
  <2>4. IsSeq(<<>>) /\ IsDecls(<<>>)
    BY TupleIsSeq DEF IsDecls
  <2> HIDE DEF k, open, l
  <2>5. IsRules(rules)
    BY <1>0, <2>2, <2>4, RulesGrow
  <2>6. mode \in {"block", "sheet"}
    OBVIOUS
  <2> HIDE DEF rules, mode
  <2>7. css' = [texts |-> css.texts, ts |-> css.ts, at |-> k + 1, mode |-> mode, sels |-> l.sels,
                decls |-> <<>>, rules |-> rules, got |-> css.got]
    BY <1>0, <2>1
  <2>8. /\ record(css') /\ css'.texts = css.texts /\ css'.ts = css.ts /\ css'.at = k + 1 /\ css'.mode = mode
        /\ css'.sels = l.sels /\ css'.decls = <<>> /\ css'.rules = rules /\ css'.got = css.got
    BY <2>7
  <2>9. TextUnread' = TextUnread /\ IsSeq(css'.got) /\ SheetsOK'
    BY <1>1, <2>8
  <2>10. ~TextUnread.inline
    BY <2>1 DEF ParserOK
  <2>11. css'.mode # "inline"
    BY <2>6, <2>8
  <2> QED BY <1>0, <2>2, <2>3, <2>4, <2>5, <2>8, <2>9, <2>10, <2>11 DEF ParserOK
<1>7. CASE DeclarationTurn
  <2> DEFINE d  == ParseDeclaration(css.ts, Here)
             at == IF d.ok THEN d.at ELSE Recover(css.ts, d.at)
  <2>1. css' = [css EXCEPT !.at = at, !.decls = css.decls \o d.out]
    BY <1>7 DEF DeclarationTurn
  <2>2. d.at \in Places /\ IsSeq(d.out) /\ IsDecls(d.out)
    BY <1>0, HereIsPlace, DeclarationIsDeclared DEF IsDeclared, NotBefore
  <2> HIDE DEF d
  <2>3. at \in Places
    BY <1>0, <2>2, RecoveryEnds DEF NotBefore
  <2> HIDE DEF at
  <2>4. IsSeq(css.decls \o d.out) /\ IsDecls(css.decls \o d.out)
    BY <1>0, <2>2, DeclsGrow
  <2>5. css' = [texts |-> css.texts, ts |-> css.ts, at |-> at, mode |-> css.mode, sels |-> css.sels,
                decls |-> css.decls \o d.out, rules |-> css.rules, got |-> css.got]
    BY <1>0, <2>1
  <2>6. /\ record(css') /\ css'.texts = css.texts /\ css'.ts = css.ts /\ css'.at = at /\ css'.mode = css.mode
        /\ css'.sels = css.sels /\ css'.decls = css.decls \o d.out /\ css'.rules = css.rules /\ css'.got = css.got
    BY <2>5
  <2>7. TextUnread' = TextUnread /\ IsSeq(css'.got) /\ SheetsOK'
    BY <1>1, <2>6
  <2> QED BY <1>0, <2>3, <2>4, <2>6, <2>7 DEF ParserOK
<1>8. CASE EndBlock
  <2> DEFINE at    == IF Next1 = "}" THEN Here + 1 ELSE Here
             rules == Append(css.rules, [sels |-> css.sels, decls |-> css.decls])
  <2>1. css' = [css EXCEPT !.at = at, !.mode = "sheet", !.rules = rules] /\ css.mode = "block"
    BY <1>8 DEF EndBlock
  <2>2. at \in Places
    BY HereIsPlace
  <2>3. IsRules(rules)
    BY <1>0, RulesGrow
  <2> HIDE DEF at, rules
  <2>4. css' = [texts |-> css.texts, ts |-> css.ts, at |-> at, mode |-> "sheet", sels |-> css.sels,
                decls |-> css.decls, rules |-> rules, got |-> css.got]
    BY <1>0, <2>1
  <2>5. /\ record(css') /\ css'.texts = css.texts /\ css'.ts = css.ts /\ css'.at = at /\ css'.mode = "sheet"
        /\ css'.sels = css.sels /\ css'.decls = css.decls /\ css'.rules = rules /\ css'.got = css.got
    BY <2>4
  <2>6. TextUnread' = TextUnread /\ IsSeq(css'.got) /\ SheetsOK'
    BY <1>1, <2>5
  <2>7. ~TextUnread.inline
    BY <2>1 DEF ParserOK
  <2>8. css'.mode # "inline"
    BY <2>5
  <2> QED BY <1>0, <2>2, <2>3, <2>5, <2>6, <2>7, <2>8 DEF ParserOK
<1>9. CASE EndInline
  <2>1. css' = [css EXCEPT !.got = Append(css.got, css.decls), !.mode = "idle"] /\ css.mode = "inline"
    BY <1>9 DEF EndInline
  <2>2. css' = [texts |-> css.texts, ts |-> css.ts, at |-> css.at, mode |-> "idle", sels |-> css.sels,
                decls |-> css.decls, rules |-> css.rules, got |-> Append(css.got, css.decls)]
    BY <1>0, <2>1
  <2>3. /\ record(css') /\ css'.texts = css.texts /\ css'.ts = css.ts /\ css'.at = css.at /\ css'.mode = "idle"
        /\ css'.sels = css.sels /\ css'.decls = css.decls /\ css'.rules = css.rules
        /\ css'.got = Append(css.got, css.decls)
    BY <2>2
  <2>4. TextUnread.inline
    BY <2>1 DEF ParserOK
  <2>5. IsSeq(css'.got) /\ SheetsOK'
    BY <1>0, <2>3, <2>4, SheetsGrow
  <2>6. css'.mode \notin {"sheet", "block", "inline"}
    BY <2>3
  <2> QED BY <1>0, <2>3, <2>5, <2>6 DEF ParserOK
<1> QED BY <1>2, <1>3, <1>4, <1>5, <1>6, <1>7, <1>8, <1>9 DEF CssNext

(* A bound on the turns that the parser's loops have yet to make.          *)
TokensLeft == IF css.at > Len(css.ts) THEN 0 ELSE Len(css.ts) + 1 - css.at
TurnsLeft ==
  IF css.mode = "idle" THEN 0 ELSE 2 * TokensLeft + (IF css.mode = "block" THEN 2 ELSE 1)

LEMMA FewerLeft ==
  ASSUME ParserOK, css'.ts = css.ts, NotBefore(css'.at, css.at)
  PROVE  /\ TokensLeft \in Nat /\ TokensLeft' \in Nat /\ TokensLeft' <= TokensLeft
         /\ Behind(css'.at, Here) /\ Next1 # "eof" => TokensLeft' < TokensLeft
<1>1. PICK L \in Nat : L = Len(css.ts)
  BY DEF ParserOK
<1>2. PICK p \in Places : p = css.at
  BY DEF ParserOK
<1>3. PICK q \in Places : q = css'.at /\ q >= p
  BY <1>2 DEF NotBefore
<1>4. TokensLeft = (IF p > L THEN 0 ELSE L + 1 - p) /\ TokensLeft' = (IF q > L THEN 0 ELSE L + 1 - q)
  BY <1>1, <1>2, <1>3 DEF TokensLeft
<1>5. TokensLeft \in Nat /\ TokensLeft' \in Nat /\ TokensLeft' <= TokensLeft
  BY <1>3, <1>4 DEF Places
<1>6. ASSUME Behind(css'.at, Here), Next1 # "eof" PROVE TokensLeft' < TokensLeft
  <2>1. PICK h \in Places : h = Here /\ h >= p /\ h <= L
    <3>1. Here \in Places /\ NotBefore(Here, css.at) /\ Here + 1 <= Len(css.ts) + 1
      BY <1>6, HereIsPlace
    <3> HIDE DEF Here
    <3> QED BY <1>1, <1>2, <3>1 DEF NotBefore, Places
  <2>2. q > h
    BY <1>3, <1>6, <2>1 DEF Behind
  <2> QED BY <1>4, <2>1, <2>2 DEF Places
<1> QED BY <1>5, <1>6

(* The turns left are fewer when the place is the same or further on and   *)
(* the mode one that ends it, or one with fewer turns.                     *)
LEMMA FewerTurns ==
  ASSUME ParserOK, css'.ts = css.ts, NotBefore(css'.at, css.at), css.mode # "idle",
         \/ css'.mode = "idle"
         \/ css.mode = "block" /\ css'.mode = "sheet"
         \/ Behind(css'.at, Here) /\ Next1 # "eof"
  PROVE  TurnsLeft \in Nat /\ TurnsLeft' \in Nat /\ TurnsLeft' < TurnsLeft
<1>1. PICK m \in Nat, n \in Nat : m = TokensLeft /\ n = TokensLeft' /\ n <= m
  BY FewerLeft
<1>2. PICK a \in {1, 2} : a = (IF css.mode = "block" THEN 2 ELSE 1)
  OBVIOUS
<1>3. PICK b \in {1, 2} : b = (IF css'.mode = "block" THEN 2 ELSE 1)
  OBVIOUS
<1>4. TurnsLeft = 2 * m + a
  BY <1>1, <1>2 DEF TurnsLeft
<1>5. TurnsLeft' = (IF css'.mode = "idle" THEN 0 ELSE 2 * n + b)
  BY <1>1, <1>3 DEF TurnsLeft
<1>6. CASE css'.mode = "idle"
  <2>1. TurnsLeft' = 0
    BY <1>5, <1>6
  <2> QED BY <1>4, <2>1
<1>7. CASE css.mode = "block" /\ css'.mode = "sheet"
  <2>1. TurnsLeft' = 2 * n + b /\ a = 2 /\ b = 1
    BY <1>2, <1>3, <1>5, <1>7
  <2>2. TurnsLeft = 2 * m + 2 /\ TurnsLeft' = 2 * n + 1
    BY <1>4, <2>1
  <2>3. n <= m
    BY <1>1
  <2> HIDE DEF TurnsLeft
  <2> QED BY <2>2, <2>3
<1>8. CASE Behind(css'.at, Here) /\ Next1 # "eof"
  <2>1. n < m
    BY <1>1, <1>8, FewerLeft
  <2>2. TurnsLeft' = 0 \/ TurnsLeft' = 2 * n + b
    BY <1>5
  <2> QED BY <1>4, <2>1, <2>2
<1> QED BY <1>6, <1>7, <1>8

LEMMA TurnsLeaveLess ==
  ASSUME ParserOK, CssNext, ~BeginText
  PROVE  TurnsLeft \in Nat /\ TurnsLeft' \in Nat /\ TurnsLeft' < TurnsLeft
<1>0. /\ css = [texts |-> css.texts, ts |-> css.ts, at |-> css.at, mode |-> css.mode, sels |-> css.sels,
                decls |-> css.decls, rules |-> css.rules, got |-> css.got]
      /\ css.at \in Places /\ NotBefore(css.at, css.at) /\ Len(css.ts) \in Nat
  BY PlacesAreOrdered DEF ParserOK
<1>1. CASE EndSheet \/ EndInline
  <2>1. PICK x : css' = [css EXCEPT !.got = x, !.mode = "idle"] /\ css.mode \in {"sheet", "inline"}
    BY <1>1 DEF EndSheet, EndInline
  <2>2. css'.ts = css.ts /\ css'.at = css.at /\ css'.mode = "idle" /\ css.mode # "idle"
    BY <1>0, <2>1
  <2> QED BY <1>0, <2>2, FewerTurns
<1>2. CASE EndBlock
  <2>1. PICK p, x : /\ css' = [css EXCEPT !.at = p, !.mode = "sheet", !.rules = x] /\ css.mode = "block"
                    /\ p \in {Here, Here + 1}
    BY <1>2 DEF EndBlock
  <2>2. css'.ts = css.ts /\ css'.at = p /\ css'.mode = "sheet" /\ css.mode = "block"
    BY <1>0, <2>1
  <2>3. NotBefore(p, css.at)
    <3>1. NotBefore(Here, css.at)
      BY HereIsPlace
    <3> HIDE DEF Here
    <3> QED BY <1>0, <2>1, <3>1, Onwards
  <2> QED BY <2>2, <2>3, FewerTurns
<1>3. ASSUME NEW p, Behind(p, Here), css'.at = p, css'.ts = css.ts, css.mode # "idle", Next1 # "eof"
      PROVE  TurnsLeft \in Nat /\ TurnsLeft' \in Nat /\ TurnsLeft' < TurnsLeft
  <2>1. NotBefore(Here, css.at) /\ Here \in Places
    BY HereIsPlace
  <2> HIDE DEF Here, Next1
  <2>2. NotBefore(p, Here)
    BY <1>3, <2>1, PlacesAreOrdered
  <2>3. NotBefore(p, css.at)
    BY <1>0, <2>1, <2>2, PlacesAreOrdered
  <2> QED BY <1>3, <2>3, FewerTurns
<1>4. CASE SkipAtRule
  <2> DEFINE p == AtRuleEnd(css.ts, Here + 1)
  <2>1. css' = [css EXCEPT !.at = p] /\ css.mode = "sheet" /\ Next1 # "eof"
    BY <1>4 DEF SkipAtRule
  <2>2. Behind(p, Here)
    <3>1. NotBefore(p, Here + 1) /\ Here \in Places
      BY <1>0, <2>1, HereIsPlace, AtRulesEnd
    <3> QED BY <3>1, PlacesAreOrdered
  <2> HIDE DEF p
  <2>3. css'.at = p /\ css'.ts = css.ts
    BY <1>0, <2>1
  <2> QED BY <1>3, <2>1, <2>2, <2>3
<1>5. CASE BeginRule
  <2> DEFINE l     == ParseSelectorList(css.ts, Here)
             k     == NonWS(css.ts, l.at)
             open  == At(css.ts, k).type = "{"
             mode  == IF open THEN "block" ELSE "sheet"
             rules == IF open THEN css.rules ELSE Append(css.rules, [sels |-> l.sels, decls |-> <<>>])
  <2>1. /\ css' = [css EXCEPT !.at = k + 1, !.sels = l.sels, !.decls = <<>>, !.mode = mode, !.rules = rules]
        /\ css.mode = "sheet" /\ Next1 # "eof"
    BY <1>5 DEF BeginRule
  <2> HIDE DEF open, mode, rules
  <2>2. Behind(k + 1, Here)
    <3>1. Here \in Places
      BY HereIsPlace
    <3> HIDE DEF Here
    <3>2. NotBefore(l.at, Here)
      BY <1>0, <3>1, SelectorListsEnd
    <3> HIDE DEF l
    <3>3. NotBefore(k, Here)
      BY <3>1, <3>2, Onwards
    <3> QED BY <3>1, <3>3, Onwards
  <2> HIDE DEF k, l
  <2>3. css'.at = k + 1 /\ css'.ts = css.ts
    BY <1>0, <2>1
  <2> QED BY <1>3, <2>1, <2>2, <2>3
<1>6. CASE DeclarationTurn
  <2> DEFINE d == ParseDeclaration(css.ts, Here)
             p == IF d.ok THEN d.at ELSE Recover(css.ts, d.at)
  <2>1. PICK x : css' = [css EXCEPT !.at = p, !.decls = x] /\ css.mode \in {"block", "inline"} /\ Next1 # "eof"
    BY <1>6 DEF DeclarationTurn
  <2>2. Behind(p, Here)
    <3>1. Here \in Places /\ Here + 1 \in Places
      BY HereIsPlace
    <3> HIDE DEF Here
    <3>2. NotBefore(d.at, Here + 1)
      BY <1>0, <3>1, DeclarationIsDeclared DEF IsDeclared
    <3> HIDE DEF d
    <3>3. d.at \in Places
      BY <3>2 DEF NotBefore
    <3>4. NotBefore(Recover(css.ts, d.at), Here + 1)
      BY <1>0, <3>1, <3>2, <3>3, RecoveryEnds, PlacesAreOrdered
    <3>5. NotBefore(p, Here + 1)
      BY <3>2, <3>4
    <3> QED BY <3>1, <3>5, PlacesAreOrdered
  <2> HIDE DEF p
  <2>3. css'.at = p /\ css'.ts = css.ts
    BY <1>0, <2>1
  <2> QED BY <1>3, <2>1, <2>2, <2>3
<1> QED BY <1>1, <1>2, <1>4, <1>5, <1>6 DEF CssNext

-----------------------------------------------------------------------------
(* What the parser promises.                                               *)

(* Whatever the texts, the tokens in them come to an end, every turn of    *)
(* the parser's loops leaves it at a place to go on from, and what it got  *)
(* out of a text are rules whose selectors have a compound at least, or    *)
(* declarations of properties that there are (css::Parser::DoParse and     *)
(* DoParseDeclarations).                                                   *)
THEOREM SheetsAreParsed ==
  ASSUME NEW CONSTANT lists, TextsOK(lists)
  PROVE  CssInit(lists) /\ [][CssNext]_css => []ParserOK
<1>1. CssInit(lists) => ParserOK
  BY ParserInit
<1>2. ParserOK /\ [CssNext]_css => ParserOK'
  BY ParserStep
<1> QED BY <1>1, <1>2, PTL

(* Whatever the text, its parsing ends: every turn of the parser's loops   *)
(* takes a token at least, or closes a block or the text, and never looks  *)
(* again at what it has read, recovery from bad declarations, selectors    *)
(* and at-rules included (the loops of css::Parser::DoParse and            *)
(* DoParseDeclarations).                                                   *)
THEOREM ParserEnds ==
  ASSUME NEW CONSTANT lists, TextsOK(lists)
  PROVE  CssInit(lists) /\ [][CssNext]_css
           => [][BeginText \/ (TurnsLeft \in Nat /\ TurnsLeft' \in Nat /\ TurnsLeft' < TurnsLeft)]_css
<1>1. CssInit(lists) /\ [][CssNext]_css => []ParserOK
  BY SheetsAreParsed
<1>2. ParserOK /\ [CssNext]_css
        => [BeginText \/ (TurnsLeft \in Nat /\ TurnsLeft' \in Nat /\ TurnsLeft' < TurnsLeft)]_css
  BY TurnsLeaveLess
<1> QED BY <1>1, <1>2, PTL

(* At every moment of the parser, and whatever becomes of the document     *)
(* meanwhile, the sheets it has got give every element the style that      *)
(* CascadeIsExact speaks of (StyleResolver::ResolveTree over what          *)
(* css::Parser::Parse returned).                                           *)
THEOREM CascadeStaysExact ==
  ASSUME NEW CONSTANT lists, TextsOK(lists)
  PROVE  CssInit(lists) /\ [][CssNext]_css /\ []DocumentOK => []CascadeExact
<1>1. CssInit(lists) /\ [][CssNext]_css => []ParserOK
  BY SheetsAreParsed
<1>2. ParserOK /\ DocumentOK => CascadeExact
  BY CascadeIsExact DEF ParserOK
<1> QED BY <1>1, <1>2, PTL

=============================================================================
