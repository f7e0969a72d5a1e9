------------------------ MODULE UpdateManagerProofs ------------------------
(* Facts about DisplayList for every pair of lists, and the invariants of  *)
(* UpdateManager for every document, style sheet, delay and duration.      *)
EXTENDS UpdateManager, DisplayList, WellFoundedInduction, TLAPS

(* A non-empty set of naturals has a least element, and Least is it.       *)
LEMMA LeastProperty ==
  ASSUME NEW S \in SUBSET Nat, S # {}
  PROVE  Least(S) \in S /\ \A m \in S : Least(S) <= m
<1> DEFINE less == OpToRel(<, Nat)
<1>1. IsWellFoundedOn(less, Nat)
  BY NatLessThanWellFounded
<1> HIDE DEF less
<1>2. PICK n \in S : \A m \in S : <<m, n>> \notin less
  BY <1>1, WFMin
<1> USE DEF less
<1>3. ASSUME NEW m \in S, ~(n <= m)
      PROVE  FALSE
  <2>1. <<m, n>> \in Nat \X Nat /\ m < n
    BY <1>3
  <2>2. <<m, n>> \in less
    BY <2>1 DEF OpToRel
  <2> QED BY <1>2, <2>2
<1> QED BY <1>3 DEF Least

(* A non-empty set of naturals bounded by Width has a greatest element.    *)
LEMMA GreatestProperty ==
  ASSUME NEW S \in SUBSET (0..Width), S # {}
  PROVE  Greatest(S) \in S /\ \A m \in S : m <= Greatest(S)
<1> DEFINE T == {Width - n : n \in S}
<1>1. T \in SUBSET Nat
  BY WidthAssumption
<1>2. T # {}
  OBVIOUS
<1> HIDE DEF T
<1>3. PICK t \in T : \A u \in T : t <= u
  BY <1>1, <1>2, LeastProperty
<1> USE DEF T
<1>4. PICK n \in S : t = Width - n
  BY <1>3
<1>5. ASSUME NEW m \in S PROVE m <= n
  <2>1. Width - m \in T
    OBVIOUS
  <2>2. t <= Width - m
    BY <1>3, <2>1
  <2> QED BY <1>4, <2>2, WidthAssumption
<1>6. \E k \in S : \A m \in S : m <= k
  BY <1>5
<1> QED BY <1>6 DEF Greatest

(* Rect::Union never loses a cell of one of its operands.                  *)
LEMMA UnionCovers ==
  ASSUME NEW R \in SUBSET Rects, NEW r \in R
  PROVE  CellsOf(r) \subseteq CellsOf(UnionOf(R))
<1> DEFINE solid == {q \in R : ~IsEmpty(q)}
           los == {q.lo : q \in solid}
           his == {q.hi : q \in solid}
<1>1. CASE IsEmpty(r)
  BY <1>1, WidthAssumption DEF IsEmpty, CellsOf, Rects
<1>2. CASE ~IsEmpty(r)
  <2>1. r \in solid /\ r.lo \in los /\ r.hi \in his
    BY <1>2
  <2>2. los \in SUBSET Nat /\ los # {} /\ his \in SUBSET (0..Width) /\ his # {}
    BY <2>1 DEF Rects
  <2>3. Least(los) \in Nat /\ Least(los) <= r.lo
    BY <2>1, <2>2, LeastProperty
  <2>4. Greatest(his) \in Nat /\ r.hi <= Greatest(his)
    BY <2>1, <2>2, GreatestProperty
  <2>5. UnionOf(R) = [lo |-> Least(los), hi |-> Greatest(his)]
    BY <2>1 DEF UnionOf
  <2> DEFINE u == UnionOf(R)
  <2>6. u.lo <= r.lo /\ r.hi <= u.hi /\ u.lo \in Nat /\ u.hi \in Nat
    BY <2>3, <2>4, <2>5
  <2>7. r.lo \in Nat /\ r.hi \in Nat
    BY WidthAssumption DEF Rects
  <2> HIDE DEF u
  <2>8. CellsOf(r) \subseteq CellsOf(u)
    BY <2>6, <2>7, WidthAssumption DEF CellsOf
  <2> QED BY <2>8 DEF u
<1> QED BY <1>1, <1>2

(* The dirty rectangle has natural bounds, so when it is empty it has no   *)
(* cells.                                                                  *)
LEMMA UnionIsRect ==
  ASSUME NEW R \in SUBSET Rects
  PROVE  UnionOf(R).lo \in Nat /\ UnionOf(R).hi \in Nat
<1> DEFINE solid == {q \in R : ~IsEmpty(q)}
           los == {q.lo : q \in solid}
           his == {q.hi : q \in solid}
<1>1. CASE solid = {}
  BY <1>1 DEF UnionOf, NoRect
<1>2. CASE solid # {}
  <2>1. los \in SUBSET Nat /\ los # {} /\ his \in SUBSET (0..Width) /\ his # {}
    BY <1>2 DEF Rects
  <2> HIDE DEF los, his
  <2>2. Least(los) \in Nat /\ Greatest(his) \in Nat
    <3>1. Least(los) \in los
      BY <2>1, LeastProperty
    <3>2. Greatest(his) \in his
      BY <2>1, GreatestProperty
    <3>3. Least(los) \in Nat
      BY <2>1, <3>1
    <3>4. Greatest(his) \in 0..Width
      BY <2>1, <3>2
    <3> QED BY <3>3, <3>4
  <2> USE DEF los, his
  <2>3. UnionOf(R) = [lo |-> Least(los), hi |-> Greatest(his)]
    BY <1>2 DEF UnionOf
  <2> QED BY <2>2, <2>3
<1> QED BY <1>1, <1>2

LEMMA DirtyIsRect ==
  ASSUME NEW old \in Seq(Commands), NEW new \in Seq(Commands)
  PROVE  /\ ComputeDirtyRect(old, new).lo \in Nat
         /\ ComputeDirtyRect(old, new).hi \in Nat
<1> DEFINE changed == {k \in DOMAIN old : old[k] # new[k]}
           R == {old[k].rect : k \in changed} \cup {new[k].rect : k \in changed}
<1>1. CASE Len(old) # Len(new)
  BY <1>1, WidthAssumption DEF ComputeDirtyRect, Viewport
<1>2. CASE Len(old) = Len(new)
  <2>1. \A k \in DOMAIN old : old[k] \in Commands /\ new[k] \in Commands
    BY <1>2
  <2>2. R \in SUBSET Rects
    BY <2>1 DEF Commands
  <2>3. ComputeDirtyRect(old, new) = UnionOf(R)
    BY <1>2 DEF ComputeDirtyRect
  <2> HIDE DEF R
  <2> QED BY <2>2, <2>3, UnionIsRect
<1> QED BY <1>1, <1>2

LEMMA EmptyCovers ==
  ASSUME NEW r, r.lo \in Nat, r.hi \in Nat, IsEmpty(r)
  PROVE  CellsOf(r) = {}
BY WidthAssumption DEF CellsOf, IsEmpty

(* A command that differs between lists of equal length lies, old and new, *)
(* inside the dirty rectangle.                                             *)
LEMMA DirtyCoversChanges ==
  ASSUME NEW old \in Seq(Commands), NEW new \in Seq(Commands),
         Len(old) = Len(new), NEW i \in DOMAIN old, old[i] # new[i]
  PROVE  /\ CellsOf(old[i].rect) \subseteq CellsOf(ComputeDirtyRect(old, new))
         /\ CellsOf(new[i].rect) \subseteq CellsOf(ComputeDirtyRect(old, new))
<1> DEFINE changed == {k \in DOMAIN old : old[k] # new[k]}
           R == {old[k].rect : k \in changed} \cup {new[k].rect : k \in changed}
<1>1. R \in SUBSET Rects
  <2>1. \A k \in DOMAIN old : old[k] \in Commands /\ new[k] \in Commands
    OBVIOUS
  <2> QED BY <2>1 DEF Commands
<1>2. old[i].rect \in R /\ new[i].rect \in R
  OBVIOUS
<1>3. ComputeDirtyRect(old, new) = UnionOf(R)
  BY DEF ComputeDirtyRect
<1> HIDE DEF R
<1> QED BY <1>1, <1>2, <1>3, UnionCovers

(* A command reaches the same cells outside the dirty rectangle, and       *)
(* through the same layers, before and after.                              *)
LEMMA ReachesUnchanged ==
  ASSUME NEW old \in Seq(Commands), NEW new \in Seq(Commands),
         Len(old) = Len(new), RepaintSafe(old, new), NEW c \in Canvas,
         c \notin CellsOf(ComputeDirtyRect(old, new)), NEW i \in DOMAIN old
  PROVE  /\ Reaches(old, i, c) = Reaches(new, i, c)
         /\ Reaches(old, i, c) => old[i] = new[i] /\ LayersOver(old, i) = LayersOver(new, i)
<1>1. DOMAIN old = DOMAIN new /\ DOMAIN old = 1..Len(old) /\ Len(old) \in Nat
  OBVIOUS
<1>2. /\ ~Unclipped(old[i]) /\ ~Unclipped(new[i])
      /\ old[i] = new[i] => /\ OpenClips(old, i) = OpenClips(new, i)
                            /\ LayersOver(old, i) = LayersOver(new, i)
      /\ old[i] # new[i] => "stroke" \notin {old[i].kind, new[i].kind}
  BY DEF RepaintSafe
<1>3. ASSUME NEW j \in DOMAIN old, old[j] # new[j]
      PROVE  c \notin CellsOf(old[j].rect) /\ c \notin CellsOf(new[j].rect)
  BY <1>3, DirtyCoversChanges
<1>4. CASE old[i] # new[i]
  <2>1. old[i].kind # "stroke" /\ new[i].kind # "stroke"
    BY <1>2, <1>4
  <2>2. c \notin Footprint(old[i]) /\ c \notin Footprint(new[i])
    BY <1>3, <1>4, <2>1 DEF Footprint
  <2> QED BY <2>2 DEF Reaches
<1>5. CASE old[i] = new[i]
  <2>1. OpenClips(old, i) = OpenClips(new, i) /\ OpenClips(old, i) \subseteq DOMAIN old
    BY <1>1, <1>2, <1>5 DEF OpenClips
  <2>2. \A j \in OpenClips(old, i) : c \in CellsOf(old[j].rect) <=> c \in CellsOf(new[j].rect)
    <3>1. ASSUME NEW j \in DOMAIN old
          PROVE  c \in CellsOf(old[j].rect) <=> c \in CellsOf(new[j].rect)
      BY <1>3
    <3> QED BY <2>1, <3>1
  <2>3. Reaches(old, i, c) = Reaches(new, i, c)
    BY <1>5, <2>1, <2>2 DEF Reaches
  <2> QED BY <1>2, <1>5, <2>3
<1> QED BY <1>4, <1>5

(* A cell outside the dirty rectangle shows the same picture before and    *)
(* after.                                                                  *)
LEMMA PictureUnchanged ==
  ASSUME NEW old \in Seq(Commands), NEW new \in Seq(Commands),
         Len(old) = Len(new), RepaintSafe(old, new), NEW c \in Canvas,
         c \notin CellsOf(ComputeDirtyRect(old, new))
  PROVE  Picture(old, c) = Picture(new, c)
<1>1. DOMAIN old = DOMAIN new
  OBVIOUS
<1>2. {k \in DOMAIN old : Reaches(old, k, c)} = {k \in DOMAIN new : Reaches(new, k, c)}
  BY <1>1, ReachesUnchanged
<1>3. ASSUME NEW i \in {k \in DOMAIN old : Reaches(old, k, c)}
      PROVE  Blend(old, i, "first") = Blend(new, i, "first")
  <2>1. old[i] = new[i] /\ LayersOver(old, i) = LayersOver(new, i)
    BY ReachesUnchanged
  <2> QED BY <2>1 DEF Blend
<1> QED BY <1>2, <1>3 DEF Picture

(* Repainting only the dirty rectangle gives the picture a full repaint    *)
(* would give: the cells render::ComputeDirtyRect leaves out did not       *)
(* change, if the lists are such that one may follow the other.            *)
THEOREM PartialRepaintExact ==
  ASSUME NEW old \in Seq(Commands), NEW new \in Seq(Commands),
         Len(old) = Len(new), RepaintSafe(old, new)
  PROVE  Repaint([c \in Canvas |-> Picture(old, c)], ComputeDirtyRect(old, new), new)
           = [c \in Canvas |-> Picture(new, c)]
<1> DEFINE dirtyRect == ComputeDirtyRect(old, new)
<1>1. \A c \in Canvas : c \notin CellsOf(dirtyRect) => Picture(old, c) = Picture(new, c)
  BY PictureUnchanged
<1>2. \A c \in Canvas : Overdrawn(new, c) = {}
  <2>1. \A i \in DOMAIN new : ~Unclipped(new[i])
    BY DEF RepaintSafe
  <2> QED BY <2>1 DEF Overdrawn
<1> HIDE DEF dirtyRect
<1>3. CASE IsEmpty(dirtyRect)
  <2>1. CellsOf(dirtyRect) = {}
    BY <1>3, EmptyCovers, DirtyIsRect DEF dirtyRect
  <2> QED BY <1>1, <1>3, <2>1 DEF Repaint, dirtyRect
<1>4. CASE ~IsEmpty(dirtyRect)
  BY <1>1, <1>2, <1>4 DEF Repaint, dirtyRect
<1> QED BY <1>3, <1>4

(* A change of length repaints the whole canvas, whatever it showed and    *)
(* whatever the new list paints.                                           *)
THEOREM FullRepaintExact ==
  ASSUME NEW old \in Seq(Commands), NEW new \in Seq(Commands),
         Len(old) # Len(new), NEW shown
  PROVE  Repaint(shown, ComputeDirtyRect(old, new), new)
           = [c \in Canvas |-> Picture(new, c)]
BY WidthAssumption DEF Repaint, ComputeDirtyRect, Canvas, IsEmpty, Viewport

-----------------------------------------------------------------------------
(* Integer division by a positive number keeps bounds that are multiples.  *)
LEMMA DivBounds ==
  ASSUME NEW x \in Int, NEW d \in Nat \ {0}, NEW lo \in Int, NEW hi \in Int,
         lo * d <= x, x <= hi * d
  PROVE  x \div d \in Int /\ lo <= x \div d /\ x \div d <= hi
<1> DEFINE q == x \div d
<1>1. q \in Int /\ q * d <= x /\ x < (q + 1) * d
  BY SMT
<1> HIDE DEF q
<1>2. lo <= q
  <2>1. SUFFICES ASSUME q + 1 <= lo PROVE FALSE
    BY <1>1
  <2>2. (q + 1) * d <= lo * d
    BY <1>1, <2>1, SMT
  <2> QED BY <1>1, <2>2, SMT
<1>3. q <= hi
  <2>1. SUFFICES ASSUME hi + 1 <= q PROVE FALSE
    BY <1>1
  <2>2. (hi + 1) * d <= q * d
    BY <1>1, <2>1, SMT
  <2>3. hi * d + d <= q * d
    BY <1>1, <2>2, SMT
  <2> QED BY <1>1, <2>3, SMT
<1> QED BY <1>1, <1>2, <1>3 DEF q

(* An interpolated value lies between the two it interpolates.             *)
LEMMA InterpolateBetween ==
  ASSUME NEW from \in Nat, NEW to \in Nat, NEW lasts \in Nat \ {0}, NEW progress \in 0..lasts
  PROVE  /\ Interpolate(from, to, progress, lasts) \in Int
         /\ Between(from, Interpolate(from, to, progress, lasts), to)
<1> DEFINE x == (to - from) * progress
<1>0. lasts \in Nat /\ progress \in Nat /\ progress <= lasts
  OBVIOUS
<1>1. x \in Int
  BY <1>0
<1>2. CASE from <= to
  <2>1. 0 * lasts <= x /\ x <= (to - from) * lasts
    BY <1>0, <1>2, SMT
  <2>2. x \div lasts \in Int /\ 0 <= x \div lasts /\ x \div lasts <= to - from
    BY <1>0, <1>1, <2>1, DivBounds
  <2> QED BY <1>2, <2>2 DEF Interpolate, Between
<1>3. CASE to <= from
  <2>1. (to - from) * lasts <= x /\ x <= 0 * lasts
    BY <1>0, <1>3, SMT
  <2>2. x \div lasts \in Int /\ to - from <= x \div lasts /\ x \div lasts <= 0
    BY <1>0, <1>1, <2>1, DivBounds
  <2> QED BY <1>3, <2>2 DEF Interpolate, Between
<1> QED BY <1>2, <1>3

(* What a transition is made of, and what it paints.                       *)
TransitionFields ==
  [from: 0..MaxColor, to: 0..MaxColor, lasts: Nat \ {0}, elapsed: Nat, progress: Nat, completed: BOOLEAN]

LEMMA TransitionIs ==
  ASSUME NEW t
  PROVE  t \in Transition <=> t \in TransitionFields /\ t.elapsed <= MaxElapsed(t) /\ t.progress <= t.lasts
BY DEF Transition, TransitionFields

LEMMA TransitionParts ==
  ASSUME NEW t \in Transition
  PROVE  /\ t.from \in Nat /\ t.to \in Nat /\ t.elapsed \in Nat /\ t.lasts \in Nat \ {0}
         /\ t.from \in 0..MaxColor /\ t.to \in 0..MaxColor
         /\ t.progress \in Nat /\ t.progress \in 0..t.lasts
         /\ t.elapsed <= Delay + t.lasts + 1
         /\ Delay \in Nat /\ t # Nothing
<1>1. t \in TransitionFields /\ t.elapsed <= MaxElapsed(t) /\ t.progress <= t.lasts
  BY TransitionIs
<1>2. t # Nothing
  BY <1>1 DEF TransitionFields, Nothing
<1> QED BY <1>1, <1>2, PipelineAssumption, BoxesAssumption DEF TransitionFields, MaxElapsed

LEMMA PaintedBetween ==
  ASSUME NEW t \in Transition
  PROVE  Painted(t) \in Int /\ Between(t.from, Painted(t), t.to) /\ Painted(t) \in 0..MaxColor
<1>1. Painted(t) \in Int /\ Between(t.from, Painted(t), t.to)
  BY TransitionParts, InterpolateBetween DEF Painted
<1> HIDE DEF Painted
<1> QED BY <1>1, TransitionParts, BoxesAssumption DEF Between

----------------------------------------------------------------------------
(* A style the cascade gives, and one on which a transition was applied,   *)
(* is a style.                                                             *)
LEMMA CascadeStyle ==
  ASSUME NEW f \in CascadeStyles, NEW b \in Boxes
  PROVE  f[b] \in Styles[b] /\ f[b] \in Style
BY PipelineAssumption DEF CascadeStyles

LEMMA ApplyToStyle ==
  ASSUME NEW s \in Style, NEW t \in Transition \cup {Nothing}
  PROVE  ApplyTo(s, t) \in Style
<1>1. CASE ~Active(t)
  BY <1>1 DEF ApplyTo
<1>2. CASE Active(t)
  <2>1. t \in Transition
    BY <1>2 DEF Active
  <2>2. Painted(t) \in 0..MaxColor
    BY <2>1, PaintedBetween
  <2> HIDE DEF Painted
  <2>3. [s EXCEPT !.bg = Painted(t)] \in Style
    BY <2>2 DEF Style
  <2> QED BY <1>2, <2>3 DEF ApplyTo
<1> QED BY <1>1, <1>2

(* A transition of another age or progress is still the same transition.   *)
LEMMA Moved ==
  ASSUME NEW t \in Transition, NEW u \in TransitionFields,
         u.lasts = t.lasts, u.elapsed <= MaxElapsed(t), u.progress <= t.lasts
  PROVE  u \in Transition
BY TransitionIs DEF MaxElapsed

(* The progress the clock allows a transition.                             *)
Due(t) == IF t.elapsed < Delay THEN 0 ELSE t.elapsed - Delay
Capped(t) == IF Due(t) >= t.lasts THEN t.lasts ELSE Due(t)

LEMMA DueIsNat ==
  ASSUME NEW t \in Transition
  PROVE  Due(t) \in Nat /\ Capped(t) \in Nat /\ Capped(t) \in 0..t.lasts /\ Capped(t) <= Due(t)
BY TransitionParts DEF Due, Capped

(* Tick, to a transition that runs.                                        *)
LEMMA AdvancedIs ==
  ASSUME NEW t \in Transition, Active(t)
  PROVE  /\ Advanced(t) \in Transition
         /\ Advanced(t).from = t.from /\ Advanced(t).to = t.to /\ Advanced(t).lasts = t.lasts
         /\ Advanced(t).elapsed = t.elapsed /\ Advanced(t).progress = Capped(t)
<1>1. t \in TransitionFields /\ t.elapsed \in Nat /\ t.elapsed <= MaxElapsed(t)
  BY TransitionIs, TransitionParts
<1>2. Capped(t) \in Nat /\ Capped(t) <= t.lasts
  BY DueIsNat, TransitionParts
<1>3. /\ Advanced(t) \in TransitionFields
      /\ Advanced(t).from = t.from /\ Advanced(t).to = t.to /\ Advanced(t).lasts = t.lasts
      /\ Advanced(t).elapsed = t.elapsed /\ Advanced(t).progress = Capped(t)
  <2>1. CASE t.elapsed < Delay
    <3>1. Capped(t) = 0
      BY <2>1, TransitionParts DEF Capped, Due
    <3>2. Advanced(t) = [t EXCEPT !.progress = 0]
      BY <2>1 DEF Advanced
    <3> QED BY <1>1, <3>1, <3>2 DEF TransitionFields
  <2>2. CASE ~(t.elapsed < Delay)
    <3> DEFINE over == t.elapsed - Delay >= t.lasts
    <3>1. Due(t) = t.elapsed - Delay
      BY <2>2 DEF Due
    <3>2. Advanced(t) = [t EXCEPT !.progress = Capped(t), !.completed = over]
      BY <2>2, <3>1 DEF Advanced, Capped
    <3>3. over \in BOOLEAN
      OBVIOUS
    <3> HIDE DEF over
    <3> QED BY <1>1, <1>2, <3>2, <3>3 DEF TransitionFields
  <2> QED BY <2>1, <2>2
<1> QED BY <1>1, <1>2, <1>3, Moved

LEMMA AdvancedType ==
  ASSUME NEW t \in Transition \cup {Nothing}
  PROVE  Advanced(t) \in Transition \cup {Nothing}
<1>1. CASE ~Active(t)
  BY <1>1 DEF Advanced
<1>2. CASE Active(t)
  BY <1>2, AdvancedIs DEF Active
<1> QED BY <1>1, <1>2

LEMMA StartedIs ==
  ASSUME TypeOK, NEW b \in Boxes, Starts(b)
  PROVE  /\ Started(b) \in Transition /\ Started(b) # Nothing
         /\ Started(b).from = prevStyles[b].bg /\ Started(b).to = resolved[b].bg
         /\ Started(b).elapsed = 0 /\ Started(b).progress = 0 /\ Active(Started(b))
<1>1. resolved[b] \in Style /\ prevStyles[b] \in Style
  BY CascadeStyle DEF TypeOK, Starts
<1>2. resolved[b].bg \in 0..MaxColor /\ prevStyles[b].bg \in 0..MaxColor /\ resolved[b].lasts \in Nat \ {0}
  BY <1>1 DEF Style, Starts
<1>3. /\ Started(b).from = prevStyles[b].bg /\ Started(b).to = resolved[b].bg
      /\ Started(b).elapsed = 0 /\ Started(b).progress = 0 /\ Started(b).lasts = resolved[b].lasts
      /\ Started(b).completed = FALSE
  BY DEF Started
<1>4. Started(b) \in TransitionFields
  BY <1>2 DEF Started, TransitionFields
<1> HIDE DEF Started
<1>5. Started(b).elapsed <= MaxElapsed(Started(b)) /\ Started(b).progress <= Started(b).lasts
  BY <1>2, <1>3, PipelineAssumption DEF MaxElapsed
<1>6. Started(b) \in Transition
  BY <1>4, <1>5, TransitionIs
<1> QED BY <1>3, <1>6, TransitionParts DEF Active

LEMMA OnStyleChangeType ==
  ASSUME TypeOK, NEW b \in Boxes
  PROVE  OnStyleChange(b, transitions[b]) \in Transition \cup {Nothing}
BY StartedIs DEF OnStyleChange, TypeOK

(* One tick more, to a transition that may grow older.                     *)
LEMMA AgedIs ==
  ASSUME NEW t \in Transition, Ages(t)
  PROVE  LET u == [t EXCEPT !.elapsed = @ + 1]
         IN  /\ u \in Transition
             /\ u.from = t.from /\ u.to = t.to /\ u.lasts = t.lasts
             /\ u.elapsed = t.elapsed + 1 /\ u.progress = t.progress
<1> DEFINE u == [t EXCEPT !.elapsed = @ + 1]
<1>1. t \in TransitionFields /\ t.elapsed \in Nat /\ t.progress <= t.lasts
  BY TransitionIs, TransitionParts
<1>2. t.elapsed + 1 \in Nat /\ t.elapsed + 1 <= MaxElapsed(t)
  BY <1>1, TransitionParts DEF Ages, MaxElapsed
<1>3. /\ u \in TransitionFields
      /\ u.from = t.from /\ u.to = t.to /\ u.lasts = t.lasts
      /\ u.elapsed = t.elapsed + 1 /\ u.progress = t.progress
  BY <1>1, <1>2 DEF TransitionFields
<1> HIDE DEF u
<1>4. u \in Transition
  BY <1>1, <1>2, <1>3, Moved
<1> QED BY <1>3, <1>4 DEF u

(* The first state is of the right type, and every step keeps it so.       *)
LEMMA TypeCorrectInit == Init => TypeOK
<1> SUFFICES ASSUME Init PROVE TypeOK
  OBVIOUS
<1>1. used \in [Boxes -> Style]
  BY CascadeStyle DEF Init, CascadeStyles
<1> QED BY <1>1, PipelineAssumption DEF Init, TypeOK, Stages

LEMMA TypeCorrectStep == TypeOK /\ [Next]_vars => TypeOK'
<1> SUFFICES ASSUME TypeOK, [Next]_vars
             PROVE  TypeOK'
  OBVIOUS
<1> USE DEF TypeOK, Stages
<1>1. ASSUME NEW b \in Boxes, NEW s \in Styles[b]
      PROVE  [resolved EXCEPT ![b] = s] \in CascadeStyles
  BY <1>1 DEF CascadeStyles
<1>2. CASE StyleChange
  <2>1. resolved' \in CascadeStyles
    BY <1>1, <1>2 DEF StyleChange
  <2>2. changes' \in 0..MaxChanges
    BY <1>2, PipelineAssumption DEF StyleChange
  <2> QED BY <1>2, <2>1, <2>2 DEF StyleChange
<1>3. CASE ScriptChange
  <2>1. resolved' \in CascadeStyles
    BY <1>1, <1>3 DEF ScriptChange
  <2>2. changes' \in 0..MaxChanges
    BY <1>3, PipelineAssumption DEF ScriptChange
  <2> QED BY <1>3, <2>1, <2>2 DEF ScriptChange
<1>4. CASE HookInvalidate
  <2>1. resolved' \in CascadeStyles
    BY <1>1, <1>4 DEF HookInvalidate
  <2>2. changes' \in 0..MaxChanges
    BY <1>4, PipelineAssumption DEF HookInvalidate
  <2> QED BY <1>4, <2>1, <2>2 DEF HookInvalidate
<1>5. CASE ClockTick
  <2>1. ASSUME NEW b \in Boxes, Ages(transitions[b])
        PROVE  [transitions[b] EXCEPT !.elapsed = @ + 1] \in Transition
    BY <2>1, AgedIs DEF Active, Ages
  <2>2. transitions' \in [Boxes -> Transition \cup {Nothing}]
    BY <1>5, <2>1 DEF ClockTick
  <2> QED BY <1>5, <2>2 DEF ClockTick
<1>6. CASE Replace
  <2>1. used' \in [Boxes -> Style]
    BY <1>6, CascadeStyle DEF Replace, CascadeStyles
  <2> QED BY <1>6, <2>1, PipelineAssumption DEF Replace
<1>7. CASE BeginUpdate
  BY <1>7 DEF BeginUpdate
<1>8. CASE LayoutAndStyle
  <2> DEFINE started == [b \in Boxes |-> OnStyleChange(b, transitions[b])]
  <2>1. \A b \in Boxes : started[b] \in Transition \cup {Nothing}
    BY OnStyleChangeType
  <2> HIDE DEF started
  <2>2. \A b \in Boxes : ApplyTo(resolved[b], started[b]) \in Style
    BY <2>1, CascadeStyle, ApplyToStyle
  <2>3. \A b \in Boxes : Advanced(started[b]) \in Transition \cup {Nothing}
    BY <2>1, AdvancedType
  <2>4. used' = [b \in Boxes |-> ApplyTo(resolved[b], started[b])]
        /\ transitions' = [b \in Boxes |-> Advanced(started[b])]
    BY <1>8 DEF LayoutAndStyle, started
  <2>5. prevStyles' \in [Boxes -> Style \cup {Nothing}]
    BY <1>8, CascadeStyle DEF LayoutAndStyle
  <2> QED BY <1>8, <2>2, <2>3, <2>4, <2>5 DEF LayoutAndStyle
<1>9. CASE RecordList
  BY <1>9 DEF RecordList
<1>10. CASE PaintAndSwap
  BY <1>10 DEF PaintAndSwap, HasActive
<1>11. CASE EndUpdate
  BY <1>11 DEF EndUpdate
<1>12. CASE UNCHANGED vars
  BY <1>12 DEF vars
<1> QED BY <1>2, <1>3, <1>4, <1>5, <1>6, <1>7, <1>8, <1>9, <1>10, <1>11, <1>12
        DEF Next, UpdateStep

(* The type invariant holds in every reachable state: in particular every  *)
(* painted background is a colour and no progress exceeds the duration.    *)
THEOREM TypeCorrect == Spec => []TypeOK
BY TypeCorrectInit, TypeCorrectStep, PTL DEF Spec

----------------------------------------------------------------------------
(* Only a box that a style may animate has a transition.                   *)
TargetInv ==
  /\ TypeOK
  /\ TransitionTarget
  /\ \A b \in Boxes : transitions[b] # Nothing => b \in Transitioned

LEMMA AdvancedKeeps ==
  ASSUME NEW t \in Transition \cup {Nothing}
  PROVE  /\ t = Nothing => Advanced(t) = Nothing
         /\ t # Nothing => Advanced(t) # Nothing /\ Advanced(t).to = t.to
<1>1. CASE ~Active(t)
  BY <1>1 DEF Advanced
<1>2. CASE Active(t)
  BY <1>2, AdvancedIs, TransitionParts DEF Active
<1> QED BY <1>1, <1>2

LEMMA TickKeeps ==
  ASSUME TypeOK, ClockTick, NEW b \in Boxes
  PROVE  /\ transitions'[b] # Nothing <=> transitions[b] # Nothing
         /\ transitions[b] # Nothing => transitions'[b].to = transitions[b].to
<1>1. CASE Ages(transitions[b])
  <2>1. transitions[b] \in Transition
    BY <1>1 DEF TypeOK, Ages, Active
  <2>2. transitions'[b] = [transitions[b] EXCEPT !.elapsed = @ + 1]
    BY <1>1 DEF ClockTick
  <2> QED BY <1>1, <2>1, <2>2, AgedIs, TransitionParts
<1>2. CASE ~Ages(transitions[b])
  BY <1>2 DEF ClockTick
<1> QED BY <1>1, <1>2

LEMMA TargetInit == Init => TargetInv
BY TypeCorrectInit DEF Init, TargetInv, TransitionTarget, Lasting

LEMMA TargetStep == TargetInv /\ [Next]_vars => TargetInv'
<1> SUFFICES ASSUME TargetInv, [Next]_vars
             PROVE  TargetInv'
  OBVIOUS
<1>1. TypeOK /\ TypeOK'
  BY TypeCorrectStep DEF TargetInv
<1>2. Lasting \subseteq Boxes
  BY DEF Lasting
<1> USE DEF TargetInv, TransitionTarget
<1>3. CASE UNCHANGED <<prevStyles, transitions>>
  BY <1>1, <1>3
<1>4. CASE ClockTick
  <2>1. prevStyles' = prevStyles
    BY <1>4 DEF ClockTick
  <2> QED BY <1>1, <1>2, <1>4, <2>1, TickKeeps
<1>5. CASE Replace
  <2>1. \A b \in Boxes : transitions'[b] = Nothing
    BY <1>5 DEF Replace
  <2> QED BY <1>1, <1>2, <2>1
<1>6. CASE LayoutAndStyle
  <2>1. ASSUME NEW b \in Boxes
        PROVE  /\ resolved[b] \in Styles[b] /\ resolved[b] \in Style /\ resolved[b] # Nothing
               /\ prevStyles'[b] = IF resolved[b].lists THEN resolved[b] ELSE prevStyles[b]
    <3>1. resolved[b] \in Styles[b] /\ resolved[b] \in Style
      BY <1>1, CascadeStyle DEF TypeOK
    <3> QED BY <1>6, <3>1 DEF LayoutAndStyle, Style, Nothing
  <2>2. ASSUME NEW b \in Boxes, transitions'[b] # Nothing
        PROVE  LET s == OnStyleChange(b, transitions[b])
               IN  s # Nothing /\ transitions'[b].to = s.to
    <3>1. transitions'[b] = Advanced(OnStyleChange(b, transitions[b]))
      BY <1>6 DEF LayoutAndStyle
    <3>2. OnStyleChange(b, transitions[b]) \in Transition \cup {Nothing}
      BY <1>1, OnStyleChangeType
    <3> QED BY <2>2, <3>1, <3>2, AdvancedKeeps
  <2>3. ASSUME NEW b \in Boxes, transitions'[b] # Nothing, Starts(b)
        PROVE  /\ b \in Transitioned
               /\ resolved[b].lists /\ transitions'[b].to = resolved[b].bg
    <3>1. transitions'[b].to = resolved[b].bg
      BY <1>1, <2>2, <2>3, StartedIs DEF OnStyleChange
    <3> QED BY <2>1, <2>3, <3>1 DEF Starts, Transitioned
  <2>4. ASSUME NEW b \in Boxes, transitions'[b] # Nothing, ~Starts(b)
        PROVE  transitions[b] # Nothing /\ transitions'[b].to = transitions[b].to
    BY <2>2, <2>4 DEF OnStyleChange
  <2>5. ASSUME NEW b \in Lasting, transitions'[b] # Nothing, ~Starts(b)
        PROVE  prevStyles'[b] # Nothing /\ transitions'[b].to = prevStyles'[b].bg
    <3>1. /\ prevStyles[b] # Nothing /\ transitions'[b].to = prevStyles[b].bg
      BY <1>2, <2>4, <2>5
    <3>2. resolved[b].lists => resolved[b].lasts > 0
      BY <1>2, <2>1 DEF Lasting
    <3>3. resolved[b].lists => prevStyles[b].bg = resolved[b].bg
      BY <2>5, <3>1, <3>2 DEF Starts
    <3> QED BY <1>2, <2>1, <3>1, <3>3
  <2>6. ASSUME NEW b \in Lasting, transitions'[b] # Nothing
        PROVE  prevStyles'[b] # Nothing /\ transitions'[b].to = prevStyles'[b].bg
    <3>1. CASE Starts(b)
      BY <1>2, <2>1, <2>3, <2>6, <3>1
    <3> QED BY <2>5, <2>6, <3>1
  <2> QED BY <1>1, <2>3, <2>4, <2>6
<1> QED BY <1>3, <1>4, <1>5, <1>6 DEF Next, UpdateStep, StyleChange, ScriptChange,
        HookInvalidate, BeginUpdate, RecordList, PaintAndSwap, EndUpdate, vars

(* The transition of a box always heads for the last style that listed a   *)
(* transition, however often the style changed meanwhile and whether it    *)
(* still lists one, if every transition listed for the box takes time.     *)
THEOREM TransitionsHeadForLastStyle == Spec => []TransitionTarget
<1>1. TargetInv => TransitionTarget
  BY DEF TargetInv
<1> QED BY <1>1, TargetInit, TargetStep, PTL DEF Spec
----------------------------------------------------------------------------
(* Hooks may invalidate only before layout or after the swap, and script   *)
(* leaves the document alone. Update clears dirty_ after the hooks in      *)
(* between have run, so without this the theorem is false.                 *)
QuietPipeline ==
  /\ HookPoints \cap {"after_style", "after_render"} = {}
  /\ ~ScriptMutates

(* How much of the frame is already in step with the styles, at each stage *)
(* of Update. Between frames this is CleanMeansCurrent.                    *)
StyledToday == \A b \in Boxes : transitions[b] = Nothing => used[b] = resolved[b]

FrameInv ==
  /\ TypeOK
  /\ stage = "after_style" => StyledToday
  /\ stage = "after_render" => StyledToday /\ newList = Record(used)
  /\ stage \in {"frame_end", "idle"} /\ ~dirty => StyledToday /\ displayList = Record(used)

(* Layout gives a box it leaves without a transition exactly its cascaded  *)
(* style.                                                                  *)
LEMMA StillBoxes ==
  ASSUME FrameInv, LayoutAndStyle, NEW b \in Boxes, transitions'[b] = Nothing
  PROVE  used'[b] = resolved[b]
<1> DEFINE s == OnStyleChange(b, transitions[b])
<1>1. s \in Transition \cup {Nothing}
  BY OnStyleChangeType DEF FrameInv
<1>2. transitions'[b] = Advanced(s) /\ used'[b] = ApplyTo(resolved[b], s)
  BY DEF LayoutAndStyle
<1> HIDE DEF s
<1>3. s = Nothing
  BY <1>1, <1>2, AdvancedKeeps
<1> QED BY <1>2, <1>3 DEF ApplyTo, Active

(* If hooks keep to the safe points, a manager that reports clean shows    *)
(* the current styles: no invalidation is ever lost.                       *)
THEOREM NoInvalidationLost ==
  ASSUME QuietPipeline
  PROVE  Spec => []CleanMeansCurrent
<1>1. Init => FrameInv
  BY TypeCorrectInit DEF Init, FrameInv
<1>2. FrameInv /\ [Next]_vars => FrameInv'
  <2> SUFFICES ASSUME FrameInv, [Next]_vars
               PROVE  FrameInv'
    OBVIOUS
  <2>0. TypeOK /\ TypeOK' /\ stage \in Stages
    BY TypeCorrectStep DEF FrameInv, TypeOK
  <2> USE <2>0 DEF FrameInv, StyledToday
  <2>1. CASE StyleChange
    BY <2>1 DEF StyleChange
  <2>2. CASE ScriptChange
    BY <2>2, QuietPipeline DEF ScriptChange, QuietPipeline
  <2>3. CASE HookInvalidate
    BY <2>3, QuietPipeline DEF HookInvalidate, QuietPipeline
  <2>4. CASE ClockTick
    BY <2>4, TickKeeps DEF ClockTick
  <2>5. CASE Replace
    BY <2>5 DEF Replace
  <2>6. CASE BeginUpdate
    BY <2>6 DEF BeginUpdate
  <2>7. CASE LayoutAndStyle
    BY <2>7, StillBoxes DEF LayoutAndStyle
  <2>8. CASE RecordList
    BY <2>8 DEF RecordList
  <2>9. CASE PaintAndSwap
    BY <2>9 DEF PaintAndSwap
  <2>10. CASE EndUpdate
    BY <2>10 DEF EndUpdate
  <2>11. CASE UNCHANGED vars
    BY <2>11 DEF vars
  <2> QED BY <2>1, <2>2, <2>3, <2>4, <2>5, <2>6, <2>7, <2>8, <2>9, <2>10, <2>11
          DEF Next, UpdateStep
<1>3. FrameInv => CleanMeansCurrent
  BY DEF FrameInv, CleanMeansCurrent, StyledToday
<1> QED BY <1>1, <1>2, <1>3, PTL DEF Spec
----------------------------------------------------------------------------
(* A frame keeps the canvas exact when its list may follow the one before. *)
(* The violation runs show what happens when it may not.                   *)
THEOREM FrameKeepsScreenExact ==
  ASSUME ScreenExact, PaintAndSwap,
         displayList \in Seq(Commands), newList \in Seq(Commands),
         RepaintSafe(displayList, newList)
  PROVE  ScreenExact'
<1> DEFINE drawn == Repaint(screen, ComputeDirtyRect(displayList, newList), newList)
<1>1. screen' = drawn /\ displayList' = newList
  BY DEF PaintAndSwap
<1>2. CASE Len(displayList) # Len(newList)
  <2>1. drawn = [c \in Canvas |-> Picture(newList, c)]
    BY <1>2, FullRepaintExact
  <2> QED BY <1>1, <2>1 DEF ScreenExact
<1>3. CASE Len(displayList) = Len(newList) /\ newList # <<>>
  <2>1. displayList # <<>>
    BY <1>3
  <2>2. \A c \in Canvas : screen[c] = Picture(displayList, c)
    BY <2>1 DEF ScreenExact
  <2> DEFINE before == [c \in Canvas |-> Picture(displayList, c)]
             dirtyRect == ComputeDirtyRect(displayList, newList)
  <2>3. \A c \in Canvas : drawn[c] = Repaint(before, dirtyRect, newList)[c]
    BY <2>2 DEF Repaint
  <2>4. Repaint(before, dirtyRect, newList) = [c \in Canvas |-> Picture(newList, c)]
    BY <1>3, PartialRepaintExact
  <2>5. \A c \in Canvas : drawn[c] = Picture(newList, c)
    BY <2>3, <2>4
  <2> QED BY <1>1, <2>5 DEF ScreenExact
<1>4. CASE newList = <<>>
  BY <1>1, <1>4 DEF ScreenExact
<1> QED BY <1>2, <1>3, <1>4

----------------------------------------------------------------------------
(* How a running transition moves: its progress is at most what the clock  *)
(* allows, and the painted value is that of an earlier progress of the     *)
(* same run.                                                               *)
OnCourse(t, v) ==
  /\ t.progress <= Due(t)
  /\ \E p \in 0..t.progress : v = Interpolate(t.from, t.to, p, t.lasts)

RunInv ==
  /\ TargetInv
  /\ \A b \in Boxes : Active(transitions[b]) => OnCourse(transitions[b], used[b].bg)

LEMMA DivMonotone ==
  ASSUME NEW x \in Int, NEW y \in Int, NEW d \in Nat \ {0}, x <= y
  PROVE  x \div d \in Int /\ y \div d \in Int /\ x \div d <= y \div d
<1> DEFINE q == x \div d
           r == y \div d
<1>1. q \in Int /\ q * d <= x /\ x < (q + 1) * d
  BY SMT
<1>2. r \in Int /\ r * d <= y /\ y < (r + 1) * d
  BY SMT
<1> HIDE DEF q, r
<1>3. SUFFICES ASSUME r + 1 <= q PROVE FALSE
  BY <1>1, <1>2 DEF q, r
<1>4. (r + 1) * d <= q * d
  BY <1>1, <1>2, <1>3, SMT
<1>5. (r + 1) * d \in Int /\ q * d \in Int
  BY <1>1, <1>2
<1> QED BY <1>1, <1>2, <1>4, <1>5

LEMMA ScaleMonotone ==
  ASSUME NEW a \in Int, NEW p \in Nat, NEW q \in Nat, p <= q
  PROVE  /\ 0 <= a => a * p <= a * q
         /\ a <= 0 => a * q <= a * p
<1>1. q - p \in Nat /\ q = p + (q - p)
  OBVIOUS
<1>2. a * q = a * p + a * (q - p)
  BY <1>1, SMT
<1>3. 0 <= a => 0 <= a * (q - p)
  BY <1>1, SMT
<1>4. a <= 0 => a * (q - p) <= 0
  BY <1>1, SMT
<1>5. a * p \in Int /\ a * q \in Int /\ a * (q - p) \in Int
  BY <1>1
<1> QED BY <1>2, <1>3, <1>4, <1>5

(* More progress leads nearer to the target, and never past it.            *)
LEMMA InterpolateMonotone ==
  ASSUME NEW from \in Nat, NEW to \in Nat, NEW lasts \in Nat \ {0},
         NEW p \in 0..lasts, NEW q \in p..lasts
  PROVE  Between(Interpolate(from, to, p, lasts), Interpolate(from, to, q, lasts), to)
<1> DEFINE x == (to - from) * p
           y == (to - from) * q
<1>0. lasts \in Nat /\ p \in Nat /\ q \in 0..lasts /\ q \in Nat /\ p <= q
  OBVIOUS
<1>1. /\ Interpolate(from, to, p, lasts) \in Int /\ Between(from, Interpolate(from, to, p, lasts), to)
      /\ Interpolate(from, to, q, lasts) \in Int /\ Between(from, Interpolate(from, to, q, lasts), to)
  BY <1>0, InterpolateBetween
<1>2. x \in Int /\ y \in Int /\ to - from \in Int
  BY <1>0
<1>3. (from <= to => x <= y) /\ (to <= from => y <= x)
  BY <1>0, <1>2, ScaleMonotone
<1>4. Interpolate(from, to, p, lasts) = from + x \div lasts
      /\ Interpolate(from, to, q, lasts) = from + y \div lasts
  BY DEF Interpolate
<1> HIDE DEF x, y
<1>5. CASE from <= to
  <2>1. x \div lasts \in Int /\ y \div lasts \in Int /\ x \div lasts <= y \div lasts
    BY <1>0, <1>2, <1>3, <1>5, DivMonotone
  <2> QED BY <1>1, <1>4, <1>5, <2>1 DEF Between
<1>6. CASE to <= from
  <2>1. x \div lasts \in Int /\ y \div lasts \in Int /\ y \div lasts <= x \div lasts
    BY <1>0, <1>2, <1>3, <1>6, DivMonotone
  <2> QED BY <1>1, <1>4, <1>6, <2>1 DEF Between
<1> QED BY <1>5, <1>6

LEMMA InterpolateFrom ==
  ASSUME NEW from \in Nat, NEW to \in Nat, NEW lasts \in Nat \ {0}
  PROVE  Interpolate(from, to, 0, lasts) = from
<1>1. 0 \div lasts = 0
  BY SMT
<1>2. (to - from) * 0 = 0
  OBVIOUS
<1> QED BY <1>1, <1>2 DEF Interpolate

(* The clock allows more progress, never less.                             *)
LEMMA TickKeepsCourse ==
  ASSUME NEW t \in Transition, Ages(t), NEW v, OnCourse(t, v)
  PROVE  OnCourse([t EXCEPT !.elapsed = @ + 1], v)
<1> DEFINE u == [t EXCEPT !.elapsed = @ + 1]
<1>1. /\ u.from = t.from /\ u.to = t.to /\ u.lasts = t.lasts
      /\ u.progress = t.progress /\ u.elapsed = t.elapsed + 1
  BY AgedIs
<1> HIDE DEF u
<1>2. Due(t) <= Due(u)
  BY <1>1, TransitionParts DEF Due
<1>3. Due(u) \in Int /\ Due(t) \in Int
  BY <1>1, TransitionParts DEF Due
<1>4. u.progress <= Due(u)
  BY <1>1, <1>2, <1>3, TransitionParts DEF OnCourse
<1> QED BY <1>1, <1>4 DEF OnCourse, u

(* Tick moves the progress on from the value that has just been painted.   *)
LEMMA AdvanceKeepsCourse ==
  ASSUME NEW t \in Transition, Active(t), t.progress <= Due(t)
  PROVE  OnCourse(Advanced(t), Painted(t))
<1> DEFINE u == Advanced(t)
<1>1. /\ u.from = t.from /\ u.to = t.to /\ u.lasts = t.lasts
      /\ u.elapsed = t.elapsed /\ u.progress = Capped(t)
  BY AdvancedIs
<1> HIDE DEF u
<1>2. Due(u) = Due(t)
  BY <1>1 DEF Due
<1>3. t.progress \in Nat /\ t.progress <= t.lasts /\ t.lasts \in Nat
  BY TransitionParts
<1>4. t.progress <= Capped(t)
  BY <1>3 DEF Capped
<1>5. u.progress <= Due(u) /\ t.progress \in 0..u.progress
  BY <1>1, <1>2, <1>3, <1>4, DueIsNat
<1> QED BY <1>1, <1>5 DEF OnCourse, Painted, u

(* What Update does to one box: the transition it finds or starts, the     *)
(* value it paints, and the transition it leaves.                          *)
LEMMA LayoutOfBox ==
  ASSUME RunInv, LayoutAndStyle, NEW b \in Boxes
  PROVE  LET s == OnStyleChange(b, transitions[b])
         IN  /\ s \in Transition \cup {Nothing}
             /\ transitions'[b] = Advanced(s)
             /\ Active(s) => used'[b].bg = Painted(s) /\ s.progress <= Due(s)
             /\ ~Active(s) => used'[b].bg = resolved[b].bg
<1> DEFINE s == OnStyleChange(b, transitions[b])
<1>0. TypeOK /\ resolved[b] \in Style
  BY CascadeStyle DEF RunInv, TargetInv, TypeOK
<1>1. s \in Transition \cup {Nothing}
  BY <1>0, OnStyleChangeType
<1>2. used'[b] = ApplyTo(resolved[b], s) /\ transitions'[b] = Advanced(s)
  BY <1>0 DEF LayoutAndStyle
<1>3. ASSUME Active(s)
      PROVE  s.progress <= Due(s)
  <2>1. CASE ~Starts(b)
    BY <1>3, <2>1 DEF RunInv, OnCourse, OnStyleChange
  <2>2. CASE Starts(b)
    <3>1. s \in Transition /\ s.progress = 0
      BY <1>0, <2>2, StartedIs DEF OnStyleChange
    <3> HIDE DEF s
    <3> QED BY <3>1, DueIsNat
  <2> QED BY <2>1, <2>2
<1> HIDE DEF s
<1>4. ASSUME Active(s)
      PROVE  used'[b].bg = Painted(s)
  <2>1. used'[b] = [resolved[b] EXCEPT !.bg = Painted(s)]
    BY <1>2, <1>4 DEF ApplyTo
  <2> QED BY <1>0, <2>1 DEF Style
<1>5. ~Active(s) => used'[b].bg = resolved[b].bg
  BY <1>2 DEF ApplyTo
<1> QED BY <1>1, <1>2, <1>3, <1>4, <1>5 DEF s

LEMMA RunInit == Init => RunInv
BY TargetInit, PipelineAssumption DEF RunInv, Init, Active

LEMMA RunStep == RunInv /\ [Next]_vars => RunInv'
<1> SUFFICES ASSUME RunInv, [Next]_vars
             PROVE  RunInv'
  OBVIOUS
<1>1. TargetInv /\ TargetInv' /\ TypeOK
  BY TargetStep DEF RunInv, TargetInv
<1>2. \A b \in Boxes : Active(transitions[b]) => OnCourse(transitions[b], used[b].bg)
  BY DEF RunInv
<1>3. CASE UNCHANGED <<used, transitions>>
  BY <1>1, <1>2, <1>3 DEF RunInv
<1>4. CASE ClockTick
  <2>1. ASSUME NEW b \in Boxes, Active(transitions'[b])
        PROVE  OnCourse(transitions'[b], used'[b].bg)
    <3>0. used' = used
      BY <1>4 DEF ClockTick
    <3>1. CASE Ages(transitions[b])
      <4>1. transitions'[b] = [transitions[b] EXCEPT !.elapsed = @ + 1]
        BY <1>4, <3>1 DEF ClockTick
      <4>2. transitions[b] \in Transition
        BY <1>1, <3>1 DEF TypeOK, Active, Ages
      <4>3. OnCourse(transitions[b], used[b].bg)
        BY <1>2, <3>1 DEF Ages
      <4> QED BY <3>0, <3>1, <4>1, <4>2, <4>3, TickKeepsCourse
    <3>2. CASE ~Ages(transitions[b])
      <4>1. transitions'[b] = transitions[b]
        BY <1>4, <3>2 DEF ClockTick
      <4> QED BY <1>2, <2>1, <3>0, <4>1
    <3> QED BY <3>1, <3>2
  <2> QED BY <1>1, <2>1 DEF RunInv
<1>5. CASE Replace
  <2>1. \A b \in Boxes : ~Active(transitions'[b])
    BY <1>5 DEF Replace, Active
  <2> QED BY <1>1, <2>1 DEF RunInv
<1>6. CASE LayoutAndStyle
  <2>1. ASSUME NEW b \in Boxes, Active(transitions'[b])
        PROVE  OnCourse(transitions'[b], used'[b].bg)
    <3> DEFINE s == OnStyleChange(b, transitions[b])
    <3>1. /\ s \in Transition \cup {Nothing}
          /\ transitions'[b] = Advanced(s)
          /\ Active(s) => used'[b].bg = Painted(s) /\ s.progress <= Due(s)
      BY <1>6, LayoutOfBox
    <3> HIDE DEF s
    <3>2. Active(s)
      BY <2>1, <3>1 DEF Advanced
    <3>3. s \in Transition
      BY <3>1, <3>2 DEF Active
    <3> QED BY <3>1, <3>2, <3>3, AdvanceKeepsCourse
  <2> QED BY <1>1, <2>1 DEF RunInv
<1> QED BY <1>3, <1>4, <1>5, <1>6 DEF Next, UpdateStep, StyleChange, ScriptChange,
        HookInvalidate, BeginUpdate, RecordList, PaintAndSwap, EndUpdate, vars

(* However late the frames come, whatever the colours and however the      *)
(* styles list their transitions: while one transition runs, no frame of   *)
(* Update leads away from its target or past it.                           *)
THEOREM AnimationsMonotone == Spec => AnimationMonotone
<1>1. ASSUME RunInv, [Next]_vars, NEW b \in Boxes,
             stage = "frame_start", stage' = "after_style",
             Active(transitions[b]), SameRun(transitions[b], transitions'[b])
      PROVE  /\ Between(transitions[b].from, used'[b].bg, transitions[b].to)
             /\ Between(used[b].bg, used'[b].bg, transitions[b].to)
  <2> DEFINE t == transitions[b]
             s == OnStyleChange(b, t)
  <2>1. LayoutAndStyle
    BY <1>1 DEF Next, UpdateStep, StyleChange, ScriptChange, HookInvalidate, ClockTick,
       Replace, BeginUpdate, RecordList, PaintAndSwap, EndUpdate, vars
  <2>2. TypeOK /\ t \in Transition
    BY <1>1 DEF RunInv, TargetInv, TypeOK, Active
  <2>3. /\ transitions'[b] = Advanced(s)
        /\ Active(s) => used'[b].bg = Painted(s)
    BY <1>1, <2>1, LayoutOfBox
  <2>4. t.progress <= Due(t)
    BY <1>1 DEF RunInv, OnCourse
  <2>5. PICK p \in 0..t.progress : used[b].bg = Interpolate(t.from, t.to, p, t.lasts)
    BY <1>1 DEF RunInv, OnCourse
  <2>6. /\ t.from \in Nat /\ t.to \in Nat /\ t.lasts \in Nat \ {0} /\ t.elapsed \in Nat
        /\ t.progress \in Nat /\ t.progress \in 0..t.lasts /\ Delay \in Nat
    BY <2>2, TransitionParts
  <2>7. CASE Starts(b)
    <3>1. s \in Transition /\ Active(s) /\ s.elapsed = 0 /\ s.progress = 0
      BY <2>2, <2>7, StartedIs DEF OnStyleChange
    <3>2. /\ s.from \in Nat /\ s.to \in Nat /\ s.lasts \in Nat \ {0}
          /\ transitions'[b].elapsed = 0 /\ transitions'[b].from = s.from
      BY <2>3, <3>1, TransitionParts, AdvancedIs
    <3>3. t.elapsed <= 0 /\ t.from = s.from
      BY <1>1, <3>2 DEF SameRun
    <3> HIDE DEF s, t
    <3>4. t.progress = 0
      BY <2>4, <2>6, <3>3 DEF Due
    <3>5. used[b].bg = t.from
      BY <2>5, <2>6, <3>4, InterpolateFrom
    <3>6. used'[b].bg = t.from
      BY <2>3, <3>1, <3>2, <3>3, InterpolateFrom DEF Painted
    <3> QED BY <2>6, <3>5, <3>6 DEF Between, t
  <2>8. CASE ~Starts(b)
    <3>1. used'[b].bg = Interpolate(t.from, t.to, t.progress, t.lasts)
      BY <1>1, <2>3, <2>8 DEF OnStyleChange, Painted
    <3> HIDE DEF t
    <3>2. p \in 0..t.lasts /\ t.progress \in p..t.lasts
      BY <2>5, <2>6
    <3>3. Between(used[b].bg, used'[b].bg, t.to)
      BY <2>5, <2>6, <3>1, <3>2, InterpolateMonotone
    <3>4. Between(t.from, used'[b].bg, t.to)
      BY <2>6, <3>1, InterpolateBetween
    <3> QED BY <3>3, <3>4 DEF t
  <2> QED BY <2>7, <2>8
<1>2. Transitioned \subseteq Boxes
  BY DEF Transitioned
<1>3. RunInv /\ [Next]_vars =>
        [\A b \in Transitioned :
           stage = "frame_start" /\ stage' = "after_style"
             /\ Active(transitions[b]) /\ SameRun(transitions[b], transitions'[b])
           => /\ Between(transitions[b].from, used'[b].bg, transitions[b].to)
              /\ transitions[b].progress > 0
                   => Between(used[b].bg, used'[b].bg, transitions[b].to)]_vars
  BY <1>1, <1>2
<1> QED BY <1>3, RunInit, RunStep, PTL DEF Spec, AnimationMonotone

(* A box at rest, where the last style that listed a transition put it,    *)
(* does not jump when a style that lists one comes: not even when an       *)
(* earlier transition of the box is still on its way.                      *)
THEOREM TransitionsStartAtRest == Spec => StartsWithoutJump
<1>1. ASSUME RunInv, [Next]_vars, NEW b \in Lasting,
             stage = "frame_start", stage' = "after_style",
             prevStyles[b] # Nothing, used[b].bg = prevStyles[b].bg, resolved[b].lists
      PROVE  used'[b].bg = used[b].bg
  <2> DEFINE t == transitions[b]
             s == OnStyleChange(b, t)
  <2>1. LayoutAndStyle
    BY <1>1 DEF Next, UpdateStep, StyleChange, ScriptChange, HookInvalidate, ClockTick,
       Replace, BeginUpdate, RecordList, PaintAndSwap, EndUpdate, vars
  <2>2. TargetInv /\ TypeOK /\ b \in Boxes
    BY <1>1 DEF RunInv, TargetInv, Lasting
  <2>3. /\ Active(s) => used'[b].bg = Painted(s)
        /\ ~Active(s) => used'[b].bg = resolved[b].bg
    BY <1>1, <2>1, <2>2, LayoutOfBox
  <2>4. resolved[b].lasts > 0
    <3>1. resolved[b] \in Styles[b]
      BY <2>2, CascadeStyle DEF TypeOK
    <3> QED BY <1>1, <3>1 DEF Lasting
  <2>5. CASE Starts(b)
    <3>1. s \in Transition /\ Active(s) /\ s.from = prevStyles[b].bg /\ s.progress = 0
      BY <2>2, <2>5, StartedIs DEF OnStyleChange
    <3> HIDE DEF s
    <3>2. s.from \in Nat /\ s.to \in Nat /\ s.lasts \in Nat \ {0}
      BY <3>1, TransitionParts
    <3> QED BY <1>1, <2>3, <3>1, <3>2, InterpolateFrom DEF Painted
  <2>6. CASE ~Starts(b)
    <3>1. s = t /\ prevStyles[b].bg = resolved[b].bg
      BY <1>1, <2>4, <2>6 DEF OnStyleChange, Starts
    <3>2. CASE ~Active(t)
      BY <1>1, <2>3, <3>1, <3>2
    <3>3. CASE Active(t)
      <4>1. t \in Transition /\ t.to = prevStyles[b].bg
        BY <1>1, <2>2, <3>3 DEF TypeOK, TargetInv, TransitionTarget, Active
      <4>2. PICK p \in 0..t.progress : used[b].bg = Interpolate(t.from, t.to, p, t.lasts)
        BY <1>1, <2>2, <3>3 DEF RunInv, OnCourse
      <4>3. used'[b].bg = Interpolate(t.from, t.to, t.progress, t.lasts)
        BY <2>3, <3>1, <3>3 DEF Painted
      <4> HIDE DEF t, s
      <4>4. /\ t.from \in Nat /\ t.to \in Nat /\ t.lasts \in Nat \ {0}
            /\ t.progress \in 0..t.lasts /\ t.progress \in Nat
        BY <4>1, TransitionParts
      <4>5. p \in 0..t.lasts /\ t.progress \in p..t.lasts
        BY <4>2, <4>4
      <4>6. Between(used[b].bg, used'[b].bg, t.to)
        BY <4>2, <4>3, <4>4, <4>5, InterpolateMonotone
      <4>7. used'[b].bg \in Int
        BY <4>3, <4>4, InterpolateBetween
      <4> QED BY <1>1, <4>1, <4>4, <4>6, <4>7 DEF Between
    <3> QED BY <3>2, <3>3
  <2> QED BY <2>5, <2>6
<1>2. RunInv /\ [Next]_vars =>
        [\A b \in Lasting :
           /\ stage = "frame_start" /\ stage' = "after_style"
           /\ prevStyles[b] # Nothing /\ used[b].bg = prevStyles[b].bg
           /\ resolved[b].lists
           => used'[b].bg = used[b].bg]_vars
  BY <1>1
<1> QED BY <1>2, RunInit, RunStep, PTL DEF Spec, StartsWithoutJump

----------------------------------------------------------------------------
(* Every list is one Record makes of styles a frame may draw with.         *)
Recorded == {Record(f) : f \in Looks}

ScreenInv ==
  /\ TargetInv
  /\ ScreenExact
  /\ used \in Looks
  /\ displayList \in Recorded \cup {<<>>}
  /\ stage = "after_render" => newList \in Recorded

LEMMA CascadeLooks == CascadeStyles \subseteq Looks
<1> SUFFICES ASSUME NEW f \in CascadeStyles PROVE f \in Looks
  OBVIOUS
<1>1. \A b \in Boxes : f[b] \in PaintedStyles(b)
  BY DEF CascadeStyles, PaintedStyles
<1>2. f \in [Boxes -> UNION {PaintedStyles(b) : b \in Boxes}]
  BY <1>1 DEF CascadeStyles
<1> QED BY <1>1, <1>2 DEF Looks

(* Styles and transitions applied to them stay among those styles.         *)
LEMMA LayoutLooks ==
  ASSUME TargetInv, LayoutAndStyle
  PROVE  used' \in Looks
<1>0. TypeOK
  BY DEF TargetInv
<1>1. ASSUME NEW b \in Boxes
      PROVE  used'[b] \in PaintedStyles(b)
  <2> DEFINE s == OnStyleChange(b, transitions[b])
  <2>1. used'[b] = ApplyTo(resolved[b], s)
    BY DEF LayoutAndStyle
  <2>2. s \in Transition \cup {Nothing}
    BY <1>0, OnStyleChangeType
  <2>3. resolved[b] \in Styles[b] /\ resolved[b] \in Style
    BY <1>0, CascadeStyle DEF TypeOK
  <2>4. Active(s) => b \in Transitioned
    BY <2>3 DEF OnStyleChange, Starts, Transitioned, TargetInv, Active
  <2> HIDE DEF s
  <2>5. used'[b] \in Style
    BY <2>1, <2>2, <2>3, ApplyToStyle
  <2>6. CASE ~Active(s)
    BY <2>1, <2>3, <2>6 DEF ApplyTo, PaintedStyles
  <2>7. CASE Active(s)
    <3> DEFINE v == Painted(s)
    <3>1. used'[b] = [resolved[b] EXCEPT !.bg = v]
      BY <2>1, <2>7 DEF ApplyTo
    <3> HIDE DEF v
    <3>2. used'[b].bg = v
      BY <2>3, <3>1 DEF Style
    <3>3. v \in 0..MaxColor
      BY <2>5, <3>2 DEF Style
    <3> QED BY <2>3, <2>4, <2>7, <3>1, <3>3 DEF PaintedStyles
  <2> QED BY <2>6, <2>7
<1>2. DOMAIN used' = Boxes /\ used' = [b \in Boxes |-> used'[b]]
  BY DEF LayoutAndStyle
<1>3. used' \in [Boxes -> UNION {PaintedStyles(b) : b \in Boxes}]
  BY <1>1, <1>2
<1> QED BY <1>1, <1>3 DEF Looks

(* The canvas is exact after any sequence of invalidations, frames, style  *)
(* changes and replacements of the manager, for a document and style       *)
(* sheets whose lists may follow one another. Cells that only a full       *)
(* repaint would have reached never go stale.                              *)
THEOREM ScreenStaysExact ==
  ASSUME SteadyLists
  PROVE  Spec => []ScreenExact
<1>1. Init => ScreenInv
  <2> SUFFICES ASSUME Init PROVE ScreenInv
    OBVIOUS
  <2>1. used \in Looks
    BY CascadeLooks DEF Init
  <2> QED BY <2>1, TargetInit DEF Init, ScreenInv, ScreenExact
<1>2. ScreenInv /\ [Next]_vars => ScreenInv'
  <2> SUFFICES ASSUME ScreenInv, [Next]_vars
               PROVE  ScreenInv'
    OBVIOUS
  <2>1. TargetInv /\ TargetInv'
    BY TargetStep DEF ScreenInv
  <2> USE DEF ScreenInv
  <2>2. CASE UNCHANGED <<stage, used, displayList, newList, screen>>
    BY <2>1, <2>2 DEF ScreenExact
  <2>3. CASE Replace
    <3>1. used' \in Looks
      BY <2>3, CascadeLooks DEF Replace
    <3> QED BY <2>1, <2>3, <3>1 DEF Replace, ScreenExact
  <2>4. CASE BeginUpdate
    BY <2>1, <2>4 DEF BeginUpdate, ScreenExact
  <2>5. CASE LayoutAndStyle
    <3>1. used' \in Looks
      BY <2>1, <2>5, LayoutLooks
    <3> QED BY <2>1, <2>5, <3>1 DEF LayoutAndStyle, ScreenExact
  <2>6. CASE RecordList
    BY <2>1, <2>6 DEF RecordList, ScreenExact, Recorded
  <2>7. CASE PaintAndSwap
    <3>1. stage = "after_render" /\ displayList' = newList /\ used' = used /\ stage' = "frame_end"
      BY <2>7 DEF PaintAndSwap
    <3>2. newList \in Recorded /\ displayList \in Recorded \cup {<<>>}
      BY <3>1
    <3>3. displayList \in Seq(Commands) /\ newList \in Seq(Commands)
      <4>1. \A list \in Recorded : list \in Seq(Commands)
        BY SteadyLists DEF SteadyLists, Recorded
      <4>2. <<>> \in Seq(Commands)
        OBVIOUS
      <4> QED BY <3>2, <4>1, <4>2
    <3>4. RepaintSafe(displayList, newList)
      <4>1. CASE displayList \in Recorded
        BY <3>2, <4>1, SteadyLists DEF SteadyLists, Recorded
      <4>2. CASE displayList = <<>>
        BY <4>2 DEF RepaintSafe
      <4> QED BY <3>2, <4>1, <4>2
    <3>5. ScreenExact'
      BY <2>7, <3>3, <3>4, FrameKeepsScreenExact
    <3> QED BY <2>1, <3>1, <3>2, <3>5
  <2>8. CASE EndUpdate
    BY <2>1, <2>8 DEF EndUpdate, ScreenExact
  <2>9. CASE UNCHANGED vars
    BY <2>2, <2>9 DEF vars
  <2> QED BY <2>2, <2>3, <2>4, <2>5, <2>6, <2>7, <2>8, <2>9 DEF Next, UpdateStep, StyleChange,
          ScriptChange, HookInvalidate, ClockTick
<1>3. ScreenInv => ScreenExact
  BY DEF ScreenInv
<1> QED BY <1>1, <1>2, <1>3, PTL DEF Spec

=============================================================================
