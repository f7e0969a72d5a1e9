-------------------------- MODULE MCUpdateManager --------------------------
(* Instances of UpdateManager for TLC: a root box with two children, on a  *)
(* canvas of four cells.                                                   *)
EXTENDS UpdateManager

CONSTANTS r, a, b

MCBoxes == {r, a, b}
MCKids  == (r :> <<a, b>>) @@ (a :> <<>>) @@ (b :> <<>>)

Span(lo, hi) == [lo |-> lo, hi |-> hi]

(* The children overlap in one cell and stay inside the root. *)
InsideRects == (r :> Span(0, 4)) @@ (a :> Span(0, 2)) @@ (b :> Span(1, 3))

Plain(color) == [bg |-> color, border |-> 0, text |-> 0, opacity |-> 2,
                 clip |-> FALSE, hidden |-> FALSE, z |-> 0,
                 lists |-> FALSE, lasts |-> 0]
Fading(color, lasts) == [Plain(color) EXCEPT !.lists = TRUE, !.lasts = lasts]

(* No box animates; boxes change colour, order, visibility, opacity and    *)
(* clipping. No font is loaded.                                            *)
MixedStyles ==
  (r :> {Plain(0), [Plain(1) EXCEPT !.opacity = 1], [Plain(1) EXCEPT !.hidden = TRUE]})
  @@ (a :> {Plain(1), [Plain(2) EXCEPT !.text = 1], [Plain(2) EXCEPT !.z = 1]})
  @@ (b :> {Plain(0), Plain(2), [Plain(1) EXCEPT !.clip = TRUE]})

(* a shows text; b changes colour beside it. *)
TextStyles ==
  (r :> {Plain(1)})
  @@ (a :> {[Plain(1) EXCEPT !.text = 2]})
  @@ (b :> {Plain(1), Plain(2)})

(* a animates its background over colours 0, 2 and 4, and may stop listing *)
(* its transition in the middle of a run; the list of b may take no time.  *)
AnimatedStyles ==
  (r :> {Plain(1)})
  @@ (a :> {Fading(0, 2), Fading(2, 2), Fading(4, 1), Plain(4)})
  @@ (b :> {Fading(1, 1), Fading(2, 0)})

(* a animates its background and always lists the transition. *)
FadingStyles ==
  (r :> {Plain(1)})
  @@ (a :> {Fading(0, 2), Fading(2, 2), Fading(4, 2)})
  @@ (b :> {Plain(1), Plain(2)})

=============================================================================
