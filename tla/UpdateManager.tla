--------------------------- MODULE UpdateManager ---------------------------
(***************************************************************************)
(* vx::UpdateManager: the frame pipeline of one document. An input event   *)
(* or an embedder invalidates it; Update lays the document out, starts and *)
(* applies CSS transitions, records a display list, repaints the rectangle *)
(* in which it differs from the last one, and leaves itself dirty while a  *)
(* transition runs. Pipeline hooks run embedder code between the stages,   *)
(* so Update is one action per stage. Script may change the document       *)
(* without telling anyone. LoadCSS and LoadHTML replace the manager, and   *)
(* the new one draws on the canvas the old one left.                       *)
(***************************************************************************)
EXTENDS Renderer, Integers

CONSTANTS
  Styles,        \* [Boxes -> SUBSET Style]: styles the cascade may give a box
  Delay,         \* transition-delay in clock ticks, that of every style
  HookPoints,    \* stages whose hook calls vx_view_invalidate
  ScriptMutates, \* TRUE if script changes the document outside an event
  MaxChanges     \* bound on style changes and on replacements of the manager

ASSUME PipelineAssumption ==
  /\ Styles \in [Boxes -> SUBSET Style]
  /\ \A b \in Boxes : Styles[b] # {}
  /\ Delay \in Nat /\ MaxChanges \in Nat
  /\ ScriptMutates \in BOOLEAN

VARIABLES
  resolved,      \* what StyleResolver gives each box now
  stage,         \* how far Update has got; "idle" outside Update
  dirty,         \* dirty_
  used,          \* styles of the frame in progress, after ApplyTo
  displayList,   \* display_list_
  newList,       \* new_list
  prevStyles,    \* prev_styles_
  transitions,   \* transition_mgr_: at most one entry per box
  screen,        \* pixels of the canvas
  changes        \* style changes and replacements so far

vars == <<resolved, stage, dirty, used, displayList, newList, prevStyles,
          transitions, screen, changes>>

Stages == {"idle", "frame_start", "after_style", "after_render", "frame_end"}

Nothing == [none |-> TRUE]     \* no entry for the box

CascadeStyles == {f \in [Boxes -> UNION {Styles[b] : b \in Boxes}] : \A b \in Boxes : f[b] \in Styles[b]}

White == [c \in Canvas |-> {}]

Init ==
  /\ resolved \in CascadeStyles
  /\ stage = "idle"
  /\ dirty = TRUE
  /\ used = resolved
  /\ displayList = <<>>
  /\ newList = <<>>
  /\ prevStyles = [b \in Boxes |-> Nothing]
  /\ transitions = [b \in Boxes |-> Nothing]
  /\ screen = White
  /\ changes = 0

----------------------------------------------------------------------------
(* CSS transitions. Progress is counted in ticks of the active time; the   *)
(* easing curve is taken as linear.                                        *)

Active(t) == t # Nothing /\ ~t.completed

(* Bound on the age of a transition. *)
MaxElapsed(t) == Delay + t.lasts + 1

(* Mutant: a completed transition counts. *)
HasActiveOrDone(ts) == \E b \in Boxes : ts[b] # Nothing
HasActive(ts) == \E b \in Boxes : Active(ts[b])

(* InterpolateF32 and InterpolateColor at progress / lasts. *)
Interpolate(from, to, progress, lasts) == from + ((to - from) * progress) \div lasts
Painted(t) == Interpolate(t.from, t.to, t.progress, t.lasts)

(* When a changed value starts a transition, and which. *)
Starts(b) ==
  /\ resolved[b].lists /\ resolved[b].lasts > 0
  /\ prevStyles[b] # Nothing /\ prevStyles[b].bg # resolved[b].bg
Started(b) ==
  [from |-> prevStyles[b].bg, to |-> resolved[b].bg, lasts |-> resolved[b].lasts,
   elapsed |-> 0, progress |-> 0, completed |-> FALSE]

(* Mutants: a running transition is kept when the value changes again; the *)
(* restarted transition keeps the progress of the one it replaces.         *)
OnStyleChangeKeepsRunning(b, t) == IF Starts(b) /\ ~Active(t) THEN Started(b) ELSE t

OnStyleChangeKeepsProgress(b, t) ==
  IF Starts(b) THEN [Started(b) EXCEPT !.progress = IF t = Nothing THEN 0 ELSE t.progress] ELSE t

(* OnStyleChange: a changed value starts a transition from the style that  *)
(* listed one last, replacing the one that was running. A style that lists *)
(* none, or one of no duration, leaves a running transition as it is.      *)
OnStyleChange(b, t) == IF Starts(b) THEN Started(b) ELSE t

(* Mutant: the end points are swapped. *)
ApplyToBackwards(style, t) ==
  IF Active(t) THEN [style EXCEPT !.bg = Interpolate(t.to, t.from, t.progress, t.lasts)]
  ELSE style

ApplyTo(style, t) ==
  IF Active(t) THEN [style EXCEPT !.bg = Painted(t)] ELSE style

Advanced(t) ==
  IF ~Active(t) THEN t
  ELSE IF t.elapsed < Delay THEN [t EXCEPT !.progress = 0]
  ELSE LET active == t.elapsed - Delay
       IN [t EXCEPT !.progress = IF active >= t.lasts THEN t.lasts ELSE active,
                    !.completed = active >= t.lasts]

----------------------------------------------------------------------------
(* What makes the manager dirty. *)

(* HandleInput moves :hover or :active, the cascade gives one box another  *)
(* style, and the invalidation callback is called.                         *)
StyleChange ==
  /\ stage = "idle"
  /\ changes < MaxChanges
  /\ \E b \in Boxes : \E s \in Styles[b] \ {resolved[b]} :
        resolved' = [resolved EXCEPT ![b] = s]
  /\ dirty' = TRUE
  /\ changes' = changes + 1
  /\ UNCHANGED <<stage, used, displayList, newList, prevStyles, transitions, screen>>

(* A script writes the DOM: no binding calls Invalidate. *)
ScriptChange ==
  /\ ScriptMutates
  /\ stage = "idle"
  /\ changes < MaxChanges
  /\ \E b \in Boxes : \E s \in Styles[b] \ {resolved[b]} :
        resolved' = [resolved EXCEPT ![b] = s]
  /\ changes' = changes + 1
  /\ UNCHANGED <<stage, dirty, used, displayList, newList, prevStyles, transitions, screen>>

(* A pipeline hook calls vx_view_invalidate, having possibly changed what  *)
(* the cascade gives a box (a script call, an injected pointer move).      *)
HookInvalidate ==
  /\ stage \in HookPoints
  /\ changes < MaxChanges
  /\ \E b \in Boxes : \E s \in Styles[b] : resolved' = [resolved EXCEPT ![b] = s]
  /\ dirty' = TRUE
  /\ changes' = changes + 1
  /\ UNCHANGED <<stage, used, displayList, newList, prevStyles, transitions, screen>>

Ages(t) == Active(t) /\ t.elapsed < MaxElapsed(t)

(* Time passes between frames; a frame reads the clock once. A frame may   *)
(* come after the end of a transition, by one tick at most.                *)
ClockTick ==
  /\ stage = "idle"
  /\ \E b \in Boxes : Ages(transitions[b])
  /\ transitions' = [b \in Boxes |-> IF Ages(transitions[b]) THEN [transitions[b] EXCEPT !.elapsed = @ + 1]
                                     ELSE transitions[b]]
  /\ UNCHANGED <<resolved, stage, dirty, used, displayList, newList, prevStyles, screen, changes>>

(* LoadCSS: the manager is destroyed, and EnsureUpdateManager builds one   *)
(* that has seen nothing. The canvas is not cleared.                       *)
Replace ==
  /\ stage = "idle"
  /\ changes < MaxChanges
  /\ resolved' \in CascadeStyles
  /\ dirty' = TRUE
  /\ displayList' = <<>>
  /\ newList' = <<>>
  /\ used' = resolved'
  /\ prevStyles' = [b \in Boxes |-> Nothing]
  /\ transitions' = [b \in Boxes |-> Nothing]
  /\ changes' = changes + 1
  /\ UNCHANGED <<stage, screen>>

----------------------------------------------------------------------------
(* Update(), stage by stage. *)

BeginUpdate ==
  /\ stage = "idle"
  /\ dirty
  /\ stage' = "frame_start"
  /\ UNCHANGED <<resolved, dirty, used, displayList, newList, prevStyles, transitions,
                 screen, changes>>

(* Layout resolves every style afresh; TraverseForTransitions then starts  *)
(* transitions and applies them with the progress of the frame before, and *)
(* only then does Tick move the progress on.                               *)
LayoutAndStyle ==
  /\ stage = "frame_start"
  /\ stage' = "after_style"
  /\ LET started == [b \in Boxes |-> OnStyleChange(b, transitions[b])]
     IN /\ used' = [b \in Boxes |-> ApplyTo(resolved[b], started[b])]
        /\ transitions' = [b \in Boxes |-> Advanced(started[b])]
  /\ prevStyles' = [b \in Boxes |-> IF resolved[b].lists THEN resolved[b] ELSE prevStyles[b]]
  /\ UNCHANGED <<resolved, dirty, displayList, newList, screen, changes>>

RecordList ==
  /\ stage = "after_style"
  /\ stage' = "after_render"
  /\ newList' = Record(used)
  /\ UNCHANGED <<resolved, dirty, used, displayList, prevStyles, transitions, screen, changes>>

PaintAndSwap ==
  /\ stage = "after_render"
  /\ stage' = "frame_end"
  /\ screen' = Repaint(screen, ComputeDirtyRect(displayList, newList), newList)
  /\ displayList' = newList
  /\ newList' = <<>>
  /\ dirty' = HasActive(transitions)
  /\ UNCHANGED <<resolved, used, prevStyles, transitions, changes>>

(* Mutant: the flag is cleared after the last hook. *)
EndUpdateClearing ==
  /\ stage = "frame_end"
  /\ stage' = "idle"
  /\ dirty' = HasActive(transitions)
  /\ UNCHANGED <<resolved, used, displayList, newList, prevStyles, transitions, screen, changes>>

EndUpdate ==
  /\ stage = "frame_end"
  /\ stage' = "idle"
  /\ UNCHANGED <<resolved, dirty, used, displayList, newList, prevStyles, transitions,
                 screen, changes>>

UpdateStep == BeginUpdate \/ LayoutAndStyle \/ RecordList \/ PaintAndSwap \/ EndUpdate

Next ==
  \/ StyleChange
  \/ ScriptChange
  \/ HookInvalidate
  \/ ClockTick
  \/ Replace
  \/ UpdateStep

Spec == Init /\ [][Next]_vars

(* The frame timer keeps calling Update. The steady clock runs whether or  *)
(* not a frame is in progress, so frames cannot starve it.                 *)
FairSpec == Spec /\ WF_vars(UpdateStep) /\ SF_vars(ClockTick)

----------------------------------------------------------------------------
Transition ==
  {t \in [from: 0..MaxColor, to: 0..MaxColor, lasts: Nat \ {0}, elapsed: Nat,
          progress: Nat, completed: BOOLEAN] :
     t.elapsed <= MaxElapsed(t) /\ t.progress <= t.lasts}

(* The boxes that a style may animate, and those whose every transition    *)
(* lasts some time.                                                        *)
Transitioned == {b \in Boxes : \E s \in Styles[b] : s.lists /\ s.lasts > 0}
Lasting == {b \in Boxes : \A s \in Styles[b] : s.lists => s.lasts > 0}

(* Every variable holds a value of its kind; in particular an interpolated *)
(* background is a colour and no progress exceeds the duration, however    *)
(* late a frame is.                                                        *)
TypeOK ==
  /\ resolved \in CascadeStyles
  /\ stage \in Stages
  /\ dirty \in BOOLEAN
  /\ used \in [Boxes -> Style]
  /\ prevStyles \in [Boxes -> Style \cup {Nothing}]
  /\ transitions \in [Boxes -> Transition \cup {Nothing}]
  /\ changes \in 0..MaxChanges

(* The canvas shows what the display list would draw on an empty canvas:   *)
(* repainting only dirty rectangles, frame after frame, loses nothing and  *)
(* leaves nothing behind. A manager that has drawn nothing owns no pixels. *)
ScreenExact ==
  displayList # <<>> => \A c \in Canvas : screen[c] = Picture(displayList, c)

(* A clean manager is up to date: when Update would return at once, the    *)
(* list on the canvas is the one today's styles give, for every box that   *)
(* has not been animated.                                                  *)
CleanMeansCurrent ==
  stage = "idle" /\ ~dirty =>
    /\ \A b \in Boxes : transitions[b] = Nothing => used[b] = resolved[b]
    /\ displayList = Record(used)

(* A transition heads for the background of the last style that listed a   *)
(* transition, whatever changed while it ran; so for that of the style in  *)
(* use whenever that one lists one. OnStyleChange redirects a running      *)
(* transition, but not for a style that lists none, which is left to wait  *)
(* for the old value, nor for a list whose transition takes no time, which *)
(* is left out here.                                                       *)
TransitionTarget ==
  \A b \in Lasting :
    transitions[b] # Nothing =>
      /\ prevStyles[b] # Nothing
      /\ transitions[b].to = prevStyles[b].bg

(* The styles a frame may draw with: what the cascade gives, with any      *)
(* background on a box that animates.                                      *)
PaintedStyles(b) ==
  Styles[b] \cup (IF b \in Transitioned
                  THEN {[s EXCEPT !.bg = color] : s \in Styles[b], color \in 0..MaxColor} ELSE {})

Looks == {f \in [Boxes -> UNION {PaintedStyles(b) : b \in Boxes}] :
            \A b \in Boxes : f[b] \in PaintedStyles(b)}

(* What a document and its style sheets must be like for the canvas to be  *)
(* exact: any two of the lists they may record can follow one another.     *)
SteadyLists ==
  /\ \A f \in Looks : Record(f) \in Seq(Commands)
  /\ \A f, g \in Looks : RepaintSafe(Record(f), Record(g))

SameRun(t, u) == t # Nothing /\ u # Nothing /\ t.from = u.from /\ t.to = u.to
                 /\ t.lasts = u.lasts /\ t.elapsed <= u.elapsed

Between(x, y, z) == (x <= y /\ y <= z) \/ (z <= y /\ y <= x)

(* While one transition runs, each frame moves the painted value towards   *)
(* the target: it never swings back and never overshoots.                  *)
AnimationMonotone ==
  [][\A b \in Transitioned :
       stage = "frame_start" /\ stage' = "after_style"
         /\ Active(transitions[b]) /\ SameRun(transitions[b], transitions'[b])
       => /\ Between(transitions[b].from, used'[b].bg, transitions[b].to)
          /\ transitions[b].progress > 0
               => Between(used[b].bg, used'[b].bg, transitions[b].to)]_vars

(* A transition that starts while the box is at rest, where the last style *)
(* that listed one put it, starts where the box is: its first frame paints *)
(* the value of the frame before.                                          *)
StartsWithoutJump ==
  [][\A b \in Lasting :
       /\ stage = "frame_start" /\ stage' = "after_style"
       /\ prevStyles[b] # Nothing /\ used[b].bg = prevStyles[b].bg
       /\ resolved[b].lists
       => used'[b].bg = used[b].bg]_vars

(* Frames stop: once the styles are left alone, every transition completes *)
(* and the manager ends up clean for good.                                 *)
FramesStop == <>[](stage = "idle" /\ ~dirty /\ ~HasActive(transitions))

----------------------------------------------------------------------------
(* Statements of the documentation that the code does not keep.            *)

(* docs/plans/2026-04-05-css-transitions.md: when a transition is over the *)
(* colour has reached its target.                                          *)
FinalValuePainted ==
  stage = "idle" /\ ~dirty => \A b \in Boxes : used[b].bg = resolved[b].bg

=============================================================================
