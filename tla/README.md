# Veloxa: TLA+ models, checks and proofs

Veloxa is an HTML/CSS engine in C++17 for embedded displays. This directory
holds TLA+ modules translated from the code in `src/veloxa`, TLC configurations
that check them on small instances, and theorems about them whose proofs TLAPS
checks for every value of the constants.

## The system

The program is a single-threaded engine driven by an event loop, with one extra
thread (the file watcher of hot reload). An embedder uses the C API, which
forwards to `Application`.

| Component | State it keeps | Operations | Hard parts | What makes it correct |
|---|---|---|---|---|
| Frame pipeline, `core/update_manager` | dirty flag, last display list, previous styles, running transitions | `Invalidate`, `Update` with five hook points | hooks run embedder code in the middle of `Update`; partial repaint; replacement of the manager | canvas equals a full redraw; a clean manager is up to date; frames stop |
| CSS transitions, `core/css/transition` | active transitions per element | `OnStyleChange`, `Tick`, `ApplyTo`, `HasActive` | late frames, redirection of a running transition, apply/tick order | values stay between the ends, head for the last style that listed a transition, end |
| Display list and renderer, `core/render` | none (pure) | `Record`, `ComputeDirtyRect`, `Replay` | clips, layers, z-order, lists of different length | the dirty rectangle covers all that changed |
| Software canvas, `graphics/software` | pixels, stacks of clips, layers and states | drawing commands, push and pop | commands that ignore clip or transform | drawing stays in the clip |
| Application, `core/application` | documents, managers, shaper, bindings, hooks, policy, sheets | load calls, DevTool attach and detach, hotkeys, input, `Update` | ownership: two managers share one callback, shaper, event manager and canvas | no manager outlives its document; changes reach the right manager |
| Hot reload, `devtool/hot_reload` | watcher thread, debounce table, queue | `Attach`, `Detach`, `DrainEvents`, `WatchLoop` | two threads, join, debounce, files that change while read | quiet after detach; every edit is loaded |
| Input and events, `core/event` | hovered, active, focused; listeners | `HandleInput`, `Dispatch`, add and remove listener | pointers into freed documents; handlers that change the listeners | each change invalidates; each listener fires once |
| Event loops, `platform` | tasks, timers, running flag | `PostTask`, `SetTimer`, `CancelTimer`, `Run`, `Quit` | calls made inside callbacks | every task runs once; a cancelled timer does not fire |
| Containers, `foundation/containers` | hash table with tombstones, vectors, list | insert, find, erase, clear, reserve, iterate | tombstones, growth, moved-from objects | behaves as a map, a sequence |
| Memory, strings, logging, `foundation` | arena blocks, free lists, intern table, counters | allocate, reset, intern | reuse, alignment, concurrent counters | blocks do not overlap; equal strings intern equal |
| DOM, `core/dom` | the node tree: parent, sibling, first and last links, child counts; attributes, classes, inline declarations | create, append, remove, set attribute | the code checks nothing: who may be appended where is up to the callers | the links describe one tree |
| HTML, `core/html`, `core/dom/serializer` | the tokenizer's position and flags; open elements of the parser | next token, parse, serialize | text that stops inside a tag, implicit closes, entities | parsing ends; what is written is read back |
| CSS parsing and cascade, `core/css` | style sheets, inline declarations | tokenize, parse, match, resolve | recovery from what it does not know; importance, specificity, order, inheritance | a bad declaration costs itself only; the strongest declaration wins |
| Layout, `core/layout` | box tree in an arena | `Layout` | margins that collapse across levels, lines with alignment, flexible lengths | gaps are the collapsed margins; lines and flex lines hold their items |
| Script, `script` | QuickJS runtime, record of listeners, functions kept alive | bind, unbind, DOM calls, listeners | handlers that change listeners, bind and unbind; destruction in either order | no call of a freed function; the record is the event manager's |
| Text and images, `text`, `core/image` | font table, size of the face, glyph and shape caches, image table | load, measure, look up, insert, clear | two users of one face; slots reused while glyphs are drawn | a hit is what a miss would compute |
| GLES canvas, `graphics/gles` | glyph atlas, texture pool, stacks, the driver's scissor | draw, upload, push and pop, context loss | eviction within a frame, clips kept in two places | glyphs stay whole; it draws where the software canvas draws |
| Surfaces and displays, `platform` | window handles, lock flag | lock, present, swap | lost context | presented once per frame |
| DevTool, `devtool` | panel document, overlay samples, console log | attach, sample, log, drain | hooks into a manager that may be freed; bounded log | counters agree with what was dropped |

Calls between the parts: an input event goes through `Application::InjectInput`
to `EventManager::HandleInput`, which hit-tests the last layout, changes the
interaction state, calls the invalidation callback (`UpdateManager::Invalidate`)
and dispatches to listeners, usually script. The frame timer calls
`Application::Update`: it drains hot reload (which calls `LoadCSS`, which drops
the page's manager), makes sure there is a manager, runs its `Update`, then the
panel's under a translation, then presents. `Update` lays out with the shaper and
the event manager (for `:hover`, `:active`, `:focus`), and replays on the canvas.

## The modules

| Module | Models | Notes |
|---|---|---|
| `DisplayList` | paint commands, `ComputeDirtyRect`, and what a replay leaves in a cell | pure operators; one axis |
| `Renderer` | `render::Record` over a box tree | recursive function, EXTENDS `DisplayList` |
| `UpdateManager` | the pipeline of one document and its transitions | EXTENDS `Renderer`; `Update` is five actions, one per stretch between hooks |
| `MCUpdateManager` | box trees and style sets for TLC | |
| `Application` | ownership and wiring of the page, the panel and what they share | a frame is one action here |
| `HotReload` | editor, kernel queue, watcher thread, main thread | |
| `HashMap` | `vx::HashMap`: probing, tombstones, growth, copying, moving | `Rehash` moves one slot per action |
| `KeyValueMap` | the map it promises to be | abstract specification |
| `MCHashMap` | a hash function for TLC | |
| `EventLoop` | tasks, timers, input pumping and polls from inside callbacks; `Application::Run` and `Quit` | one action per stretch between callbacks |
| `Dom` | the node tree: links, contents, and what its callers do with them | `DomNext` is every legal sequence of calls |
| `DomBindings` | script of a page: bindings, the event manager's listeners, dispatch to handlers that call back into both | EXTENDS `Dom` |
| `HtmlParser` | tokenizer, tree builder and serializer | EXTENDS `Dom`; one action per token |
| `MCPage` | host for TLC: frames, HTML, script | |
| `CssTokenizer`, `CssParser` | style sheets and inline styles from characters to declarations | each EXTENDS the one before; one action per turn of the parser's loop |
| `CssCascade` | selector matching and style resolution, and the cascade as CSS defines it | EXTENDS `CssParser`, `Dom` |
| `LayoutBox`, `LineLayout`, `FlexLayout`, `Layout` | boxes, lengths and margin chains; lines; flex containers; blocks and positioned boxes | `Layout`, the recursion over the tree, EXTENDS the others |
| `MCLayout`, `MCStyle` | pages for layout; host for TLC: animated boxes, style sheets, layout | |
| `TextCaches` | face, shape cache, glyph cache and atlas behind `DrawText` | |
| `Canvases` | software and GLES canvas given the same calls | |
| `MCGraphics` | host for TLC: hash map, text caches, canvases | |
| `UpdateManagerProofs`, `ApplicationProofs`, `HotReloadProofs`, `HashMapProofs`, `EventLoopProofs` | theorems | each EXTENDS its module |
| `PageProofs` | theorems about `Dom`, `HtmlParser`, `DomBindings` | |
| `GraphicsProofs` | theorems about `TextCaches`, `Canvases` | |
| `StyleProofs` | theorems about `CssParser`, `CssCascade`, `LineLayout`, `FlexLayout` | |

**UpdateManager.** `dirty`, `displayList`, `prevStyles`, `transitions` are the
fields of the class; `newList` and `used` are locals of `Update` that live across
hooks (the recorded list, the styles after `ApplyTo`); `resolved` is what the
cascade would give each box now, and `screen` the canvas. A picture is not pixels
but the set of commands that reach a cell, each with the layers it passes through:
two cells look the same exactly when these sets are equal, and text blended twice
or a stale command shows as a difference. A box has one animatable value, its
background; time is counted in ticks, easing is linear, which keeps the order of
values that the properties speak of. Each style says whether it lists a transition
(`lists`) and how long that lasts (`lasts`, which may be nothing), for the code asks the
style of the frame: one that lists none neither starts nor redirects a run nor is
remembered in `prevStyles`. `Transitioned` and `Lasting` are sets read off the styles
and only the properties use them. `StyleChange` stands for an input event,
`ScriptChange` for a DOM write (no binding invalidates), `HookInvalidate` for
`vx_view_invalidate` from a hook, `Replace` for the manager that follows a
`LoadCSS`.

**Application.** Every document and manager gets a fresh number, so a pointer to a
freed object is a number nobody has. `dangling` records that such a pointer was
followed, and of which kind; nothing happens after that, for the code has no
defined behaviour there. An application with a surface is modelled (without one
there is no canvas and nothing is drawn). A page of `Width` elements covers the
canvas, one cell each, so that element `c` and cell `c` coincide. A panel may come
without bindings, when its script context cannot be made.

**HotReload.** The watcher's test of `running_` and its `read` are one action. The
thread may in fact be stopped between them, but clearing the flag touches nothing
the read uses and the main thread then waits for the thread to end, so the same
outcome is reached when the flag is cleared after the read. Reading a file in the
drain is one action: an editor caught in the middle of a save leaves it `torn`, which is
a content the brace check rejects. `ReadFails` is an error of the watcher's `read` other than
`EAGAIN`: the thread ends, `running_` and the watch stay, and no fairness is assumed of
it. `Paced` says that the editor leaves the watcher
time for each write of a file.

**HashMap.** `table` is `ctrl_` and `slots_` together: a slot is empty, deleted or
full with its key and value. The seven bits of the hash in a control byte are left
out, for they are a function of the key and only save comparisons; `Hash` gives the
rest, `H1`. A key occurs at most once on its probe, so the loops of `Find`, `Erase`
and the two insertions are sets of probe steps: those before the first empty slot
and before the key. `Rehash` stands as begin, one action per old slot, and end,
where the call that needed it goes on; the refinement mapping `Contents` reads both
tables meanwhile. `Copy` shows the copy constructor as the map replaced by its copy,
`Renew` the move assignment of a new map. `done` is history: the call that returned
last and its answer. `KeyValueMap` has a call in progress and the last answer too, so
that a step of it is the effect of the call asked for with the answer it gives, or none.

**EventLoop.** The SDL loop keeps a flag of its own and leaves tasks and timers to a
headless loop inside it; a program without a window uses the headless loop alone,
which is the same without the pump. `stack` has a frame for each `PollOnce` under
way: its phase, the tasks its `ProcessTasks` has still to run, and whether a callback
runs (`busy`). A callback is any sequence of calls of the loop until it returns.
`timers_` only grows at the end and is compacted in order, so ids stand for places;
a timer holds the time left until it is due. `due` are the timers a pass has still to
come to, settled when it reads the clock, and `fresh` says that the clock has not
moved since: only then does a timer set for no time join the pass, and only then is
the whole interval left of a timer that repeats. The model leaves out timer callbacks
that poll: the inner pass compacts the vector the outer one iterates, and the code
makes no promise for it. `waiting`, `silent`, `spent`, `firing` and `asked` are
history.

**Dom.** A node is its place in `Document::owned_nodes_`, so a greater number is a
younger node and no node is freed before its document. The operators take the links
and give them after the call; like `node.cc` they check nothing (`AppendChild` does
not take a node out of the parent it has). What keeps the tree a tree is the callers'
habit, which `DomNext` states: a node is put under an older one, has no parent at
that moment, and is younger than its new siblings. `CallersKeepOrder` checks that the
parser and the bindings, as modelled, keep to it.

**DomBindings.** `em` is the event manager with the listeners of each element, `js`
the bindings' `InstanceData` (entries, functions kept alive, the binding's element
list), `disp` the `Dispatch` under way: the path, the stage, and the place in the
list the loop iterates. Script runs at the top level or inside a handler, and a
handler is any sequence of calls until it returns (`MaxOps` in all): adding and
removing listeners in every form, changing the tree, `innerHTML`, binding, unbinding.
A handler that adds or removes a listener of the element whose list is iterated moves
or frees what the loop holds; the model marks that (`torn`) and lets the loop go on,
end, or the program stop (`crashed`), and a handler that removes itself destroys the
closure that runs. `carried` records that an entry of an earlier binding was left,
for `Unbind` does not clear them.

**HtmlParser.** A text is a sequence of symbols, each a character that the tokenizer
treats specially or a word it never takes apart. `Reparse` serializes the tree and
starts a second parse, so that the round trip is a property of one behaviour. Only
trees that HTML can write are reparsed (`Writable`: no unknown tag, nothing to be
escaped inside raw text). `Outline` is the whole tree in document order, inline
declarations included; the second parse is compared with what `Unstyled` leaves of the
first, for the parser keeps a style attribute as declarations (html/parser.cc:149) and the
serializer writes attributes only (serializer.cc:66).

**CssTokenizer, CssParser, CssCascade.** A text is a sequence of characters in which a
run of letters is one. A behaviour parses a list of texts, sheets and then inline
declarations, turn by turn of `DoParse` and `DoParseDeclarations`; each text comes with
the declarations and rules it was put together of: what each means alone, and what its
parser takes of the text behind it before it refuses it. The cascade is then a function
of what was parsed and of a small document. `RefStyle` is the reference: the strongest
candidate by importance, origin, specificity (of the most specific selector of the rule
that matches) and order, with no sorting and no passes. `z-index` and `font-weight`
become integers, as the casts of the resolver make them. `ApplyDeclaration` takes a
style and one declaration, `ApplyAll` and `ApplyOrigins` are the loops around it. The
walks of the code (`Nearest` up the ancestors of an element, `current` in `Matches`
outwards along a selector, `StyleOf` down the tree, the parser's own recursions) are
recursive functions over nodes or places; `SortBySpecificity` puts every matched rule at
its rank, the number of rules that come `Ahead` of it.

**LayoutBox, LineLayout, FlexLayout, Layout.** A page is a tree of elements with computed styles
and of texts, laid out in one action, as the code does. Lengths are integers, chosen
so that the halves and fifths the code takes come out even; a division that does not
is rounded down. `Marks` in `Layout` reads a finished page from top to bottom as a
sequence of edges and margins, which gives the rule of collapsing a form that does not
repeat the algorithm.

**TextCaches.** `face` is the size FreeType has and the one `FontManager` remembers.
`FreeTypeTextShaper::Measure` sets the former past the latter (freetype_shaper.cc:44),
so what is made in between is marked `behind`. A glyph of a text is one action, so a
text may be interrupted by an eviction its own glyphs cause. The cells of the atlas
hold the bitmap written there.

**Canvases.** Both backends get the same calls; a drawing is the set of pixels it
reaches on each. The software side has the stack of clips, active edges and winding
numbers of the rasterizer; the GLES side the scissor in the driver, tessellated
contours, lines as turned rectangles, and borders as four bars. A text is a set of boxes,
its glyphs. A rectangle of negative size is painted mirrored by the software rasterizer
(`Upright`) and not at all by GLES.

**Hosts.** `MCPage`, `MCStyle` and `MCGraphics` check three parts in one run each. A
variable `part` chosen at the start says which part works; the others rest in their
initial state, so that no product of unrelated states is explored, and each property
speaks of its own part.

## The runs

| Run | Expected | Question |
|---|---|---|
| `um_frames` | passes | frames: is the canvas exact after any sequence of frames, and is no invalidation lost; HTML: does parsing end, and is what the serializer writes read back, all but style attributes; script: do callers append and remove only as the tree needs it, do the links stay one tree, are handlers called in order, once, and never after they were freed, and do bindings and event manager agree |
| `um_transitions` | passes | frames: do animated values behave, and do frames stop; style sheets: does each piece mean what it means alone, is no more lost than the one declaration or rule head behind a parser that took too much, and does the strongest declaration win; layout: do margins collapse as CSS says, do lines and flex lines hold their items |
| `app` | passes | are documents, managers, callback, hooks, policy and canvas consistent under every order of calls |
| `hot_reload` | passes | do watcher, drain and detach work together, also when the thread gives up |
| `hash_map` | passes | map: does the table behave as a map, and does every insertion find room; text: is a text drawn with its own glyphs through every eviction; canvases: do both backends draw the same |
| `event_loop` | passes | are tasks and timers run as often as they should whatever callbacks do, and does `Run` return when asked |
| `um_hook_invalidate` | violated | does an invalidation from a hook in mid-frame survive |
| `um_text` | violated | does partial repaint work with loaded fonts |
| `um_final_value` | violated | is the end value of a transition painted |
| `app_callback` | violated | is the invalidation callback always alive |
| `app_dock` | violated | does the panel land in the dock |
| `hot_reload_edits` | violated | are edits in quick succession loaded |

The violated runs state what a document or comment of the repository says; each is
an entry of `findings` in `PROJECT.json` with the quotation and the line.

Bounds. `um_frames` has three boxes on four cells: a parent and two children that
overlap in one cell is the smallest tree in which z-order, clipping, layers, hiding and
a dirty rectangle that cuts through a neighbour all matter; two changes are enough for a
change during and after a frame. `um_transitions` allows three changes (start, redirect,
and one during the redirected run), a delay of one tick and durations of one and two, so
that there is a frame before, at and after each end, and one tick more for a late frame;
one box has a style that drops its transition list, the other one whose transition takes
no time. `app` creates at most five documents and managers (`MaxIds = 6` is the first
unused number): a page with its manager, a panel with its, and one replacement. One
style sheet and one font suffice, as the properties only tell "before" from "after".
`hot_reload` has two files, so that one can fail while another must load, three writes
and two watches. `hash_map` starts with two slots and grows twice; two of its four keys
share a home, at the end of a table of four, where probes wrap around, and a third
collides with them before the second growth only, so that a key's neighbours change.
With two or four slots the load of 7/8 lets a table fill up completely, which sixteen
slots do not: the smaller table is the harder one. `event_loop` has two tasks, so that
one may be posted or run while the other waits, two timers, so that one may cancel the
other in a pass (or two calls of `Run`, each with its frame timer), and one poll inside
another. The script part of `um_frames` has a page of three nodes and room for four more
(`MaxNodes = 8` with the document), which is enough to move a subtree and to replace one
by a fragment; three listeners (`MaxTokens`), so that one can be removed or added while
another runs and a third waits; two bindings, so that entries can outlive the first;
four calls of script, at the top level or inside handlers. HTML texts are all sequences
of three pieces (an opened, closed or unfinished tag, an attribute, a quote, an entity,
a comment's ends, raw text), which is what it takes to open something, interrupt it and
go on, and six longer ones for nesting, quoting and escapes. The style sheets of
`um_transitions` pair every declaration of a list with every other, in a sheet and the
other way round inline, and let every two selectors compete, with an at-rule or an
unfinished declaration between them. Among the declarations are four whose parser takes
the semicolon, and two at the end of a block whose parser takes the brace, before two
further rules (no at-rule stands behind those: it would be read as declarations). The
document has an element for each way to be selected. Its pages pair blocks of nineteen
shapes with four pairs of margins (positive, negative, zero), one inside or after
another with an empty box between; lines of any three inline items; and flex containers
in both directions with items that grow, shrink and wrap. The atlas of `hash_map` has
three by four cells: two shelves of the small glyphs, which a third needs evicted, and
at the larger size a glyph that is too wide and empties the atlas of the glyph before it
in its own text; the shape cache two slots for the four pairs of text and size. The
canvas has four by three pixels, two clips, one saved state, and drawings that cross
each of its edges, borders with and without area, a rectangle of negative size and a
text that overlaps the right edge. Every bound is a guard in its module. Deadlock
checking is off because the bounds, and in `Application` a followed dead pointer, end
behaviours.

Fairness. `UpdateManager`: `WF(UpdateStep)`, because the frame timer repeats for as
long as the loop runs and `Update` does not block; `SF(ClockTick)`, because the
steady clock advances whatever the program does. `Application`: `WF(Update)`, the
same timer. `HotReload`: `WF(Worker)`, the operating system runs the thread;
`WF(Drain)`, the timer; `WF(Joined)`, a thread that has ended lets `join` return.
`EventLoop`: weak fairness of the loop's own steps, which do
not block; strong fairness of `TakeTasks` (the window system's queue is found empty
in the end) and `Return` at each depth, and of `EndFiring`: callbacks return, however
often they poll meanwhile; `SF(ClockTick)` as above. `HtmlParser`: `WF(HtmlNext)`,
the loop of `DoParse` calls nothing that waits. Nothing is assumed of the editor
or the user.

Where the properties make exceptions. Some properties hold but for departures of the
code that they name, so that what they say of everything else stays checked:

- `ParsingEnds` excepts `StuckInTag`: at the end of the input inside a tag the
  tokenizer gives error tokens for ever and `DoParse` does not leave its loop.
- `EntriesExact` excepts `carried`: after `Unbind`, the entries of the first binding
  stay, and their tokens may come to name listeners of the second.
- `SheetExact` takes for granted what recovery loses when a parser took the semicolon or
  the brace behind the declaration it refused (css/parser.cc:428-441): the next
  declaration, or the selectors and first declaration of the next rule (`Heard`,
  `Blocks`). That nothing else is lost is what it checks. `RulesMeant` excepts a blank
  after a comma in a selector list, which leaves an empty outermost compound; it matches
  every ancestor.
- `CascadeExact` excepts `NeedsBacktracking`: a descendant step takes the nearest
  ancestor only, so a child step above it may fail where a farther ancestor would do.
  It excepts selectors with 256 or more simple selectors of a kind, which carry into the
  next kind when they are packed (`Packed`). It leaves out the elements for which a rule
  is `Undercounted`: the resolver counts a rule by the first of its selectors that
  matches (style_resolver.cc:69-73) and not by the most specific, so that `p.c, #x` has the
  weight of `p.c` on an element that both match. `Counts` excepts `inherit` and
  `initial` on the properties where the resolver ignores them.
- `RoundTrip` compares with `Unstyled`: inline declarations do not come back.
- `TransitionTarget` and `StartsWithoutJump` speak of the last style that listed a
  transition. A style that lists none, when it comes in the middle of a run, leaves the
  run to the old target and `prev_styles_` as it was (update_manager.cc:91), so that a
  list that comes back is compared with that older style; the hypothesis
  `used[b].bg = prevStyles[b].bg` keeps the jump that follows out. Both leave out boxes outside
  `Lasting`: a list whose transition takes no time is remembered but leaves a run as it is
  (transition.cc:317).
- `StartsWithoutJump` judges boxes at rest only. The run that replaces another starts at
  the other's target (`from` is the previous style), wherever the box was shown; this jump is in the
  model and no property forbids it, for no document does.
- `CleanMeansCurrent` leaves out boxes that have an entry in `transitions`: a completed
  one may have left them at the frame before the last (`um_final_value`).
- `EditsLoaded` ends its promise when the watcher's thread has given up (`ReadFails`).
- `MarginsCollapse` excepts `TakenForEmpty` (contents whose heights sum to zero make a
  box collapse through, layout_engine.cc:683) and `EmptyHead` (margins behind an empty
  first child do not reach out of an open parent).
- `FlexFills` says that shrinking keeps a line from overflowing only where every item
  shrinks, to more than nothing, and none has a minimum size.
- `GlyphsExact` excepts what was made `behind`: a glyph rasterized while the shaper had
  set the face keeps the wrong size in the cache for good.
- `BackendsAgree` excepts `KnownDifference`: paths, strokes and lines that begin left of
  the canvas (rasterizer.cc:360 drops the winding of an edge that lies there);
  rectangles of negative size, which the software backend mirrors (rasterizer.cc:112),
  and borders of rectangles without area, which only it strokes; images under a
  transform; text under a transform or a clip, both of which the software backend
  ignores; `Clear` under a clip. Of a border it says that GLES paints the four pixels at
  its corners and the software stroke of the sides does not (`CornersOf`), and that they
  agree elsewhere; gles_canvas.cc:717 calls the two alike.

Met while modelling, in the modules as the code has them, and without a property
because nothing in the repository says otherwise. HTML and DOM: `setAttribute` of `id`,
`class` and `style` leaves the element's own copies alone (dom_bindings.cc:409);
`Unbind` drops the host's listeners with the script's. CSS: an at-rule behind a block whose
brace was taken is read as declarations; `rgb()` with fewer than three
numbers is a colour. A selector that is not supported leaves an empty compound, which matches every
element; an at-rule without a block swallows the rule after it; names of properties
are compared with their case. Layout: percentages of an absolute box are resolved
twice; the children of flex items are not laid out; a column with a height keeps a
content height of zero; a wrapped line may overflow by a gap; an image with a size of
its own keeps an empty box. Text: a glyph as tall as the atlas empties it at every use
and is never kept.

## The proofs

`UpdateManagerProofs`: first, for lists of any length, the dirty rectangle covers
every cell whose picture changes, so a partial repaint of an exact canvas is exact
(`PartialRepaintExact`). Its hypothesis `RepaintSafe` names what the code relies on: no
text drawn from a loaded font (it ignores the clip; the run `um_text` is the
counterexample), no rounded border that changes, and commands that stay under the same
clips and layers. `ScreenStaysExact` carries that to every behaviour of `UpdateManager`:
`ScreenExact` holds in any sequence of invalidations, hooks, frames, style changes and
replacements, if any two lists the document may record can follow one another
(`SteadyLists`). The condition is one of the boxes and styles alone, so TLC evaluates it:
`MCPage` assumes it of the instance of `um_frames`. That `Record` gives a list of
commands at all is part of the condition, for it is a recursion over the tree of
boxes. The invariant `ScreenInv` adds that the last list is one of styles a frame may
have used, animated ones included.

Then types (`TypeCorrect`; the lemma `InterpolateBetween` shows
that interpolated colours stay between their ends, which is what keeps them
colours), `TransitionTarget` (inductive together with the type invariant: a
transition starts in the same step that records the style it heads for, and a style that
lists none changes neither), and
`CleanMeansCurrent` under `QuietPipeline` (no hook that invalidates
between layout and the end of the frame, no unannounced script). The last needs an
invariant that says, for each stage, which of resolved styles, used styles, new
list and old list agree already. The hypothesis is needed, as `um_hook_invalidate` shows;
`um_frames` has such an instance.

The action properties of transitions, `AnimationMonotone` and `StartsWithoutJump`, follow
from `RunInv`: what is painted of an active transition is the value of a progress of that
same run, no greater than the clock allows now (`OnCourse`). With it, a later frame
can only be nearer the target, because integer division is monotone, and a transition that is
redirected starts at what is shown. Colours, delay, duration and how late
frames come are arbitrary.

`ApplicationProofs`: the inductive invariant is `Wiring`: types, what a page
manager has seen (`PagePart`), and how the panel's parts belong together
(`PanelPart`). Its key conjunct is that a live manager's number is below `nextId`,
so that a new manager is never confused with one the callback still names. From it
follow six of the checked invariants, for any canvas, any bounds and any sequence of calls.

`HotReloadProofs`: `Quiet` (where events may be in each phase of a join) gives
`QuietAfterDetach`; `Spaced` (with paced writes, at most one event per file between
kernel and queue, and none while the file is debounced) gives `EditsAccounted` for
any number of files, writes and watches.

`HashMapProofs`: the inductive invariant `IInv` says that no key is in two slots
(`Unique`), that no empty slot lies before a key on its probe (`Chained`, what a
tombstone is for), the same for the old table, that no key waits in the old table
that is already in the new one (`Separate`), that the size counts full slots
(`Counted`), and that `Rehash` has inserted no more entries than it passed slots
(`Growing`), which is why there is room for each. The probe of a key is shown to be a
bijection on the slots, from which follows that it meets a free slot when there is
one. Each action is shown to keep `IInv` and either to leave the entries alone, as every
step of `Rehash` does, or to be the return of one call with its effect and answer
(`EntriesStep`), from which the refinement of `KeyValueMap` follows. Nothing is
assumed of the hash function or the capacities.

`EventLoopProofs`: the inductive invariant `IInv` joins types, `Control` (every poll
but the innermost waits for a callback outside its pass, so there is one pass at
most, and a timer's callback runs exactly when `firing` names it) and `Retired` (a
timer that was cancelled or has fired for good is dead, except that the one that
fires is only marked when its callback returns). From it follow `NoTimerLost` and
`NoLateFire`; `Accounted` adds that tasks waiting at different depths differ, which
gives `TasksAccounted`. The depth, the number of timers and the intervals are
arbitrary.

`PageProofs`: the links stay one tree (`LinksHold`), for any number of nodes and any
sequence of calls that keep to `DomNext`. The inductive invariant `LinkedTree` is `TreeTypeOK`,
`LinksOK` (siblings agree, ends agree, every child is on its parent's list, parents are
older than children and a sibling than the next), `Unborn` (nothing hangs on a node not
yet created) and `CountsAgree`; that age grows
along the links is what rules out cycles. One lemma each for creating, attaching and
removing, with the counts by cardinality of the set of children. What it assumes of the
callers, `DomNext`, is what the next two theorems show of them.

`ParserKeepsOrder`: the parser keeps to `DomNext` for every text of any length. Nothing
need be known of the tokenizer but that it leaves the open elements alone; the invariant
says that they exist and that the element whose tag is being read is the youngest node
and in no list. `ScriptKeepsOrder`: so do the bindings, through an `innerHTML` half
done; `InnerInv` says that of the open clones the deeper is the younger, and that none
hangs in a list yet.

`CallbacksStayAlive` and `RecordExact` share `ListenersInv`: tokens grow along each list
of listeners and name one listener each; every script listener has its entry and its
function is held (`Recorded`); every entry has its listener and no token twice, until the
entries of an earlier binding are carried over (`Backed`). The lemmas about thinned
lists (`Thinned`: what a removal leaves, in its order) serve all the ways to remove.
`EventsInOrder` adds `DispatchInv`: the place in the path, that what was called lies behind
it, and that listeners still to come have tokens above the last one called. Removing and
adding within the list that is iterated keeps this because a removal only brings later
listeners forward and an addition has a new token.

`GraphicsProofs`: `GlyphsExact` for every font, every set of texts and sizes, and
caches of any capacity (`GlyphsStayExact`). The inductive invariant `IInv` adds to it
that the cursor of the atlas has passed every cell of every region (`Passed`), which is
why the next glyph overwrites none; that a bitmap exists for every region; that slots
hold runs that suit their key; and that while a text is drawn `FontManager` knows its
size, which is why a glyph made on the way suits its key.

`BackendsAlike`: `BackendsAgree` on a canvas of any size, for any depth of clips and
states and any drawings that `CanvasAssumption` admits: whole pixels, closed contours of
horizontal and vertical sides with a corner at least, straight lines, rectangles of any
sign and their borders, texts of any glyphs. The invariant is `Twin`: both
keep the same transform, clips and states, and the driver's scissor is that of the top
clip. With it a drawing has to be shown to reach the same pixels. For fills, the sum the
rasterizer runs along a row over its active edges is the winding number of the contours:
active edges are those that cross the row, and their directions add up to those down less those up.
Contours too short for the tessellator cancel, as their edges go to and fro; a line on GLES
is a thin box with two edges that count. The strokes of the four sides of a rectangle are
the four bars of GLES without the outer corners (`BorderAgrees`).

`StyleProofs` states what the operators of style and layout compute for every input, and
for the cascade goes from them to the property itself. `CascadeStaysExact`: for any texts
and any document, at every moment of the parser, the sheets got give every element the
style that `CascadeExact` demands. It joins two results.

`SheetsAreParsed` is about the parser, whatever the text: the tokens end, each turn
leaves the parser at a place to go on from, and what it got is rules whose selectors have
a compound at least and declarations of properties that exist (`ParserOK`, the inductive
invariant, of which `SheetsOK` is the part the cascade needs). Every recursion of the
parser goes forward in its text or its tokens, so it has a solution and what holds of
the places behind holds of a place (`ForwardRecursion`, `ForwardInduction`). The same
facts give `ParserEnds`: `TurnsLeft`, at most two for each token left and two more, falls
with every turn, those that recover from a bad declaration, an at-rule or a selector
without a block included, so that no text keeps the loops of `DoParse` and
`DoParseDeclarations` going.

`CascadeIsExact` is about any sheets that the parser may have got (`SheetsOK`) and any
document in which parents are older than their children and are elements (`DocumentOK`;
its first two parts are what `PageProofs` proves of `Dom`, the third is how the tree
builder and the bindings use `AppendChild`). `GreedyIsEnough`: taking the nearest
matching ancestor finds a match whenever there is one, for selectors without
`NeedsBacktracking`. `SortingSorts`: sorting keeps every rule that matches, puts no two
in one place, and leaves them by specificity and then by order. `StylesGoDown`: the walk
over the tree gives every element the style resolved against its parent's. With
`StrongestDeclarationWins` for the order of application and `SpecificityOrders` for the packed
numbers, the value of each property is that of the strongest candidate of `RefStyle`, for
every element without an `Undercounted` rule: there the first selector that matches is
as specific as any (`FirstIsMostSpecific`). Recursions
over nodes are solved along a measure (`Recursion`, `MeasureInduction`: the age of a node).

`StrongestDeclarationWins`: the two passes over origins give each property the
declaration that overrides all others that count for it, or its inherited or initial
value. `SpecificityOrders`: the packed number compares as ids, classes, tags, for fewer
than 256 simple selectors of a kind (beyond that a kind carries into the next, in the
code too). `MarginsJoin`: chains built in any order collapse to their greatest positive
and least negative margin. `ItemsWithinLine` and `ItemsFollow`: items lie within their
line, share a baseline, follow each other, and break only where they must.
`LineIsFilled`: growing and shrinking leave between nothing and a unit per item of a
flex line's space. `LinePlaced`: items of no negative size that fit lie inside their
line, in order, a gap apart at least, for every `justify-content` and direction. The
inputs are what the callers build (`IsItem`, `IsFlexItem`, `IsStyle`, `IsOrigins`:
fields and their types, no more). The loops are recursive functions over an interval:
that they exist and what holds after each turn is shown by a smallest counterexample
(`Upwards`), which takes a set for the property and so does not need an operator as
parameter.

The type invariants of `UpdateManager`, `Application`, `HotReload`, `HashMap`, `EventLoop`
and `Dom` are proved as part of these arguments and are no property of a run.

Only model-checked. All liveness (`FramesStop`, `EditsReachPage`, `EditsLoaded`,
`DetachReturns`, `QuitReturns`, `FramesGoOn`, `ParsingEnds`), which is out of the prover's
reach. And five properties whose argument is an induction over data that the provers did
not find or cannot state: `RoundTrip` (a text of any length against a tree of any
depth), `SheetExact` (what a text was put together to mean, against the turns of the
tokenizer over it), `MarginsCollapse`, `LinesHold` and `FlexFills`. Of the last three
`StyleProofs` proves what each rule, line or level does; what is left to TLC is the walk
over the tree of boxes (`Layout`, RECURSIVE). That a turn of the parser is possible until
its text ends (the absence of deadlock within `CssNext`) is ENABLED and not proved either.
The assumptions are those named in the modules; TLC evaluates them
in every run that has the module.

## Not modelled

Blending, anti-aliasing, gradients, curves, rounded shapes, text without a font (for
which GLES has no fallback) and fractional clips; a canvas here has whole pixels, and
the two backends are known to differ on such edges. Layers on both canvases together
(those of GLES do nothing). The cubic Bezier solver and transitions of more than one
property. Decoding of images and fonts and what HarfBuzz computes, which are libraries.
The image table only grows while a page is loaded. GL objects and window systems;
formatting, logging and JSON. Allocators hand out memory no model here has. Enumerations
and their names are data. Lifetimes that end a behaviour (`dangling` of kind element,
focused, shaper, document, target) are modelled and reached, but no property claims they
are unreachable, as the code does not claim it either.

## Plan

What is left, in this order:

1. Proofs: alignment across a flex line; stretches of `RoundTrip` that do not depend on
   length (what is escaped is read back, symbol by symbol); that the nodes the bindings
   make have elements for parents, the part of `DocumentOK` that is assumed.
2. Layers in `Canvases`; transitions of several properties with an easing curve.
3. `TexturePool`, whose key is the address of an image (image_texture_pool.cc:17), with
   images that are freed and allocated again.
4. `Console` and `PerfOverlay`: bounded log, ring of samples, attachment.
5. `Allocators`: arena, pool and interning, statistics under concurrent updates.
