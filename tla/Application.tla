---------------------------- MODULE Application ----------------------------
(***************************************************************************)
(* vx::Application: the page and the DevTool panel share one event         *)
(* manager, one text shaper, one list of stylesheets and one canvas, and   *)
(* each has an UpdateManager of its own. The module follows who owns what: *)
(* which document a manager lays out, which manager the invalidation       *)
(* callback captured, which documents the interaction state and the script *)
(* bindings point into, and what the two managers leave on the canvas.     *)
(*                                                                         *)
(* Every document and manager gets a number of its own, so a pointer that  *)
(* outlives its object is a number no live object has. Following one ends  *)
(* the behaviour with the kind of pointer in dangling. A manager's frame   *)
(* is one step here; module UpdateManager opens it up.                     *)
(***************************************************************************)
EXTENDS Naturals

CONSTANTS
  Width,       \* canvas cells; element c of a page covers cell c
  PanelWidth,  \* devtool_width
  Aimed,       \* the elements that input events are aimed at
  MaxIds,      \* bound on documents and managers ever created
  MaxSheets,   \* bound on stylesheets, MaxSheets edits queued at once
  MaxFonts     \* bound on successful LoadFont calls

ASSUME ApplicationAssumption ==
  /\ Width \in Nat /\ PanelWidth \in 1..Width /\ Aimed \subseteq 0..(Width - 1)
  /\ MaxIds \in Nat /\ MaxSheets \in Nat /\ MaxFonts \in Nat

VARIABLES
  page,         \* target_document_
  panel,        \* owned_devtool_document_
  pageMgr,      \* update_manager_
  panelMgr,     \* devtool_update_manager_
  callback,     \* the manager event_manager_.invalidation_callback_ captured
  interaction,  \* hovered_, active_, focused_
  sheets,       \* stylesheets_.size()
  shaper,       \* text_shaper_: how many fonts were loaded before it was built
  hooksSet,     \* external_hooks_set_
  hotkey,       \* devtool_hotkey_enabled_
  hud,          \* hud_visible_
  policy,       \* redaction_policy_
  bindings,     \* devtool_dom_bindings_
  bound,        \* document dom_bindings_ was bound to
  watching,     \* TRUE once a directory is watched for hot reload
  pending,      \* edited .css files in the hot reload queue
  screen,       \* what each canvas cell shows
  nextId,
  dangling      \* the kind of dead pointer that was followed

windowVars   == <<sheets, shaper, hooksSet, hotkey, hud, policy, watching, pending>>
pageVars     == <<page, pageMgr, bound>>
panelVars    == <<panel, panelMgr, bindings>>
sharedVars   == <<callback, interaction, screen, nextId>>
vars == <<windowVars, pageVars, panelVars, sharedVars, dangling>>

Null     == 0
Cells    == 0..(Width - 1)
DockX    == Width - PanelWidth
Pointers == {"hovered", "active", "focused"}
Nowhere  == [doc |-> Null, el |-> 0]
NoMgr    == [id |-> Null]
NoList   == [sheets |-> MaxSheets + 1]
NoOne    == [owner |-> "none", id |-> Null]
NoBindings == [doc |-> Null]

White    == [of |-> Null, sheets |-> 0, marks |-> {}]
Blank    == [base |-> White, text |-> FALSE]

Init ==
  /\ page = Null /\ panel = Null
  /\ pageMgr = NoMgr /\ panelMgr = NoMgr
  /\ callback = NoOne
  /\ interaction = [k \in Pointers |-> Nowhere]
  /\ sheets = 0 /\ shaper = 0 /\ pending = 0
  /\ hooksSet = FALSE /\ hotkey = FALSE /\ watching = FALSE /\ hud = TRUE /\ policy = "redact"
  /\ bindings = NoBindings /\ bound = Null
  /\ screen = [c \in Cells |-> Blank]
  /\ nextId = 1
  /\ dangling = "none"

Live == dangling = "none"

Dies(kind) == dangling' = kind /\ UNCHANGED <<windowVars, pageVars, panelVars, sharedVars>>

----------------------------------------------------------------------------
(* Managers. *)

(* Mutant: a new manager is not dirty. *)
NewManagerClean(id, doc) ==
  [id |-> id, doc |-> doc, dirty |-> FALSE, hooks |-> FALSE, shaper |-> shaper, list |-> NoList]

NewManager(id, doc) ==
  [id |-> id, doc |-> doc, dirty |-> TRUE, hooks |-> FALSE, shaper |-> shaper, list |-> NoList]

(* Mutants: hooks set earlier are forgotten; only the first manager        *)
(* registers the callback.                                                 *)
EnsuredManagerNoHooks(mgr) ==
  IF mgr = NoMgr /\ page # Null THEN NewManager(nextId, page) ELSE mgr

EnsuredCallbackOnce(mgr) ==
  IF mgr = NoMgr /\ page # Null /\ callback = NoOne THEN [owner |-> "page", id |-> nextId]
  ELSE callback

(* EnsureUpdateManager: a new manager takes the callback over and gets the *)
(* hooks the embedder set before.                                          *)
NeedsManager(mgr) == mgr = NoMgr /\ page # Null

EnsuredManager(mgr) ==
  IF NeedsManager(mgr) THEN [NewManager(nextId, page) EXCEPT !.hooks = hooksSet] ELSE mgr

EnsuredCallback(mgr) ==
  IF NeedsManager(mgr) THEN [owner |-> "page", id |-> nextId] ELSE callback

EnsuredNextId(mgr) == IF NeedsManager(mgr) THEN nextId + 1 ELSE nextId

(* What the page's list draws in cell c: :hover, :active and :focus rules  *)
(* make it depend on the interaction state.                                *)
PageList(doc, n) ==
  [sheets |-> n,
   cells |-> [c \in Cells |->
     [of |-> doc, sheets |-> n,
      marks |-> {k \in Pointers : interaction[k] = [doc |-> doc, el |-> c]}]]]

PanelLook(mgr) == [of |-> mgr.doc, sheets |-> mgr.list.sheets, marks |-> {}]

(* Mutant: a first list is compared with nothing and repaints nothing. *)
PageDirtyNoFirst(old, new) ==
  LET differ == {c \in Cells : old # NoList /\ old.cells[c] # new.cells[c]}
  IN {c \in Cells : \E a, b \in differ : a <= c /\ c <= b}

(* A first list repaints the viewport, a later one the smallest rectangle  *)
(* around the cells that differ.                                           *)
PageDirty(old, new) ==
  LET differ == {c \in Cells : old = NoList \/ old.cells[c] # new.cells[c]}
  IN {c \in Cells : \E a, b \in differ : a <= c /\ c <= b}

PagePainted(old, new) ==
  [c \in Cells |-> IF c \in PageDirty(old, new) THEN [base |-> new.cells[c], text |-> FALSE]
                   ELSE screen[c]]

(* The panel is drawn under a translation to DockX. Its clip is not        *)
(* translated, so a fill reaches a cell only where the dock and the first  *)
(* PanelWidth cells meet; text drawn from a font ignores both the          *)
(* translation and the clip.                                               *)
PanelPainted(painted, look) ==
  [c \in Cells |->
     LET base == IF DockX <= c /\ c < PanelWidth THEN [base |-> look, text |-> FALSE]
                 ELSE painted[c]
     IN IF shaper > 0 /\ c < PanelWidth THEN [base EXCEPT !.text = TRUE] ELSE base]

(* Layout asks the event manager about :hover and :active, which walks     *)
(* parent pointers, and asks the text shaper about text.                   *)
FollowsDeadElement == \E k \in {"hovered", "active"} : interaction[k].doc \notin {Null, page}
FollowsDeadShaper(mgr) == mgr # NoMgr /\ mgr.dirty /\ mgr.shaper # shaper

----------------------------------------------------------------------------
(* What the embedder calls. *)

(* Mutants: the manager of the old page, or of the old style sheets, stays. *)
LoadHTMLKeepsManager ==
  /\ Live /\ nextId < MaxIds
  /\ page' = nextId
  /\ nextId' = nextId + 1
  /\ UNCHANGED <<windowVars, pageMgr, bound, panelVars, callback, interaction, screen, dangling>>

LoadCSSKeepsManager ==
  /\ Live /\ sheets + pending < MaxSheets
  /\ sheets' = sheets + 1
  /\ UNCHANGED <<shaper, hooksSet, hotkey, hud, policy, watching, pending, pageVars, panelVars,
                 sharedVars, dangling>>

LoadHTML ==
  /\ Live /\ nextId < MaxIds
  /\ page' = nextId
  /\ nextId' = nextId + 1
  /\ pageMgr' = NoMgr
  /\ UNCHANGED <<windowVars, bound, panelVars, callback, interaction, screen, dangling>>

LoadCSS ==
  /\ Live /\ sheets + pending < MaxSheets
  /\ sheets' = sheets + 1
  /\ pageMgr' = NoMgr
  /\ UNCHANGED <<shaper, hooksSet, hotkey, hud, policy, watching, pending, page, bound, panelVars,
                 sharedVars, dangling>>

(* The old shaper is freed; the managers keep pointing at it. *)
LoadFont ==
  /\ Live /\ shaper < MaxFonts
  /\ shaper' = shaper + 1
  /\ UNCHANGED <<sheets, hooksSet, hotkey, hud, policy, watching, pending, pageVars, panelVars,
                 sharedVars, dangling>>

(* The first script binds the document of the moment; later ones run with  *)
(* that binding.                                                           *)
LoadScript ==
  /\ Live /\ page # Null
  /\ \/ /\ bound \in {Null, page}
        /\ bound' = page
        /\ UNCHANGED <<windowVars, page, pageMgr, panelVars, sharedVars, dangling>>
     \/ /\ bound \notin {Null, page}
        /\ Dies("document")

SetPipelineHooks ==
  /\ Live
  /\ hooksSet' = ~hooksSet
  /\ pageMgr' = IF pageMgr = NoMgr THEN NoMgr ELSE [pageMgr EXCEPT !.hooks = hooksSet']
  /\ UNCHANGED <<sheets, shaper, hotkey, hud, policy, watching, pending, page, bound, panelVars,
                 sharedVars, dangling>>

Invalidate ==
  /\ Live /\ pageMgr # NoMgr
  /\ pageMgr' = [pageMgr EXCEPT !.dirty = TRUE]
  /\ UNCHANGED <<windowVars, page, bound, panelVars, sharedVars, dangling>>

SetRedactionPolicy ==
  /\ Live
  /\ policy' \in {"redact", "show"} \ {policy}
  /\ bindings' = IF bindings = NoBindings THEN NoBindings ELSE [bindings EXCEPT !.policy = policy']
  /\ UNCHANGED <<sheets, shaper, hooksSet, hotkey, hud, watching, pending, pageVars, panel, panelMgr,
                 sharedVars, dangling>>
----------------------------------------------------------------------------
(* The DevTool panel. *)

(* Mutant: a hidden HUD stays hidden. *)
UnloadPanelKeepsHud ==
  /\ panel' = Null
  /\ panelMgr' = NoMgr
  /\ bindings' = NoBindings
  /\ UNCHANGED <<callback, nextId, hud>>

(* UnloadDevtoolDocument. The callback may still name the manager it       *)
(* destroys, and the canvas keeps what that manager drew.                  *)
UnloadPanel ==
  /\ panel' = Null
  /\ panelMgr' = NoMgr
  /\ bindings' = NoBindings
  /\ hud' = TRUE
  /\ UNCHANGED <<callback, nextId>>

(* LoadDevtoolDocument: unload, then a document, a manager and, unless the *)
(* script context cannot be made, bindings that inspect the page of the    *)
(* moment.                                                                 *)
LoadPanel ==
  /\ nextId + 1 < MaxIds
  /\ panel' = nextId
  /\ panelMgr' = NewManager(nextId + 1, nextId)
  /\ callback' = [owner |-> "panel", id |-> nextId + 1]
  /\ bindings' \in {NoBindings, [doc |-> nextId, target |-> page, policy |-> policy]}
  /\ nextId' = nextId + 2
  /\ hud' = TRUE

(* vx_view_attach_devtool, with or without the hotkey and with or without  *)
(* a directory to watch. A directory replaces the earlier watch and empties *)
(* its queue, even if it cannot be watched; without one the watch goes on.  *)
AttachDevtool ==
  /\ Live
  /\ LoadPanel
  /\ hotkey' \in BOOLEAN
  /\ \/ watching' \in BOOLEAN /\ pending' = 0
     \/ UNCHANGED <<watching, pending>>
  /\ UNCHANGED <<sheets, shaper, hooksSet, policy, pageVars, interaction, screen, dangling>>

(* vx_view_detach_devtool *)
DetachDevtool ==
  /\ Live
  /\ UnloadPanel
  /\ hotkey' = FALSE
  /\ UNCHANGED <<sheets, shaper, hooksSet, policy, watching, pending, pageVars,
                 interaction, screen, dangling>>

PressF12 ==
  /\ Live /\ hotkey
  /\ IF panel # Null THEN UnloadPanel ELSE LoadPanel
  /\ UNCHANGED <<sheets, shaper, hooksSet, hotkey, policy, watching, pending, pageVars,
                 interaction, screen, dangling>>

PressF11 ==
  /\ Live /\ hotkey
  /\ hud' = IF panel # Null THEN ~hud ELSE hud
  /\ UNCHANGED <<sheets, shaper, hooksSet, hotkey, policy, watching, pending, pageVars,
                 panelVars, sharedVars, dangling>>

(* A panel script asks for the page's DOM. *)
InspectPage ==
  /\ Live /\ bindings # NoBindings
  /\ bindings.target \notin {Null, page}
  /\ Dies("target")

(* The watcher thread queues an edited style sheet. *)
FileEdit ==
  /\ Live /\ watching /\ sheets + pending < MaxSheets
  /\ pending' = pending + 1
  /\ UNCHANGED <<sheets, shaper, hooksSet, hotkey, hud, policy, watching, pageVars,
                 panelVars, sharedVars, dangling>>

----------------------------------------------------------------------------
(* InjectInput, past the hotkeys. *)

(* HitTest on the last layout: nothing before the first frame. *)
Targets(mgr) ==
  {Nowhere} \cup (IF mgr.list = NoList THEN {} ELSE {[doc |-> mgr.doc, el |-> c] : c \in Aimed})

PointerEffect(type, target) ==
  CASE type = "move" -> [interaction EXCEPT !["hovered"] = target]
    [] type = "down" -> [interaction EXCEPT !["active"] = target, !["focused"] = target]
    [] type = "up"   -> [interaction EXCEPT !["active"] = Nowhere]

(* HandleInput calls the invalidation callback when the state changed. *)
InjectPointer ==
  /\ Live /\ page # Null /\ nextId < MaxIds
  /\ LET mgr == EnsuredManager(pageMgr)
         cb  == EnsuredCallback(pageMgr)
     IN \E type \in {"move", "down", "up"} : \E target \in Targets(mgr) :
          LET after   == PointerEffect(type, target)
              changed == after # interaction /\ cb # NoOne
          IN \/ /\ changed /\ cb.id \notin {mgr.id, panelMgr.id}
                /\ Dies("callback")
             \/ /\ changed => cb.id \in {mgr.id, panelMgr.id}
                /\ interaction' = after
                /\ pageMgr' = IF changed /\ cb.id = mgr.id THEN [mgr EXCEPT !.dirty = TRUE] ELSE mgr
                /\ panelMgr' = IF changed /\ cb.id = panelMgr.id
                               THEN [panelMgr EXCEPT !.dirty = TRUE] ELSE panelMgr
                /\ callback' = cb
                /\ nextId' = EnsuredNextId(pageMgr)
                /\ UNCHANGED <<windowVars, page, bound, panel, bindings, screen, dangling>>

(* A key goes to the focused element. *)
InjectKey ==
  /\ Live
  /\ interaction["focused"].doc \notin {Null, page}
  /\ page # Null
  /\ Dies("focused")

----------------------------------------------------------------------------
(* Update: hot reload, the page's frame, the panel's frame. Of the queued  *)
(* edits, those with unbalanced braces are dropped.                        *)
Update ==
  /\ Live /\ nextId < MaxIds
  /\ \E accepted \in 0..pending :
       LET n    == sheets + accepted
           old  == IF accepted > 0 THEN NoMgr ELSE pageMgr
           mgr  == EnsuredManager(old)
           list == IF mgr # NoMgr /\ mgr.dirty THEN PageList(page, n) ELSE NoList
           drawn == IF list # NoList THEN PagePainted(mgr.list, list) ELSE screen
           panelRuns == panelMgr # NoMgr /\ panelMgr.dirty
           panelDone == [panelMgr EXCEPT !.dirty = FALSE, !.list = [sheets |-> n]]
       IN \/ /\ (mgr # NoMgr /\ mgr.dirty) \/ panelRuns
             /\ FollowsDeadElement
             /\ Dies("element")
          \/ /\ FollowsDeadShaper(mgr) \/ FollowsDeadShaper(panelMgr)
             /\ Dies("shaper")
          \/ /\ sheets' = n
             /\ pending' = 0
             /\ pageMgr' = IF list # NoList THEN [mgr EXCEPT !.dirty = FALSE, !.list = list] ELSE mgr
             /\ panelMgr' = IF panelRuns THEN panelDone ELSE panelMgr
             /\ screen' = IF panelRuns /\ panelDone.list # panelMgr.list
                          THEN PanelPainted(drawn, PanelLook(panelDone)) ELSE drawn
             /\ callback' = EnsuredCallback(old)
             /\ nextId' = EnsuredNextId(old)
             /\ UNCHANGED <<shaper, hooksSet, hotkey, hud, policy, watching, page, bound,
                            panel, bindings, interaction, dangling>>

Next ==
  \/ LoadHTML \/ LoadCSS \/ LoadFont \/ LoadScript
  \/ SetPipelineHooks \/ Invalidate \/ SetRedactionPolicy
  \/ AttachDevtool \/ DetachDevtool \/ PressF12 \/ PressF11 \/ InspectPage
  \/ FileEdit
  \/ InjectPointer \/ InjectKey
  \/ Update

Spec == Init /\ [][Next]_vars

(* The frame timer goes on calling Update. *)
FairSpec == Spec /\ WF_vars(Update)
----------------------------------------------------------------------------
Marks  == [of: 0..MaxIds, sheets: 0..MaxSheets, marks: SUBSET Pointers]
Lists  == [sheets: 0..MaxSheets, cells: [Cells -> Marks]]
Manager(lists) ==
  [id: 1..MaxIds, doc: 1..MaxIds, dirty: BOOLEAN, hooks: BOOLEAN, shaper: 0..MaxFonts,
   list: lists \cup {NoList}]

(* Every variable holds a value of its kind, and stylesheets with queued   *)
(* edits stay within the bound.                                            *)
TypeOK ==
  /\ page \in 0..MaxIds /\ panel \in 0..MaxIds /\ bound \in 0..MaxIds /\ nextId \in 1..(MaxIds + 1)
  /\ pageMgr \in Manager(Lists) \cup {NoMgr}
  /\ panelMgr \in Manager([sheets: 0..MaxSheets]) \cup {NoMgr}
  /\ callback \in [owner: {"page", "panel"}, id: 1..MaxIds] \cup {NoOne}
  /\ interaction \in [Pointers -> [doc: 0..MaxIds, el: Cells]]
  /\ sheets \in Nat /\ pending \in Nat /\ sheets + pending <= MaxSheets
  /\ shaper \in 0..MaxFonts
  /\ hooksSet \in BOOLEAN /\ hotkey \in BOOLEAN /\ hud \in BOOLEAN /\ watching \in BOOLEAN
  /\ policy \in {"redact", "show"}
  /\ bindings \in [doc: 1..MaxIds, target: 0..MaxIds, policy: {"redact", "show"}] \cup {NoBindings}
  /\ screen \in [Cells -> [base: Marks, text: BOOLEAN]]
  /\ dangling \in {"none", "callback", "element", "focused", "shaper", "document", "target"}

(* A manager never outlives the document it lays out, in whatever order    *)
(* pages, stylesheets and panels come and go; nor do the panel's bindings. *)
ManagersWired ==
  /\ pageMgr # NoMgr => pageMgr.doc = page
  /\ panelMgr # NoMgr => panelMgr.doc = panel
  /\ bindings # NoBindings => panel # Null /\ bindings.doc = panel
  /\ (panelMgr = NoMgr) = (panel = Null)

(* Replacing the page's manager leaves no callback into the old one: when  *)
(* a page manager exists and the callback names a page manager, it is the  *)
(* live one. (It may name a panel's manager instead.)                      *)
NoStalePageCallback ==
  pageMgr # NoMgr /\ callback.owner = "page" => callback.id = pageMgr.id

HoldsDeadElement == \E k \in Pointers : interaction[k].doc \notin {Null, page}

(* A page manager that owns the callback and is clean has drawn the page,  *)
(* the stylesheets and the hover, press and focus state of this moment.    *)
CleanPageCurrent ==
  pageMgr # NoMgr /\ ~pageMgr.dirty /\ callback.id = pageMgr.id /\ ~HoldsDeadElement =>
    pageMgr.list = PageList(page, sheets)

PanelReach == {c \in Cells : c < PanelWidth}

(* Outside the cells the panel can paint, the canvas shows the list of the *)
(* page's manager, across replacements of the manager.                     *)
PageCellsExact ==
  pageMgr # NoMgr /\ pageMgr.list # NoList => \A c \in Cells \ PanelReach :
    screen[c] = [base |-> pageMgr.list.cells[c], text |-> FALSE]

(* Hooks set before a manager exists, or while it is being replaced, reach *)
(* the manager that comes next; hooks that were cleared do not come back.  *)
HooksFollow == pageMgr # NoMgr => pageMgr.hooks = hooksSet

(* The panel starts from the view's present policy and follows it; a HUD   *)
(* that was hidden does not stay hidden for the next panel.                *)
PanelInSync ==
  /\ bindings # NoBindings => bindings.policy = policy
  /\ panel = Null => hud

PageShown == pending = 0 /\ (page # Null => pageMgr # NoMgr /\ pageMgr.list # NoList
                                           /\ pageMgr.list.sheets = sheets)

(* A style sheet edited on disk is on the page after some later frame.     *)
EditsReachPage == (pending > 0) ~> (PageShown \/ ~Live \/ nextId = MaxIds)

----------------------------------------------------------------------------
(* Statements of the documentation that the code does not keep.            *)

(* docs/reports/2026-04-30-codebase-review.md, F-047: the callback of a    *)
(* destroyed manager is always overwritten before it is called.            *)
CallbackAlive == dangling # "callback"

(* core/application.cc: the panel's render lands on top of the dock zone.  *)
DockShowsPanel ==
  panelMgr # NoMgr /\ ~panelMgr.dirty =>
    \A c \in Cells : c >= DockX => screen[c].base = PanelLook(panelMgr)

=============================================================================
