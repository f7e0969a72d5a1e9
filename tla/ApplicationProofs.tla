------------------------- MODULE ApplicationProofs -------------------------
(***************************************************************************)
(* Proofs about module Application, for canvases, panels and numbers of    *)
(* documents, managers, style sheets and fonts of any size: the variables  *)
(* keep their types, and the wiring between documents, managers, callback, *)
(* hooks and bindings survives every order of calls.                       *)
(***************************************************************************)
EXTENDS Application, TLAPS

PageManagers  == Manager(Lists)
PanelManagers == Manager([sheets: 0..MaxSheets])

Callbacks     == [owner: {"page", "panel"}, id: 1..MaxIds] \cup {NoOne}

(* A manager is never mistaken for a missing one. *)
LEMMA ManagerExists ==
  ASSUME NEW L, NEW m \in Manager(L)
  PROVE  m # NoMgr
  BY DEF Manager, NoMgr, Null

LEMMA NewManagerType ==
  ASSUME TypeOK, NEW L, NEW id \in 1..MaxIds, NEW doc \in 1..MaxIds
  PROVE  NewManager(id, doc) \in Manager(L)
  BY DEF TypeOK, Manager, NewManager

(* Invalidate and SetPipelineHooks keep a manager a manager. *)
LEMMA ManagerUpdates ==
  ASSUME NEW L, NEW m \in Manager(L), NEW b \in BOOLEAN
  PROVE  /\ [m EXCEPT !.dirty = b] \in Manager(L)
         /\ [m EXCEPT !.hooks = b] \in Manager(L)
  BY DEF Manager

LEMMA ManagerPaints ==
  ASSUME NEW L, NEW m \in Manager(L), NEW l \in L
  PROVE  [m EXCEPT !.dirty = FALSE, !.list = l] \in Manager(L)
  BY DEF Manager

LEMMA EnsuredType ==
  ASSUME ApplicationAssumption, TypeOK, nextId < MaxIds, NEW mgr \in PageManagers \cup {NoMgr}
  PROVE  /\ EnsuredManager(mgr) \in PageManagers \cup {NoMgr}
         /\ EnsuredCallback(mgr) \in Callbacks
         /\ EnsuredNextId(mgr) \in 1..(MaxIds + 1)
<1>1. CASE NeedsManager(mgr)
  <2>1. nextId \in 1..MaxIds /\ page \in 1..MaxIds
    BY <1>1 DEF TypeOK, NeedsManager, Null, ApplicationAssumption
  <2>2. NewManager(nextId, page) \in PageManagers
    BY <2>1, NewManagerType DEF PageManagers
  <2>3. [NewManager(nextId, page) EXCEPT !.hooks = hooksSet] \in PageManagers
    BY <2>2, ManagerUpdates DEF TypeOK, PageManagers
  <2> QED
    BY <1>1, <2>1, <2>3 DEF EnsuredManager, EnsuredCallback, EnsuredNextId, ApplicationAssumption, Callbacks
<1>2. CASE ~NeedsManager(mgr)
  BY <1>2 DEF EnsuredManager, EnsuredCallback, EnsuredNextId, TypeOK, Callbacks
<1> QED
  BY <1>1, <1>2

LEMMA PageListType ==
  ASSUME TypeOK, NEW doc \in 0..MaxIds, NEW n \in 0..MaxSheets
  PROVE  PageList(doc, n) \in Lists
  BY DEF PageList, Lists, Marks

LEMMA PaintedType ==
  ASSUME TypeOK, NEW old, NEW new \in Lists
  PROVE  PagePainted(old, new) \in [Cells -> [base: Marks, text: BOOLEAN]]
  BY DEF PagePainted, Lists, TypeOK

LEMMA PanelPaintedType ==
  ASSUME NEW painted \in [Cells -> [base: Marks, text: BOOLEAN]], NEW look \in Marks
  PROVE  PanelPainted(painted, look) \in [Cells -> [base: Marks, text: BOOLEAN]]
<1>1. [base |-> look, text |-> FALSE] \in [base: Marks, text: BOOLEAN]
  OBVIOUS
<1>2. ASSUME NEW s \in [base: Marks, text: BOOLEAN]
      PROVE  [s EXCEPT !.text = TRUE] \in [base: Marks, text: BOOLEAN]
  OBVIOUS
<1> QED
  BY <1>1, <1>2 DEF PanelPainted

----------------------------------------------------------------------------
LEMMA TypeInit == ApplicationAssumption /\ Init => TypeOK
<1> SUFFICES ASSUME ApplicationAssumption, Init PROVE TypeOK
  OBVIOUS
<1>1. 0 \in Cells
  BY DEF ApplicationAssumption, Cells
<1>2. interaction \in [Pointers -> [doc: 0..MaxIds, el: Cells]]
  BY <1>1 DEF Init, Nowhere, Null, ApplicationAssumption
<1>3. Blank \in [base: Marks, text: BOOLEAN]
  BY DEF Blank, White, Marks, Null, ApplicationAssumption
<1>4. screen \in [Cells -> [base: Marks, text: BOOLEAN]]
  BY <1>3 DEF Init
<1>5. pageMgr \in Manager(Lists) \cup {NoMgr} /\ panelMgr \in Manager([sheets: 0..MaxSheets]) \cup {NoMgr}
  BY DEF Init
<1>6. bindings \in [doc: 1..MaxIds, target: 0..MaxIds, policy: {"redact", "show"}] \cup {NoBindings}
  BY DEF Init
<1>7. callback \in Callbacks
  BY DEF Init, Callbacks
<1>8. /\ page \in 0..MaxIds /\ panel \in 0..MaxIds /\ bound \in 0..MaxIds /\ nextId \in 1..(MaxIds + 1)
      /\ sheets \in Nat /\ pending \in Nat /\ sheets + pending <= MaxSheets /\ shaper \in 0..MaxFonts
  BY DEF Init, Null, ApplicationAssumption
<1> QED
  BY <1>2, <1>4, <1>5, <1>6, <1>7, <1>8 DEF Init, TypeOK, Callbacks

LEMMA TypeLoads ==
  ASSUME ApplicationAssumption, TypeOK,
         LoadHTML \/ LoadCSS \/ LoadFont \/ LoadScript
  PROVE  TypeOK'
<1>1. CASE LoadHTML
  BY <1>1 DEF ApplicationAssumption, TypeOK, LoadHTML, windowVars, panelVars, Manager, Lists, Marks, Cells
<1>2. CASE LoadCSS
  BY <1>2 DEF ApplicationAssumption, TypeOK, LoadCSS, panelVars, sharedVars, Manager, Lists, Marks, Cells
<1>3. CASE LoadFont
  BY <1>3 DEF ApplicationAssumption, TypeOK, LoadFont, pageVars, panelVars, sharedVars, Manager, Lists,
         Marks, Cells
<1>4. CASE LoadScript
  BY <1>4 DEF TypeOK, LoadScript, Dies, windowVars, pageVars, panelVars, sharedVars, Null,
         Manager, Lists, Marks, Cells
<1> QED
  BY <1>1, <1>2, <1>3, <1>4

LEMMA TypeCalls ==
  ASSUME ApplicationAssumption, TypeOK,
         SetPipelineHooks \/ Invalidate \/ SetRedactionPolicy \/ PressF11 \/ InspectPage
           \/ FileEdit \/ InjectKey
  PROVE  TypeOK'
<1>1. CASE SetPipelineHooks
  <2>1. hooksSet' \in BOOLEAN
    BY <1>1 DEF SetPipelineHooks
  <2>2. pageMgr' \in PageManagers \cup {NoMgr}
    BY <1>1, <2>1, ManagerUpdates DEF SetPipelineHooks, TypeOK, PageManagers
  <2> QED
    BY <1>1, <2>1, <2>2 DEF TypeOK, SetPipelineHooks, panelVars, sharedVars, PageManagers
<1>2. CASE Invalidate
  <2>1. pageMgr' \in PageManagers
    BY <1>2, ManagerUpdates DEF Invalidate, TypeOK, PageManagers
  <2> QED
    BY <1>2, <2>1 DEF TypeOK, Invalidate, windowVars, panelVars, sharedVars, PageManagers
<1>3. CASE SetRedactionPolicy
  <2>1. policy' \in {"redact", "show"}
    BY <1>3 DEF SetRedactionPolicy
  <2>2. bindings' \in [doc: 1..MaxIds, target: 0..MaxIds, policy: {"redact", "show"}] \cup {NoBindings}
    BY <1>3, <2>1 DEF SetRedactionPolicy, TypeOK
  <2> QED
    BY <1>3, <2>1, <2>2 DEF TypeOK, SetRedactionPolicy, pageVars, sharedVars
<1>4. CASE PressF11
  BY <1>4 DEF TypeOK, PressF11, pageVars, panelVars, sharedVars
<1>5. CASE InspectPage
  BY <1>5 DEF TypeOK, InspectPage, Dies, windowVars, pageVars, panelVars, sharedVars
<1>6. CASE FileEdit
  BY <1>6 DEF ApplicationAssumption, TypeOK, FileEdit, pageVars, panelVars, sharedVars
<1>7. CASE InjectKey
  BY <1>7 DEF TypeOK, InjectKey, Dies, windowVars, pageVars, panelVars, sharedVars
<1> QED
  BY <1>1, <1>2, <1>3, <1>4, <1>5, <1>6, <1>7

LEMMA LoadPanelType ==
  ASSUME ApplicationAssumption, TypeOK, LoadPanel
  PROVE  /\ panel' \in 1..MaxIds /\ nextId' \in 1..(MaxIds + 1) /\ hud' = TRUE
         /\ panelMgr' \in PanelManagers
         /\ callback' \in Callbacks
         /\ bindings' \in [doc: 1..MaxIds, target: 0..MaxIds, policy: {"redact", "show"}] \cup {NoBindings}
<1>1. nextId \in 1..MaxIds /\ nextId + 1 \in 1..MaxIds /\ nextId + 2 \in 1..(MaxIds + 1)
  BY DEF ApplicationAssumption, TypeOK, LoadPanel
<1>2. NewManager(nextId + 1, nextId) \in PanelManagers
  BY <1>1, NewManagerType DEF PanelManagers
<1> QED
  BY <1>1, <1>2 DEF LoadPanel, TypeOK, Callbacks

LEMMA TypePanel ==
  ASSUME ApplicationAssumption, TypeOK, AttachDevtool \/ DetachDevtool \/ PressF12
  PROVE  TypeOK'
<1>1. CASE AttachDevtool
  <2>1. sheets \in Nat /\ pending' \in Nat /\ sheets + pending' <= MaxSheets
    BY <1>1 DEF AttachDevtool, TypeOK, ApplicationAssumption
  <2>2. LoadPanel
    BY <1>1 DEF AttachDevtool
  <2>3. /\ panel' \in 0..MaxIds /\ nextId' \in 1..(MaxIds + 1) /\ hud' \in BOOLEAN
        /\ panelMgr' \in PanelManagers
        /\ callback' \in Callbacks
        /\ bindings' \in [doc: 1..MaxIds, target: 0..MaxIds, policy: {"redact", "show"}] \cup {NoBindings}
    <3>1. panel' \in 1..MaxIds /\ hud' = TRUE
      BY <2>2, LoadPanelType
    <3>2. panel' \in 0..MaxIds /\ hud' \in BOOLEAN
      BY <3>1 DEF ApplicationAssumption
    <3> QED
      BY <2>2, <3>2, LoadPanelType
  <2>4. hotkey' \in BOOLEAN /\ watching' \in BOOLEAN
    BY <1>1 DEF AttachDevtool, TypeOK
  <2>5. UNCHANGED <<sheets, shaper, hooksSet, policy, page, pageMgr, bound, interaction, screen, dangling>>
    BY <1>1 DEF AttachDevtool, pageVars
  <2> QED
    BY <1>1, <2>1, <2>2, <2>3, <2>4, <2>5 DEF TypeOK, PanelManagers, Callbacks
<1>2. CASE DetachDevtool
  <2>1. /\ UNCHANGED <<sheets, shaper, hooksSet, policy, watching, pending, page, pageMgr, bound,
                       interaction, screen, dangling, callback, nextId>>
        /\ panel' = 0 /\ panelMgr' = NoMgr /\ bindings' = NoBindings /\ hud' = TRUE /\ hotkey' = FALSE
    BY <1>2 DEF DetachDevtool, UnloadPanel, pageVars, Null
  <2>2. hud' \in BOOLEAN /\ hotkey' \in BOOLEAN
    BY <2>1
  <2>5. panel' \in 0..MaxIds
    BY <2>1 DEF ApplicationAssumption
  <2>3. panelMgr' \in Manager([sheets: 0..MaxSheets]) \cup {NoMgr}
    BY <2>1
  <2>4. bindings' \in [doc: 1..MaxIds, target: 0..MaxIds, policy: {"redact", "show"}] \cup {NoBindings}
    BY <2>1
  <2> QED
    BY <2>1, <2>2, <2>3, <2>4, <2>5 DEF TypeOK
<1>3. CASE PressF12 /\ LoadPanel
  <2>1. UNCHANGED <<sheets, shaper, hooksSet, hotkey, policy, watching, pending, page, pageMgr, bound,
                    interaction, screen, dangling>>
    BY <1>3 DEF PressF12, pageVars
  <2>2. /\ panel' \in 0..MaxIds /\ nextId' \in 1..(MaxIds + 1) /\ hud' \in BOOLEAN
        /\ panelMgr' \in PanelManagers
        /\ callback' \in Callbacks
        /\ bindings' \in [doc: 1..MaxIds, target: 0..MaxIds, policy: {"redact", "show"}] \cup {NoBindings}
    <3>1. panel' \in 1..MaxIds /\ hud' = TRUE
      BY <1>3, LoadPanelType
    <3>2. panel' \in 0..MaxIds /\ hud' \in BOOLEAN
      BY <3>1 DEF ApplicationAssumption
    <3> QED
      BY <1>3, <3>2, LoadPanelType
  <2> QED
    BY <2>1, <2>2 DEF TypeOK, PanelManagers, Callbacks
<1>4. CASE PressF12 /\ UnloadPanel
  BY <1>4 DEF TypeOK, PressF12, UnloadPanel, pageVars, Null, ApplicationAssumption
<1> QED
  BY <1>1, <1>2, <1>3, <1>4 DEF PressF12

LEMMA PointerEffectType ==
  ASSUME ApplicationAssumption, TypeOK, NEW type \in {"move", "down", "up"},
         NEW mgr \in PageManagers, NEW target \in Targets(mgr)
  PROVE  PointerEffect(type, target) \in [Pointers -> [doc: 0..MaxIds, el: Cells]]
<1>1. 0 \in Cells
  BY DEF ApplicationAssumption, Cells
<1>2. Nowhere \in [doc: 0..MaxIds, el: Cells]
  BY <1>1 DEF Nowhere, Null, ApplicationAssumption
<1>3. mgr.doc \in 0..MaxIds /\ Aimed \subseteq Cells
  BY DEF PageManagers, Manager, ApplicationAssumption, Cells
<1>5. target \in [doc: 0..MaxIds, el: Cells]
  BY <1>2, <1>3 DEF Targets
<1>6. interaction \in [Pointers -> [doc: 0..MaxIds, el: Cells]]
  BY DEF TypeOK
<1>7. CASE type = "move"
  BY <1>5, <1>6, <1>7 DEF PointerEffect
<1>8. CASE type = "down"
  BY <1>5, <1>6, <1>8 DEF PointerEffect
<1>9. CASE type = "up"
  BY <1>2, <1>6, <1>9 DEF PointerEffect
<1> QED
  BY <1>7, <1>8, <1>9

(* What an accepted pointer event does, with the definitions of the LET    *)
(* opened once for all the invariants.                                     *)
LEMMA PointerStep ==
  ASSUME InjectPointer, ~Dies("callback"),
         NEW mgr, mgr = EnsuredManager(pageMgr),
         NEW cb, cb = EnsuredCallback(pageMgr)
  PROVE  /\ nextId < MaxIds /\ page # Null
         /\ \E type \in {"move", "down", "up"} : \E target \in Targets(mgr) :
               interaction' = PointerEffect(type, target)
         /\ \/ pageMgr' = mgr /\ (interaction' = interaction \/ cb = NoOne \/ cb.id # mgr.id)
            \/ pageMgr' = [mgr EXCEPT !.dirty = TRUE]
         /\ \/ panelMgr' = panelMgr
            \/ panelMgr' = [panelMgr EXCEPT !.dirty = TRUE] /\ cb # NoOne /\ cb.id = panelMgr.id
         /\ callback' = cb
         /\ nextId' = EnsuredNextId(pageMgr)
         /\ UNCHANGED <<windowVars, page, bound, panel, bindings, screen, dangling>>
<1>1. nextId < MaxIds /\ page # Null
  BY DEF InjectPointer
<1>2. PICK type \in {"move", "down", "up"}, target \in Targets(mgr) :
        /\ interaction' = PointerEffect(type, target)
        /\ pageMgr' = IF (interaction' # interaction /\ cb # NoOne) /\ cb.id = mgr.id
                      THEN [mgr EXCEPT !.dirty = TRUE] ELSE mgr
        /\ panelMgr' = IF (interaction' # interaction /\ cb # NoOne) /\ cb.id = panelMgr.id
                       THEN [panelMgr EXCEPT !.dirty = TRUE] ELSE panelMgr
        /\ callback' = cb
        /\ nextId' = EnsuredNextId(pageMgr)
        /\ UNCHANGED <<windowVars, page, bound, panel, bindings, screen, dangling>>
  BY DEF InjectPointer
<1>3. \/ pageMgr' = mgr /\ (interaction' = interaction \/ cb = NoOne \/ cb.id # mgr.id)
      \/ pageMgr' = [mgr EXCEPT !.dirty = TRUE]
  BY <1>2
<1>4. \/ panelMgr' = panelMgr
      \/ panelMgr' = [panelMgr EXCEPT !.dirty = TRUE] /\ cb # NoOne /\ cb.id = panelMgr.id
  BY <1>2
<1> QED
  BY <1>1, <1>2, <1>3, <1>4

LEMMA EnsuredExists ==
  ASSUME TypeOK, nextId < MaxIds, ApplicationAssumption, page # Null
  PROVE  EnsuredManager(pageMgr) \in PageManagers
<1>1. EnsuredManager(pageMgr) \in PageManagers \cup {NoMgr}
  BY EnsuredType DEF TypeOK, PageManagers
<1>2. CASE pageMgr = NoMgr
  <2>1. NeedsManager(pageMgr)
    BY <1>2 DEF NeedsManager
  <2>2. EnsuredManager(pageMgr).id = nextId
    BY <2>1 DEF EnsuredManager, NewManager
  <2>3. nextId # 0
    BY DEF TypeOK
  <2> QED
    BY <1>1, <2>2, <2>3 DEF NoMgr, Null
<1>3. CASE pageMgr # NoMgr
  BY <1>3 DEF TypeOK, EnsuredManager, NeedsManager, PageManagers
<1> QED
  BY <1>2, <1>3

LEMMA TypePointer ==
  ASSUME ApplicationAssumption, TypeOK, InjectPointer
  PROVE  TypeOK'
<1>1. CASE Dies("callback")
  BY <1>1 DEF TypeOK, Dies, windowVars, pageVars, panelVars, sharedVars
<1>2. CASE ~Dies("callback")
  <2>1. nextId < MaxIds /\ page # Null
    BY <1>2, PointerStep
  <2>2. EnsuredManager(pageMgr) \in PageManagers
    BY <2>1, EnsuredExists
  <2>3. pageMgr' \in PageManagers
    BY <1>2, <2>2, PointerStep, ManagerUpdates DEF PageManagers
  <2>4. panelMgr' \in PanelManagers \cup {NoMgr}
    <3>1. CASE panelMgr = NoMgr
      <4>1. panelMgr.id = 0
        BY <3>1 DEF NoMgr, Null
      <4>2. EnsuredCallback(pageMgr) \in Callbacks
        BY <2>1, EnsuredType DEF TypeOK, PageManagers
      <4>3. EnsuredCallback(pageMgr) # NoOne => EnsuredCallback(pageMgr).id # 0
        BY <4>2 DEF Callbacks
      <4> QED
        BY <1>2, <3>1, <4>1, <4>3, PointerStep
    <3>2. CASE panelMgr # NoMgr
      <4>1. panelMgr \in PanelManagers /\ [panelMgr EXCEPT !.dirty = TRUE] \in PanelManagers
        BY <3>2, ManagerUpdates DEF PanelManagers, TypeOK
      <4> QED
        BY <1>2, <4>1, PointerStep
    <3> QED
      BY <3>1, <3>2
  <2>5. callback' \in Callbacks /\ nextId' \in 1..(MaxIds + 1)
    BY <1>2, <2>1, EnsuredType, PointerStep DEF TypeOK, PageManagers
  <2>6. interaction' \in [Pointers -> [doc: 0..MaxIds, el: Cells]]
    BY <1>2, <2>2, PointerEffectType, PointerStep
  <2>7. UNCHANGED <<windowVars, page, bound, panel, bindings, screen, dangling>>
    BY <1>2, PointerStep
  <2> QED
    BY <2>3, <2>4, <2>5, <2>6, <2>7 DEF TypeOK, windowVars, PageManagers, PanelManagers, Callbacks
<1> QED
  BY <1>1, <1>2

(* The outcome of a frame that follows no dead pointer, in terms of the    *)
(* manager that laid the page out and of the canvas before the panel.      *)
Framed(accepted, old, mgr, drawn) ==
  /\ nextId < MaxIds
  /\ old = IF accepted > 0 THEN NoMgr ELSE pageMgr
  /\ mgr = EnsuredManager(old)
  /\ sheets' = sheets + accepted /\ pending' = 0
  /\ \/ /\ mgr # NoMgr /\ mgr.dirty
        /\ pageMgr' = [mgr EXCEPT !.dirty = FALSE, !.list = PageList(page, sheets')]
        /\ drawn = PagePainted(mgr.list, PageList(page, sheets'))
     \/ ~(mgr # NoMgr /\ mgr.dirty) /\ pageMgr' = mgr /\ drawn = screen
  /\ \/ panelMgr' = panelMgr /\ screen' = drawn
     \/ /\ panelMgr # NoMgr
        /\ panelMgr' = [panelMgr EXCEPT !.dirty = FALSE, !.list = [sheets |-> sheets']]
        /\ screen' = drawn \/ screen' = PanelPainted(drawn, PanelLook(panelMgr'))
  /\ callback' = EnsuredCallback(old) /\ nextId' = EnsuredNextId(old)
  /\ UNCHANGED <<shaper, hooksSet, hotkey, hud, policy, watching, page, bound, panel, bindings,
                 interaction, dangling>>

LEMMA FrameStep ==
  ASSUME ApplicationAssumption, TypeOK, Update
  PROVE  \/ UNCHANGED <<windowVars, pageVars, panelVars, sharedVars>> /\ dangling' \in {"element", "shaper"}
         \/ \E accepted \in 0..pending : \E old, mgr, drawn : Framed(accepted, old, mgr, drawn)
<1> DEFINE Old(k)  == IF k > 0 THEN NoMgr ELSE pageMgr
           Mgr(k)  == EnsuredManager(Old(k))
           List(k) == IF Mgr(k) # NoMgr /\ Mgr(k).dirty THEN PageList(page, sheets + k) ELSE NoList
           Drawn(k) == IF List(k) # NoList THEN PagePainted(Mgr(k).list, List(k)) ELSE screen
           Runs    == panelMgr # NoMgr /\ panelMgr.dirty
           Done(k) == [panelMgr EXCEPT !.dirty = FALSE, !.list = [sheets |-> sheets + k]]
<1>1. CASE Dies("element") \/ Dies("shaper")
  BY <1>1 DEF Dies
<1>2. CASE ~(Dies("element") \/ Dies("shaper"))
  <2>1. PICK k \in 0..pending :
          /\ sheets' = sheets + k
          /\ pending' = 0
          /\ pageMgr' = IF List(k) # NoList THEN [Mgr(k) EXCEPT !.dirty = FALSE, !.list = List(k)] ELSE Mgr(k)
          /\ panelMgr' = IF Runs THEN Done(k) ELSE panelMgr
          /\ screen' = IF Runs /\ Done(k).list # panelMgr.list
                       THEN PanelPainted(Drawn(k), PanelLook(Done(k))) ELSE Drawn(k)
          /\ callback' = EnsuredCallback(Old(k))
          /\ nextId' = EnsuredNextId(Old(k))
          /\ UNCHANGED <<shaper, hooksSet, hotkey, hud, policy, watching, page, bound, panel, bindings,
                         interaction, dangling>>
    BY <1>2 DEF Update
  <2>2. nextId < MaxIds
    BY DEF Update
  <2>3. PageList(page, sheets + k) # NoList
    <3>1. PageList(page, sheets + k).sheets = sheets + k /\ NoList.sheets = MaxSheets + 1
      BY DEF PageList, NoList
    <3>2. sheets + k <= MaxSheets
      BY DEF TypeOK, ApplicationAssumption
    <3> QED
      BY <3>1, <3>2 DEF TypeOK, ApplicationAssumption
  <2>4. \/ /\ Mgr(k) # NoMgr /\ Mgr(k).dirty
           /\ pageMgr' = [Mgr(k) EXCEPT !.dirty = FALSE, !.list = PageList(page, sheets')]
           /\ Drawn(k) = PagePainted(Mgr(k).list, PageList(page, sheets'))
        \/ ~(Mgr(k) # NoMgr /\ Mgr(k).dirty) /\ pageMgr' = Mgr(k) /\ Drawn(k) = screen
    <3>1. CASE Mgr(k) # NoMgr /\ Mgr(k).dirty
      BY <3>1, <2>1, <2>3
    <3>2. CASE ~(Mgr(k) # NoMgr /\ Mgr(k).dirty)
      BY <3>2, <2>1
    <3> QED
      BY <3>1, <3>2
  <2>5. \/ panelMgr' = panelMgr /\ screen' = Drawn(k)
        \/ /\ panelMgr # NoMgr
           /\ panelMgr' = [panelMgr EXCEPT !.dirty = FALSE, !.list = [sheets |-> sheets']]
           /\ screen' = Drawn(k) \/ screen' = PanelPainted(Drawn(k), PanelLook(panelMgr'))
    <3>1. CASE Runs
      BY <3>1, <2>1
    <3>2. CASE ~Runs
      BY <3>2, <2>1
    <3> QED
      BY <3>1, <3>2
  <2> HIDE DEF Mgr, Drawn, Runs, Done, List
  <2>6. Mgr(k) = EnsuredManager(Old(k))
    BY DEF Mgr
  <2>7. Framed(k, Old(k), Mgr(k), Drawn(k))
    BY <2>1, <2>2, <2>4, <2>5, <2>6 DEF Framed
  <2> QED
    BY <2>7
<1> QED
  BY <1>1, <1>2

LEMMA TypeUpdate ==
  ASSUME ApplicationAssumption, TypeOK, Update
  PROVE  TypeOK'
<1>1. CASE UNCHANGED <<windowVars, pageVars, panelVars, sharedVars>> /\ dangling' \in {"element", "shaper"}
  BY <1>1 DEF TypeOK, windowVars, pageVars, panelVars, sharedVars
<1>2. CASE \E accepted \in 0..pending : \E old, mgr, drawn : Framed(accepted, old, mgr, drawn)
  <2>a. PICK accepted \in 0..pending : \E old, mgr, drawn : Framed(accepted, old, mgr, drawn)
    BY <1>2
  <2>1. PICK old, mgr, drawn : Framed(accepted, old, mgr, drawn)
    BY <2>a
  <2>2. sheets' \in Nat /\ pending' \in Nat /\ sheets' + pending' <= MaxSheets /\ sheets' \in 0..MaxSheets
    BY <2>1 DEF Framed, TypeOK, ApplicationAssumption
  <2>3. old \in PageManagers \cup {NoMgr}
    BY <2>1 DEF Framed, TypeOK, PageManagers
  <2>4. /\ mgr \in PageManagers \cup {NoMgr} /\ callback' \in Callbacks /\ nextId' \in 1..(MaxIds + 1)
    BY <2>1, <2>3, EnsuredType DEF Framed
  <2>5. PageList(page, sheets') \in Lists
    BY <2>2, PageListType DEF TypeOK
  <2>6. pageMgr' \in PageManagers \cup {NoMgr} /\ drawn \in [Cells -> [base: Marks, text: BOOLEAN]]
    <3>1. CASE mgr # NoMgr /\ mgr.dirty
      <4>1. mgr \in PageManagers
        BY <3>1, <2>4
      <4>2. \A l \in Lists : [mgr EXCEPT !.dirty = FALSE, !.list = l] \in PageManagers
        BY <4>1 DEF PageManagers, Manager
      <4>3. pageMgr' = [mgr EXCEPT !.dirty = FALSE, !.list = PageList(page, sheets')]
            /\ drawn = PagePainted(mgr.list, PageList(page, sheets'))
        BY <3>1, <2>1 DEF Framed
      <4> QED
        BY <4>2, <4>3, <2>5, PaintedType
    <3>2. CASE ~(mgr # NoMgr /\ mgr.dirty)
      <4>1. pageMgr' = mgr /\ drawn = screen
        BY <3>2, <2>1 DEF Framed
      <4> QED
        BY <4>1, <2>4 DEF TypeOK
    <3> QED
      BY <3>1, <3>2
  <2>7. panelMgr' \in PanelManagers \cup {NoMgr} /\ screen' \in [Cells -> [base: Marks, text: BOOLEAN]]
    <3>1. CASE panelMgr' = panelMgr /\ screen' = drawn
      BY <3>1, <2>6 DEF TypeOK, PanelManagers
    <3>2. CASE ~(panelMgr' = panelMgr /\ screen' = drawn)
      <4>1. /\ panelMgr # NoMgr
            /\ panelMgr' = [panelMgr EXCEPT !.dirty = FALSE, !.list = [sheets |-> sheets']]
            /\ screen' = drawn \/ screen' = PanelPainted(drawn, PanelLook(panelMgr'))
        BY <3>2, <2>1 DEF Framed
      <4>2. panelMgr \in PanelManagers
        BY <4>1 DEF TypeOK, PanelManagers
      <4>3. panelMgr' \in PanelManagers /\ panelMgr'.doc \in 1..MaxIds /\ panelMgr'.list.sheets = sheets'
        BY <4>1, <4>2, <2>2 DEF PanelManagers, Manager
      <4>4. PanelLook(panelMgr') \in Marks
        BY <4>3, <2>2 DEF PanelLook, Marks, ApplicationAssumption
      <4> QED
        BY <4>1, <4>3, <4>4, <2>6, PanelPaintedType
    <3> QED
      BY <3>1, <3>2
  <2>8. UNCHANGED <<shaper, hooksSet, hotkey, hud, policy, watching, page, bound, panel, bindings,
                    interaction, dangling>>
    BY <2>1 DEF Framed
  <2> QED
    BY <2>2, <2>4, <2>6, <2>7, <2>8 DEF TypeOK, PageManagers, PanelManagers, Callbacks
<1> QED
  BY <1>1, <1>2, FrameStep

LEMMA TypeStep == ApplicationAssumption /\ TypeOK /\ [Next]_vars => TypeOK'
<1> SUFFICES ASSUME ApplicationAssumption, TypeOK, [Next]_vars PROVE TypeOK'
  OBVIOUS
<1>1. CASE UNCHANGED vars
  BY <1>1 DEF TypeOK, vars, windowVars, pageVars, panelVars, sharedVars
<1>2. CASE Next
  BY <1>2, TypeLoads, TypeCalls, TypePanel, TypePointer, TypeUpdate DEF Next
<1> QED
  BY <1>1, <1>2

(* Every variable of the application keeps its type, whatever the order of *)
(* calls, events, frames and file edits.                                   *)
THEOREM ApplicationTyped == Spec => []TypeOK
<1>1. Init => TypeOK
  BY TypeInit, ApplicationAssumption
<1>2. TypeOK /\ [Next]_vars => TypeOK'
  BY TypeStep, ApplicationAssumption
<1> QED
  BY <1>1, <1>2, PTL DEF Spec

----------------------------------------------------------------------------
(* The inductive invariant. To the properties it adds that a manager's     *)
(* number is below nextId, so that no new manager is taken for an old one. *)

PagePart ==
  /\ pageMgr # NoMgr => pageMgr.doc = page /\ pageMgr.id < nextId
  /\ NoStalePageCallback
  /\ HooksFollow
  /\ CleanPageCurrent
  /\ PageCellsExact

PanelPart ==
  /\ panelMgr # NoMgr => panelMgr.doc = panel
  /\ bindings # NoBindings => panel # Null /\ bindings.doc = panel
  /\ (panelMgr = NoMgr) = (panel = Null)
  /\ PanelInSync

Wiring == TypeOK /\ PagePart /\ PanelPart

LEMMA SameList ==
  ASSUME UNCHANGED <<page, sheets, interaction>>
  PROVE  /\ PageList(page, sheets)' = PageList(page, sheets)
         /\ HoldsDeadElement' = HoldsDeadElement
  BY DEF PageList, HoldsDeadElement

(* A call that leaves the page's manager alone keeps the page's part, even *)
(* when a new manager takes the callback over.                             *)
LEMMA PageKept ==
  ASSUME TypeOK, PagePart,
         UNCHANGED <<page, pageMgr, interaction, sheets, screen, hooksSet>>,
         \/ callback' = callback
         \/ callback'.owner = "panel" /\ callback'.id >= nextId,
         nextId' >= nextId, nextId' \in Nat
  PROVE  PagePart'
<1>1. CASE pageMgr = NoMgr
  BY <1>1 DEF PagePart, NoStalePageCallback, HooksFollow, CleanPageCurrent, PageCellsExact
<1>2. CASE pageMgr # NoMgr
  <2>1. pageMgr.id \in Nat /\ pageMgr.id < nextId /\ pageMgr.doc = page /\ nextId \in Nat
    BY <1>2 DEF TypeOK, Manager, PagePart
  <2>2. pageMgr'.doc = page' /\ pageMgr'.id < nextId'
    BY <2>1
  <2>3. callback'.owner = "page" => callback' = callback
    OBVIOUS
  <2>4. callback'.id = pageMgr'.id => callback' = callback
    BY <2>1 DEF TypeOK
  <2>5. NoStalePageCallback'
    BY <1>2, <2>3 DEF PagePart, NoStalePageCallback
  <2>6. HooksFollow' /\ PageCellsExact'
    BY DEF PagePart, HooksFollow, PageCellsExact
  <2>7. CleanPageCurrent'
    BY <2>4, SameList DEF PagePart, CleanPageCurrent
  <2> QED
    BY <1>2, <2>2, <2>5, <2>6, <2>7 DEF PagePart
<1> QED
  BY <1>1, <1>2

LEMMA PageDropped ==
  ASSUME pageMgr' = NoMgr
  PROVE  PagePart'
  BY DEF PagePart, NoStalePageCallback, HooksFollow, CleanPageCurrent, PageCellsExact

LEMMA PanelKept ==
  ASSUME PanelPart, UNCHANGED <<panel, panelMgr, bindings, policy>>,
         hud' = hud \/ panel # Null
  PROVE  PanelPart'
  BY DEF PanelPart, PanelInSync

LEMMA PanelUnloaded ==
  ASSUME UnloadPanel
  PROVE  PanelPart'
  BY DEF UnloadPanel, PanelPart, PanelInSync, Null

LEMMA PanelLoaded ==
  ASSUME ApplicationAssumption, TypeOK, LoadPanel, policy' = policy
  PROVE  PanelPart' /\ callback'.owner = "panel" /\ callback'.id >= nextId /\ nextId' >= nextId
<1>1. nextId \in 1..MaxIds /\ nextId + 1 \in 1..MaxIds
  BY DEF ApplicationAssumption, TypeOK, LoadPanel
<1>2. panelMgr' \in PanelManagers
  BY LoadPanelType
<1>3. panelMgr' # NoMgr
  BY <1>2, ManagerExists DEF PanelManagers
<1>4. panelMgr'.doc = panel' /\ panel' # Null
  BY <1>1 DEF LoadPanel, NewManager, Null
<1>5. bindings' # NoBindings => bindings'.doc = panel' /\ bindings'.policy = policy'
  BY DEF LoadPanel
<1>6. callback'.owner = "panel" /\ callback'.id >= nextId /\ nextId' >= nextId
  BY <1>1 DEF LoadPanel
<1> QED
  BY <1>3, <1>4, <1>5, <1>6 DEF PanelPart, PanelInSync

----------------------------------------------------------------------------
LEMMA WiringInit == ApplicationAssumption /\ Init => Wiring
<1> SUFFICES ASSUME ApplicationAssumption, Init PROVE Wiring
  OBVIOUS
<1>1. PagePart
  BY DEF Init, PagePart, NoStalePageCallback, HooksFollow, CleanPageCurrent, PageCellsExact
<1>2. PanelPart
  BY DEF Init, PanelPart, PanelInSync
<1> QED
  BY <1>1, <1>2, TypeInit DEF Wiring

LEMMA WiringCalls ==
  ASSUME ApplicationAssumption, Wiring,
         LoadHTML \/ LoadCSS \/ LoadFont \/ LoadScript \/ PressF11 \/ InspectPage \/ FileEdit
           \/ InjectKey \/ SetRedactionPolicy
  PROVE  PagePart' /\ PanelPart'
<1> USE DEF Wiring
<1>0. nextId \in Nat
  BY DEF TypeOK
<1>1. CASE LoadHTML
  <2>1. pageMgr' = NoMgr /\ UNCHANGED <<panel, panelMgr, bindings, policy, hud>>
    BY <1>1 DEF LoadHTML, panelVars, windowVars
  <2> QED
    BY <2>1, PageDropped, PanelKept
<1>2. CASE LoadCSS
  <2>1. pageMgr' = NoMgr /\ UNCHANGED <<panel, panelMgr, bindings, policy, hud>>
    BY <1>2 DEF LoadCSS, panelVars
  <2> QED
    BY <2>1, PageDropped, PanelKept
<1>3. CASE LoadFont \/ LoadScript \/ PressF11 \/ InspectPage \/ FileEdit \/ InjectKey
  <2>1. /\ UNCHANGED <<page, pageMgr, interaction, sheets, screen, hooksSet, callback, nextId>>
        /\ UNCHANGED <<panel, panelMgr, bindings, policy>>
        /\ hud' = hud \/ panel # Null
    BY <1>3 DEF LoadFont, LoadScript, PressF11, InspectPage, FileEdit, InjectKey, Dies,
                windowVars, pageVars, panelVars, sharedVars
  <2> QED
    BY <1>0, <2>1, PageKept, PanelKept
<1>4. CASE SetRedactionPolicy
  <2>1. /\ UNCHANGED <<page, pageMgr, interaction, sheets, screen, hooksSet, callback, nextId>>
        /\ UNCHANGED <<panel, panelMgr, hud>>
        /\ bindings' = IF bindings = NoBindings THEN NoBindings ELSE [bindings EXCEPT !.policy = policy']
    BY <1>4 DEF SetRedactionPolicy, pageVars, sharedVars
  <2>2. CASE bindings = NoBindings
    BY <2>1, <2>2, <1>0, PageKept DEF PanelPart, PanelInSync
  <2>3. CASE bindings # NoBindings
    <3>1. bindings \in [doc: 1..MaxIds, target: 0..MaxIds, policy: {"redact", "show"}]
      BY <2>3 DEF TypeOK
    <3>2. bindings'.doc = bindings.doc /\ bindings'.policy = policy' /\ bindings.doc # 0
      BY <2>1, <2>3, <3>1
    <3>3. bindings' # NoBindings
      BY <3>2 DEF NoBindings, Null
    <3> QED
      BY <2>1, <2>3, <3>2, <3>3, <1>0, PageKept DEF PanelPart, PanelInSync
  <2> QED
    BY <2>2, <2>3
<1> QED
  BY <1>1, <1>2, <1>3, <1>4

LEMMA WiringPanel ==
  ASSUME ApplicationAssumption, Wiring, AttachDevtool \/ DetachDevtool \/ PressF12
  PROVE  PagePart' /\ PanelPart'
<1> USE DEF Wiring
<1>1. /\ UNCHANGED <<page, pageMgr, interaction, sheets, screen, hooksSet, policy>>
      /\ LoadPanel \/ UnloadPanel
  BY DEF AttachDevtool, DetachDevtool, PressF12, pageVars
<1>2. nextId \in Nat
  BY DEF TypeOK
<1>3. CASE LoadPanel
  <2>1. nextId' \in Nat
    BY <1>2, <1>3 DEF LoadPanel
  <2> QED
    BY <1>1, <1>3, <2>1, PageKept, PanelLoaded
<1>4. CASE UnloadPanel
  <2>1. UNCHANGED <<callback, nextId>>
    BY <1>4 DEF UnloadPanel
  <2> QED
    BY <1>1, <1>2, <1>4, <2>1, PageKept, PanelUnloaded
<1> QED
  BY <1>1, <1>3, <1>4

LEMMA WiringHooks ==
  ASSUME ApplicationAssumption, Wiring, SetPipelineHooks \/ Invalidate
  PROVE  PagePart' /\ PanelPart'
<1> USE DEF Wiring
<1>1. UNCHANGED <<page, interaction, sheets, screen, callback, nextId, panel, panelMgr, bindings, policy, hud>>
  BY DEF SetPipelineHooks, Invalidate, windowVars, panelVars, sharedVars
<1>2. CASE pageMgr = NoMgr
  <2>1. pageMgr' = NoMgr
    BY <1>2 DEF SetPipelineHooks, Invalidate
  <2> QED
    BY <1>1, <2>1, PageDropped, PanelKept
<1>3. CASE pageMgr # NoMgr
  <2>1. pageMgr \in PageManagers
    BY <1>3 DEF TypeOK, PageManagers
  <2>2. /\ pageMgr'.id = pageMgr.id /\ pageMgr'.doc = pageMgr.doc /\ pageMgr'.list = pageMgr.list
        /\ pageMgr'.hooks = hooksSet'
        /\ pageMgr'.dirty = pageMgr.dirty \/ pageMgr'.dirty = TRUE
    <3>1. CASE SetPipelineHooks
      <4>1. pageMgr' = [pageMgr EXCEPT !.hooks = hooksSet']
        BY <1>3, <3>1 DEF SetPipelineHooks
      <4> QED
        BY <4>1, <2>1 DEF PageManagers, Manager
    <3>2. CASE Invalidate
      <4>1. pageMgr' = [pageMgr EXCEPT !.dirty = TRUE] /\ hooksSet' = hooksSet /\ pageMgr.hooks = hooksSet
        BY <1>3, <3>2 DEF Invalidate, windowVars, PagePart, HooksFollow
      <4> QED
        BY <4>1, <2>1 DEF PageManagers, Manager
    <3> QED
      BY <3>1, <3>2
  <2>3. HooksFollow' /\ NoStalePageCallback' /\ PageCellsExact'
    <3>1. HooksFollow'
      <4>1. pageMgr'.hooks = hooksSet'
        BY <2>2
      <4> QED
        BY <4>1, Zenon DEF HooksFollow
    <3>2. NoStalePageCallback'
      BY <1>1, <1>3, <2>2 DEF PagePart, NoStalePageCallback
    <3>3. PageCellsExact'
      BY <1>1, <1>3, <2>2 DEF PagePart, PageCellsExact
    <3> QED
      BY <3>1, <3>2, <3>3
  <2>4. CleanPageCurrent'
    BY <1>1, <1>3, <2>2, SameList DEF PagePart, CleanPageCurrent
  <2>5. pageMgr'.doc = page' /\ pageMgr'.id < nextId'
    BY <1>1, <1>3, <2>2 DEF PagePart
  <2> QED
    BY <1>1, <2>3, <2>4, <2>5, PanelKept DEF PagePart
<1> QED
  BY <1>2, <1>3

(* EnsureUpdateManager keeps the manager that is there, or makes one that  *)
(* owns the callback, has the hooks, is dirty and has drawn nothing.       *)
LEMMA Ensured ==
  ASSUME ApplicationAssumption, TypeOK, page # Null, nextId < MaxIds,
         NEW old \in PageManagers \cup {NoMgr}
  PROVE  /\ EnsuredManager(old) \in PageManagers
         /\ old # NoMgr => /\ EnsuredManager(old) = old
                           /\ EnsuredCallback(old) = callback /\ EnsuredNextId(old) = nextId
         /\ old = NoMgr => /\ EnsuredManager(old).id = nextId /\ EnsuredManager(old).doc = page
                           /\ EnsuredManager(old).dirty = TRUE /\ EnsuredManager(old).list = NoList
                           /\ EnsuredManager(old).hooks = hooksSet
                           /\ EnsuredCallback(old) = [owner |-> "page", id |-> nextId]
                           /\ EnsuredNextId(old) = nextId + 1
<1>1. CASE old # NoMgr
  BY <1>1 DEF EnsuredManager, EnsuredCallback, EnsuredNextId, NeedsManager
<1>2. CASE old = NoMgr
  <2>1. nextId \in 1..MaxIds /\ page \in 1..MaxIds
    BY DEF TypeOK, Null, ApplicationAssumption
  <2>2. NewManager(nextId, page) \in PageManagers
    BY <2>1, NewManagerType DEF PageManagers
  <2>3. [NewManager(nextId, page) EXCEPT !.hooks = hooksSet] \in PageManagers
    BY <2>2, ManagerUpdates DEF TypeOK, PageManagers
  <2>4. NeedsManager(old)
    BY <1>2 DEF NeedsManager
  <2>5. EnsuredManager(old) = [NewManager(nextId, page) EXCEPT !.hooks = hooksSet]
    BY <2>4 DEF EnsuredManager
  <2>6. /\ EnsuredManager(old).id = nextId /\ EnsuredManager(old).doc = page
        /\ EnsuredManager(old).dirty = TRUE /\ EnsuredManager(old).list = NoList
        /\ EnsuredManager(old).hooks = hooksSet
    BY <2>5 DEF NewManager
  <2> QED
    BY <1>2, <2>3, <2>4, <2>5, <2>6 DEF EnsuredCallback, EnsuredNextId
<1> QED
  BY <1>1, <1>2

LEMMA WiringPointer ==
  ASSUME ApplicationAssumption, Wiring, InjectPointer
  PROVE  PagePart' /\ PanelPart'
<1> USE DEF Wiring
<1> DEFINE mgr == EnsuredManager(pageMgr)
           cb  == EnsuredCallback(pageMgr)
<1>1. CASE Dies("callback")
  <2>1. /\ UNCHANGED <<page, pageMgr, interaction, sheets, screen, hooksSet, callback, nextId>>
        /\ UNCHANGED <<panel, panelMgr, bindings, policy, hud>>
    BY <1>1 DEF Dies, windowVars, pageVars, panelVars, sharedVars
  <2> QED
    BY <2>1, PageKept, PanelKept DEF TypeOK
<1>2. CASE ~Dies("callback")
  <2>0. nextId < MaxIds /\ page # Null /\ nextId \in Nat
    BY <1>2, PointerStep DEF TypeOK
  <2>1. /\ \/ pageMgr' = mgr /\ (interaction' = interaction \/ cb = NoOne \/ cb.id # mgr.id)
           \/ pageMgr' = [mgr EXCEPT !.dirty = TRUE]
        /\ \/ panelMgr' = panelMgr
           \/ panelMgr' = [panelMgr EXCEPT !.dirty = TRUE] /\ cb # NoOne /\ cb.id = panelMgr.id
        /\ callback' = cb /\ nextId' = EnsuredNextId(pageMgr)
        /\ UNCHANGED <<windowVars, page, bound, panel, bindings, screen, dangling>>
    BY <1>2, PointerStep
  <2>2. UNCHANGED <<page, screen, sheets, hooksSet, panel, bindings, policy, hud>>
    BY <2>1 DEF windowVars
  <2>3. /\ mgr \in PageManagers /\ mgr # NoMgr /\ cb \in Callbacks
    BY <2>0, Ensured, EnsuredType, ManagerExists DEF TypeOK, PageManagers
  <2>4. /\ pageMgr # NoMgr => mgr = pageMgr /\ cb = callback /\ nextId' = nextId
        /\ pageMgr = NoMgr => /\ mgr.id = nextId /\ mgr.doc = page /\ mgr.dirty = TRUE
                              /\ mgr.list = NoList /\ mgr.hooks = hooksSet
                              /\ cb = [owner |-> "page", id |-> nextId] /\ nextId' = nextId + 1
    BY <2>0, <2>1, Ensured DEF TypeOK, PageManagers
  <2>5. /\ pageMgr'.id = mgr.id /\ pageMgr'.doc = mgr.doc /\ pageMgr'.list = mgr.list
        /\ pageMgr'.hooks = mgr.hooks
        /\ pageMgr'.dirty = TRUE \/ pageMgr' = mgr
    BY <2>1, <2>3 DEF PageManagers, Manager
  <2>6. pageMgr'.doc = page' /\ pageMgr'.id < nextId'
    BY <2>0, <2>2, <2>4, <2>5 DEF PagePart
  <2>7. NoStalePageCallback'
    BY <2>1, <2>4, <2>5 DEF PagePart, NoStalePageCallback
  <2>8. HooksFollow'
    BY <2>2, <2>4, <2>5 DEF PagePart, HooksFollow
  <2>9. PageCellsExact'
    <3>1. CASE pageMgr = NoMgr
      BY <3>1, <2>4, <2>5 DEF PageCellsExact
    <3>2. CASE pageMgr # NoMgr
      BY <3>2, <2>2, <2>4, <2>5 DEF PagePart, PageCellsExact
    <3> QED
      BY <3>1, <3>2
  <2>10. CleanPageCurrent'
    <3> SUFFICES ASSUME ~pageMgr'.dirty, callback'.id = pageMgr'.id, ~HoldsDeadElement'
                 PROVE  pageMgr'.list = PageList(page, sheets)'
      BY DEF CleanPageCurrent
    <3>1. pageMgr' = mgr /\ pageMgr # NoMgr
      BY <2>4, <2>5
    <3>2. cb # NoOne /\ cb.id = mgr.id
      <4>1. cb.id = mgr.id /\ mgr.id # 0
        BY <2>1, <3>1, <2>3 DEF PageManagers, Manager
      <4> QED
        BY <4>1 DEF NoOne, Null
    <3>3. interaction' = interaction
      <4>1. CASE pageMgr' = [mgr EXCEPT !.dirty = TRUE]
        <5>1. pageMgr'.dirty = TRUE
          BY <4>1, <2>3 DEF PageManagers, Manager
        <5> QED
          BY <5>1
      <4> QED
        BY <4>1, <3>2, <2>1
    <3> QED
      BY <2>2, <2>4, <3>1, <3>2, <3>3, SameList DEF PagePart, CleanPageCurrent
  <2>11. PanelPart'
    <3>1. CASE panelMgr' = panelMgr
      BY <3>1, <2>2, PanelKept
    <3>2. CASE panelMgr' = [panelMgr EXCEPT !.dirty = TRUE] /\ cb # NoOne /\ cb.id = panelMgr.id
      <4>1. panelMgr # NoMgr
        BY <3>2, <2>3 DEF Callbacks, NoMgr, Null
      <4>2. panelMgr \in PanelManagers
        BY <4>1 DEF TypeOK, PanelManagers
      <4>3. panelMgr' \in PanelManagers /\ panelMgr'.doc = panelMgr.doc
        BY <3>2, <4>2 DEF PanelManagers, Manager
      <4>4. panelMgr' # NoMgr
        BY <4>3, ManagerExists DEF PanelManagers
      <4> QED
        BY <2>2, <4>1, <4>3, <4>4 DEF PanelPart, PanelInSync
    <3> QED
      BY <2>1, <3>1, <3>2
  <2> QED
    BY <2>6, <2>7, <2>8, <2>9, <2>10, <2>11 DEF PagePart
<1> QED
  BY <1>1, <1>2

(* What the page's manager left on a cell outside the panel's reach stays  *)
(* there until its list changes there.                                     *)
LEMMA CellsFollow ==
  ASSUME NEW old, NEW new \in Lists, NEW c \in Cells,
         old # NoList => screen[c] = [base |-> old.cells[c], text |-> FALSE]
  PROVE  PagePainted(old, new)[c] = [base |-> new.cells[c], text |-> FALSE]
<1>1. CASE c \in PageDirty(old, new)
  BY <1>1 DEF PagePainted
<1>2. CASE c \notin PageDirty(old, new)
  <2>1. c \in Nat
    BY DEF Cells
  <2>2. ~(old = NoList \/ old.cells[c] # new.cells[c])
    BY <1>2, <2>1 DEF PageDirty
  <2>3. PagePainted(old, new)[c] = screen[c]
    BY <1>2 DEF PagePainted
  <2> QED
    BY <2>2, <2>3
<1> QED
  BY <1>1, <1>2

LEMMA PanelStaysInside ==
  ASSUME NEW painted \in [Cells -> [base: Marks, text: BOOLEAN]], NEW look,
         NEW c \in Cells \ PanelReach, ApplicationAssumption
  PROVE  PanelPainted(painted, look)[c] = painted[c]
  BY DEF PanelPainted, PanelReach, Cells, ApplicationAssumption

LEMMA WiringUpdate ==
  ASSUME ApplicationAssumption, Wiring, Update
  PROVE  PagePart' /\ PanelPart'
<1> USE DEF Wiring
<1>1. CASE UNCHANGED <<windowVars, pageVars, panelVars, sharedVars>>
  <2>1. /\ UNCHANGED <<page, pageMgr, interaction, sheets, screen, hooksSet, callback, nextId>>
        /\ UNCHANGED <<panel, panelMgr, bindings, policy, hud>>
    BY <1>1 DEF windowVars, pageVars, panelVars, sharedVars
  <2> QED
    BY <2>1, PageKept, PanelKept DEF TypeOK
<1>2. CASE \E accepted \in 0..pending : \E old, mgr, drawn : Framed(accepted, old, mgr, drawn)
  <2>a. PICK accepted \in 0..pending : \E old, mgr, drawn : Framed(accepted, old, mgr, drawn)
    BY <1>2
  <2>1. PICK old, mgr, drawn : Framed(accepted, old, mgr, drawn)
    BY <2>a
  <2>2. /\ UNCHANGED <<page, interaction, hooksSet, panel, bindings, policy, hud>>
        /\ nextId < MaxIds /\ old = (IF accepted > 0 THEN NoMgr ELSE pageMgr)
        /\ mgr = EnsuredManager(old) /\ sheets' = sheets + accepted
        /\ callback' = EnsuredCallback(old) /\ nextId' = EnsuredNextId(old)
    BY <2>1 DEF Framed
  <2>3. PanelPart'
    <3>1. CASE panelMgr' = panelMgr
      BY <3>1, <2>2, PanelKept
    <3>2. CASE panelMgr' # panelMgr
      <4>1. /\ panelMgr # NoMgr
            /\ panelMgr' = [panelMgr EXCEPT !.dirty = FALSE, !.list = [sheets |-> sheets']]
        BY <3>2, <2>1 DEF Framed
      <4>2. panelMgr \in PanelManagers /\ sheets' \in 0..MaxSheets
        BY <4>1, <2>2 DEF TypeOK, PanelManagers, ApplicationAssumption
      <4>3. panelMgr' \in PanelManagers /\ panelMgr'.doc = panelMgr.doc
        BY <4>1, <4>2 DEF PanelManagers, Manager
      <4>4. panelMgr' # NoMgr
        BY <4>3, ManagerExists DEF PanelManagers
      <4> QED
        BY <2>2, <4>1, <4>3, <4>4 DEF PanelPart, PanelInSync
    <3> QED
      BY <3>1, <3>2
  <2>4. old \in PageManagers \cup {NoMgr}
    BY <2>2 DEF TypeOK, PageManagers
  <2>5. CASE page = Null
    <3>1. pageMgr = NoMgr
      <4>1. CASE pageMgr # NoMgr
        BY <4>1, <2>5 DEF TypeOK, Manager, PagePart, Null
      <4> QED
        BY <4>1
    <3>2. mgr = NoMgr
      BY <2>2, <2>5, <3>1 DEF EnsuredManager, NeedsManager
    <3>3. pageMgr' = NoMgr
      BY <2>1, <3>2 DEF Framed
    <3> QED
      BY <2>3, <3>3, PageDropped
  <2>6. CASE page # Null
    <3>1. mgr \in PageManagers /\ mgr # NoMgr
      BY <2>2, <2>4, <2>6, Ensured, ManagerExists DEF PageManagers
    <3>2. /\ old # NoMgr => mgr = pageMgr /\ sheets' = sheets /\ callback' = callback /\ nextId' = nextId
          /\ old = NoMgr => /\ mgr.id = nextId /\ mgr.doc = page /\ mgr.dirty = TRUE
                            /\ mgr.list = NoList /\ mgr.hooks = hooksSet
                            /\ callback' = [owner |-> "page", id |-> nextId] /\ nextId' = nextId + 1
      <4>1. old # NoMgr => accepted = 0 /\ old = pageMgr
        BY <2>2 DEF TypeOK
      <4> QED
        <5>1. CASE old # NoMgr
          <6>1. sheets' = sheets
            BY <2>2, <4>1, <5>1 DEF TypeOK
          <6> QED
            BY <2>2, <2>4, <2>6, <4>1, <5>1, <6>1, Ensured
        <5>2. CASE old = NoMgr
          BY <2>2, <2>4, <2>6, <5>2, Ensured
        <5> QED
          BY <5>1, <5>2
    <3>3. /\ mgr.doc = page /\ mgr.id < nextId' /\ mgr.hooks = hooksSet
          /\ callback'.owner = "page" => callback'.id = mgr.id
          /\ mgr.list # NoList => \A c \in Cells \ PanelReach :
                                   screen[c] = [base |-> mgr.list.cells[c], text |-> FALSE]
      <4>1. CASE old = NoMgr
        BY <4>1, <3>2 DEF TypeOK
      <4>2. CASE old # NoMgr
        <5>1. mgr = pageMgr /\ pageMgr # NoMgr /\ callback' = callback /\ nextId' = nextId
          BY <4>2, <3>1, <3>2
        <5> QED
          BY <5>1 DEF PagePart, NoStalePageCallback, HooksFollow, PageCellsExact
      <4> QED
        BY <4>1, <4>2
    <3>4. PageList(page, sheets') \in Lists
      <4>1. sheets' \in 0..MaxSheets
        BY <2>2 DEF TypeOK, ApplicationAssumption
      <4> QED
        BY <4>1, PageListType DEF TypeOK
    <3>5. drawn \in [Cells -> [base: Marks, text: BOOLEAN]]
      BY <2>1, <3>4, PaintedType DEF Framed, TypeOK
    <3>6. /\ pageMgr'.id = mgr.id /\ pageMgr'.doc = mgr.doc /\ pageMgr'.hooks = mgr.hooks
          /\ pageMgr'.list # NoList => \A c \in Cells \ PanelReach :
                 drawn[c] = [base |-> pageMgr'.list.cells[c], text |-> FALSE]
          /\ \/ pageMgr'.list = PageList(page, sheets')
             \/ pageMgr' = mgr /\ mgr.dirty = FALSE
      <4>1. CASE mgr.dirty
        <5>1. /\ pageMgr' = [mgr EXCEPT !.dirty = FALSE, !.list = PageList(page, sheets')]
              /\ drawn = PagePainted(mgr.list, PageList(page, sheets'))
          BY <2>1, <3>1, <4>1 DEF Framed
        <5>2. /\ pageMgr'.id = mgr.id /\ pageMgr'.doc = mgr.doc /\ pageMgr'.hooks = mgr.hooks
              /\ pageMgr'.list = PageList(page, sheets')
          BY <3>1, <5>1 DEF PageManagers, Manager
        <5>3. \A c \in Cells \ PanelReach :
                 drawn[c] = [base |-> PageList(page, sheets').cells[c], text |-> FALSE]
          BY <3>3, <3>4, <5>1, CellsFollow
        <5> QED
          BY <5>2, <5>3
      <4>2. CASE ~mgr.dirty
        <5>1. pageMgr' = mgr /\ drawn = screen
          BY <2>1, <4>2 DEF Framed
        <5>2. mgr.dirty = FALSE
          BY <3>1, <4>2 DEF PageManagers, Manager
        <5> QED
          BY <3>3, <5>1, <5>2
      <4> QED
        BY <4>1, <4>2
    <3>7. \A c \in Cells \ PanelReach : screen'[c] = drawn[c]
      BY <2>1, <3>5, PanelStaysInside DEF Framed
    <3>8. PageCellsExact'
      <4>1. PanelReach' = PanelReach /\ Cells' = Cells
        BY DEF PanelReach, Cells
      <4> QED
        BY <3>6, <3>7, <4>1 DEF PageCellsExact
    <3>9. HooksFollow'
      <4>1. pageMgr'.hooks = hooksSet'
        BY <2>2, <3>3, <3>6
      <4> QED
        BY <4>1, Zenon DEF HooksFollow
    <3>10. NoStalePageCallback'
      BY <3>3, <3>6 DEF NoStalePageCallback
    <3>11. CleanPageCurrent'
      <4> SUFFICES ASSUME callback'.id = pageMgr'.id, ~HoldsDeadElement'
                   PROVE  pageMgr'.list = PageList(page, sheets)'
        BY DEF CleanPageCurrent
      <4>1. PageList(page, sheets)' = PageList(page, sheets')
        BY <2>2 DEF PageList
      <4>2. CASE pageMgr' = mgr /\ mgr.dirty = FALSE
        <5>1. old # NoMgr /\ mgr = pageMgr /\ sheets' = sheets /\ callback' = callback
          BY <4>2, <3>2
        <5> QED
          BY <4>1, <4>2, <5>1, <2>2, <3>1, SameList DEF PagePart, CleanPageCurrent
      <4> QED
        BY <3>6, <4>1, <4>2
    <3> QED
      BY <2>2, <2>3, <3>3, <3>6, <3>8, <3>9, <3>10, <3>11 DEF PagePart
  <2> QED
    BY <2>5, <2>6
<1> QED
  BY <1>1, <1>2, FrameStep

LEMMA WiringStep == ApplicationAssumption /\ Wiring /\ [Next]_vars => Wiring'
<1> SUFFICES ASSUME ApplicationAssumption, Wiring, [Next]_vars PROVE Wiring'
  OBVIOUS
<1>1. TypeOK'
  BY TypeStep DEF Wiring
<1>2. CASE UNCHANGED vars
  <2>1. /\ UNCHANGED <<page, pageMgr, interaction, sheets, screen, hooksSet, callback, nextId>>
        /\ UNCHANGED <<panel, panelMgr, bindings, policy, hud>>
    BY <1>2 DEF vars, windowVars, pageVars, panelVars, sharedVars
  <2>2. nextId' >= nextId /\ nextId' \in Nat
    BY <2>1 DEF TypeOK, Wiring
  <2> QED
    BY <1>1, <2>1, <2>2, PageKept, PanelKept DEF Wiring
<1>3. CASE Next
  <2>1. PagePart' /\ PanelPart'
    BY <1>3, WiringCalls, WiringPanel, WiringHooks, WiringPointer, WiringUpdate DEF Next
  <2> QED
    BY <1>1, <2>1 DEF Wiring
<1> QED
  BY <1>2, <1>3

LEMMA AlwaysWired == Spec => []Wiring
<1>1. Init => Wiring
  BY WiringInit, ApplicationAssumption
<1>2. Wiring /\ [Next]_vars => Wiring'
  BY WiringStep, ApplicationAssumption
<1> QED
  BY <1>1, <1>2, PTL DEF Spec

(* Managers and bindings belong to the documents of the moment, whatever   *)
(* order pages, style sheets and panels come and go in.                    *)
THEOREM ManagersStayWired == Spec => []ManagersWired
<1>1. Wiring => ManagersWired
  BY DEF Wiring, PagePart, PanelPart, ManagersWired
<1> QED
  BY <1>1, AlwaysWired, PTL

(* No callback into a page manager that has been replaced, while its       *)
(* successor is there.                                                     *)
THEOREM PageCallbackFollows == Spec => []NoStalePageCallback
<1>1. Wiring => NoStalePageCallback
  BY DEF Wiring, PagePart
<1> QED
  BY <1>1, AlwaysWired, PTL

(* A clean page manager that owns the callback shows the page of the       *)
(* moment, its style sheets and its interaction state.                     *)
THEOREM NoPageChangeLost == Spec => []CleanPageCurrent
<1>1. Wiring => CleanPageCurrent
  BY DEF Wiring, PagePart
<1> QED
  BY <1>1, AlwaysWired, PTL

(* Out of the panel's reach the canvas shows the page's list, across       *)
(* replacements of the manager and every partial repaint.                  *)
THEOREM PageStaysOnCanvas == Spec => []PageCellsExact
<1>1. Wiring => PageCellsExact
  BY DEF Wiring, PagePart
<1> QED
  BY <1>1, AlwaysWired, PTL

(* The embedder's hooks are on the page's manager exactly when set.        *)
THEOREM HooksStayOn == Spec => []HooksFollow
<1>1. Wiring => HooksFollow
  BY DEF Wiring, PagePart
<1> QED
  BY <1>1, AlwaysWired, PTL

(* The panel's bindings use the view's redaction policy; an unloaded panel *)
(* leaves the HUD visible.                                                 *)
THEOREM PolicyReachesPanel == Spec => []PanelInSync
<1>1. Wiring => PanelInSync
  BY DEF Wiring, PanelPart
<1> QED
  BY <1>1, AlwaysWired, PTL
=============================================================================
