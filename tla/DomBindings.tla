---------------------------- MODULE DomBindings ----------------------------
(***************************************************************************)
(* A page's script: DomBindings, the event manager's listeners and the     *)
(* dispatch of an event to handlers that call back into both.              *)
(*                                                                         *)
(* Script runs at the top level or inside a handler; a handler is any      *)
(* sequence of calls until it returns. `em` is the event manager, `js` the *)
(* bindings' InstanceData, `disp` the Dispatch under way.                  *)
(*                                                                         *)
(* A handler that removes what the dispatcher iterates leaves it with a    *)
(* pointer to freed memory: `torn`. What a build then does is left open:   *)
(* the loop goes on, or ends, or the program stops (`crashed`).            *)
(***************************************************************************)
EXTENDS Dom, SequencesExt

CONSTANTS
  HostNodes,   \* elements the embedder listens on
  Functions,   \* JS functions the page uses as handlers
  JsNames,     \* event names it uses
  Ids,         \* ids it looks up or assigns
  Parsed,      \* what texts it assigns to style properties parse to
  Fragments,   \* texts it assigns to innerHTML, parsed: nodes in document order
  MaxTokens,   \* bound on the listeners ever added
  MaxBinds,    \* bound on the calls of Bind
  MaxOps       \* bound on the calls script makes

Fragment == [kind : {"element", "text", "comment"}, id : Ids \cup {""}, depth : Nat]

ASSUME FunctionsAssumption == "host" \notin Functions
ASSUME FragmentsAssumption == Fragments \subseteq Seq(Fragment)

VARIABLES em, js, disp, ops

bindingVars == <<em, js, disp, ops>>

(* MapJsEventName: `click` is another name of `pointerup`. *)
EventName == [pointerdown |-> "down", pointerup |-> "up", pointermove |-> "move",
              keydown |-> "keydown", keyup |-> "keyup", touchstart |-> "touchstart",
              touchend |-> "touchend", touchmove |-> "touchmove", focusin |-> "focusin",
              focusout |-> "focusout", click |-> "up", mousedown |-> "down",
              mouseup |-> "up", mousemove |-> "move"]

KnownNames == JsNames \cap DOMAIN EventName
EventTypes == {EventName[n] : n \in KnownNames}

NoDispatch == [stage |-> "idle", type |-> "", path |-> <<>>, at |-> 0, i |-> 0,
               token |-> 0, fn |-> "", torn |-> FALSE, last |-> <<0, 0>>, called |-> {}]

NewManager == [alive |-> TRUE, listeners |-> Everywhere(<<>>), token |-> 1, observed |-> FALSE]

Unbound == [bound |-> FALSE, em |-> FALSE, els |-> {}, entries |-> <<>>, tracked |-> {},
            refs |-> {}, inner |-> <<>>, todo |-> <<>>, clearing |-> FALSE,
            binds |-> 0, carried |-> FALSE]

BindingsInit ==
  /\ em = NewManager /\ js = Unbound /\ disp = NoDispatch /\ ops = 0
----------------------------------------------------------------------------
(* EventDispatcher.                                                        *)

AddEventListener(m, el, type, fn, capture) ==
  [m EXCEPT !.listeners[el] = Append(@, [type |-> type, fn |-> fn, capture |-> capture,
                                         token |-> m.token]),
            !.token = @ + 1]

RemoveEventListeners(m, el) == [m EXCEPT !.listeners[el] = <<>>]

RemoveEventListenerByToken(m, el, token) ==
  LET at == {i \in 1 .. Len(m.listeners[el]) : m.listeners[el][i].token = token}
  IN  IF at = {} THEN m ELSE [m EXCEPT !.listeners[el] = RemoveAt(@, FirstOf(at))]

(* The element and those it is in, the document last. *)
PathFrom(el) ==
  LET up[n \in Ref] == IF n = NoNode THEN <<>> ELSE <<n>> \o up[tree.parent[n]]
  IN  up[el]

Running == disp.token # 0
Crashed == disp.stage = "crashed"
Element == disp.path[disp.at]

(* An input event is dispatched to the element hit in the last layout,     *)
(* which script may have taken out of the tree since. The path is settled  *)
(* here: the tree may change while it is walked.                           *)
BeginDispatch(target, type) ==
  /\ disp.stage = "idle" /\ js.inner = <<>> /\ em.alive
  /\ IsElement(target)
  /\ LET path == PathFrom(target)
     IN  disp' = [NoDispatch EXCEPT !.path = path, !.type = type, !.i = 1,
                    !.at = Len(path),
                    !.stage = IF Len(path) > 1 THEN "capture" ELSE "target capture"]
  /\ UNCHANGED <<domVars, em, js, ops>>

(* A loop that does not look at use_capture. *)
WantedInAnyStage ==
  {i \in disp.i .. Len(em.listeners[Element]) : em.listeners[Element][i].type = disp.type}

(* The listeners of the element that FireListeners still comes to. *)
Wanted ==
  LET s == em.listeners[Element]
  IN  {i \in disp.i .. Len(s) : /\ s[i].type = disp.type
                                /\ s[i].capture <=> disp.stage \in {"capture", "target capture"}}

(* How far the dispatch has come: elements and stages in order. *)
Progress ==
  CASE disp.stage = "capture"        -> Len(disp.path) - disp.at
    [] disp.stage = "target capture" -> Len(disp.path)
    [] disp.stage = "target"         -> Len(disp.path) + 1
    [] OTHER                         -> Len(disp.path) + disp.at

Firing == disp.stage \notin {"idle", "crashed"} /\ ~Running /\ js.inner = <<>>

CallHandler ==
  /\ Firing /\ Wanted # {}
  /\ LET i == FirstOf(Wanted)
         l == em.listeners[Element][i]
     IN  disp' = [disp EXCEPT !.i = i + 1, !.token = l.token, !.fn = l.fn,
                              !.last = <<Progress, l.token>>, !.called = @ \cup {l.token}]
  /\ UNCHANGED <<domVars, em, js, ops>>

(* The next element or stage, when the listeners of this one are done. *)
NextStage(d) ==
  CASE d.stage = "capture" /\ d.at > 2  -> [d EXCEPT !.at = @ - 1, !.i = 1]
    [] d.stage = "capture" /\ d.at <= 2 -> [d EXCEPT !.at = 1, !.i = 1, !.stage = "target capture"]
    [] d.stage = "target capture"       -> [d EXCEPT !.i = 1, !.stage = "target"]
    [] d.stage \in {"target", "bubble"} /\ d.at < Len(d.path) ->
         [d EXCEPT !.at = @ + 1, !.i = 1, !.stage = "bubble"]
    [] OTHER                            -> NoDispatch

ListenersDone ==
  /\ Firing /\ Wanted = {}
  /\ disp' = NextStage(disp)
  /\ UNCHANGED <<domVars, em, js, ops>>

(* Only a host handler can stop the propagation: script gets an object     *)
(* with the event's type and nothing else.                                 *)
HandlerReturns ==
  /\ Running /\ js.inner = <<>> /\ ~Crashed
  /\ LET back == [disp EXCEPT !.token = 0, !.torn = FALSE]
     IN  \/ disp' = back
         \/ disp.fn = "host" /\ disp' = NoDispatch
         \/ disp.torn /\ disp' = NextStage(back)
         \/ disp.torn /\ disp' = [NoDispatch EXCEPT !.stage = "crashed"]
  /\ UNCHANGED <<domVars, em, js, ops>>

(* What a change of the listeners does to the dispatch that runs: the      *)
(* closure that runs is destroyed, or the vector it was found in is.       *)
Tears(m) ==
  /\ Running
  /\ \A i \in 1 .. Len(m.listeners[Element]) : m.listeners[Element][i].token # disp.token

TornBy(m) == disp' = IF Tears(m) THEN [disp EXCEPT !.torn = TRUE] ELSE disp
----------------------------------------------------------------------------
(* Bindings.                                                               *)

(* Tears down the listeners before it frees the functions they call. The   *)
(* entries stay, with the tokens of the manager that is let go.            *)
Forgotten(b) ==
  [b EXCEPT !.bound = FALSE, !.em = FALSE, !.els = {}, !.tracked = {}, !.refs = {}]

WithoutListeners(m, els) ==
  [m EXCEPT !.listeners = [n \in DomNodes |-> IF n \in els THEN <<>> ELSE @[n]]]

(* The functions are freed with the listeners of the manager in place. *)
ReleaseObserverOnly(m, b) == IF b.em THEN [m EXCEPT !.observed = FALSE] ELSE m

Release(m, b) ==
  IF b.em THEN [WithoutListeners(m, b.els) EXCEPT !.observed = FALSE] ELSE m

Quiet == disp.stage = "idle" /\ js.inner = <<>>

Bind ==
  /\ Quiet /\ em.alive /\ js.binds < MaxBinds
  /\ em' = [Release(em, js) EXCEPT !.observed = TRUE]
  /\ js' = [Forgotten(js) EXCEPT !.bound = TRUE, !.em = TRUE, !.binds = @ + 1,
                               !.carried = @ \/ js.entries # <<>>]
  /\ UNCHANGED <<domVars, disp, ops>>

Unbind ==
  /\ Quiet /\ js.bound
  /\ em' = Release(em, js)
  /\ js' = Forgotten(js)
  /\ UNCHANGED <<domVars, disp, ops>>

(* The manager goes first; its observer makes the bindings forget it. *)
DestroyManager ==
  /\ Quiet /\ em.alive
  /\ em' = [NewManager EXCEPT !.alive = FALSE]
  /\ js' = IF em.observed THEN [js EXCEPT !.em = FALSE, !.els = {}] ELSE js
  /\ UNCHANGED <<domVars, disp, ops>>

CreateManager ==
  /\ Quiet /\ ~em.alive /\ js.binds < MaxBinds
  /\ em' = NewManager
  /\ UNCHANGED <<domVars, js, disp, ops>>

(* Embedders add listeners of their own, and may ask for the capture       *)
(* phase.                                                                  *)
HostAddsListener(el, type, capture) ==
  /\ Quiet /\ em.alive /\ em.token <= MaxTokens
  /\ el \in Made /\ IsElement(el)
  /\ \A n \in DomNodes : \A i \in 1 .. Len(em.listeners[n]) : em.listeners[n][i].fn # "host"
  /\ em' = AddEventListener(em, el, type, "host", capture)
  /\ UNCHANGED <<domVars, js, disp, ops>>
----------------------------------------------------------------------------
(* Calls of the page's script.                                             *)

ScriptRuns ==
  /\ js.bound /\ js.inner = <<>> /\ ops < MaxOps
  /\ disp.stage = "idle" \/ (Running /\ disp.fn # "host")

Call == ScriptRuns /\ ops' = ops + 1

(* FindElementById: the first element in document order. *)
Below(n) ==
  LET order[k \in Ref] ==
        IF k = NoNode THEN <<>> ELSE <<k>> \o order[tree.first[k]] \o order[tree.next[k]]
  IN  <<n>> \o order[tree.first[n]]

FindElementById(id) ==
  LET order == Below(Doc)
      having == {n \in Made : IsElement(n) /\ content[n].id = id}
      found == {i \in 1 .. Len(order) : order[i] \in having}
  IN  IF found = {} THEN NoNode ELSE order[FirstOf(found)]

DocGetElementById(id) ==
  /\ Call
  /\ js' = [js EXCEPT !.refs = @ \cup ({FindElementById(id)} \ {NoNode})]
  /\ UNCHANGED <<domVars, em, disp>>

(* A snapshot of the element children. *)
ElementGetChildren(el) ==
  /\ Call /\ el \in js.refs
  /\ LET kids == ChildrenOf(tree, el)
     IN  js' = [js EXCEPT !.refs = @ \cup {n \in Made : IsElement(n) /\ Contains(kids, n)}]
  /\ UNCHANGED <<domVars, em, disp>>

(* The first text child is changed; without one nothing happens. *)
ElementSetTextContent(el, text) ==
  /\ Call /\ el \in js.refs
  /\ LET texts == SelectSeq(ChildrenOf(tree, el), IsText)
     IN  content' = IF texts = <<>> THEN content ELSE [content EXCEPT ![texts[1]].data = text]
  /\ UNCHANGED <<tree, em, js, disp>>

(* Neither id() nor classes() follow the attribute. *)
ElementSetAttribute(el, name, value) ==
  /\ Call /\ el \in js.refs
  /\ content' = [content EXCEPT ![el] = SetAttribute(@, name, value)]
  /\ UNCHANGED <<tree, em, js, disp>>

(* The value is parsed as a declaration list, and every declaration found  *)
(* is assigned, whatever property it names.                                *)
StyleSetProp(el, decls) ==
  /\ Call /\ el \in js.refs
  /\ LET assign[i \in 0 .. Len(decls)] ==
           IF i = 0 THEN content[el]
           ELSE SetInlineDeclaration(assign[i - 1], decls[i].name, decls[i].value)
     IN  content' = [content EXCEPT ![el] = assign[Len(decls)]]
  /\ UNCHANGED <<tree, em, js, disp>>

ElementAddEventListener(el, name, fn) ==
  /\ Call /\ el \in js.refs
  /\ IF js.em /\ name \in DOMAIN EventName
     THEN /\ em.token <= MaxTokens
          /\ em' = AddEventListener(em, el, EventName[name], fn, FALSE)
          /\ js' = [js EXCEPT
                      !.tracked = @ \cup {fn}, !.els = @ \cup {el},
                      !.entries = Append(@, [el |-> el, type |-> EventName[name], fn |-> fn,
                                             token |-> em.token, bind |-> js.binds])]
          /\ \/ disp' = disp
             \/ /\ Running /\ em.listeners[el] = <<>>  \* the table may grow
                /\ disp' = [disp EXCEPT !.torn = TRUE]
     ELSE UNCHANGED <<em, js, disp>>
  /\ UNCHANGED domVars

(* The last entry goes, whichever was meant. *)
DropLastEntry(entries, i) == SubSeq(entries, 1, Len(entries) - 1)

(* DropJsEntry: the last entry takes the place of the dropped one. *)
DropJsEntry(entries, i) ==
  SubSeq([entries EXCEPT ![i] = entries[Len(entries)]], 1, Len(entries) - 1)

MaybeForgetElement(b, el) ==
  IF \E i \in 1 .. Len(b.entries) : b.entries[i].el = el THEN b
  ELSE [b EXCEPT !.els = @ \ {el}]

(* An entry that matches leaves with its listener. *)
DropIfMatching(m, b, el, types, i) ==
  LET e == b.entries[i]
  IN  IF e.el = el /\ e.type \in types
      THEN <<RemoveEventListenerByToken(m, el, e.token), [b EXCEPT !.entries = DropJsEntry(@, i)]>>
      ELSE <<m, b>>

(* From the last entry down. *)
DropMatching(m, b, el, types) ==
  LET n == Len(b.entries)
      left[i \in 0 .. n] ==
        IF i = 0 THEN <<m, b>>
        ELSE DropIfMatching(left[i - 1][1], left[i - 1][2], el, types, n - i + 1)
  IN  left[n]

Dropped(m, b, el, types) ==
  LET left == DropMatching(m, b, el, types)
  IN  <<left[1], MaybeForgetElement(left[2], el)>>

ElementRemoveEverything(el) ==
  /\ Call /\ el \in js.refs /\ js.em
  /\ LET left == Dropped(em, js, el, {EventName[n] : n \in DOMAIN EventName})
         m    == RemoveEventListeners(left[1], el)
     IN  em' = m /\ js' = left[2] /\ TornBy(m)
  /\ UNCHANGED domVars

ElementRemoveType(el, name) ==
  /\ Call /\ el \in js.refs /\ js.em /\ name \in DOMAIN EventName
  /\ LET left == Dropped(em, js, el, {EventName[name]})
     IN  em' = left[1] /\ js' = left[2] /\ TornBy(left[1])
  /\ UNCHANGED domVars

Matching(el, name, fn) ==
  {i \in 1 .. Len(js.entries) : /\ js.entries[i].el = el /\ js.entries[i].fn = fn
                                /\ js.entries[i].type = EventName[name]}

ElementRemoveEventListener(el, name, fn) ==
  /\ Call /\ el \in js.refs /\ js.em /\ name \in DOMAIN EventName
  /\ IF Matching(el, name, fn) = {} THEN UNCHANGED <<em, js, disp>>
     ELSE LET i == FirstOf(Matching(el, name, fn))
              m == RemoveEventListenerByToken(em, el, js.entries[i].token)
          IN  /\ em' = m
              /\ js' = MaybeForgetElement([js EXCEPT !.entries = DropJsEntry(@, i)], el)
              /\ TornBy(m)
  /\ UNCHANGED domVars
----------------------------------------------------------------------------
(* innerHTML: the children are taken out, then the parsed fragment is      *)
(* cloned node by node (CloneNodeInto). `inner` is the element and the     *)
(* clones still open below it, `todo` what is left of the fragment: nodes  *)
(* with their depth.                                                       *)

ElementSetInnerHTML(el, fragment) ==
  /\ Call /\ el \in js.refs
  /\ tree.made + Len(fragment) <= MaxNodes
  /\ js' = [js EXCEPT !.inner = <<el>>, !.todo = fragment, !.clearing = TRUE]
  /\ UNCHANGED <<domVars, em, disp>>

Open  == js.inner[Len(js.inner)]
Inner == js.inner # <<>> /\ UNCHANGED <<em, disp, ops>>

(* Taken out, not freed: references to the children stay valid. *)
ClearChild ==
  /\ Inner /\ js.clearing
  /\ IF tree.first[Open] = NoNode
     THEN js' = [js EXCEPT !.clearing = FALSE] /\ UNCHANGED tree
     ELSE tree' = RemoveChild(tree, Open, tree.first[Open]) /\ UNCHANGED js
  /\ UNCHANGED content

Cloning(kinds) ==
  /\ Inner /\ ~js.clearing /\ js.todo # <<>>
  /\ Head(js.todo).depth = Len(js.inner) /\ Head(js.todo).kind \in kinds

CloneElement ==
  /\ Cloning({"element"})
  /\ LET new == tree.made + 1
     IN  /\ tree' = CreateNode(tree)
         /\ content' = [content EXCEPT ![new] =
                          [Blank EXCEPT !.kind = "element", !.id = Head(js.todo).id]]
         /\ js' = [js EXCEPT !.inner = Append(@, new), !.todo = Tail(@)]

(* A clone is appended and stays open. *)
CloseCloneKeepingOpen ==
  /\ Inner /\ ~js.clearing /\ Len(js.inner) > 1
  /\ js.todo = <<>> \/ Head(js.todo).depth < Len(js.inner)
  /\ tree' = AppendChild(tree, js.inner[Len(js.inner) - 1], Open)
  /\ UNCHANGED <<js, content>>

(* Its children done, a clone is appended to the clone of its parent. *)
CloseClone ==
  /\ Inner /\ ~js.clearing /\ Len(js.inner) > 1
  /\ js.todo = <<>> \/ Head(js.todo).depth < Len(js.inner)
  /\ tree' = AppendChild(tree, js.inner[Len(js.inner) - 1], Open)
  /\ js' = [js EXCEPT !.inner = SubSeq(@, 1, Len(@) - 1)]
  /\ UNCHANGED content

CloneText ==
  /\ Cloning({"text"})
  /\ LET new == tree.made + 1
     IN  /\ tree' = AppendChild(CreateNode(tree), Open, new)
         /\ content' = [content EXCEPT ![new].kind = "text"]
         /\ js' = [js EXCEPT !.todo = Tail(@)]

SkipComment ==
  /\ Cloning({"comment"})
  /\ js' = [js EXCEPT !.todo = Tail(@)] /\ UNCHANGED domVars

InnerDone ==
  /\ Inner /\ ~js.clearing /\ js.todo = <<>> /\ Len(js.inner) = 1
  /\ js' = [js EXCEPT !.inner = <<>>] /\ UNCHANGED domVars
----------------------------------------------------------------------------
ScriptCalls ==
  \/ \E id \in Ids : DocGetElementById(id)
  \/ \E el \in js.refs :
       \/ ElementGetChildren(el)
       \/ ElementSetTextContent(el, <<"t">>)
       \/ \E id \in Ids : ElementSetAttribute(el, "id", id)
       \/ \E decls \in Parsed : StyleSetProp(el, decls)
       \/ \E fragment \in Fragments : ElementSetInnerHTML(el, fragment)
       \/ ElementRemoveEverything(el)
       \/ \E name \in JsNames :
            \/ ElementRemoveType(el, name)
            \/ \E fn \in Functions : \/ ElementAddEventListener(el, name, fn)
                                     \/ ElementRemoveEventListener(el, name, fn)

InnerSteps ==
  ClearChild \/ CloneElement \/ CloseClone \/ CloneText \/ SkipComment \/ InnerDone

DispatchSteps ==
  \/ \E target \in Made, type \in EventTypes : BeginDispatch(target, type)
  \/ CallHandler \/ HandlerReturns \/ ListenersDone

HostCalls ==
  \/ Bind \/ Unbind \/ DestroyManager \/ CreateManager
  \/ \E el \in HostNodes, type \in EventTypes, capture \in BOOLEAN : HostAddsListener(el, type, capture)

BindingsNext == ~Crashed /\ (ScriptCalls \/ InnerSteps \/ DispatchSteps \/ HostCalls)
----------------------------------------------------------------------------
(* A dispatch calls handlers in the order of its stages and elements, on   *)
(* one element in the order they were added, and none twice, however the   *)
(* handlers change the lists meanwhile (event_dispatcher.cc:72).           *)
DispatchOrdered ==
  [][~Running /\ disp'.token # 0 =>
       /\ disp'.token \notin disp.called
       /\ \/ disp'.last[1] > disp.last[1]
          \/ disp'.last[1] = disp.last[1] /\ disp'.last[2] > disp.last[2]]_disp

(* A script function the event manager could call has not been freed: in   *)
(* whichever order bindings and manager are let go, listeners leave before *)
(* their functions do (dom_bindings.cc:1058).                              *)
CallbacksAlive ==
  \A n \in DomNodes : \A i \in 1 .. Len(em.listeners[n]) :
    em.listeners[n][i].fn \in js.tracked \cup {"host"}

(* The bindings' record of listeners is that of the event manager, so that *)
(* removeEventListener finds what addEventListener added; provided no      *)
(* entry of an earlier binding was left, whose token may by now be that of *)
(* another listener (Unbind does not clear js_listener_entries).           *)
EntriesExact ==
  js.em /\ ~js.carried =>
    {[el |-> js.entries[i].el, type |-> js.entries[i].type, fn |-> js.entries[i].fn,
      token |-> js.entries[i].token] : i \in 1 .. Len(js.entries)}
    = UNION {{[el |-> n, type |-> em.listeners[n][i].type, fn |-> em.listeners[n][i].fn,
               token |-> em.listeners[n][i].token]
                : i \in {k \in 1 .. Len(em.listeners[n]) : em.listeners[n][k].fn # "host"}}
               : n \in DomNodes}
=============================================================================
