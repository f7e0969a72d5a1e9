------------------------------- MODULE MCPage -------------------------------
(* The page's parts for TLC, each on its own: frames (UpdateManager), the  *)
(* script with its bindings (DomBindings), the HTML parser (HtmlParser).   *)
(* A behaviour is one part at work while the others rest as they began.    *)
EXTENDS MCUpdateManager, DomBindings, HtmlParser

MCCharRefs == ("#60" :> "<")

(* Texts are three of these pieces one after another, or one of the longer *)
(* ones.                                                                   *)
Pieces ==
  {<<"<", "p", ">">>, <<"<", "/", "p", ">">>, <<"<", "div">>, <<">">>, <<"/", ">">>,
   <<"<", "br", ">">>, <<" ", "class", "=", "x">>, <<" ", "id", "=", "\"">>,
   <<"\"">>, <<"&", "lt", ";">>, <<"&", "#60", ";", "x">>, <<"<">>, <<"x">>,
   <<"<", "!", "-", "-">>, <<"-", "-", ">">>, <<"<", "script", ">">>}

LongTexts ==
  {<<"<", "ul", ">", "<", "li", ">", "x", "<", "li", ">", "<", "p", ">", "<", "div", ">",
     "<", "/", "ul", ">", "x">>,
   <<"<", "!", "DOCTYPE", " ", "html", ">", "<", "p", " ", "class", "=", "\"", "x", " ", "w",
     " ", "x", "\"", " ", "id", "=", "\"", "a", "&", "quot", ";", "b", "\"", "/", ">", "x">>,
   <<"<", "div", " ", "style", "=", "\"", "w", " ", "w", " ", "v", "\"", " ", "id", "=", "a",
     " ", "id", "=", "b", ">", "x">>,
   <<"<", "div", " ", "style", "=", "\"", "w", " ", "javascript:", "\"", ">", "x">>,
   <<"<", "script", ">", "x", "<", "p", ">", "<", "/", "script", ">", "<", "y", ">">>,
   <<"<", "p", " ", "id", "=", "\"", "\"", " ", "class", "=", "\"", "\"", ">", "x">>,
   <<"<", "a", "<", "b", "/", "/", ">", "<", "/", "-", ">", "<", "x">>}

Texts == {a1 \o a2 \o a3 : a1, a2, a3 \in Pieces} \cup LongTexts

(* div#a > (div#b, "text") *)
PageTree ==
  LET made == [EmptyTree EXCEPT !.made = 4]
  IN  AppendChild(AppendChild(AppendChild(made, Doc, 2), 2, 3), 2, 4)

PageContent ==
  [EmptyContent EXCEPT ![2] = [Blank EXCEPT !.kind = "element", !.id = "a"],
                       ![3] = [Blank EXCEPT !.kind = "element", !.id = "b"],
                       ![4] = [Blank EXCEPT !.kind = "text"]]

MCParsed == {<<[name |-> "color", value |-> 1], [name |-> "width", value |-> 1]>>}

Item(kind, id, depth) == [kind |-> kind, id |-> id, depth |-> depth]
MCFragments == {<<>>, <<Item("element", "b", 1), Item("comment", "", 2), Item("text", "", 2),
                        Item("text", "", 1)>>}

(* The instance is one the proof of ScreenExact is about.                  *)
ASSUME MixedStylesSteady == SteadyLists

VARIABLE part

frameVars == vars
pageVars == <<part, frameVars, domVars, html, bindingVars>>

AtRest == Init /\ resolved = [x \in Boxes |-> CHOOSE style \in MixedStyles[x] : TRUE]

PageInit ==
  \/ part = "frames" /\ Init /\ DomInit /\ HtmlIdle /\ BindingsInit
  \/ part = "html" /\ AtRest /\ HtmlInit(Texts) /\ BindingsInit
  \/ part = "script" /\ AtRest /\ tree = PageTree /\ content = PageContent
     /\ HtmlIdle /\ BindingsInit

PageNext ==
  /\ part' = part
  /\ \/ part = "frames" /\ Next /\ UNCHANGED <<domVars, html, bindingVars>>
     \/ part = "html" /\ HtmlNext /\ UNCHANGED <<frameVars, bindingVars>>
     \/ part = "script" /\ BindingsNext /\ UNCHANGED <<frameVars, html>>

PageSpec == PageInit /\ [][PageNext]_pageVars /\ HtmlFair
=============================================================================
