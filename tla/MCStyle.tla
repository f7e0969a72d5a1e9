------------------------------ MODULE MCStyle ------------------------------
(* Styles for TLC, each part on its own: boxes that animate                *)
(* (UpdateManager), style sheets and the cascade (CssParser, CssCascade),  *)
(* pages laid out (Layout). A behaviour is one part at work while the      *)
(* others rest as they began.                                              *)
EXTENDS MCUpdateManager, CssCascade, MCLayout

MCFolded == ("RED" :> "red")
MCHexDigits == (<<"f00">> :> <<15, 0, 0>> @@ <<"00ff0080">> :> <<0, 0, 15, 15, 0, 0, 8, 0>>)

Taking(text, takes) == [text |-> text, means |-> <<>>, takes |-> takes]
Piece(text, means) == [text |-> text, means |-> means, takes |-> "nothing"]
TextOf(pieces) == FlattenSeq([k \in 1 .. Len(pieces) |-> pieces[k].text])

Red  == Color(<<255, 0, 0, 255>>)
Blue == Color(<<0, 0, 255, 255>>)
D(prop, value) == Decl(prop, value, FALSE)
Sides4(name, v1, v2) ==
  <<D(SidesOf[name][1], v1), D(SidesOf[name][2], v2), D(SidesOf[name][3], v1), D(SidesOf[name][4], v2)>>

(* Declarations, good and bad, with their semicolons. *)
Declarations ==
  {Piece(<<"color", ":", "RED", ";">>, <<D("color", Red)>>),
   Piece(<<" ", "color", " ", ":", " ", "blue", "!", "important", " ", ";">>,
         <<Decl("color", Blue, TRUE)>>),
   Piece(<<"color", ":", "#", "f00", ";", "/", "*", "}", "*", "/">>, <<D("color", Red)>>),
   Piece(<<"color", ":", "inherit", ";">>, <<D("color", Whole("inherit"))>>),
   Piece(<<"width", ":", "1", "0", ".", "5", "px", ";">>, <<D("width", Length(105, "px"))>>),
   Piece(<<"width", ":", "auto", "!", "important", ";">>, <<Decl("width", Whole("auto"), TRUE)>>),
   Piece(<<"margin", ":", "0", " ", "-", "1", "em", ";">>,
         Sides4("margin", Length(0, "px"), Length(-10, "em"))),
   Piece(<<"border", ":", "red", " ", "solid", ";">>,
         Sides4("border-style", Enum("solid"), Enum("solid")) \o Sides4("border-color", Red, Red)),
   Piece(<<"border-top", ":", "1", "px", " ", "none", ";">>,
         <<D("border-top-width", Length(10, "px")), D("border-top-style", Enum("none"))>>),
   Piece(<<"border-color", ":", "blue", " ", "red", "!", "important", ";">>,
         [k \in 1 .. 4 |-> Decl(SidesOf["border-color"][k], IF k \in {1, 3} THEN Blue ELSE Red, TRUE)]),
   Piece(<<"flex", ":", "1", " ", "0", " ", "0", ";">>,
         <<D("flex-grow", Number(10)), D("flex-shrink", Number(0)), D("flex-basis", Length(0, "px"))>>),
   Piece(<<"transition", ":", "opacity", " ", ".", "5", "s", " ", "linear", " ", "1", "0", "ms", ";">>,
         <<D("transition-property", Enum("opacity")), D("transition-duration", Number(5000)),
           D("transition-timing-function", Enum("linear")), D("transition-delay", Number(100))>>),
   Piece(<<"background-color", ":", "rgba", "(", "1", ",", "2", ",", "3", ",", "1", ")", ";">>,
         <<D("background-color", Color(<<1, 2, 3, 255>>))>>),
   Piece(<<"vertical-align", ":", "2", "px", ";">>, <<D("vertical-align", Length(20, "px"))>>),
   Piece(<<"z-index", ":", "-", "1", ".", "5", ";">>, <<D("z-index", Number(-15))>>),
   Taking(<<"width", ":", ";">>, "semicolon"),
   Taking(<<"margin", ":", " ", ";">>, "semicolon"),
   Taking(<<"color", " ", ";">>, "semicolon"),
   Taking(<<";">>, "semicolon"),
   Piece(<<"x", ":", "y", "{", "z", ";">>, <<>>),
   Piece(<<"width", ":", "red", " ", "red", ";">>, <<>>),
   Piece(<<"RED", " ", "1", ";">>, <<>>)}

Tag(t)  == Simple("tag", <<t>>, <<>>)
Cls(c)  == Simple("class", <<c>>, <<>>)
Alone(simples) == <<[simples |-> simples, comb |-> "none"]>>
Under(simples, comb, others) == Append(Alone(simples), [simples |-> others, comb |-> comb])

(* Selector lists and what they mean. *)
Selectors ==
  {Piece(<<"p">>, <<Alone(<<Tag("p")>>)>>),
   Piece(<<"*", " ">>, <<Alone(<<Simple("universal", <<>>, <<>>)>>)>>),
   Piece(<<"p", ".", "c", ",", " ", "#", "x">>,
         <<Alone(<<Tag("p"), Cls("c")>>), Alone(<<Simple("id", <<"x">>, <<>>)>>)>>),
   Piece(<<"#", "x", ",", "p">>, <<Alone(<<Simple("id", <<"x">>, <<>>)>>), Alone(<<Tag("p")>>)>>),
   Piece(<<"div", " ", ">", " ", ".", "c">>, <<Under(<<Cls("c")>>, "child", <<Tag("div")>>)>>),
   Piece(<<"div", " ", "p", " ">>, <<Under(<<Tag("p")>>, "descendant", <<Tag("div")>>)>>),
   Piece(<<"[", "k", "=", "\"", "v", "\"", "]", ":", "first-child">>,
         <<Alone(<<Simple("attribute", <<"k">>, <<"v">>), Simple("pseudo", <<"first-child">>, <<>>)>>)>>),
   Piece(<<"p", ":", "hover">>, <<Alone(<<Tag("p"), Simple("pseudo", <<"hover">>, <<>>)>>)>>)}

Rule(sels, decls) ==
  [text |-> sels.text \o <<"{">> \o TextOf(decls) \o <<"}", " ">>,
   rules |-> <<[sels |-> sels.means, decls |-> decls]>>]
(* What may stand between rules and is none. *)
Gap == [text |-> <<>>, rules |-> <<>>]
AtRule ==
  [Gap EXCEPT !.text = <<"@", "media", " ", "x", "{", "p", "{", "color", ":", "red", ";", "}", "}", " ">>]

Sheet(parts) ==
  [inline |-> FALSE, text |-> TextOf(parts), decls |-> <<>>,
   rules |-> FlattenSeq([k \in 1 .. Len(parts) |-> parts[k].rules])]
Inline(decls) == [inline |-> TRUE, text |-> TextOf(decls), decls |-> decls, rules |-> <<>>]

(* Last declarations, without one. *)
Unfinished ==
  {Piece(<<"width", ":", "RED">>, <<>>), Piece(<<"width", ":", "0">>, <<D("width", Length(0, "px"))>>)}
Unended == {Taking(<<"width", ":">>, "brace"), Taking(<<"color", " ">>, "brace")}
Colors == {d \in Declarations : d.means # <<>> /\ d.means[1].prop = "color"}

(* One rule with two declarations, which the inline style has the other    *)
(* way round; two rules that compete, with an at-rule between them or a    *)
(* sheet of their own, and an inline style; or a rule that takes its brace *)
(* before two others.                                                      *)
AnySelectors == CHOOSE s \in Selectors : TRUE
AnyColor == CHOOSE d \in Colors : TRUE
TextLists ==
  {<<Sheet(<<Rule(AnySelectors, <<d, e>>)>>), Inline(<<e, d>>)>> : d, e \in Declarations}
  \cup
  {<<Sheet(<<Rule(s, <<d>>), AtRule>>), Sheet(<<Rule(t, <<e>>)>>), Inline(<<>>)>> :
     s, t \in Selectors, d, e \in Colors}
  \cup
  {<<Sheet(<<Rule(s, <<d, u>>), m, Rule(s, <<e>>)>>), Inline(<<i>>)>> :
     s \in Selectors, d, e \in Colors, u \in Unfinished, m \in {AtRule, Gap}, i \in Colors}
  \cup
  {<<Sheet(<<Rule(AnySelectors, <<d, u>>), Rule(AnySelectors, e), Rule(AnySelectors, <<AnyColor>>)>>),
     Inline(<<d, AnyColor>> \o e)>> :
     d \in Declarations, u \in Unended,
     e \in {<<x, AnyColor>> : x \in Declarations} \cup {<<x>> : x \in Unended}}

(* div > (p.c#x > p.c, p) *)
StyledTree ==
  LET made == [EmptyTree EXCEPT !.made = 5]
  IN  AppendChild(AppendChild(AppendChild(AppendChild(made, Doc, 2), 2, 3), 3, 4), 2, 5)

Element(tag) == [Blank EXCEPT !.kind = "element", !.tag = tag]
StyledContent ==
  [EmptyContent EXCEPT
     ![2] = [Element("div") EXCEPT !.attrs = <<[name |-> "k", value |-> "v"]>>],
     ![3] = [Element("p") EXCEPT !.id = "x", !.classes = <<"c">>],
     ![4] = [Element("p") EXCEPT !.classes = <<"c">>],
     ![5] = Element("p")]
MCPointed == [hover |-> 4, active |-> NoNode, focus |-> 3]

VARIABLE part

frameVars == vars
styleVars == <<part, frameVars, css, page, domVars>>

StyleInit ==
  /\ tree = StyledTree /\ content = StyledContent
  /\ \/ part = "frames" /\ Init /\ CssInit({<<>>}) /\ LayoutInit(EmptyPage)
     \/ /\ part \in {"css", "layout"}
        /\ Init /\ resolved = [x \in Boxes |-> CHOOSE style \in AnimatedStyles[x] : TRUE]
        /\ \/ part = "css" /\ CssInit(TextLists) /\ LayoutInit(EmptyPage)
           \/ part = "layout" /\ CssInit({<<>>}) /\ AnyPage

StyleNext ==
  /\ part' = part /\ UNCHANGED domVars
  /\ \/ part = "frames" /\ Next /\ UNCHANGED <<css, page>>
     \/ part = "css" /\ CssNext /\ UNCHANGED <<frameVars, page>>
     \/ part = "layout" /\ LayoutNext /\ UNCHANGED <<frameVars, css>>

StyleSpec == StyleInit /\ [][StyleNext]_styleVars /\ WF_vars(UpdateStep) /\ SF_vars(ClockTick)
=============================================================================
