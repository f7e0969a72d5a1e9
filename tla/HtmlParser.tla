---------------------------- MODULE HtmlParser ----------------------------
(***************************************************************************)
(* The HTML tokenizer and the tree builder on top of it, and the           *)
(* serializer whose output is parsed again.                                *)
(*                                                                         *)
(* A text is a sequence of symbols. A symbol is a character that means     *)
(* something to the tokenizer, or a word: a run of letters and digits that *)
(* it never takes apart. `html` is the Tokenizer (input, pos, start: where *)
(* the text not yet given out begins, inTag, entities, raw, tag) and the   *)
(* Parser (open: open_elements_, el: the element whose attributes are      *)
(* being read). One action takes one token.                                *)
(***************************************************************************)
EXTENDS Dom

CONSTANTS
  Words,       \* the words of the texts
  CharRefs,    \* numeric character references: word after `&` |-> symbol
  StyleWords,  \* words that are a declaration in a style attribute
  StyleBlacklist,   \* words with a keyword refused in a style attribute
  MaxStyle,    \* kInlineStyleMaxValueLength
  MaxDecls     \* kInlineStyleMaxDeclarationCount

VARIABLE html

htmlVars == <<domVars, html>>
----------------------------------------------------------------------------
(* Tags. *)

VoidTags == {"br", "hr", "col", "input", "img", "source", "meta", "link", "base",
             "area", "embed", "track", "wbr"}
RawTags  == {"style", "script"}
BlockTags == {"html", "body", "div", "section", "header", "footer", "nav", "main",
              "article", "aside", "p", "h1", "h2", "h3", "h4", "h5", "h6", "hr", "pre",
              "blockquote", "ul", "ol", "li", "dl", "dt", "dd", "caption", "form", "template"}
OtherTags == {"head", "span", "a", "em", "strong", "b", "i", "u", "s", "code", "table",
              "thead", "tbody", "tfoot", "tr", "td", "th", "colgroup", "button", "select",
              "option", "textarea", "label", "video", "canvas", "title", "slot"}
KnownTags == VoidTags \cup RawTags \cup BlockTags \cup OtherTags

(* Every other name is the one tag kUnknown. *)
TagIdFromName(name) == IF Len(name) = 1 /\ name[1] \in KnownTags THEN name[1] ELSE "unknown"

(* kImplicitCloseRules: what an open element is closed by. *)
ImplicitlyCloses(new, top) ==
  CASE top = "p"      -> new \in BlockTags
    [] top = "li"     -> new = "li"
    [] top \in {"dt", "dd"} -> new \in {"dt", "dd"}
    [] top \in {"td", "th"} -> new \in {"td", "th", "tr"}
    [] top = "tr"     -> new = "tr"
    [] top = "thead"  -> new \in {"tbody", "tfoot"}
    [] top = "tbody"  -> new \in {"tbody", "tfoot"}
    [] top = "tfoot"  -> new = "tbody"
    [] top = "head"   -> new = "body"
    [] top = "option" -> new = "option"
    [] OTHER          -> FALSE
----------------------------------------------------------------------------
(* Scanning. *)

Space == {" "}
NameChars == Words \cup {"-"}

At(s, i) == IF i \in 1 .. Len(s) THEN s[i] ELSE "end"
Cut(s, i, j) == SubSeq(s, i, j - 1)

(* The first place from i on whose symbol is in S, or the end. *)
Seek(s, i, S) == FirstOf({j \in i .. Len(s) : s[j] \in S} \cup {Len(s) + 1})

(* The first place from i on where the symbols in pattern follow. *)
SeekAll(s, i, pattern) ==
  FirstOf({j \in i .. Len(s) : \A k \in 1 .. Len(pattern) : At(s, j + k - 1) \in pattern[k]}
        \cup {Len(s) + 1})

Skip(s, i, S) ==
  FirstOf({j \in i .. Len(s) : s[j] \notin S} \cup {Len(s) + 1})

Token(type, name, value, entities) ==
  [type |-> type, name |-> name, value |-> value, entities |-> entities]
Bare(type) == Token(type, <<>>, <<>>, FALSE)

(* A token and the tokenizer after it. *)
Took(token, h) == [token |-> token, after |-> h]
MoveTo(h, p) == [h EXCEPT !.pos = p]

(* Text starts where the tag ended. *)
TextAt(h, p) == [h EXCEPT !.pos = p, !.start = p, !.entities = FALSE, !.inTag = FALSE]

FlushText(h, p, entities) ==
  Took(Token("text", <<>>, Cut(h.input, h.start, p), entities),
       [h EXCEPT !.pos = p, !.start = p, !.entities = FALSE])

(* Everything up to the end tag of the element is text. *)
ScanRawText(h) ==
  LET p == SeekAll(h.input, h.pos, <<{"<"}, {"/"}, {h.tag}, {">"} \cup Space>>)
  IN  Took(Token("text", <<>>, Cut(h.input, h.pos, p), FALSE),
           [h EXCEPT !.raw = FALSE, !.pos = p, !.start = p])

ScanEndTag(h, p) ==
  LET name == Skip(h.input, p, NameChars)
  IN  Took(Token("end tag", Cut(h.input, p, name), <<>>, FALSE),
           TextAt(h, Seek(h.input, name, {">"}) + 1))

(* A comment without an end is all the rest. *)
ScanComment(h, p) ==
  LET end == SeekAll(h.input, p, <<{"-"}, {"-"}, {">"}>>)
  IN  Took(Token("comment", <<>>, Cut(h.input, p, end), FALSE),
           [h EXCEPT !.pos = end + 3, !.start = end + 3])

ScanCommentOrDoctype(h, p) ==
  CASE At(h.input, p) = "-" /\ At(h.input, p + 1) = "-" -> ScanComment(h, p + 2)
    [] At(h.input, p) = "DOCTYPE" ->
         LET end == Seek(h.input, p, {">"}) + 1
         IN  Took(Bare("doctype"), [h EXCEPT !.pos = end, !.start = end])
    [] OTHER -> Took(Bare("error"), MoveTo(h, p))

(* Only the `<` is passed when no tag follows: it stays part of the text. *)
ScanTag(h, p) ==
  CASE At(h.input, p + 1) = "/" -> ScanEndTag(h, p + 2)
    [] At(h.input, p + 1) = "!" -> ScanCommentOrDoctype(h, p + 2)
    [] At(h.input, p + 1) \in Words ->
         LET end == Skip(h.input, p + 1, NameChars)
             name == Cut(h.input, p + 1, end)
         IN  Took(Token("start tag", name, <<>>, FALSE),
                  [h EXCEPT !.pos = end, !.inTag = TRUE, !.tag = TagIdFromName(name)])
    [] OTHER -> Took(Bare("error"), MoveTo(h, p + 1))

(* Quoted up to the quote, otherwise up to a space or `>`. *)
ScanAttrValue(s, p) ==
  IF At(s, p) = "\""
  THEN LET end == Seek(s, p + 1, {"\""}) IN [value |-> Cut(s, p + 1, end), end |-> end + 1]
  ELSE LET end == Seek(s, p, Space \cup {">"}) IN [value |-> Cut(s, p, end), end |-> end]

(* Something that is no name is passed, one symbol at a time. *)
AttributeErrorInPlace(h, p) == Took(Bare("error"), MoveTo(h, p))
AttributeError(h, p) == Took(Bare("error"), MoveTo(h, p + 1))

ScanAttribute(h, p) ==
  LET end  == Skip(h.input, p, NameChars)
      eq   == Skip(h.input, end, Space)
      name == Cut(h.input, p, end)
  IN  CASE end = p -> AttributeError(h, p)
        [] end # p /\ At(h.input, eq) # "=" ->
             Took(Token("attribute", name, <<>>, FALSE), MoveTo(h, eq))
        [] OTHER ->
             LET v == ScanAttrValue(h.input, Skip(h.input, eq + 1, Space))
             IN  Took(Token("attribute", name, v.value,
                            \E i \in 1 .. Len(v.value) : v.value[i] = "&"),
                      MoveTo(h, v.end))

(* At the end of the input inside a tag there is an error, again and again. *)
NextInTag(h) ==
  LET p == Skip(h.input, h.pos, Space)
  IN  CASE At(h.input, p) = "end" -> Took(Bare("error"), MoveTo(h, Len(h.input) + 1))
        [] At(h.input, p) = "/" /\ At(h.input, p + 1) = ">" ->
             Took(Bare("self closing"), TextAt(h, p + 2))
        [] At(h.input, p) = ">" ->
             Took(Bare("tag end"), [TextAt(h, p + 1) EXCEPT !.raw = h.tag \in RawTags])
        [] OTHER -> ScanAttribute(h, p)

NextInText(h) ==
  LET p == Seek(h.input, h.pos, {"<"})
      entities == h.entities \/ \E i \in h.pos .. p - 1 : h.input[i] = "&"
  IN  CASE p > h.start -> FlushText(h, p, entities)
        [] p <= h.start /\ p <= Len(h.input) -> ScanTag([h EXCEPT !.entities = entities], p)
        [] OTHER -> Took(Bare("eof"), MoveTo(h, p))

NextToken(h) ==
  CASE h.raw            -> ScanRawText(h)
    [] ~h.raw /\ h.inTag -> NextInTag(h)
    [] OTHER            -> NextInText(h)
----------------------------------------------------------------------------
(* Entities. An `&` that starts none is itself. *)

NamedEntity == [amp |-> "&", lt |-> "<", gt |-> ">", quot |-> "\"", apos |-> "'"]
EntityValue == [w \in DOMAIN NamedEntity \cup DOMAIN CharRefs |->
                  IF w \in DOMAIN CharRefs THEN CharRefs[w] ELSE NamedEntity[w]]

DecodeEntities(s) ==
  LET IsEntity(i) == /\ At(s, i) = "&" /\ At(s, i + 1) \in DOMAIN EntityValue
                     /\ At(s, i + 2) = ";"
      from[i \in 1 .. Len(s) + 3] ==
        CASE i > Len(s)  -> <<>>
          [] i <= Len(s) /\ IsEntity(i) -> <<EntityValue[s[i + 1]]>> \o from[i + 3]
          [] OTHER       -> <<s[i]>> \o from[i + 1]
  IN  from[1]

TokenText(token) == IF token.entities THEN DecodeEntities(token.value) ELSE token.value
----------------------------------------------------------------------------
(* The tree builder. *)

NewParser(text, round, first) ==
  [input |-> text, pos |-> 1, start |-> 1, inTag |-> FALSE, entities |-> FALSE, raw |-> FALSE,
   tag |-> "unknown", open |-> <<Doc>>, el |-> NoNode, done |-> FALSE,
   round |-> round, first |-> first]

HtmlIdle == html = NewParser(<<>>, 1, <<>>)
HtmlInit(texts) == DomInit /\ \E text \in texts : html = NewParser(text, 1, <<>>)

Current == html.open[Len(html.open)]
Upcoming   == NextToken(html)
InTree(type) == ~html.done /\ html.el = NoNode /\ Upcoming.token.type \in type

TagOf(n) == content[n].tag

(* HandleImplicitClose: elements at the top, while a rule closes them. *)
AfterImplicitClose(new) ==
  LET Stays(i) == i = 1 \/ ~ImplicitlyCloses(new, TagOf(html.open[i]))
  IN  SubSeq(html.open, 1, CHOOSE i \in 1 .. Len(html.open) :
               Stays(i) /\ \A j \in i + 1 .. Len(html.open) : ~Stays(j))

StartTag ==
  /\ InTree({"start tag"}) /\ tree.made < MaxNodes
  /\ LET tag == TagIdFromName(Upcoming.token.name)
     IN  /\ tree' = CreateNode(tree)
         /\ content' = [content EXCEPT ![tree.made + 1] =
                          [Blank EXCEPT !.kind = "element", !.tag = tag]]
         /\ html' = [Upcoming.after EXCEPT !.open = AfterImplicitClose(tag), !.el = tree.made + 1]

(* ApplyInlineStyleAttribute: refused as a whole, or cut to the limit. *)
WithInlineStyle(node, text) ==
  LET decls == SelectSeq(text, LAMBDA w : w \in StyleWords)
      refused == Len(text) > MaxStyle \/ \E i \in 1 .. Len(text) : text[i] \in StyleBlacklist
      upTo[i \in 0 .. MaxDecls] ==
        IF i = 0 THEN node
        ELSE IF i > Len(decls) THEN upTo[i - 1]
        ELSE SetInlineDeclaration(upTo[i - 1], decls[i], decls[i])
  IN  IF refused THEN node ELSE upTo[MaxDecls]

Attribute ==
  /\ ~html.done /\ html.el # NoNode /\ Upcoming.token.type = "attribute"
  /\ LET text == TokenText(Upcoming.token)
     IN  content' = [content EXCEPT ![html.el] =
           IF Upcoming.token.name = <<"style">> THEN WithInlineStyle(@, text)
           ELSE SetAttribute(@, Upcoming.token.name, text)]
  /\ html' = Upcoming.after
  /\ UNCHANGED tree

(* The id, unless it is empty, and the words of the class, each once. *)
WithClasses(node, text) ==
  LET upTo[i \in 0 .. Len(text)] ==
        IF i = 0 THEN node
        ELSE IF text[i] \in Space THEN upTo[i - 1] ELSE AddClass(upTo[i - 1], text[i])
  IN  upTo[Len(text)]

WithIdAndClasses(node) ==
  LET withId == IF HasAttribute(node, <<"id">>) /\ GetAttribute(node, <<"id">>) # <<>>
                THEN [node EXCEPT !.id = GetAttribute(node, <<"id">>)] ELSE node
  IN  IF HasAttribute(node, <<"class">>)
      THEN WithClasses(withId, GetAttribute(node, <<"class">>)) ELSE withId

(* The first token that is no attribute ends the tag; when it is an error  *)
(* the attributes after it are lost.                                       *)
StartTagEnds ==
  /\ ~html.done /\ html.el # NoNode /\ Upcoming.token.type # "attribute"
  /\ LET stays == TagOf(html.el) \notin VoidTags /\ Upcoming.token.type # "self closing"
     IN  html' = [Upcoming.after EXCEPT !.el = NoNode,
                    !.open = IF stays THEN Append(@, html.el) ELSE @]
  /\ content' = [content EXCEPT ![html.el] = WithIdAndClasses(@)]
  /\ tree' = AppendChild(tree, Current, html.el)

(* Closes everything above the innermost open element of that tag. *)
EndTag ==
  /\ InTree({"end tag"})
  /\ LET tag == TagIdFromName(Upcoming.token.name)
         opened == {i \in 2 .. Len(html.open) : TagOf(html.open[i]) = tag}
     IN  html' = [Upcoming.after EXCEPT !.open =
                    IF opened = {} THEN @
                    ELSE SubSeq(@, 1, (CHOOSE i \in opened : \A j \in opened : i >= j) - 1)]
  /\ UNCHANGED domVars

TextOrComment ==
  /\ InTree({"text", "comment"}) /\ tree.made < MaxNodes
  /\ tree' = AppendChild(CreateNode(tree), Current, tree.made + 1)
  /\ content' = [content EXCEPT ![tree.made + 1] =
                   [Blank EXCEPT !.kind = Upcoming.token.type, !.data = TokenText(Upcoming.token)]]
  /\ html' = Upcoming.after

(* Attributes and tag ends come here when an error ended their start tag. *)
Ignored ==
  /\ InTree({"doctype", "error", "attribute", "tag end", "self closing"})
  /\ html' = Upcoming.after
  /\ UNCHANGED domVars

ParsingDone ==
  /\ InTree({"eof"})
  /\ html' = [Upcoming.after EXCEPT !.done = TRUE]
  /\ UNCHANGED domVars
----------------------------------------------------------------------------
(* The serializer. *)

Escaped(s, value) ==
  LET upTo[i \in 0 .. Len(s)] ==
        IF i = 0 THEN <<>>
        ELSE upTo[i - 1] \o
             CASE s[i] = "&" -> <<"&", "amp", ";">>
               [] s[i] = "<" -> <<"&", "lt", ";">>
               [] s[i] = ">" -> <<"&", "gt", ";">>
               [] s[i] = "\"" /\ value -> <<"&", "quot", ";">>
               [] OTHER -> <<s[i]>>
  IN  upTo[Len(s)]

EscapeText(s)      == Escaped(s, FALSE)
EscapeAttrValueAsText(s) == Escaped(s, FALSE)
EscapeAttrValue(s) == Escaped(s, TRUE)

TagName(n) == IF TagOf(n) = "unknown" THEN <<>> ELSE <<TagOf(n)>>

SerializeAttributes(attrs) ==
  LET upTo[i \in 0 .. Len(attrs)] ==
        IF i = 0 THEN <<>>
        ELSE upTo[i - 1] \o <<" ">> \o attrs[i].name \o <<"=", "\"">>
               \o EscapeAttrValue(attrs[i].value) \o <<"\"">>
  IN  upTo[Len(attrs)]

(* A node around what its children are written as. *)
SerializeNode(n, children) ==
  CASE content[n].kind = "text"    -> EscapeText(content[n].data)
    [] content[n].kind = "comment" -> <<"<", "!", "-", "-">> \o content[n].data \o <<"-", "-", ">">>
    [] content[n].kind = "element" ->
         LET start == <<"<">> \o TagName(n) \o SerializeAttributes(content[n].attrs) \o <<">">>
         IN  IF TagOf(n) \in VoidTags THEN start
             ELSE start \o children \o <<"<", "/">> \o TagName(n) \o <<">">>

Serialize ==
  LET from[n \in Ref] ==
        IF n = NoNode THEN <<>>
        ELSE SerializeNode(n, from[tree.first[n]]) \o from[tree.next[n]]
  IN  from[tree.first[Doc]]

(* The tree as a value: the nodes in document order, each at its depth,    *)
(* with adjacent texts joined and empty ones left out.                     *)
Outline ==
  LET Item(n, depth) == [node |-> content[n], depth |-> depth]
      Textual(item) == item.node.kind = "text"
      Before(item, rest) ==
        CASE Textual(item) /\ item.node.data = <<>> -> rest
          [] Textual(item) /\ item.node.data # <<>> /\ rest # <<>> /\ Textual(rest[1]) ->
               <<[item EXCEPT !.node.data = @ \o rest[1].node.data]>> \o Tail(rest)
          [] OTHER -> <<item>> \o rest
      from[n \in Ref, depth \in 1 .. MaxNodes] ==
        IF n = NoNode THEN <<>>
        ELSE Before(Item(n, depth), from[tree.first[n], depth + 1] \o from[tree.next[n], depth])
  IN  from[tree.first[Doc], 1]

(* An outline whose elements have lost what their style attributes said:   *)
(* it is kept as declarations, and only attributes are written.            *)
Unstyled(outline) == [i \in DOMAIN outline |-> [outline[i] EXCEPT !.node.inline = <<>>]]

(* What the serializer has no writing for: the name of an unknown tag, and *)
(* escapes in raw text, which the tokenizer does not decode.               *)
Writable ==
  \A n \in 2 .. tree.made :
    /\ TagOf(n) # "unknown"
    /\ content[n].kind = "text" /\ TagOf(tree.parent[n]) \in RawTags =>
         \A i \in 1 .. Len(content[n].data) : content[n].data[i] \notin {"&", "<", ">"}

Reparse ==
  /\ html.done /\ html.round = 1 /\ Writable
  /\ html' = NewParser(Serialize, 2, Outline)
  /\ tree' = EmptyTree /\ content' = EmptyContent

HtmlNext ==
  \/ StartTag \/ Attribute \/ StartTagEnds \/ EndTag \/ TextOrComment \/ Ignored
  \/ ParsingDone \/ Reparse

HtmlFair == WF_htmlVars(HtmlNext)
----------------------------------------------------------------------------
StuckInTag == html.inTag /\ html.pos > Len(html.input)

(* A tree written by the serializer is parsed back to the same tree but    *)
(* for the style attributes, which are lost with all they said; nothing    *)
(* else of any node is, and what is written is never cut inside a tag.     *)
RoundTrip ==
  html.round = 2 => /\ ~StuckInTag
                    /\ html.done => Outline = Unstyled(html.first)

(* Parsing ends, or comes to the end of the input inside a tag, which is   *)
(* the one place DoParse never leaves (tokenizer.cc:94, parser.cc:103).    *)
ParsingEnds == (html.input # <<>>) ~> (html.done \/ StuckInTag)
=============================================================================
