------------------------------ MODULE CssParser ------------------------------
(* Style sheets and inline styles: vx::css::CssParser, with the property   *)
(* table and the enumerations of property.cc and enums.h.                  *)
(*                                                                         *)
(* The parser's position is a place `i` in the tokens `ts`; an operator    *)
(* that consumes tokens gives the place behind them as `at`. One step of   *)
(* the specification is one turn of the loop of DoParse or of              *)
(* DoParseDeclarations, recovery from a bad declaration included.          *)
(***************************************************************************)
EXTENDS CssTokenizer

CONSTANTS
  Folded,     \* words with capitals, and their lower case
  HexDigits   \* the digits of the words that colours are written with

VARIABLE css

LowerOf(w) == IF w \in DOMAIN Folded THEN Folded[w] ELSE w
----------------------------------------------------------------------------
(* Properties.                                                             *)

BoxShorthands == {"margin", "padding", "border-width", "border-style", "border-color"}
SidesOf ==
  [name \in BoxShorthands |->
     CASE name = "margin"  -> <<"margin-top", "margin-right", "margin-bottom", "margin-left">>
       [] name = "padding" -> <<"padding-top", "padding-right", "padding-bottom", "padding-left">>
       [] name = "border-width" -> <<"border-top-width", "border-right-width",
                                     "border-bottom-width", "border-left-width">>
       [] name = "border-style" -> <<"border-top-style", "border-right-style",
                                     "border-bottom-style", "border-left-style">>
       [] name = "border-color" -> <<"border-top-color", "border-right-color",
                                     "border-bottom-color", "border-left-color">>]

(* The width, the style and the colour of one side. *)
BorderOf ==
  [name \in {"border-top", "border-right", "border-bottom", "border-left"} |->
     CASE name = "border-top"    -> <<"border-top-width", "border-top-style", "border-top-color">>
       [] name = "border-right"  -> <<"border-right-width", "border-right-style", "border-right-color">>
       [] name = "border-bottom" -> <<"border-bottom-width", "border-bottom-style", "border-bottom-color">>
       [] name = "border-left"   -> <<"border-left-width", "border-left-style", "border-left-color">>]

LengthProperties ==
  {"top", "right", "bottom", "left", "width", "height", "min-width", "min-height", "max-width",
   "max-height", "border-radius", "font-size", "line-height", "letter-spacing", "flex-basis",
   "gap"}
    \cup ToSet(SidesOf["margin"]) \cup ToSet(SidesOf["padding"]) \cup ToSet(SidesOf["border-width"])

ColorProperties == {"color", "background-color"} \cup ToSet(SidesOf["border-color"])

NumberProperties == {"opacity", "flex-grow", "flex-shrink", "z-index", "font-weight"}

AlignWords  == {"auto", "flex-start", "flex-end", "center", "stretch", "baseline"}
BorderStyles == {"none", "solid", "dashed", "dotted"}

EnumProperties ==
  {"display", "position", "box-sizing", "overflow", "visibility", "flex-direction", "flex-wrap",
   "justify-content", "align-items", "align-self", "text-align", "white-space", "font-style"}
    \cup ToSet(SidesOf["border-style"])

Keywords ==
  [p \in EnumProperties \cup {"vertical-align"} |->
     CASE p = "display"         -> {"none", "block", "inline", "inline-block", "flex"}
       [] p = "position"        -> {"static", "relative", "absolute", "fixed"}
       [] p = "box-sizing"      -> {"content-box", "border-box"}
       [] p = "overflow"        -> {"visible", "hidden", "scroll", "auto"}
       [] p = "visibility"      -> {"visible", "hidden"}
       [] p = "flex-direction"  -> {"row", "row-reverse", "column", "column-reverse"}
       [] p = "flex-wrap"       -> {"nowrap", "wrap"}
       [] p = "justify-content" -> {"flex-start", "flex-end", "center", "space-between", "space-around"}
       [] p \in {"align-items", "align-self"} -> AlignWords
       [] p = "text-align"      -> {"left", "right", "center", "justify"}
       [] p = "white-space"     -> {"normal", "nowrap", "pre", "pre-wrap"}
       [] p = "font-style"      -> {"normal", "italic"}
       [] p = "vertical-align"  -> {"baseline", "sub", "super", "middle", "text-top", "text-bottom",
                                    "top", "bottom"}
       [] p \in ToSet(SidesOf["border-style"]) -> BorderStyles]

TransitionProperties ==
  {"transition-property", "transition-duration", "transition-timing-function", "transition-delay"}

Properties ==
  LengthProperties \cup ColorProperties \cup NumberProperties \cup EnumProperties
    \cup {"vertical-align", "font-family"} \cup TransitionProperties

IsInheritedProperty(p) ==
  p \in {"color", "visibility", "font-family", "font-size", "font-weight", "font-style",
         "line-height", "text-align", "white-space", "letter-spacing"}

(* Unlike every other name, a property's is compared with its capitals. *)
PropertyIdFromName(name) ==
  IF Len(name) = 1 /\ name[1] \in Properties THEN name[1] ELSE "unknown"
----------------------------------------------------------------------------
(* Values: a number in tenths, a word, or a colour as <<r, g, b, a>>.      *)

Value(type, num, word, rgba) == [type |-> type, num |-> num, word |-> word, rgba |-> rgba]
NoValue       == Value("none", 0, "", <<>>)
Length(n, u)  == Value("length", n, u, <<>>)
Number(n)     == Value("number", n, "", <<>>)
Enum(w)       == Value("enum", 0, w, <<>>)
Color(rgba)   == Value("color", 0, "", rgba)
Whole(type)   == Value(type, 0, "", <<>>)

NamedColors ==
     "aqua"   :> <<0, 255, 255, 255>>   @@ "black"  :> <<0, 0, 0, 255>>
  @@ "blue"   :> <<0, 0, 255, 255>>     @@ "cyan"   :> <<0, 255, 255, 255>>
  @@ "gray"   :> <<128, 128, 128, 255>> @@ "green"  :> <<0, 128, 0, 255>>
  @@ "lime"   :> <<0, 255, 0, 255>>     @@ "maroon" :> <<128, 0, 0, 255>>
  @@ "navy"   :> <<0, 0, 128, 255>>     @@ "olive"  :> <<128, 128, 0, 255>>
  @@ "orange" :> <<255, 165, 0, 255>>   @@ "purple" :> <<128, 0, 128, 255>>
  @@ "red"    :> <<255, 0, 0, 255>>     @@ "silver" :> <<192, 192, 192, 255>>
  @@ "teal"   :> <<0, 128, 128, 255>>   @@ "transparent" :> <<0, 0, 0, 0>>
  @@ "white"  :> <<255, 255, 255, 255>> @@ "yellow" :> <<255, 255, 0, 255>>

Eof == Sign("eof")
At(ts, i) == IF i > Len(ts) THEN Eof ELSE ts[i]

(* SkipWhitespace: where the next token that is no blank is. *)
NonWS(ts, i) == IF At(ts, i).type = "whitespace" THEN i + 1 ELSE i

IsDelim(t, c) == t.type = "delim" /\ t.value = <<c>>
Says(t, word) == Len(t.value) = 1 /\ LowerOf(t.value[1]) = word
Is(t, word)   == t.type = "ident" /\ Says(t, word)
WordOf(t)     == IF t.type = "ident" /\ Len(t.value) = 1 THEN LowerOf(t.value[1]) ELSE ""

ParseLengthOrPercent(ts, i) ==
  LET t == At(ts, NonWS(ts, i))
      v == CASE t.type = "dimension" ->
                  Length(t.number, IF t.unit \in {<<"em">>, <<"rem">>, <<"vw">>, <<"vh">>}
                                   THEN t.unit[1] ELSE "px")
             [] t.type = "percentage"               -> Length(t.number, "%")
             [] t.type = "number" /\ t.number = 0   -> Length(0, "px")
             [] OTHER                               -> NoValue
  IN  [value |-> v, at |-> NonWS(ts, i) + 1]

HexColor(digits) ==
  LET pair(k) == 16 * digits[k] + digits[k + 1]
  IN  CASE Len(digits) = 3 -> Color(<<17 * digits[1], 17 * digits[2], 17 * digits[3], 255>>)
        [] Len(digits) = 6 -> Color(<<pair(1), pair(3), pair(5), 255>>)
        [] Len(digits) = 8 -> Color(<<pair(1), pair(3), pair(5), pair(7)>>)
        [] OTHER           -> NoValue

LookupNamedColor(word) ==
  IF word \in DOMAIN NamedColors THEN Color(NamedColors[word]) ELSE NoValue

(* rgb(r, g, b) and rgba(r, g, b, a): whatever stands at the places of the *)
(* numbers and the commas is taken for them.                               *)
FunctionColor(ts, i) ==
  LET redAt   == NonWS(ts, i + 1)
      greenAt == NonWS(ts, NonWS(ts, redAt + 1) + 1)
      blueAt  == NonWS(ts, NonWS(ts, greenAt + 1) + 1)
      alphaAt == NonWS(ts, NonWS(ts, blueAt + 1) + 1)
      alpha == Says(ts[i], "rgba")
      last  == IF alpha THEN alphaAt ELSE blueAt
      close == NonWS(ts, last + 1)
      byte(k) == At(ts, k).number \div 10
  IN  [value |-> Color(<<byte(redAt), byte(greenAt), byte(blueAt),
                         IF alpha THEN (At(ts, alphaAt).number * 255) \div 10 ELSE 255>>),
       at    |-> IF At(ts, close).type = ")" THEN close + 1 ELSE close]

ParseColor(ts, i) ==
  LET k == NonWS(ts, i)
      t == At(ts, k)
  IN  CASE t.type = "hash"     -> [value |-> HexColor(HexDigits[t.value]), at |-> k + 1]
        [] t.type = "function" -> FunctionColor(ts, k)
        [] t.type = "ident"    -> [value |-> LookupNamedColor(WordOf(t)), at |-> k + 1]
        [] OTHER               -> [value |-> NoValue, at |-> k + 1]

ParseEnumValue(ts, i, prop) ==
  LET t == At(ts, NonWS(ts, i))
  IN  [value |-> IF WordOf(t) \in Keywords[prop] THEN Enum(WordOf(t)) ELSE NoValue,
       at    |-> NonWS(ts, i) + 1]

ParseValue(ts, i, prop) ==
  LET t == At(ts, NonWS(ts, i))
      taken(v) == [value |-> v, at |-> NonWS(ts, i) + 1]
  IN  CASE prop = "vertical-align" /\ t.type = "ident" -> ParseEnumValue(ts, i, prop)
        [] prop = "vertical-align" /\ t.type # "ident" -> ParseLengthOrPercent(ts, i)
        [] prop \in LengthProperties -> ParseLengthOrPercent(ts, i)
        [] prop \in ColorProperties  -> ParseColor(ts, i)
        [] prop \in EnumProperties   -> ParseEnumValue(ts, i, prop)
        [] prop \in NumberProperties ->
             taken(IF t.type = "number" THEN Number(t.number) ELSE NoValue)
        [] prop = "font-family"      ->
             taken(IF t.type \in {"string", "ident"} THEN Enum("family") ELSE NoValue)
        [] OTHER                     -> [value |-> NoValue, at |-> i]
----------------------------------------------------------------------------
(* Declarations.                                                           *)

Decl(prop, value, important) == [prop |-> prop, value |-> value, important |-> important]
Rejected(i)    == [ok |-> FALSE, at |-> i, out |-> <<>>]
Accepted(end, decls) ==
  [ok |-> TRUE, at |-> end.at,
   out |-> [k \in 1 .. Len(decls) |-> Decl(decls[k].prop, decls[k].value, end.important)]]
Bare(prop, value) == [prop |-> prop, value |-> value]
Given(decls) ==
  LET upTo[k \in 0 .. Len(decls)] ==
        IF k = 0 THEN <<>>
        ELSE IF decls[k].value.type = "none" THEN upTo[k - 1] ELSE Append(upTo[k - 1], decls[k])
  IN  upTo[Len(decls)]

(* What may follow a value: "!important" and a semicolon. *)
SkipSemicolon(ts, i) ==
  IF At(ts, NonWS(ts, i)).type = ";" THEN NonWS(ts, i) + 1 ELSE NonWS(ts, i)
ParseEnd(ts, i) ==
  LET k == NonWS(ts, i)
      w == NonWS(ts, k + 1)
  IN  IF IsDelim(At(ts, k), "!")
      THEN [important |-> Is(At(ts, w), "important"), at |-> SkipSemicolon(ts, w + 1)]
      ELSE [important |-> FALSE, at |-> SkipSemicolon(ts, k)]

EndsValue(t) == t.type \in {";", "}", "eof"} \/ IsDelim(t, "!")

(* Up to four values, parsed as "parse" has them at each place; the first  *)
(* that is none ends them.                                                 *)
Values(ts, i, parse) ==
  LET taken(v, p) == [vals |-> IF p.value.type = "none" THEN v.vals ELSE Append(v.vals, p.value),
                      at |-> p.at, more |-> p.value.type # "none"]
      another(v) ==
        LET k == NonWS(ts, v.at)
        IN  CASE ~v.more                              -> v
              [] v.more /\ EndsValue(At(ts, k))       -> [v EXCEPT !.at = k, !.more = FALSE]
              [] v.more /\ ~EndsValue(At(ts, k))      -> taken(v, parse[k])
      after[n \in 0 .. 4] ==
        IF n = 0 THEN [vals |-> <<>>, at |-> i, more |-> TRUE] ELSE another(after[n - 1])
  IN  after[4]

(* Top, right, bottom and left out of one to four values. *)
FourSides(v) ==
  CASE Len(v) = 1 -> <<v[1], v[1], v[1], v[1]>>
    [] Len(v) = 2 -> <<v[1], v[2], v[1], v[2]>>
    [] Len(v) = 3 -> <<v[1], v[2], v[3], v[2]>>
    [] OTHER      -> v

(* The semicolon is gone before the values are counted. *)
Sides(ts, v, name) ==
  IF v.vals = <<>> THEN Rejected(ParseEnd(ts, v.at).at)
  ELSE Accepted(ParseEnd(ts, v.at), [k \in 1 .. 4 |-> Bare(SidesOf[name][k], FourSides(v.vals)[k])])

BoxShorthand(ts, i, name) ==
  Sides(ts, Values(ts, i, [k \in 1 .. Len(ts) |-> ParseLengthOrPercent(ts, k)]), name)

Numeric == {"dimension", "number", "percentage"}

BorderShorthand(ts, i, name) ==
  LET nothing(k) == [value |-> NoValue, at |-> k]
      one(k) ==
        LET t == At(ts, k)
        IN  CASE name = "border-width" /\ t.type \in Numeric -> ParseLengthOrPercent(ts, k)
              [] name = "border-style" /\ WordOf(t) \in BorderStyles ->
                   [value |-> Enum(WordOf(t)), at |-> k + 1]
              [] name = "border-color" /\ t.type \in {"hash", "function", "ident"} ->
                   ParseColor(ts, k)
              [] OTHER -> nothing(k)
  IN  Sides(ts, Values(ts, i, [k \in 1 .. Len(ts) |-> one(k)]), name)

(* Width, style and colour in any order; a later one replaces an earlier. *)
BorderParts(ts, i) ==
  LET put(v, part, p) == [v EXCEPT ![part] = p.value, !.at = p.at]
      another(v) ==
        LET k == NonWS(ts, v.at)
            t == At(ts, k)
        IN  CASE ~v.more -> v
              [] v.more /\ t.type \in Numeric -> put(v, "width", ParseLengthOrPercent(ts, k))
              [] v.more /\ WordOf(t) \in BorderStyles ->
                   put(v, "style", [value |-> Enum(WordOf(t)), at |-> k + 1])
              [] v.more /\ WordOf(t) \notin BorderStyles /\ t.type \in {"hash", "function", "ident"} ->
                   put(v, "color", ParseColor(ts, k))
              [] OTHER -> [v EXCEPT !.at = k, !.more = FALSE]
      after[n \in 0 .. 3] ==
        IF n = 0 THEN [width |-> NoValue, style |-> NoValue, color |-> NoValue, at |-> i, more |-> TRUE]
        ELSE another(after[n - 1])
  IN  after[3]

Border(ts, parts) ==
  LET four(name, v) == [k \in 1 .. 4 |-> Bare(SidesOf[name][k], v)]
  IN  Accepted(ParseEnd(ts, parts.at),
               Given(four("border-width", parts.width) \o four("border-style", parts.style)
                       \o four("border-color", parts.color)))

BorderSide(ts, parts, name) ==
  Accepted(ParseEnd(ts, parts.at),
           Given(<<Bare(BorderOf[name][1], parts.width), Bare(BorderOf[name][2], parts.style),
                   Bare(BorderOf[name][3], parts.color)>>))

FlexShorthand(ts, i) ==
  LET g      == NonWS(ts, i)
      s      == NonWS(ts, g + 1)
      shrunk == At(ts, s).type = "number"
      basis  == NonWS(ts, s + 1)
      based  == /\ shrunk
                /\ \/ At(ts, basis).type \in {"dimension", "percentage"}
                   \/ At(ts, basis).type = "number" /\ At(ts, basis).number = 0
      end    == CASE based             -> basis + 1
                  [] shrunk /\ ~based  -> basis
                  [] OTHER             -> s
  IN  IF At(ts, g).type # "number" THEN Rejected(g + 1)
      ELSE Accepted(ParseEnd(ts, end),
             Given(<<Bare("flex-grow", Number(At(ts, g).number)),
                     Bare("flex-shrink", IF shrunk THEN Number(At(ts, s).number) ELSE NoValue),
                     Bare("flex-basis",
                          IF based THEN ParseLengthOrPercent(ts, basis).value ELSE NoValue)>>))

Timings == {"linear", "ease-in-out", "ease-in", "ease-out", "ease"}

(* Property, duration, timing, delay; a timing behind the delay is left to *)
(* the next declaration.                                                   *)
TransitionShorthand(ts, i) ==
  LET p     == NonWS(ts, i)
      named == At(ts, p).type = "ident"
      d     == NonWS(ts, IF named THEN p + 1 ELSE p)
      isTime(k) == At(ts, k).type \in {"dimension", "number"}
      ms(k) == Number(IF At(ts, k).type = "dimension" /\ At(ts, k).unit \in {<<"s">>, <<"S">>}
                      THEN At(ts, k).number * 1000 ELSE At(ts, k).number)
      f     == NonWS(ts, d + 1)
      timed == isTime(d) /\ WordOf(At(ts, f)) \in Timings
      l     == IF timed THEN NonWS(ts, f + 1) ELSE f
      late  == isTime(d) /\ isTime(l)
      end   == CASE late -> l + 1 [] isTime(d) /\ ~late -> l [] OTHER -> d
  IN  IF Is(At(ts, p), "none")
      THEN [ok |-> TRUE, at |-> SkipSemicolon(ts, p + 1), out |-> <<>>]
      ELSE Accepted(ParseEnd(ts, end),
             Given(<<Bare("transition-property",
                          CASE ~named -> NoValue
                            [] named /\ Is(At(ts, p), "all") -> Enum("unknown")
                            [] OTHER -> Enum(PropertyIdFromName(At(ts, p).value))),
                     Bare("transition-duration", IF isTime(d) THEN ms(d) ELSE NoValue),
                     Bare("transition-timing-function",
                          Enum(IF timed THEN WordOf(At(ts, f)) ELSE "ease")),
                     Bare("transition-delay", IF late THEN ms(l) ELSE Number(0))>>))

Longhand(ts, i, prop) ==
  LET k == NonWS(ts, i)
      given(v) == IF v.value.type = "none" THEN Rejected(v.at)
                  ELSE Accepted(ParseEnd(ts, v.at), <<Bare(prop, v.value)>>)
  IN  given(IF WordOf(At(ts, k)) \in {"auto", "inherit", "initial"}
            THEN [value |-> Whole(WordOf(At(ts, k))), at |-> k + 1]
            ELSE ParseValue(ts, k, prop))

(* The whole of a declaration, its semicolon included when it is accepted. *)
ParseDeclaration(ts, i) ==
  LET n     == NonWS(ts, i)
      name  == At(ts, n)
      prop  == PropertyIdFromName(name.value)
      word  == WordOf(name)
      colon == NonWS(ts, n + 1)
      short == word \in DOMAIN SidesOf \cup DOMAIN BorderOf \cup {"border", "flex", "transition"}
  IN  IF name.type # "ident" \/ (prop = "unknown" /\ ~short) THEN Rejected(n + 1)
      ELSE IF At(ts, colon).type # ":" THEN Rejected(colon + 1)
      ELSE CASE prop # "unknown"               -> Longhand(ts, colon + 1, prop)
             [] word \in {"margin", "padding"} -> BoxShorthand(ts, colon + 1, word)
             [] word = "border"                -> Border(ts, BorderParts(ts, colon + 1))
             [] word \in DOMAIN BorderOf       -> BorderSide(ts, BorderParts(ts, colon + 1), word)
             [] word \in {"border-width", "border-style", "border-color"} ->
                  BorderShorthand(ts, colon + 1, word)
             [] word = "flex"                  -> FlexShorthand(ts, colon + 1)
             [] word = "transition"            -> TransitionShorthand(ts, colon + 1)

(* After a bad declaration: behind the next semicolon, or at the end of    *)
(* the block.                                                              *)
RecoverPastBlock(ts, i) ==
  LET ends == {k \in i .. Len(ts) + 1 : At(ts, k).type \in {";", "eof"}}
      k    == CHOOSE e \in ends : \A f \in ends : e <= f
  IN  IF i > Len(ts) THEN i ELSE IF At(ts, k).type = ";" THEN k + 1 ELSE k
Recover(ts, i) ==
  LET ends == {k \in i .. Len(ts) + 1 : At(ts, k).type \in {";", "}", "eof"}}
      k    == CHOOSE e \in ends : \A f \in ends : e <= f
  IN  IF i > Len(ts) THEN i ELSE IF At(ts, k).type = ";" THEN k + 1 ELSE k
----------------------------------------------------------------------------
(* Selectors. The compounds of a selector stand from the subject outwards, *)
(* each with the combinator between it and the one before it.              *)

Simple(type, value, attr) == [type |-> type, value |-> value, attr |-> attr]

(* [x = v]: name, and the value behind "=". *)
ParseAttribute(ts, i) ==
  LET nameAt == NonWS(ts, i)
      eq    == NonWS(ts, nameAt + 1)
      v     == NonWS(ts, eq + 1)
      valued == IsDelim(At(ts, eq), "=")
      name  == IF At(ts, nameAt).type = "ident" THEN At(ts, nameAt).value ELSE <<>>
      value == IF valued /\ At(ts, v).type \in {"ident", "string"} THEN At(ts, v).value ELSE <<>>
  IN  [simple |-> <<Simple("attribute", name, value)>>,
       at     |-> IF valued THEN NonWS(ts, v + 1) + 1 ELSE eq + 1]

(* The name behind "." or ":"; nothing when it is none. *)
Named(ts, i, type) ==
  [simple |-> IF At(ts, i).type = "ident" THEN <<Simple(type, At(ts, i).value, <<>>)>> ELSE <<>>,
   at     |-> i + 1]

StartsSimple(t) ==
  t.type \in {"ident", "hash", "[", ":"} \/ IsDelim(t, ".") \/ IsDelim(t, "*")

ParseSimple(ts, i) ==
  LET t == At(ts, i)
  IN  CASE t.type = "ident"  -> [simple |-> <<Simple("tag", t.value, <<>>)>>, at |-> i + 1]
        [] t.type = "hash"   -> [simple |-> <<Simple("id", t.value, <<>>)>>, at |-> i + 1]
        [] t.type = "["      -> ParseAttribute(ts, i + 1)
        [] t.type = ":"      -> Named(ts, i + 1, "pseudo")
        [] IsDelim(t, ".")   -> Named(ts, i + 1, "class")
        [] IsDelim(t, "*")   -> [simple |-> <<Simple("universal", <<>>, <<>>)>>, at |-> i + 1]

ParseCompoundSelector(ts, i) ==
  LET from[j \in Places] ==
        LET more(s) == [from[s.at] EXCEPT !.simples = s.simple \o @]
        IN  IF StartsSimple(At(ts, j)) THEN more(ParseSimple(ts, j))
            ELSE [simples |-> <<>>, at |-> j]
  IN  from[i]

(* The combinator behind a compound, "none" at the end of the selector. *)
ParseCombinator(ts, i) ==
  LET k == NonWS(ts, i)
      t == At(ts, k)
      blank == k # i
  IN  CASE IsDelim(t, ">") -> [comb |-> "child", at |-> NonWS(ts, k + 1)]
        [] blank /\ t.type \notin {"{", ",", "eof"} /\ ~IsDelim(t, ">") ->
             [comb |-> "descendant", at |-> k]
        [] OTHER -> [comb |-> "none", at |-> k]

ParseSelector(ts, i) ==
  LET from[j \in Places] ==
        LET joined(c, f) ==
              IF f.comb = "none" THEN [compounds |-> <<[simples |-> c.simples, comb |-> "none"]>>,
                                       at |-> f.at]
              ELSE [from[f.at] EXCEPT !.compounds = Append(@, [simples |-> c.simples,
                                                               comb |-> f.comb])]
            behind(c) == joined(c, ParseCombinator(ts, c.at))
        IN  behind(ParseCompoundSelector(ts, j))
  IN  from[i]

(* Blanks behind a comma are not skipped: they separate an empty compound. *)
ParseSelectorList(ts, i) ==
  LET from[j \in Places] ==
        LET listed(s, k) ==
              IF At(ts, k).type # "," THEN [sels |-> <<s.compounds>>, at |-> k]
              ELSE [from[k + 1] EXCEPT !.sels = <<s.compounds>> \o @]
            behind(s) == listed(s, NonWS(ts, s.at))
        IN  behind(ParseSelector(ts, j))
  IN  from[i]

(* The place behind an at-rule: behind the brace that closes it, and when  *)
(* it has no block, behind that of the rule after it.                      *)
AtRuleEnd(ts, i) ==
  LET step(t) == CASE t.type = "{" -> 1 [] t.type = "}" -> -1 [] OTHER -> 0
      depth[j \in i .. Len(ts) + 1] == IF j = i THEN 0 ELSE depth[j - 1] + step(ts[j - 1])
      ends == {j \in i .. Len(ts) + 1 :
                 At(ts, j).type = "eof" \/ (At(ts, j).type = "}" /\ depth[j] <= 1)}
  IN  IF At(ts, Min(ends)).type = "eof" THEN Min(ends) ELSE Min(ends) + 1
----------------------------------------------------------------------------
(* Parse and ParseDeclarationList, on one text after the other.            *)

CssInit(lists) ==
  \E texts \in lists :
    css = [texts |-> texts, ts |-> <<>>, at |-> 1, mode |-> "idle", sels |-> <<>>,
           decls |-> <<>>, rules |-> <<>>, got |-> <<>>]

Here == NonWS(css.ts, css.at)
Next1 == At(css.ts, Here).type

BeginText ==
  /\ css.mode = "idle" /\ Len(css.got) < Len(css.texts)
  /\ LET text == css.texts[Len(css.got) + 1]
     IN  css' = [css EXCEPT !.ts = Tokens(text.text), !.at = 1, !.decls = <<>>, !.rules = <<>>,
                            !.mode = IF text.inline THEN "inline" ELSE "sheet"]

EndSheet ==
  /\ css.mode = "sheet" /\ Next1 = "eof"
  /\ css' = [css EXCEPT !.got = Append(@, css.rules), !.mode = "idle"]

SkipAtRule ==
  /\ css.mode = "sheet" /\ Next1 = "at"
  /\ css' = [css EXCEPT !.at = AtRuleEnd(css.ts, Here + 1)]

(* A selector list, and the brace behind it; without one the token there   *)
(* is lost and the rule has no declarations.                               *)
BeginRule ==
  /\ css.mode = "sheet" /\ Next1 \notin {"eof", "at"}
  /\ \E l \in {ParseSelectorList(css.ts, Here)} :
       LET k    == NonWS(css.ts, l.at)
           open == At(css.ts, k).type = "{"
       IN  css' = [css EXCEPT !.at = k + 1, !.sels = l.sels, !.decls = <<>>,
                              !.mode = IF open THEN "block" ELSE "sheet",
                              !.rules = IF open THEN @ ELSE Append(@, [sels |-> l.sels,
                                                                       decls |-> <<>>])]

DeclarationTurn ==
  /\ css.mode \in {"block", "inline"} /\ Next1 \notin {"}", "eof"}
  /\ \E d \in {ParseDeclaration(css.ts, Here)} :
       css' = [css EXCEPT !.at = IF d.ok THEN d.at ELSE Recover(css.ts, d.at),
                          !.decls = @ \o d.out]

EndBlock ==
  /\ css.mode = "block" /\ Next1 \in {"}", "eof"}
  /\ css' = [css EXCEPT !.at = IF Next1 = "}" THEN Here + 1 ELSE Here, !.mode = "sheet",
                        !.rules = Append(@, [sels |-> css.sels, decls |-> css.decls])]

EndInline ==
  /\ css.mode = "inline" /\ Next1 \in {"}", "eof"}
  /\ css' = [css EXCEPT !.got = Append(@, css.decls), !.mode = "idle"]

CssNext ==
  \/ BeginText \/ EndSheet \/ SkipAtRule \/ BeginRule \/ DeclarationTurn \/ EndBlock \/ EndInline

AllParsed == css.mode = "idle" /\ css.got # <<>> /\ Len(css.got) = Len(css.texts)

(* A selector without the empty ancestor that any element has. *)
AnyAncestorDropped(sel) ==
  LET n == Len(sel)
  IN  IF n > 1 /\ sel[n].simples = <<>> /\ sel[n].comb = "descendant" THEN SubSeq(sel, 1, n - 1)
      ELSE sel

RulesMeant(rules) ==
  [k \in 1 .. Len(rules) |->
     [rules[k] EXCEPT !.sels = [j \in 1 .. Len(@) |-> AnyAncestorDropped(@[j])]]]

(* A text is put together out of declarations. Each has what it means      *)
(* alone, and what its parser had taken of the text behind it when it      *)
(* refused the declaration: "nothing", its "semicolon", or the "brace"     *)
(* that ends the block. When it had, the next declaration is lost, for     *)
(* recovery starts behind what was taken; one that is lost costs no other. *)
Heard(decls) ==
  LET heard[k \in 0 .. Len(decls)] ==
        k <= 1 \/ decls[k - 1].takes = "nothing" \/ ~heard[k - 1]
  IN  heard
Said(decls) ==
  FlattenSeq([k \in 1 .. Len(decls) |-> IF Heard(decls)[k] THEN decls[k].means ELSE <<>>])

(* A block whose brace was taken goes on in that of the next rule, which   *)
(* loses its selectors and its first declaration.                          *)
Unclosed(decls) ==
  decls # <<>> /\ decls[Len(decls)].takes = "brace" /\ Heard(decls)[Len(decls)]
Blocks(rules) ==
  LET Joined(all, r) ==
        IF all # <<>> /\ Unclosed(all[Len(all)].decls)
        THEN [all EXCEPT ![Len(all)].decls = @ \o r.decls] ELSE Append(all, r)
  IN  FoldLeft(Joined, <<>>, rules)
SheetSaid(rules) ==
  LET blocks == Blocks(rules)
  IN  [k \in 1 .. Len(blocks) |-> [blocks[k] EXCEPT !.decls = Said(@)]]

(* Rules and declarations mean what they mean alone. A property, a value   *)
(* or an at-rule the parser does not know costs itself, and nothing of the *)
(* declarations, blocks and rules around it, but where its parser had      *)
(* taken the semicolon or the brace behind it before it gave up: then just *)
(* what Heard and Blocks say is lost, one declaration or the head of one   *)
(* rule, and never the rest of the sheet (parser.cc, the loops of DoParse  *)
(* and DoParseDeclarations).                                               *)
SheetExact ==
  \A n \in 1 .. Len(css.got) :
    IF css.texts[n].inline THEN css.got[n] = Said(css.texts[n].decls)
    ELSE RulesMeant(css.got[n]) = SheetSaid(css.texts[n].rules)
=============================================================================
