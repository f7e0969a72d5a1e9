---------------------------- MODULE CssTokenizer ----------------------------
(* The tokens of a style sheet: vx::css::CssTokenizer.                     *)
(*                                                                         *)
(* A text is a sequence of characters, where a run of letters (a word, of  *)
(* which no property asks for the spelling) is one. The tokenizer takes no *)
(* advice from the parser, so its calls of Next one after another are the  *)
(* sequence Tokens(text). A number is kept in tenths.                      *)
(***************************************************************************)
EXTENDS Integers, SequencesExt, TLC

(* Where a character of a text, or a token, may stand. *)
Places == Nat \ {0}

Blanks == {" ", "\n"}

Punctuation ==
  Blanks \cup {"\"", "'", "\\", "#", ".", "-", "+", "@", ":", ";", ",", "{", "}", "(", ")", "[",
               "]", "/", "*", "%", "!", ">", "=", "<"}

DigitValue ==
  [c \in {"0", "1", "2", "3", "4", "5"} |->
     CASE c = "0" -> 0 [] c = "1" -> 1 [] c = "2" -> 2 [] c = "3" -> 3 [] c = "4" -> 4 [] c = "5" -> 5]

IsDigit(c)      == c \in DOMAIN DigitValue
IsNameStart(c)  == c \notin Punctuation \cup DOMAIN DigitValue \cup {""}
IsNameChar(c)   == IsNameStart(c) \/ IsDigit(c) \/ c = "-"
IsWhitespace(c) == c \in Blanks

(* PeekChar: the character at p, none behind the end. *)
CharAt(s, p) == IF p > Len(s) THEN "" ELSE s[p]

(* The ends of the runs of name characters and of digits that start at p.  *)
ScanName(s, p)  == Min({q \in p .. Len(s) + 1 : ~IsNameChar(CharAt(s, q))})
DigitsEnd(s, p) == Min({q \in p .. Len(s) + 1 : ~IsDigit(CharAt(s, q))})

(* Where a comment that starts at p ends; p itself when there is none. *)
TrySkipComment(s, p) ==
  IF CharAt(s, p) # "/" \/ CharAt(s, p + 1) # "*" THEN p
  ELSE LET closes == {q \in p + 2 .. Len(s) - 1 : s[q] = "*" /\ s[q + 1] = "/"}
       IN  IF closes = {} THEN Len(s) + 1
           ELSE 2 + CHOOSE q \in closes : \A e \in closes : q <= e

SkipComments(s, p) ==
  LET from[q \in Places] == IF TrySkipComment(s, q) = q THEN q ELSE from[TrySkipComment(s, q)]
  IN  from[p]

(* Blanks and the comments between them. *)
WhitespaceEnd(s, p) ==
  LET from[q \in Places] ==
        IF IsWhitespace(CharAt(s, q)) THEN from[q + 1]
        ELSE IF TrySkipComment(s, q) # q THEN from[TrySkipComment(s, q)]
        ELSE q
  IN  from[p]

(* The closing quote, or the end; a backslash hides the character after it. *)
StringEnd(s, p, quote) ==
  LET from[q \in Places] ==
        IF CharAt(s, q) \in {quote, ""} THEN q
        ELSE IF s[q] = "\\" /\ q + 1 <= Len(s) THEN from[q + 2]
        ELSE from[q + 1]
  IN  from[p]

Tok(type, value, number, unit) ==
  [type |-> type, value |-> value, number |-> number, unit |-> unit]
Sign(type) == Tok(type, <<>>, 0, <<>>)
Scanned(tok, end) == [tok |-> tok, end |-> end]

ScanWhitespace(s, p) == Scanned(Sign("whitespace"), WhitespaceEnd(s, p))

ScanString(s, p) ==
  LET e == StringEnd(s, p + 1, s[p])
  IN  Scanned(Tok("string", SubSeq(s, p + 1, e - 1), 0, <<>>), IF e > Len(s) THEN e ELSE e + 1)

ScanHash(s, p) ==
  LET e == ScanName(s, p + 1) IN Scanned(Tok("hash", SubSeq(s, p + 1, e - 1), 0, <<>>), e)

ScanAtKeyword(s, p) ==
  LET e == ScanName(s, p + 1) IN Scanned(Tok("at", SubSeq(s, p + 1, e - 1), 0, <<>>), e)

ScanIdentLike(s, p) ==
  LET e    == ScanName(s, p)
      name == SubSeq(s, p, e - 1)
  IN  IF CharAt(s, e) = "(" THEN Scanned(Tok("function", name, 0, <<>>), e + 1)
      ELSE Scanned(Tok("ident", name, 0, <<>>), e)

(* [tenths, end]: sign, digits, and a point with digits of which the first counts. *)
ScanNumberValue(s, p) ==
  LET start  == IF CharAt(s, p) \in {"-", "+"} THEN p + 1 ELSE p
      point  == DigitsEnd(s, start)
      whole  == FoldLeft(LAMBDA n, c : 10 * n + DigitValue[c], 0, SubSeq(s, start, point - 1))
      dotted == CharAt(s, point) = "."
      tenth  == IF dotted /\ IsDigit(CharAt(s, point + 1)) THEN DigitValue[s[point + 1]] ELSE 0
  IN  [tenths |-> (IF CharAt(s, p) = "-" THEN -1 ELSE 1) * (10 * whole + tenth),
       end    |-> IF dotted THEN DigitsEnd(s, point + 1) ELSE point]

ScanNumeric(s, p) ==
  LET dimension(n, e) == Scanned(Tok("dimension", <<>>, n.tenths, SubSeq(s, n.end, e - 1)), e)
      withUnit(n) ==
        CASE CharAt(s, n.end) = "%"        -> Scanned(Tok("percentage", <<>>, n.tenths, <<>>), n.end + 1)
          [] IsNameStart(CharAt(s, n.end)) -> dimension(n, ScanName(s, n.end))
          [] OTHER                         -> Scanned(Tok("number", <<>>, n.tenths, <<>>), n.end)
  IN  withUnit(ScanNumberValue(s, p))

ScanSign(s, p) ==
  Scanned(IF s[p] \in {":", ";", ",", "{", "}", "(", ")", "[", "]"} THEN Sign(s[p])
          ELSE Tok("delim", <<s[p]>>, 0, <<>>), p + 1)

(* The token at p, where neither comment nor end is. A CDC is never seen:  *)
(* "--" begins an identifier.                                              *)
NextToken(s, p) ==
  LET c    == s[p]
      next == CharAt(s, p + 1)
  IN  CASE IsWhitespace(c)                                      -> ScanWhitespace(s, p)
        [] c \in {"\"", "'"}                                    -> ScanString(s, p)
        [] c = "#" /\ IsNameChar(next)                          -> ScanHash(s, p)
        [] \/ IsDigit(c)
           \/ c \in {".", "-"} /\ IsDigit(next)
           \/ c = "-" /\ next = "."                             -> ScanNumeric(s, p)
        [] c = "-" /\ (IsNameStart(next) \/ next = "-")         -> ScanIdentLike(s, p)
        [] IsNameStart(c)                                       -> ScanIdentLike(s, p)
        [] c = "@" /\ IsNameStart(next)                         -> ScanAtKeyword(s, p)
        [] OTHER                                                -> ScanSign(s, p)

Tokens(s) ==
  LET from[p \in Places] ==
        LET onwards(t) == <<t.tok>> \o from[t.end]
            at(q) == IF q > Len(s) THEN <<>> ELSE onwards(NextToken(s, q))
        IN  at(SkipComments(s, p))
  IN  from[1]
=============================================================================
