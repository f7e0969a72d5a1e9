----------------------------- MODULE CssCascade -----------------------------
(* From parsed style sheets to the style of an element:                    *)
(* SelectorMatcher and StyleResolver.                                      *)
(*                                                                         *)
(* The elements are those of the document (Dom); the parsed sheets and the *)
(* inline declarations are what CssParser got out of its texts. The style  *)
(* of an element is a function of the property. Pointing at an element is  *)
(* pointing at its ancestors.                                              *)
(***************************************************************************)
EXTENDS CssParser, Dom

CONSTANTS
  Pointed,    \* [hover, active, focus |-> node or NoNode]: the event manager's pointers
  Styled      \* the element that has the inline declarations

Elements == {n \in Made : IsElement(n)}

OnPath(target, n) ==
  LET up[m \in Ref] == IF m = NoNode THEN {} ELSE {m} \cup up[tree.parent[m]]
  IN  n \in up[target]
IsHovered(n) == OnPath(Pointed.hover, n)
IsActive(n)  == OnPath(Pointed.active, n)
IsFocused(n) == n = Pointed.focus

MatchSimple(s, n) ==
  LET node == content[n]
  IN  CASE s.type = "universal" -> TRUE
        [] s.type = "tag"       -> s.value = <<node.tag>>
        [] s.type = "class"     -> HasClass(node, s.value[1])
        [] s.type = "id"        -> s.value = <<node.id>>
        [] s.type = "attribute" ->
             /\ s.value # <<>> /\ HasAttribute(node, s.value[1])
             /\ s.attr = <<>> \/ s.attr = <<GetAttribute(node, s.value[1])>>
        [] s.type = "pseudo"    ->
             CASE s.value = <<"first-child">> -> tree.prev[n] = NoNode
               [] s.value = <<"last-child">>  -> tree.next[n] = NoNode
               [] s.value = <<"hover">>       -> IsHovered(n)
               [] s.value = <<"active">>      -> IsActive(n)
               [] s.value = <<"focus">>       -> IsFocused(n)
               [] OTHER                       -> FALSE

MatchCompound(c, n) == \A k \in 1 .. Len(c.simples) : MatchSimple(c.simples[k], n)

(* The nearest of m and its ancestors that matches. *)
Nearest(c, m) ==
  LET up[a \in Ref] == IF a = NoNode \/ MatchCompound(c, a) THEN a ELSE up[tree.parent[a]]
  IN  up[m]

(* Outwards from the subject; a descendant combinator takes the nearest    *)
(* ancestor that matches and never another.                                *)
Outwards(c, m) ==
  CASE m = NoNode                          -> NoNode
    [] m # NoNode /\ c.comb = "descendant" -> Nearest(c, tree.parent[m])
    [] m # NoNode /\ c.comb # "descendant" ->
         IF tree.parent[m] # NoNode /\ MatchCompound(c, tree.parent[m]) THEN tree.parent[m] ELSE NoNode
Matches(sel, n) ==
  LET current[k \in 1 .. Len(sel)] ==
        IF k = 1 THEN IF MatchCompound(sel[1], n) THEN n ELSE NoNode
        ELSE Outwards(sel[k], current[k - 1])
  IN  current[Len(sel)] # NoNode

CountSimples(sel, types) ==
  FoldLeft(LAMBDA sum, c : sum + Len(SelectSeq(c.simples, LAMBDA s : s.type \in types)), 0, sel)

(* Ids, classes and tags of a selector, eight bits each. *)
ComputeSpecificity(sel) ==
  65536 * CountSimples(sel, {"id"}) + 256 * CountSimples(sel, {"class", "attribute", "pseudo"})
    + CountSimples(sel, {"tag"})

(* The sheets one after another; a rule counts once, by its first selector *)
(* that matches.                                                           *)
Rules ==
  LET upTo[n \in 0 .. Len(css.got)] ==
        IF n = 0 THEN <<>>
        ELSE IF css.texts[n].inline THEN upTo[n - 1] ELSE upTo[n - 1] \o css.got[n]
  IN  upTo[Len(css.got)]
InlineOf(n) ==
  LET lists == {k \in 1 .. Len(css.got) : css.texts[k].inline}
  IN  IF n # Styled \/ lists = {} THEN <<>>
      ELSE css.got[CHOOSE k \in lists : \A j \in lists : j <= k]

Matched(r, all, sel) ==
  Append(all, [decls |-> r.decls, order |-> Len(all), specificity |-> ComputeSpecificity(sel)])
CollectMatchingRules(n) ==
  LET rules == Rules
      matching(r) == {j \in 1 .. Len(r.sels) : Matches(r.sels[j], n)}
      upTo[k \in 0 .. Len(rules)] ==
        IF k = 0 THEN <<>>
        ELSE IF matching(rules[k]) = {} THEN upTo[k - 1]
        ELSE Matched(rules[k], upTo[k - 1], rules[k].sels[FirstOf(matching(rules[k]))])
  IN  upTo[Len(rules)]

(* The matched rules that come before the k-th.                            *)
AheadByOrder(matched, k) == {j \in 1 .. Len(matched) : matched[j].order < matched[k].order}
Ahead(matched, k) ==
  {j \in 1 .. Len(matched) :
     \/ matched[j].specificity < matched[k].specificity
     \/ matched[j].specificity = matched[k].specificity /\ matched[j].order < matched[k].order}

(* No two of them are equal, so each has a place of its own.               *)
SortBySpecificity(matched) ==
  [i \in 1 .. Len(matched) |->
     matched[CHOOSE k \in 1 .. Len(matched) : Cardinality(Ahead(matched, k)) = i - 1]]
----------------------------------------------------------------------------
(* Computed styles.                                                        *)

Unset == Length(0, "")

InitialOf(p) ==
  CASE p \in LengthProperties              -> Unset
    [] p = "background-color"              -> Color(<<0, 0, 0, 0>>)
    [] p = "color"                         -> Color(<<0, 0, 0, 255>>)
    [] p \in ToSet(SidesOf["border-color"]) -> Color(<<0, 0, 0, 0>>)
    [] p \in {"flex-grow", "z-index"}      -> Number(0)
    [] p \in {"flex-shrink", "opacity"}    -> Number(10)
    [] p = "font-weight"                   -> Number(4000)
    [] p = "display"                       -> Enum("block")
    [] p = "position"                      -> Enum("static")
    [] p = "box-sizing"                    -> Enum("content-box")
    [] p \in {"overflow", "visibility"}    -> Enum("visible")
    [] p = "flex-direction"                -> Enum("row")
    [] p = "flex-wrap"                     -> Enum("nowrap")
    [] p = "justify-content"               -> Enum("flex-start")
    [] p = "align-items"                   -> Enum("stretch")
    [] p = "align-self"                    -> Enum("auto")
    [] p = "text-align"                    -> Enum("left")
    [] p \in {"white-space", "font-style"} -> Enum("normal")
    [] p = "vertical-align"                -> Enum("baseline")
    [] p \in ToSet(SidesOf["border-style"]) -> Enum("none")
    [] p = "font-family" \/ p \in TransitionProperties -> NoValue
Initial == [p \in Properties |-> InitialOf(p)]

InheritProperties(parent) ==
  [p \in Properties |->
     IF p \in {"color", "visibility", "font-family", "font-size", "font-weight", "font-style",
               "line-height", "text-align", "white-space", "letter-spacing"}
     THEN parent[p] ELSE Initial[p]]

ToLengthValue(v) ==
  CASE v.type = "length" -> v
    [] v.type = "auto"   -> Length(0, "auto")
    [] OTHER             -> Unset

TakesInherit ==
  {"color", "visibility", "font-family", "font-size", "font-weight", "font-style", "line-height",
   "text-align", "white-space", "letter-spacing", "display", "position", "top", "right", "bottom",
   "left", "width", "height", "opacity"}
TakesInitial == {"color", "display", "visibility", "font-size", "font-weight"}

(* What a property takes from a value: the value if it is of the           *)
(* property's kind and nothing otherwise, but for lengths, which are unset.*)
OfKind(type, v) == IF v.type = type THEN v ELSE NoValue

TextProperties ==
  {"font-family", "line-height", "vertical-align"} \cup TransitionProperties
TextValue(p, v) ==
  CASE p = "font-family"                            -> NoValue
    [] p = "line-height" /\ v.type = "number"       -> Length(v.num, "number")
    [] p = "line-height" /\ v.type # "number"       -> ToLengthValue(v)
    [] p = "vertical-align" /\ v.type = "length"    -> v
    [] p = "vertical-align" /\ v.type # "length"    -> OfKind("enum", v)
    [] p \in {"transition-property", "transition-timing-function"} -> OfKind("enum", v)
    [] p \in {"transition-duration", "transition-delay"}           -> OfKind("number", v)

(* As integers: z-index of 32 bits, font-weight of 16 without a sign; a     *)
(* part of one is cut off, whichever side of zero it is on.                *)
Truncated(n) == IF n < 0 THEN -(10 * ((-n) \div 10)) ELSE 10 * (n \div 10)
IntegerValue(p, v) ==
  CASE v.type # "number"                       -> NoValue
    [] v.type = "number" /\ p = "z-index"      -> Number(Truncated(v.num))
    [] v.type = "number" /\ p = "font-weight"  -> Number(Truncated(v.num) % 655360)

PropertyValue(p, v) ==
  CASE p \in TextProperties                         -> TextValue(p, v)
    [] p \in LengthProperties \ TextProperties      -> ToLengthValue(v)
    [] p \in ColorProperties                        -> OfKind("color", v)
    [] p \in {"z-index", "font-weight"}             -> IntegerValue(p, v)
    [] p \in NumberProperties \ {"z-index", "font-weight"} -> OfKind("number", v)
    [] p = "overflow" /\ v.type = "auto"            -> Enum("auto")
    [] p \in EnumProperties /\ ~(p = "overflow" /\ v.type = "auto") -> OfKind("enum", v)

ApplyValue(old, p, v) == IF PropertyValue(p, v) = NoValue THEN old ELSE PropertyValue(p, v)

ApplyDeclaration(style, d, parent) ==
  CASE d.value.type = "inherit" /\ parent # <<>> ->
         IF d.prop \in TakesInherit THEN [style EXCEPT ![d.prop] = parent[d.prop]] ELSE style
    [] d.value.type = "initial" ->
         IF d.prop \in TakesInitial THEN [style EXCEPT ![d.prop] = Initial[d.prop]] ELSE style
    [] d.value.type # "initial" /\ ~(d.value.type = "inherit" /\ parent # <<>>) ->
         [style EXCEPT ![d.prop] = ApplyValue(@, d.prop, d.value)]

ApplyAll(style, decls, parent, important) ==
  LET Then(s, d) == IF d.important = important THEN ApplyDeclaration(s, d, parent) ELSE s
      after[k \in 0 .. Len(decls)] == IF k = 0 THEN style ELSE Then(after[k - 1], decls[k])
  IN  after[Len(decls)]

(* The declarations of the rules, then the inline ones.                    *)
Origins(matched, inline) == Append([k \in 1 .. Len(matched) |-> matched[k].decls], inline)

(* Those of all origins that are important, or those that are not.         *)
ApplyOrigins(style, origins, parent, important) ==
  LET after[k \in 0 .. Len(origins)] ==
        IF k = 0 THEN style ELSE ApplyAll(after[k - 1], origins[k], parent, important)
  IN  after[Len(origins)]

Layered(base, origins, parent) ==
  ApplyOrigins(ApplyOrigins(base, origins, parent, FALSE), origins, parent, TRUE)

(* The style of n under that of its parent, <<>> for none.                 *)
Resolve(n, parent) ==
  Layered(IF parent = <<>> THEN Initial ELSE InheritProperties(parent),
          Origins(SortBySpecificity(CollectMatchingRules(n)), InlineOf(n)), parent)

(* The styles of a document, from the root down (layout's box tree). *)
StyleOf(n) ==
  LET down[m \in Ref] == IF m = NoNode THEN <<>> ELSE Resolve(m, down[tree.parent[m]])
  IN  down[n]
----------------------------------------------------------------------------
(* The cascade as CSS defines it.                                          *)

(* An element for every compound, each above the one before it. *)
RefMatches(sel, n) ==
  \E w \in [1 .. Len(sel) -> Elements] :
    /\ w[1] = n
    /\ \A k \in 1 .. Len(sel) : MatchCompound(sel[k], w[k])
    /\ \A k \in 2 .. Len(sel) :
         IF sel[k].comb = "child" THEN w[k] = tree.parent[w[k - 1]]
         ELSE w[k] # w[k - 1] /\ OnPath(w[k - 1], w[k])

(* A selector for which the nearest ancestor may be the wrong one. *)
NeedsBacktracking(sel) ==
  \E j, k \in 2 .. Len(sel) : j < k /\ sel[j].comb = "descendant" /\ sel[k].comb = "child"

(* A selector whose specificity does not overflow its eight bits a kind. *)
Packed(sel) ==
  \A types \in {{"id"}, {"class", "attribute", "pseudo"}, {"tag"}} : CountSimples(sel, types) \in 0 .. 255

(* A declaration whose value is of the property's kind, or a keyword the   *)
(* resolver knows for it.                                                  *)
Counts(d) ==
  CASE d.value.type = "inherit" -> d.prop \in TakesInherit
    [] d.value.type = "initial" -> d.prop \in TakesInitial
    [] OTHER -> PropertyValue(d.prop, d.value) # NoValue

(* The value it gives to its property, under the style of a parent.        *)
Gives(d, parent) ==
  CASE d.value.type = "inherit" -> parent[d.prop]
    [] d.value.type = "initial" -> Initial[d.prop]
    [] OTHER                    -> PropertyValue(d.prop, d.value)

Stronger(a, b) ==
  \E i \in 1 .. Len(a) : a[i] > b[i] /\ \A j \in 1 .. i - 1 : a[j] = b[j]

(* A rule has for an element the specificity of the most specific of its   *)
(* selectors that match the element.                                       *)
Kinds(sel) == <<CountSimples(sel, {"id"}), CountSimples(sel, {"class", "attribute", "pseudo"}),
                CountSimples(sel, {"tag"})>>
RefMatching(r, n) == {j \in 1 .. Len(r.sels) : RefMatches(r.sels[j], n)}
MostSpecific(r, n) ==
  LET all == {Kinds(r.sels[j]) : j \in RefMatching(r, n)}
  IN  CHOOSE w \in all : \A x \in all \ {w} : Stronger(w, x)

(* A rule with a selector more specific than the first one that matches,   *)
(* by which the resolver counts it (CollectMatchingRules).                 *)
Undercounted(r, n) ==
  \E j \in RefMatching(r, n) : Stronger(Kinds(r.sels[j]), Kinds(r.sels[FirstOf(RefMatching(r, n))]))

(* Every declaration of p that reaches n, with what decides between them:  *)
(* importance, inline or not, ids, classes, tags, place of the rule, place *)
(* in the rule.                                                            *)
Candidates(n, p) ==
  LET weight(d) == IF d.important THEN 1 ELSE 0
      most(j) == MostSpecific(Rules[j], n)
      ofRule(j, k) ==
        [key |-> <<weight(Rules[j].decls[k]), 0, most(j)[1], most(j)[2], most(j)[3], j, k>>,
         decl |-> Rules[j].decls[k]]
      ofInline(k) == [key |-> <<weight(InlineOf(n)[k]), 1, 0, 0, 0, 0, k>>, decl |-> InlineOf(n)[k]]
      speaks(d) == d.prop = p /\ Counts(d)
  IN  (UNION {{ofRule(j, k) : k \in {i \in 1 .. Len(Rules[j].decls) : speaks(Rules[j].decls[i])}} :
                j \in {r \in 1 .. Len(Rules) : RefMatching(Rules[r], n) # {}}})
        \cup {ofInline(k) : k \in {i \in 1 .. Len(InlineOf(n)) : speaks(InlineOf(n)[i])}}

RefStyle(n, parent) ==
  [p \in Properties |->
     LET strongest(all) ==
           IF all # {} THEN Gives((CHOOSE c \in all : \A d \in all \ {c} : Stronger(c.key, d.key)).decl, parent)
           ELSE IF IsInheritedProperty(p) THEN parent[p] ELSE Initial[p]
     IN  strongest(Candidates(n, p))]

(* Each property of each element has the value of the strongest            *)
(* declaration that reaches it, or its parent's, or the initial one: what  *)
(* sorting and applying in four passes (StyleResolver::Resolve) comes to.  *)
(* Left out are the elements some rule is undercounted for: the resolver   *)
(* ranks 'p.c, #x' by p.c on an element that both match.                   *)
CascadeExact ==
  AllParsed /\ (\A k \in 1 .. Len(Rules) : \A j \in 1 .. Len(Rules[k].sels) :
                  ~NeedsBacktracking(Rules[k].sels[j]) /\ Packed(Rules[k].sels[j]))
    => \A n \in Elements :
         tree.parent[n] # NoNode /\ (\A k \in 1 .. Len(Rules) : ~Undercounted(Rules[k], n))
           => StyleOf(n) = RefStyle(n, StyleOf(tree.parent[n]))
=============================================================================
