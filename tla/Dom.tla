-------------------------------- MODULE Dom --------------------------------
(***************************************************************************)
(* The node tree of a document: vx::dom::Node, Element and Document.       *)
(*                                                                         *)
(* A node is its place in Document::owned_nodes_ (the document itself is   *)
(* node 1), so a greater number is a younger node; nodes are freed with    *)
(* their document only. `tree` holds the links, `content` what a node      *)
(* carries. The operators take a tree and give the tree after the call;    *)
(* like the code they check nothing. DomNext is what their callers (the    *)
(* HTML parser and the script bindings) do with them: a node is put under  *)
(* an older one and after older ones, and has no parent when it is put     *)
(* there.                                                                  *)
(***************************************************************************)
EXTENDS Integers, Sequences, FiniteSets

CONSTANT MaxNodes  \* bound on the nodes created

ASSUME DomAssumption == MaxNodes \in Nat \ {0}

VARIABLES tree, content

domVars == <<tree, content>>

DomNodes == 1 .. MaxNodes
NoNode   == 0
Doc      == 1
Ref      == DomNodes \cup {NoNode}

Everywhere(x) == [n \in DomNodes |-> x]

Blank == [kind |-> "none", tag |-> "", id |-> "", attrs |-> <<>>,
          classes |-> <<>>, inline |-> <<>>, data |-> <<>>]

(* A document without children: `made` nodes exist, the first of them.     *)
EmptyTree == [made |-> 1, parent |-> Everywhere(NoNode), next |-> Everywhere(NoNode),
              prev |-> Everywhere(NoNode), first |-> Everywhere(NoNode),
              last |-> Everywhere(NoNode), count |-> Everywhere(0)]

EmptyContent == [Everywhere(Blank) EXCEPT ![Doc].kind = "document"]

DomInit == tree = EmptyTree /\ content = EmptyContent

Made == 1 .. tree.made
----------------------------------------------------------------------------
(* Links.                                                                  *)

AppendChild(t, p, c) ==
  [made   |-> t.made,
   parent |-> [t.parent EXCEPT ![c] = p],
   next   |-> [n \in DomNodes |-> CASE n = c         -> NoNode
                                    [] n # c /\ n = t.last[p] -> c
                                    [] OTHER         -> t.next[n]],
   prev   |-> [t.prev EXCEPT ![c] = t.last[p]],
   first  |-> [t.first EXCEPT ![p] = IF t.last[p] = NoNode THEN c ELSE @],
   last   |-> [t.last EXCEPT ![p] = c],
   count  |-> [t.count EXCEPT ![p] = @ + 1]]

(* The siblings of c close the gap, and c keeps none of them. *)
NextWithout(t, c) ==
  [n \in DomNodes |-> CASE n = c -> NoNode
                        [] n # c /\ n = t.prev[c] -> t.next[c]
                        [] OTHER -> t.next[n]]
PrevWithout(t, c) ==
  [n \in DomNodes |-> CASE n = c -> NoNode
                        [] n # c /\ n = t.next[c] -> t.prev[c]
                        [] OTHER -> t.prev[n]]

(* A removal that fixes the chain of siblings only. *)
RemoveChildKeepingEnds(t, p, c) ==
  [t EXCEPT !.parent[c] = NoNode, !.next = NextWithout(t, c), !.prev = PrevWithout(t, c),
            !.count[p] = @ - 1]

RemoveChild(t, p, c) ==
  [made   |-> t.made,
   parent |-> [t.parent EXCEPT ![c] = NoNode],
   next   |-> NextWithout(t, c),
   prev   |-> PrevWithout(t, c),
   first  |-> [t.first EXCEPT ![p] = IF t.prev[c] = NoNode THEN t.next[c] ELSE @],
   last   |-> [t.last EXCEPT ![p] = IF t.next[c] = NoNode THEN t.prev[c] ELSE @],
   count  |-> [t.count EXCEPT ![p] = @ - 1]]

(* A new node is the last of owned_nodes_. *)
CreateNode(t) == [t EXCEPT !.made = @ + 1]

(* The children of p, in order. *)
ChildrenOf(t, p) ==
  LET chain[n \in Ref] == IF n = NoNode THEN <<>> ELSE <<n>> \o chain[t.next[n]]
  IN  chain[t.first[p]]
----------------------------------------------------------------------------
(* Content.                                                                *)

FirstOf(S) == CHOOSE i \in S : \A j \in S : i <= j

(* Attributes keep the place of their first occurrence. *)
Assign(s, name, value) ==
  LET at == {i \in 1 .. Len(s) : s[i].name = name}
  IN  IF at = {} THEN Append(s, [name |-> name, value |-> value])
      ELSE [s EXCEPT ![FirstOf(at)].value = value]

SetAttribute(node, name, value) == [node EXCEPT !.attrs = Assign(@, name, value)]

HasAttribute(node, name) == \E i \in 1 .. Len(node.attrs) : node.attrs[i].name = name
GetAttribute(node, name) ==
  node.attrs[FirstOf({i \in 1 .. Len(node.attrs) : node.attrs[i].name = name})].value

SetInlineDeclaration(node, prop, value) == [node EXCEPT !.inline = Assign(@, prop, value)]

HasClass(node, cls) == \E i \in 1 .. Len(node.classes) : node.classes[i] = cls
AddClass(node, cls) ==
  IF HasClass(node, cls) THEN node ELSE [node EXCEPT !.classes = Append(@, cls)]

IsElement(n) == content[n].kind \in {"element", "document"}
IsText(n)    == content[n].kind = "text"
----------------------------------------------------------------------------
(* What the callers do with the tree.                                      *)

Create == tree.made < MaxNodes /\ tree' = CreateNode(tree)

Attach(p, c) ==
  /\ p \in Made /\ c \in Made
  /\ p < c /\ tree.last[p] < c /\ tree.parent[c] = NoNode
  /\ tree' = AppendChild(tree, p, c)

Detach(p, c) ==
  /\ c \in Made /\ p = tree.parent[c] /\ p # NoNode
  /\ tree' = RemoveChild(tree, p, c)

AttachNew(p) ==
  /\ tree.made < MaxNodes /\ p \in Made
  /\ tree' = AppendChild(CreateNode(tree), p, tree.made + 1)

DomNext ==
  Create \/ \E p \in DomNodes : AttachNew(p) \/ \E c \in DomNodes : Attach(p, c) \/ Detach(p, c)

DomSpec == DomInit /\ [][DomNext]_tree
----------------------------------------------------------------------------
(* Links, counters and their ranges. *)
TreeTypeOK ==
  /\ tree \in [made : DomNodes,
               parent : [DomNodes -> Ref], next : [DomNodes -> Ref],
               prev : [DomNodes -> Ref], first : [DomNodes -> Ref],
               last : [DomNodes -> Ref], count : [DomNodes -> Int]]

(* The two directions of a sibling link agree, siblings share a parent,    *)
(* and the ends of the list are the children without a neighbour.          *)
SiblingsAgree ==
  \A n \in DomNodes :
    /\ tree.next[n] # NoNode => /\ tree.prev[tree.next[n]] = n
                                /\ tree.parent[tree.next[n]] = tree.parent[n]
                                /\ tree.parent[n] # NoNode
    /\ tree.prev[n] # NoNode => /\ tree.next[tree.prev[n]] = n
                                /\ tree.parent[tree.prev[n]] = tree.parent[n]
                                /\ tree.parent[n] # NoNode

EndsAgree ==
  \A p \in DomNodes :
    /\ tree.first[p] # NoNode => tree.parent[tree.first[p]] = p /\ tree.prev[tree.first[p]] = NoNode
    /\ tree.last[p] # NoNode => tree.parent[tree.last[p]] = p /\ tree.next[tree.last[p]] = NoNode
    /\ tree.first[p] = NoNode <=> tree.last[p] = NoNode

ChildrenReached ==
  \A n \in DomNodes :
    tree.parent[n] # NoNode =>
      /\ tree.prev[n] = NoNode => tree.first[tree.parent[n]] = n
      /\ tree.next[n] = NoNode => tree.last[tree.parent[n]] = n

CountsAgree ==
  \A p \in DomNodes : tree.count[p] = Cardinality({n \in DomNodes : tree.parent[n] = p})

(* A parent is older than its children and a sibling than the next, so     *)
(* every walk along the links ends, like that of an event's path.          *)
NoCycle ==
  \A n \in DomNodes : /\ tree.parent[n] < n
                      /\ tree.next[n] # NoNode => n < tree.next[n]

(* Whatever parser and script do, parent, sibling, first and last links    *)
(* of node.cc describe one tree; a walk down by first_child and            *)
(* next_sibling and a walk up by parent meet the same nodes, as many as    *)
(* child_count says.                                                       *)
TreeLinked == SiblingsAgree /\ EndsAgree /\ ChildrenReached /\ CountsAgree /\ NoCycle

(* Parser and script keep to what AppendChild and RemoveChild need and do  *)
(* not check (node.cc:12): through implicit closes, clones still open and  *)
(* children taken out half way, a node is only put under an older one,     *)
(* behind older siblings, while it has no parent, and only taken out of    *)
(* the parent it has. A new document starts afresh.                        *)
CallersKeepOrder == [][DomNext \/ tree' = EmptyTree]_tree
=============================================================================
