----------------------------- MODULE PageProofs -----------------------------
(* The links of the tree, for any sequence of calls that keep to DomNext;  *)
(* its two callers, the HTML parser and the script bindings, keep to the   *)
(* order those links need; the listeners of the script and their record    *)
(* agree, and events are dispatched in order. For any number of            *)
(* nodes, listeners and calls, any texts and fragments.                    *)
EXTENDS DomBindings, HtmlParser, FiniteSetTheorems, SequenceTheorems, WellFoundedInduction, TLAPS
----------------------------------------------------------------------------
LinksOK == SiblingsAgree /\ EndsAgree /\ ChildrenReached /\ NoCycle

(* Nothing hangs on a node that has not been created.                      *)
Unborn == \A n \in DomNodes : n > tree.made => tree.parent[n] = NoNode

(* A node that has no parent becomes the last child of p, in t: the tree,  *)
(* or the tree with that node just made.                                   *)
Attaches(p, c, t) ==
  /\ t.made \in DomNodes /\ t.made >= tree.made /\ c <= t.made
  /\ t.parent = tree.parent /\ t.next = tree.next /\ t.prev = tree.prev
  /\ t.first = tree.first /\ t.last = tree.last /\ t.count = tree.count
  /\ p < c /\ tree.last[p] < c /\ tree.parent[c] = NoNode
  /\ tree' = AppendChild(t, p, c)

ChildSet(q) == {n \in DomNodes : tree.parent[n] = q}

LEMMA NodesFinite == IsFiniteSet(DomNodes) /\ NoNode \notin DomNodes /\ Doc \in DomNodes
<1>1. IsFiniteSet(1 .. MaxNodes)
  BY FS_Interval, DomAssumption
<1> QED
  BY <1>1, DomAssumption DEF DomNodes, NoNode, Doc

(* Every node starts without links. *)
LEMMA InitLinked == DomInit => TreeTypeOK /\ LinksOK /\ Unborn /\ CountsAgree
<1> SUFFICES ASSUME DomInit PROVE TreeTypeOK /\ LinksOK /\ Unborn /\ CountsAgree
  OBVIOUS
<1>1. TreeTypeOK
  BY NodesFinite DEF DomInit, EmptyTree, TreeTypeOK, Everywhere, Ref, Doc
<1>2. LinksOK
  BY NodesFinite, DomAssumption
  DEF DomInit, DomNodes, NoNode, EmptyTree, LinksOK, SiblingsAgree, EndsAgree, ChildrenReached, NoCycle, Everywhere
<1>3. CountsAgree
  <2> SUFFICES ASSUME NEW q \in DomNodes PROVE tree.count[q] = Cardinality(ChildSet(q))
    BY DEF CountsAgree, ChildSet
  <2>1. ChildSet(q) = {}
    BY NodesFinite DEF DomInit, EmptyTree, ChildSet, Everywhere
  <2> QED
    BY <2>1, FS_EmptySet DEF DomInit, EmptyTree, Everywhere
<1>4. Unborn
  BY DEF DomInit, EmptyTree, Unborn, Everywhere
<1> QED
  BY <1>1, <1>2, <1>3, <1>4

(* A node created touches no link. *)
LEMMA CreateLinked ==
  ASSUME TreeTypeOK, LinksOK, Unborn, CountsAgree, Create
  PROVE  (TreeTypeOK /\ LinksOK /\ Unborn /\ CountsAgree)'
<1>1. /\ tree'.made = tree.made + 1 /\ tree'.parent = tree.parent
      /\ tree'.next = tree.next /\ tree'.prev = tree.prev
      /\ tree'.first = tree.first /\ tree'.last = tree.last /\ tree'.count = tree.count
  BY DEF Create, CreateNode, TreeTypeOK
<1>2. TreeTypeOK'
  <2>1. tree' = [made |-> tree.made + 1, parent |-> tree.parent, next |-> tree.next,
                 prev |-> tree.prev, first |-> tree.first, last |-> tree.last,
                 count |-> tree.count]
    BY DEF Create, CreateNode, TreeTypeOK
  <2>2. tree.made + 1 \in DomNodes
    BY DomAssumption DEF Create, TreeTypeOK, DomNodes
  <2> QED
    BY <2>1, <2>2 DEF TreeTypeOK
<1>3. LinksOK'
  BY <1>1 DEF LinksOK, SiblingsAgree, EndsAgree, ChildrenReached, NoCycle
<1>4. CountsAgree'
  BY <1>1 DEF CountsAgree
<1>5. Unborn'
  BY <1>1, DomAssumption DEF Unborn, TreeTypeOK, DomNodes
<1> QED
  BY <1>2, <1>3, <1>4, <1>5

(* A node without a parent has no siblings, so it is appended clean. *)
LEMMA AttachLinked ==
  ASSUME TreeTypeOK, LinksOK, Unborn, CountsAgree,
         NEW p \in DomNodes, NEW c \in DomNodes, NEW t, Attaches(p, c, t)
  PROVE  (TreeTypeOK /\ LinksOK /\ Unborn /\ CountsAgree)'
<1> DEFINE l == tree.last[p]
<1>1. /\ tree.parent[c] = NoNode /\ p < c /\ p # c /\ l \in Ref /\ l < c /\ l # c
      /\ tree.next[c] = NoNode /\ tree.prev[c] = NoNode
  <2>1. tree.parent[c] = NoNode /\ p < c /\ l < c
    BY DEF Attaches
  <2>2. p # c /\ l # c /\ p # NoNode
    BY <2>1, NodesFinite, DomAssumption DEF DomNodes, Ref, TreeTypeOK, NoNode
  <2>3. l \in Ref
    BY DEF TreeTypeOK
  <2>4. tree.next[c] = NoNode /\ tree.prev[c] = NoNode
    BY <2>1 DEF LinksOK, SiblingsAgree
  <2> QED
    BY <2>1, <2>2, <2>3, <2>4
<1>2. /\ tree'.parent = [tree.parent EXCEPT ![c] = p]
      /\ tree'.prev = [tree.prev EXCEPT ![c] = l]
      /\ tree'.first = [tree.first EXCEPT ![p] = IF l = NoNode THEN c ELSE @]
      /\ tree'.last = [tree.last EXCEPT ![p] = c]
      /\ tree'.count = [tree.count EXCEPT ![p] = @ + 1]
      /\ tree'.made = t.made /\ t.made \in DomNodes
  BY DEF Attaches, AppendChild
<1>3. /\ tree'.next \in [DomNodes -> Ref]
      /\ \A n \in DomNodes : tree'.next[n] = IF n = c THEN NoNode
                                             ELSE IF n = l THEN c ELSE tree.next[n]
  BY DEF Attaches, AppendChild, TreeTypeOK, Ref
<1>4. TreeTypeOK'
  <2>1. tree' = [made |-> tree'.made, parent |-> tree'.parent, next |-> tree'.next,
                 prev |-> tree'.prev, first |-> tree'.first, last |-> tree'.last,
                 count |-> tree'.count]
    BY DEF Attaches, AppendChild
  <2>2. /\ tree'.made \in DomNodes /\ tree'.parent \in [DomNodes -> Ref]
        /\ tree'.prev \in [DomNodes -> Ref] /\ tree'.first \in [DomNodes -> Ref]
        /\ tree'.last \in [DomNodes -> Ref] /\ tree'.count \in [DomNodes -> Int]
    BY <1>1, <1>2 DEF TreeTypeOK, Ref
  <2> QED
    BY <2>1, <2>2, <1>3 DEF TreeTypeOK
<1>5. \A n \in DomNodes :
        /\ tree'.parent[n] = IF n = c THEN p ELSE tree.parent[n]
        /\ tree'.prev[n] = IF n = c THEN l ELSE tree.prev[n]
        /\ tree'.first[n] = IF n = p /\ l = NoNode THEN c ELSE tree.first[n]
        /\ tree'.last[n] = IF n = p THEN c ELSE tree.last[n]
  BY <1>2 DEF TreeTypeOK
<1>6. l # NoNode => l \in DomNodes /\ tree.parent[l] = p /\ tree.next[l] = NoNode
  BY <1>1 DEF LinksOK, EndsAgree, Ref
<1> HIDE DEF l
<1>7. SiblingsAgree'
  <2> SUFFICES ASSUME NEW n \in DomNodes
      PROVE  /\ tree'.next[n] # NoNode => /\ tree'.prev[tree'.next[n]] = n
                                          /\ tree'.parent[tree'.next[n]] = tree'.parent[n]
                                          /\ tree'.parent[n] # NoNode
             /\ tree'.prev[n] # NoNode => /\ tree'.next[tree'.prev[n]] = n
                                          /\ tree'.parent[tree'.prev[n]] = tree'.parent[n]
                                          /\ tree'.parent[n] # NoNode
    BY DEF SiblingsAgree
  <2>1. \A m \in DomNodes :
          /\ tree.next[m] # NoNode => /\ tree.next[m] \in DomNodes /\ tree.prev[tree.next[m]] = m
                                      /\ tree.parent[tree.next[m]] = tree.parent[m]
                                      /\ tree.parent[m] # NoNode
          /\ tree.prev[m] # NoNode => /\ tree.prev[m] \in DomNodes /\ tree.next[tree.prev[m]] = m
                                      /\ tree.parent[tree.prev[m]] = tree.parent[m]
                                      /\ tree.parent[m] # NoNode
    BY DEF LinksOK, SiblingsAgree, TreeTypeOK, Ref
  <2>2. CASE n = c
    BY <2>2, <2>1, <1>1, <1>3, <1>5, <1>6, NodesFinite
  <2>3. CASE n # c /\ n = l
    BY <2>3, <2>1, <1>1, <1>3, <1>5, <1>6, NodesFinite
  <2>4. CASE n # c /\ n # l
    BY <2>4, <2>1, <1>1, <1>3, <1>5, <1>6, NodesFinite
  <2> QED
    BY <2>2, <2>3, <2>4
<1>8. EndsAgree'
  <2> SUFFICES ASSUME NEW q \in DomNodes
      PROVE  /\ tree'.first[q] # NoNode => /\ tree'.parent[tree'.first[q]] = q
                                           /\ tree'.prev[tree'.first[q]] = NoNode
             /\ tree'.last[q] # NoNode => /\ tree'.parent[tree'.last[q]] = q
                                          /\ tree'.next[tree'.last[q]] = NoNode
             /\ tree'.first[q] = NoNode <=> tree'.last[q] = NoNode
    BY DEF EndsAgree
  <2>1. /\ tree.first[q] # NoNode => /\ tree.first[q] \in DomNodes
                                     /\ tree.parent[tree.first[q]] = q
                                     /\ tree.prev[tree.first[q]] = NoNode
        /\ tree.last[q] # NoNode => /\ tree.last[q] \in DomNodes
                                    /\ tree.parent[tree.last[q]] = q
                                    /\ tree.next[tree.last[q]] = NoNode
        /\ tree.first[q] = NoNode <=> tree.last[q] = NoNode
    BY DEF LinksOK, EndsAgree, TreeTypeOK, Ref
  <2>2. c # NoNode /\ q # NoNode
    BY NodesFinite
  <2>3. CASE q = p
    BY <2>1, <2>2, <2>3, <1>1, <1>3, <1>5, <1>6 DEF l
  <2>4. CASE q # p
    <3>1. tree'.first[q] = tree.first[q] /\ tree'.last[q] = tree.last[q]
      BY <2>4, <1>5
    <3>2. tree.first[q] # c /\ tree.last[q] # c
      BY <2>1, <2>2, <1>1
    <3>3. tree.last[q] # NoNode => tree.last[q] # l
      BY <2>1, <2>4, <1>6
    <3> QED
      BY <2>1, <3>1, <3>2, <3>3, <1>3, <1>5
  <2> QED
    BY <2>3, <2>4
<1>9. ChildrenReached'
  <2> SUFFICES ASSUME NEW n \in DomNodes, tree'.parent[n] # NoNode
      PROVE  /\ tree'.prev[n] = NoNode => tree'.first[tree'.parent[n]] = n
             /\ tree'.next[n] = NoNode => tree'.last[tree'.parent[n]] = n
    BY DEF ChildrenReached
  <2>1. tree.parent[n] # NoNode => /\ tree.parent[n] \in DomNodes
                                   /\ tree.prev[n] = NoNode => tree.first[tree.parent[n]] = n
                                   /\ tree.next[n] = NoNode => tree.last[tree.parent[n]] = n
    BY DEF LinksOK, ChildrenReached, TreeTypeOK, Ref
  <2>2. l = NoNode <=> tree.first[p] = NoNode
    BY DEF LinksOK, EndsAgree, l
  <2>3. c # NoNode /\ n # NoNode
    BY NodesFinite
  <2>4. CASE n = c
    BY <2>2, <2>3, <2>4, <1>1, <1>3, <1>5
  <2>5. CASE n # c
    <3>1. tree.parent[n] # NoNode /\ tree'.parent[n] = tree.parent[n]
      BY <2>5, <1>5
    <3>2. ASSUME tree'.prev[n] = NoNode PROVE tree'.first[tree'.parent[n]] = n
      BY <3>1, <3>2, <2>1, <2>2, <2>3, <2>5, <1>5
    <3>3. ASSUME tree'.next[n] = NoNode PROVE tree'.last[tree'.parent[n]] = n
      <4>1. n # l /\ tree.next[n] = NoNode
        BY <3>3, <2>3, <2>5, <1>3
      <4>2. tree.parent[n] # p
        BY <4>1, <3>1, <2>1 DEF l
      <4> QED
        BY <4>1, <4>2, <3>1, <2>1, <1>5
    <3> QED
      BY <3>2, <3>3
  <2> QED
    BY <2>4, <2>5
<1>10. NoCycle'
  <2> SUFFICES ASSUME NEW n \in DomNodes
      PROVE  tree'.parent[n] < n /\ (tree'.next[n] # NoNode => n < tree'.next[n])
    BY DEF NoCycle
  <2>1. tree.parent[n] < n /\ (tree.next[n] # NoNode => n < tree.next[n])
    BY DEF LinksOK, NoCycle
  <2> QED
    BY <2>1, <1>1, <1>3, <1>5
<1>11. CountsAgree'
  <2> SUFFICES ASSUME NEW q \in DomNodes PROVE tree'.count[q] = Cardinality(ChildSet(q)')
    BY DEF CountsAgree, ChildSet
  <2>1. ChildSet(q)' = IF q = p THEN ChildSet(q) \cup {c} ELSE ChildSet(q)
    BY <1>1, <1>5, NodesFinite DEF ChildSet
  <2>2. c \notin ChildSet(q) /\ IsFiniteSet(ChildSet(q))
    BY <1>1, NodesFinite, FS_Subset DEF ChildSet
  <2>3. tree.count[q] = Cardinality(ChildSet(q)) /\ tree.count[q] \in Int
    BY DEF CountsAgree, ChildSet, TreeTypeOK
  <2>4. Cardinality(ChildSet(q) \cup {c}) = Cardinality(ChildSet(q)) + 1
    BY <2>2, FS_AddElement
  <2>5. tree'.count[q] = IF q = p THEN tree.count[q] + 1 ELSE tree.count[q]
    BY <1>2 DEF TreeTypeOK
  <2> QED
    BY <2>1, <2>3, <2>4, <2>5
<1>12. Unborn'
  <2> SUFFICES ASSUME NEW n \in DomNodes, n > t.made PROVE tree'.parent[n] = NoNode
    BY <1>2 DEF Unborn
  <2>1. n # c /\ n > tree.made
    BY DomAssumption DEF Attaches, TreeTypeOK, DomNodes
  <2> QED
    BY <2>1, <1>5 DEF Unborn
<1> QED
  BY <1>4, <1>7, <1>8, <1>9, <1>10, <1>11, <1>12 DEF LinksOK

(* A child leaves; its neighbours, or the ends of the list, close the gap. *)
LEMMA DetachLinked ==
  ASSUME TreeTypeOK, LinksOK, Unborn, CountsAgree,
         NEW p \in DomNodes, NEW c \in DomNodes, Detach(p, c)
  PROVE  (TreeTypeOK /\ LinksOK /\ Unborn /\ CountsAgree)'
<1> DEFINE a == tree.prev[c]
           b == tree.next[c]
<1>1. /\ tree.parent[c] = p /\ p # NoNode /\ c # NoNode /\ a \in Ref /\ b \in Ref
  BY NodesFinite DEF Detach, TreeTypeOK
<1>2. /\ tree'.parent = [tree.parent EXCEPT ![c] = NoNode]
      /\ tree'.next = NextWithout(tree, c) /\ tree'.prev = PrevWithout(tree, c)
      /\ tree'.first = [tree.first EXCEPT ![p] = IF a = NoNode THEN b ELSE @]
      /\ tree'.last = [tree.last EXCEPT ![p] = IF b = NoNode THEN a ELSE @]
      /\ tree'.count = [tree.count EXCEPT ![p] = @ - 1]
      /\ tree'.made = tree.made
  BY DEF Detach, RemoveChild
<1>3. /\ tree'.next \in [DomNodes -> Ref] /\ tree'.prev \in [DomNodes -> Ref]
      /\ \A n \in DomNodes :
           /\ tree'.next[n] = IF n = c THEN NoNode ELSE IF n = a THEN b ELSE tree.next[n]
           /\ tree'.prev[n] = IF n = c THEN NoNode ELSE IF n = b THEN a ELSE tree.prev[n]
  BY <1>1, <1>2 DEF NextWithout, PrevWithout, TreeTypeOK, Ref
<1>4. TreeTypeOK'
  <2>1. tree' = [made |-> tree'.made, parent |-> tree'.parent, next |-> tree'.next,
                 prev |-> tree'.prev, first |-> tree'.first, last |-> tree'.last,
                 count |-> tree'.count]
    BY DEF Detach, RemoveChild
  <2>2. /\ tree'.made \in DomNodes /\ tree'.parent \in [DomNodes -> Ref]
        /\ tree'.first \in [DomNodes -> Ref]
        /\ tree'.last \in [DomNodes -> Ref] /\ tree'.count \in [DomNodes -> Int]
    BY <1>1, <1>2 DEF TreeTypeOK, Ref
  <2> QED
    BY <2>1, <2>2, <1>3 DEF TreeTypeOK
<1>5. \A n \in DomNodes :
        /\ tree'.parent[n] = IF n = c THEN NoNode ELSE tree.parent[n]
        /\ tree'.first[n] = IF n = p /\ a = NoNode THEN b ELSE tree.first[n]
        /\ tree'.last[n] = IF n = p /\ b = NoNode THEN a ELSE tree.last[n]
  BY <1>2 DEF TreeTypeOK
<1>6. /\ a # NoNode => a \in DomNodes /\ tree.next[a] = c /\ tree.parent[a] = p /\ a < c
      /\ b # NoNode => b \in DomNodes /\ tree.prev[b] = c /\ tree.parent[b] = p /\ c < b
      /\ a # c /\ b # c /\ (a # NoNode => a # b)
  <2>1. a # NoNode => a \in DomNodes /\ tree.next[a] = c /\ tree.parent[a] = p /\ a < c
    BY <1>1 DEF LinksOK, SiblingsAgree, NoCycle, Ref
  <2>2. b # NoNode => b \in DomNodes /\ tree.prev[b] = c /\ tree.parent[b] = p /\ c < b
    BY <1>1 DEF LinksOK, SiblingsAgree, NoCycle, Ref
  <2> QED
    BY <2>1, <2>2, <1>1, DomAssumption DEF DomNodes
<1>7. /\ a = NoNode => tree.first[p] = c
      /\ b = NoNode => tree.last[p] = c
      /\ a # NoNode => tree.first[p] # c
      /\ b # NoNode => tree.last[p] # c
  BY <1>1 DEF LinksOK, ChildrenReached, EndsAgree
<1> HIDE DEF a, b
<1>8. \A m \in DomNodes :
        /\ m # NoNode
        /\ tree.next[m] # NoNode => /\ tree.next[m] \in DomNodes /\ tree.prev[tree.next[m]] = m
                                    /\ tree.parent[tree.next[m]] = tree.parent[m]
                                    /\ tree.parent[m] # NoNode /\ m < tree.next[m]
        /\ tree.prev[m] # NoNode => /\ tree.prev[m] \in DomNodes /\ tree.next[tree.prev[m]] = m
                                    /\ tree.parent[tree.prev[m]] = tree.parent[m]
                                    /\ tree.parent[m] # NoNode
  BY NodesFinite DEF LinksOK, SiblingsAgree, NoCycle, TreeTypeOK, Ref
<1>9. SiblingsAgree'
  <2> SUFFICES ASSUME NEW n \in DomNodes
      PROVE  /\ tree'.next[n] # NoNode => /\ tree'.prev[tree'.next[n]] = n
                                          /\ tree'.parent[tree'.next[n]] = tree'.parent[n]
                                          /\ tree'.parent[n] # NoNode
             /\ tree'.prev[n] # NoNode => /\ tree'.next[tree'.prev[n]] = n
                                          /\ tree'.parent[tree'.prev[n]] = tree'.parent[n]
                                          /\ tree'.parent[n] # NoNode
    BY DEF SiblingsAgree
  <2>1. CASE n = c
    BY <2>1, <1>3
  <2>2. CASE n # c /\ n = a
    <3>1. n # NoNode /\ a # NoNode /\ tree.parent[n] = p /\ n # b
      BY <2>2, <1>6, <1>8
    <3>2. tree'.next[n] = b /\ tree'.prev[n] = tree.prev[n] /\ tree'.parent[n] = p
      BY <2>2, <3>1, <1>3, <1>5
    <3>3. b # NoNode => tree'.prev[b] = n /\ tree'.parent[b] = p
      BY <2>2, <1>6, <1>3, <1>5
    <3>4. tree.prev[n] # NoNode => tree.prev[n] # c /\ tree.prev[n] # a
      BY <2>2, <1>6, <1>8, <1>1 DEF DomNodes
    <3>5. tree.prev[n] # NoNode =>
            /\ tree.prev[n] \in DomNodes /\ tree.next[tree.prev[n]] = n
            /\ tree.parent[tree.prev[n]] = p
      BY <3>1, <1>8
    <3>6. tree.prev[n] # NoNode =>
            /\ tree'.next[tree.prev[n]] = n /\ tree'.parent[tree.prev[n]] = p
      BY <3>4, <3>5, <1>3, <1>5
    <3> QED
      BY <3>2, <3>3, <3>6, <1>1, NodesFinite
  <2>3. CASE n # c /\ n = b
    <3>1. n # NoNode /\ b # NoNode /\ tree.parent[n] = p /\ n # a
      BY <2>3, <1>6, <1>8
    <3>2. tree'.prev[n] = a /\ tree'.next[n] = tree.next[n] /\ tree'.parent[n] = p
      BY <2>3, <3>1, <1>3, <1>5
    <3>3. a # NoNode => tree'.next[a] = n /\ tree'.parent[a] = p
      BY <2>3, <1>6, <1>3, <1>5
    <3>4. tree.next[n] # NoNode => tree.next[n] # c /\ tree.next[n] # b
      BY <2>3, <1>6, <1>8, <1>1 DEF DomNodes
    <3>5. tree.next[n] # NoNode =>
            /\ tree.next[n] \in DomNodes /\ tree.prev[tree.next[n]] = n
            /\ tree.parent[tree.next[n]] = p
      BY <3>1, <1>8
    <3>6. tree.next[n] # NoNode =>
            /\ tree'.prev[tree.next[n]] = n /\ tree'.parent[tree.next[n]] = p
      BY <3>4, <3>5, <1>3, <1>5
    <3> QED
      BY <3>2, <3>3, <3>6, <1>1, NodesFinite
  <2>4. CASE n # c /\ n # a /\ n # b
    <3>1. tree'.next[n] = tree.next[n] /\ tree'.prev[n] = tree.prev[n]
          /\ tree'.parent[n] = tree.parent[n]
      BY <2>4, <1>3, <1>5
    <3>2. tree.next[n] # c /\ tree.prev[n] # c
      BY <2>4, <1>8 DEF a, b
    <3>3. tree.next[n] # NoNode => tree.next[n] # b
      BY <2>4, <1>6, <1>8
    <3>4. tree.prev[n] # NoNode => tree.prev[n] # a
      BY <2>4, <1>6, <1>8
    <3> QED
      BY <3>1, <3>2, <3>3, <3>4, <1>3, <1>5, <1>8
  <2> QED
    BY <2>1, <2>2, <2>3, <2>4
<1>10. EndsAgree'
  <2> SUFFICES ASSUME NEW q \in DomNodes
      PROVE  /\ tree'.first[q] # NoNode => /\ tree'.parent[tree'.first[q]] = q
                                           /\ tree'.prev[tree'.first[q]] = NoNode
             /\ tree'.last[q] # NoNode => /\ tree'.parent[tree'.last[q]] = q
                                          /\ tree'.next[tree'.last[q]] = NoNode
             /\ tree'.first[q] = NoNode <=> tree'.last[q] = NoNode
    BY DEF EndsAgree
  <2>1. /\ tree.first[q] # NoNode => /\ tree.first[q] \in DomNodes
                                     /\ tree.parent[tree.first[q]] = q
                                     /\ tree.prev[tree.first[q]] = NoNode
        /\ tree.last[q] # NoNode => /\ tree.last[q] \in DomNodes
                                    /\ tree.parent[tree.last[q]] = q
                                    /\ tree.next[tree.last[q]] = NoNode
        /\ tree.first[q] = NoNode <=> tree.last[q] = NoNode
    BY DEF LinksOK, EndsAgree, TreeTypeOK, Ref
  <2>2. CASE q # p
    <3>1. tree'.first[q] = tree.first[q] /\ tree'.last[q] = tree.last[q]
      BY <2>2, <1>5
    <3>2. tree.first[q] # NoNode => tree.first[q] # c /\ tree.first[q] # b
      BY <2>1, <2>2, <1>1, <1>6
    <3>3. tree.last[q] # NoNode => tree.last[q] # c /\ tree.last[q] # a
      BY <2>1, <2>2, <1>1, <1>6
    <3> QED
      BY <2>1, <3>1, <3>2, <3>3, <1>3, <1>5
  <2>3. CASE q = p
    <3>1. /\ tree'.first[p] = IF a = NoNode THEN b ELSE tree.first[p]
          /\ tree'.last[p] = IF b = NoNode THEN a ELSE tree.last[p]
      BY <1>5
    <3>2. ASSUME tree'.first[p] # NoNode
          PROVE  tree'.parent[tree'.first[p]] = p /\ tree'.prev[tree'.first[p]] = NoNode
      <4>1. CASE a = NoNode
        BY <4>1, <3>1, <3>2, <1>3, <1>5, <1>6
      <4>2. CASE a # NoNode
        <5>1. tree.first[p] # b
          BY <4>2, <3>1, <3>2, <2>1, <2>3, <1>6, <1>1
        <5> QED
          BY <5>1, <4>2, <3>1, <3>2, <2>1, <2>3, <1>3, <1>5, <1>7
      <4> QED
        BY <4>1, <4>2
    <3>3. ASSUME tree'.last[p] # NoNode
          PROVE  tree'.parent[tree'.last[p]] = p /\ tree'.next[tree'.last[p]] = NoNode
      <4>1. CASE b = NoNode
        BY <4>1, <3>1, <3>3, <1>3, <1>5, <1>6
      <4>2. CASE b # NoNode
        <5>1. tree.last[p] # a
          BY <4>2, <3>1, <3>3, <2>1, <2>3, <1>6, <1>1
        <5> QED
          BY <5>1, <4>2, <3>1, <3>3, <2>1, <2>3, <1>3, <1>5, <1>7
      <4> QED
        BY <4>1, <4>2
    <3>4. tree'.first[p] = NoNode <=> tree'.last[p] = NoNode
      BY <3>1, <2>1, <2>3, <1>1, <1>7
    <3> QED
      BY <2>3, <3>2, <3>3, <3>4
  <2> QED
    BY <2>2, <2>3
<1>11. ChildrenReached'
  <2> SUFFICES ASSUME NEW n \in DomNodes, tree'.parent[n] # NoNode
      PROVE  /\ tree'.prev[n] = NoNode => tree'.first[tree'.parent[n]] = n
             /\ tree'.next[n] = NoNode => tree'.last[tree'.parent[n]] = n
    BY DEF ChildrenReached
  <2>1. tree.parent[n] # NoNode => /\ tree.parent[n] \in DomNodes
                                   /\ tree.prev[n] = NoNode => tree.first[tree.parent[n]] = n
                                   /\ tree.next[n] = NoNode => tree.last[tree.parent[n]] = n
    BY DEF LinksOK, ChildrenReached, TreeTypeOK, Ref
  <2>2. n # c /\ tree.parent[n] # NoNode /\ tree'.parent[n] = tree.parent[n]
    BY <1>5
  <2>3. ASSUME tree'.prev[n] = NoNode PROVE tree'.first[tree'.parent[n]] = n
    <3>1. CASE n = b
      BY <3>1, <2>2, <2>3, <1>3, <1>5, <1>6, <1>8
    <3>2. CASE n # b
      <4>1. tree.prev[n] = NoNode /\ tree.first[tree.parent[n]] = n
        BY <3>2, <2>1, <2>2, <2>3, <1>3
      <4>2. ~(tree.parent[n] = p /\ a = NoNode)
        BY <4>1, <2>2, <1>7
      <4> QED
        BY <4>1, <4>2, <2>1, <2>2, <1>5
    <3> QED
      BY <3>1, <3>2
  <2>4. ASSUME tree'.next[n] = NoNode PROVE tree'.last[tree'.parent[n]] = n
    <3>1. CASE n = a
      BY <3>1, <2>2, <2>4, <1>3, <1>5, <1>6, <1>8
    <3>2. CASE n # a
      <4>1. tree.next[n] = NoNode /\ tree.last[tree.parent[n]] = n
        BY <3>2, <2>1, <2>2, <2>4, <1>3
      <4>2. ~(tree.parent[n] = p /\ b = NoNode)
        BY <4>1, <2>2, <1>7
      <4> QED
        BY <4>1, <4>2, <2>1, <2>2, <1>5
    <3> QED
      BY <3>1, <3>2
  <2> QED
    BY <2>3, <2>4
<1>12. NoCycle'
  <2> SUFFICES ASSUME NEW n \in DomNodes
      PROVE  tree'.parent[n] < n /\ (tree'.next[n] # NoNode => n < tree'.next[n])
    BY DEF NoCycle
  <2>1. tree.parent[n] < n /\ n \in Nat /\ 0 < n /\ c \in Nat /\ (b # NoNode => b \in Nat)
    BY <1>6, DomAssumption DEF LinksOK, NoCycle, DomNodes
  <2>2. CASE n = a
    BY <2>1, <2>2, <1>3, <1>5, <1>6 DEF NoNode
  <2>3. CASE n # a
    BY <2>1, <2>3, <1>3, <1>5, <1>8 DEF NoNode
  <2> QED
    BY <2>2, <2>3
<1>13. CountsAgree'
  <2> SUFFICES ASSUME NEW q \in DomNodes PROVE tree'.count[q] = Cardinality(ChildSet(q)')
    BY DEF CountsAgree, ChildSet
  <2>1. ChildSet(q)' = IF q = p THEN ChildSet(q) \ {c} ELSE ChildSet(q)
    BY <1>1, <1>5, <1>8 DEF ChildSet
  <2>2. IsFiniteSet(ChildSet(q)) /\ (q = p => c \in ChildSet(q))
    BY <1>1, NodesFinite, FS_Subset DEF ChildSet
  <2>3. tree.count[q] = Cardinality(ChildSet(q)) /\ tree.count[q] \in Int
    BY DEF CountsAgree, ChildSet, TreeTypeOK
  <2>4. q = p => Cardinality(ChildSet(q) \ {c}) = Cardinality(ChildSet(q)) - 1
    BY <2>2, FS_RemoveElement
  <2>5. tree'.count[q] = IF q = p THEN tree.count[q] - 1 ELSE tree.count[q]
    BY <1>2 DEF TreeTypeOK
  <2> QED
    BY <2>1, <2>3, <2>4, <2>5
<1>14. Unborn'
  BY <1>2, <1>5 DEF Unborn
<1> QED
  BY <1>4, <1>9, <1>10, <1>11, <1>12, <1>13, <1>14 DEF LinksOK

(* Both ways of attaching: a node made before, and one made with it.       *)
LEMMA AttachAttaches ==
  ASSUME TreeTypeOK, NEW p \in DomNodes, NEW c \in DomNodes, Attach(p, c)
  PROVE  Attaches(p, c, tree)
BY DomAssumption DEF Attach, Attaches, Made, TreeTypeOK, DomNodes

LEMMA AttachNewAttaches ==
  ASSUME TreeTypeOK, LinksOK, Unborn, NEW p \in DomNodes, AttachNew(p)
  PROVE  /\ tree.made + 1 \in DomNodes
         /\ Attaches(p, tree.made + 1, CreateNode(tree))
<1> DEFINE c == tree.made + 1
<1>1. /\ c \in DomNodes /\ c > tree.made /\ p < c /\ tree.made \in Int
      /\ tree.parent[c] = NoNode
  BY DomAssumption DEF AttachNew, Made, TreeTypeOK, DomNodes, Unborn
<1>2. tree.last[p] < c
  <2>1. CASE tree.last[p] = NoNode
    BY <1>1, <2>1, DomAssumption DEF DomNodes, NoNode
  <2>2. CASE tree.last[p] # NoNode
    <3>1. tree.last[p] \in DomNodes /\ tree.parent[tree.last[p]] # NoNode
      BY <2>2, NodesFinite DEF LinksOK, EndsAgree, TreeTypeOK, Ref
    <3>2. ~(tree.last[p] > tree.made)
      BY <3>1 DEF Unborn
    <3> QED
      BY <1>1, <3>1, <3>2, DomAssumption DEF DomNodes
  <2> QED
    BY <2>1, <2>2
<1>3. LET t == CreateNode(tree)
      IN  /\ t.made = c /\ t.parent = tree.parent /\ t.next = tree.next /\ t.prev = tree.prev
          /\ t.first = tree.first /\ t.last = tree.last /\ t.count = tree.count
  BY DEF CreateNode, TreeTypeOK
<1>4. tree' = AppendChild(CreateNode(tree), p, c)
  BY DEF AttachNew
<1> QED
  BY <1>1, <1>2, <1>3, <1>4 DEF Attaches
----------------------------------------------------------------------------
(* The inductive invariant, preserved by every call that keeps the order.  *)
LinkedTree == TreeTypeOK /\ LinksOK /\ Unborn /\ CountsAgree

LEMMA StepLinked == LinkedTree /\ [DomNext]_tree => LinkedTree'
<1> USE DEF LinkedTree
<1> SUFFICES ASSUME LinkedTree, [DomNext]_tree PROVE LinkedTree'
  OBVIOUS
<1>1. CASE Create
  BY <1>1, CreateLinked
<1>2. ASSUME NEW p \in DomNodes, NEW c \in DomNodes, Attach(p, c) PROVE LinkedTree'
  BY <1>2, AttachLinked, AttachAttaches
<1>3. ASSUME NEW p \in DomNodes, NEW c \in DomNodes, Detach(p, c) PROVE LinkedTree'
  BY <1>3, DetachLinked
<1>4. CASE UNCHANGED tree
  BY <1>4 DEF Unborn, TreeTypeOK, LinksOK, SiblingsAgree, EndsAgree, ChildrenReached, NoCycle,
              CountsAgree
<1>5. ASSUME NEW p \in DomNodes, AttachNew(p) PROVE LinkedTree'
  BY <1>5, AttachLinked, AttachNewAttaches
<1> QED
  BY <1>1, <1>2, <1>3, <1>4, <1>5 DEF DomNext

LEMMA LinkedIsTreeLinked == LinkedTree => TreeLinked
BY DEF LinkedTree, TreeLinked, LinksOK

(* A new document is one tree. *)
LEMMA NewDocumentLinked == tree' = EmptyTree => LinkedTree'
<1> SUFFICES ASSUME tree' = EmptyTree PROVE LinkedTree'
  OBVIOUS
<1>1. TreeTypeOK'
  BY NodesFinite DEF EmptyTree, TreeTypeOK, Everywhere, Ref, Doc
<1>2. LinksOK'
  BY NodesFinite, DomAssumption
  DEF EmptyTree, DomNodes, NoNode, LinksOK, SiblingsAgree, EndsAgree, ChildrenReached, NoCycle, Everywhere
<1>3. CountsAgree'
  <2> SUFFICES ASSUME NEW q \in DomNodes PROVE tree'.count[q] = Cardinality(ChildSet(q)')
    BY DEF CountsAgree, ChildSet
  <2>1. ChildSet(q)' = {}
    BY NodesFinite DEF EmptyTree, ChildSet, Everywhere
  <2> QED
    BY <2>1, FS_EmptySet DEF EmptyTree, Everywhere
<1>4. Unborn'
  BY DEF EmptyTree, Unborn, Everywhere
<1> QED
  BY <1>1, <1>2, <1>3, <1>4 DEF LinkedTree

(* The links of node.cc describe one tree after any sequence of calls the  *)
(* parser and the script bindings make, for any number of nodes.           *)
THEOREM LinksHold == DomSpec => []TreeLinked
<1>1. DomInit => LinkedTree
  BY InitLinked DEF LinkedTree
<1> QED
  BY <1>1, StepLinked, LinkedIsTreeLinked, PTL DEF DomSpec
----------------------------------------------------------------------------
(* First and last of a set of numbers, and a list without one place.       *)

LEMMA FirstIsLeast ==
  ASSUME NEW S \in SUBSET Nat, S # {}
  PROVE  FirstOf(S) \in S /\ \A j \in S : FirstOf(S) <= j
<1> DEFINE less == OpToRel(<, Nat)
<1>1. IsWellFoundedOn(less, Nat)
  BY NatLessThanWellFounded
<1> HIDE DEF less
<1>2. PICK n \in S : \A m \in S : <<m, n>> \notin less
  BY <1>1, WFMin
<1> USE DEF less
<1>3. ASSUME NEW m \in S PROVE n <= m
  <2> SUFFICES ASSUME ~(n <= m) PROVE FALSE
    OBVIOUS
  <2>1. <<m, n>> \in Nat \X Nat /\ m < n
    OBVIOUS
  <2>2. <<m, n>> \in less
    BY <2>1 DEF OpToRel
  <2> QED BY <1>2, <2>2
<1> QED BY <1>3 DEF FirstOf

LEMMA GreatestExists ==
  ASSUME NEW k \in Nat, NEW S \in SUBSET (1 .. k), S # {}
  PROVE  \E i \in S : \A j \in S : i >= j
<1> DEFINE T == {k - i : i \in S}
<1>1. T \in SUBSET Nat /\ T # {}
  <2>1. ASSUME NEW i \in S PROVE k - i \in Nat
    <3>1. i \in Nat /\ i <= k
      OBVIOUS
    <3> QED BY <3>1
  <2> QED BY <2>1
<1>2. PICK t \in T : \A u \in T : t <= u
  <2> HIDE DEF T
  <2> QED BY <1>1, FirstIsLeast
<1>3. PICK i \in S : t = k - i
  BY <1>2
<1>4. ASSUME NEW j \in S PROVE i >= j
  <2>1. t <= k - j
    BY <1>2
  <2> QED BY <1>3, <2>1
<1> QED BY <1>4
----------------------------------------------------------------------------
(* The parser. The open elements exist; the element whose tag is read is   *)
(* the youngest node and in no list yet.                                   *)
OpenInv ==
  /\ html.open \in Seq(Made) /\ html.open # <<>>
  /\ html.el # NoNode =>
       /\ html.el = tree.made /\ tree.parent[html.el] = NoNode
       /\ \A i \in 1 .. Len(html.open) : html.open[i] < html.el

(* What a token leaves of the parser: the tokenizer's own fields only.     *)
Fields == {"input", "pos", "start", "inTag", "entities", "raw", "tag", "open", "el", "done",
           "round", "first"}

Keeps(h, g) == /\ DOMAIN h = Fields /\ DOMAIN g = Fields
               /\ g.open = h.open /\ g.el = h.el /\ g.done = h.done /\ g.round = h.round

LEMMA TagKeeps ==
  ASSUME NEW h, DOMAIN h = Fields, NEW p
  PROVE  Keeps(h, ScanTag(h, p).after)
BY DEF Keeps, Fields, ScanTag, ScanEndTag, ScanCommentOrDoctype, ScanComment, Took, TextAt, MoveTo

LEMMA TokenKeeps ==
  ASSUME NEW h, DOMAIN h = Fields
  PROVE  Keeps(h, NextToken(h).after)
<1>1. Keeps(h, ScanRawText(h).after)
  BY DEF Keeps, Fields, ScanRawText, Took
<1>2. Keeps(h, NextInTag(h).after)
  BY DEF Keeps, Fields, NextInTag, ScanAttribute, AttributeError, Took, TextAt, MoveTo
<1>3. Keeps(h, NextInText(h).after)
  <2>1. ASSUME NEW e, NEW p
        PROVE  Keeps(h, ScanTag([h EXCEPT !.entities = e], p).after)
    <3> DEFINE g == [h EXCEPT !.entities = e]
    <3>1. DOMAIN g = Fields /\ g.open = h.open /\ g.el = h.el /\ g.done = h.done /\ g.round = h.round
      BY DEF Fields
    <3>2. Keeps(g, ScanTag(g, p).after)
      <4> HIDE DEF g
      <4> QED BY <3>1, TagKeeps
    <3> HIDE DEF g
    <3>3. Keeps(h, ScanTag(g, p).after)
      BY <3>1, <3>2 DEF Keeps
    <3> QED BY <3>3 DEF g
  <2>2. ASSUME NEW p, NEW e PROVE Keeps(h, FlushText(h, p, e).after) /\ Keeps(h, Took(Bare("eof"), MoveTo(h, p)).after)
    BY DEF Keeps, Fields, FlushText, Took, MoveTo
  <2> QED
    BY <2>1, <2>2 DEF NextInText
<1> QED
  BY <1>1, <1>2, <1>3 DEF NextToken

(* A child of p that has a parent is no younger than the youngest node.    *)
LEMMA YoungestIsNoChild ==
  ASSUME LinkedTree, NEW p \in DomNodes, tree.parent[tree.made] = NoNode
  PROVE  tree.last[p] < tree.made
<1>1. tree.made \in DomNodes /\ tree.last[p] \in Ref
  BY DEF LinkedTree, TreeTypeOK
<1>2. CASE tree.last[p] = NoNode
  BY <1>1, <1>2, DomAssumption DEF DomNodes, NoNode
<1>3. CASE tree.last[p] # NoNode
  <2>1. tree.last[p] \in DomNodes /\ tree.parent[tree.last[p]] = p /\ p # NoNode
    BY <1>1, <1>3, NodesFinite DEF LinkedTree, LinksOK, EndsAgree, Ref
  <2>2. ~(tree.last[p] > tree.made) /\ tree.last[p] # tree.made
    BY <2>1 DEF LinkedTree, Unborn
  <2> QED
    BY <1>1, <2>1, <2>2, DomAssumption DEF DomNodes
<1> QED
  BY <1>2, <1>3

HtmlSpec(texts) == HtmlInit(texts) /\ [][HtmlNext]_htmlVars

ParserInv == LinkedTree /\ DOMAIN html = Fields /\ OpenInv

Kept == DOMAIN Upcoming.after = Fields /\ Upcoming.after.open = html.open /\ Upcoming.after.el = html.el

LEMMA UpcomingKept == ParserInv => Kept
BY TokenKeeps DEF ParserInv, Kept, Upcoming, Keeps

LEMMA MadeInDom == LinkedTree => tree.made \in DomNodes /\ Made \subseteq DomNodes /\ tree.made \in Made
BY DomAssumption DEF LinkedTree, TreeTypeOK, DomNodes, Made

(* A list of open elements is only cut at its end.                         *)
LEMMA CutOpen ==
  ASSUME ParserInv, NEW k \in 1 .. Len(html.open)
  PROVE  LET s == SubSeq(html.open, 1, k)
         IN  /\ s \in Seq(Made) /\ s # <<>> /\ Len(s) = k
             /\ \A i \in 1 .. k : s[i] = html.open[i]
<1>1. html.open \in Seq(Made) /\ k \in Nat /\ k <= Len(html.open) /\ 1 <= k
  BY DEF ParserInv, OpenInv
<1>2. \A i \in 1 .. k : html.open[i] \in Made
  BY <1>1, ElementOfSeq
<1> DEFINE s == SubSeq(html.open, 1, k)
<1>3. /\ s \in Seq(Made) /\ Len(s) = k /\ \A i \in 1 .. k : s[i] = html.open[i]
  BY <1>1, <1>2, SubSeqProperties
<1>4. s # <<>>
  BY <1>1, <1>3, EmptySeq
<1> QED
  BY <1>3, <1>4

LEMMA CurrentMade ==
  ASSUME ParserInv
  PROVE  /\ Current \in Made /\ Len(html.open) \in Nat \ {0}
         /\ html.el # NoNode => Current < html.el
<1>1. html.open \in Seq(Made) /\ html.open # <<>>
  BY DEF ParserInv, OpenInv
<1>2. Len(html.open) \in Nat \ {0}
  BY <1>1, EmptySeq
<1>3. Len(html.open) \in 1 .. Len(html.open)
  BY <1>2
<1> QED
  BY <1>1, <1>2, <1>3, ElementOfSeq DEF Current, ParserInv, OpenInv

LEMMA AfterImplicitCloseCuts ==
  ASSUME ParserInv, NEW new
  PROVE  \E k \in 1 .. Len(html.open) : AfterImplicitClose(new) = SubSeq(html.open, 1, k)
<1> DEFINE Stays(i) == i = 1 \/ ~ImplicitlyCloses(new, TagOf(html.open[i]))
           S == {i \in 1 .. Len(html.open) : Stays(i)}
           k == CHOOSE i \in 1 .. Len(html.open) :
                  Stays(i) /\ \A j \in i + 1 .. Len(html.open) : ~Stays(j)
<1>1. Len(html.open) \in Nat \ {0}
  BY CurrentMade
<1>2. S \in SUBSET (1 .. Len(html.open)) /\ 1 \in S
  BY <1>1
<1>3. PICK i \in S : \A j \in S : i >= j
  <2> HIDE DEF S
  <2> QED BY <1>1, <1>2, GreatestExists
<1>4. i \in 1 .. Len(html.open) /\ Stays(i) /\ \A j \in i + 1 .. Len(html.open) : ~Stays(j)
  <2>1. ASSUME NEW j \in i + 1 .. Len(html.open), Stays(j) PROVE FALSE
    <3>1. j \in S /\ j > i
      BY <1>1, <2>1
    <3> QED BY <1>3, <3>1, <1>1
  <2> QED BY <2>1
<1> HIDE DEF Stays
<1>5. k \in 1 .. Len(html.open)
  BY <1>4
<1>6. AfterImplicitClose(new) = SubSeq(html.open, 1, k)
  BY DEF AfterImplicitClose, Stays
<1> QED
  BY <1>5, <1>6

(* A step of the parser makes one call on the tree, or starts a new one.   *)
HtmlStep == ParserInv' /\ (DomNext \/ tree' = EmptyTree \/ UNCHANGED tree)

LEMMA StartTagStep == ParserInv /\ StartTag => HtmlStep
<1> SUFFICES ASSUME ParserInv, StartTag PROVE HtmlStep
  OBVIOUS
<1> DEFINE tag == TagIdFromName(Upcoming.token.name)
<1>1. Kept /\ html.el = NoNode
  BY UpcomingKept DEF StartTag, InTree
<1>2. Create
  BY DEF StartTag, Create
<1>3. LinkedTree'
  BY <1>2, StepLinked DEF ParserInv, DomNext
<1>4. /\ tree'.made = tree.made + 1 /\ tree'.parent = tree.parent /\ tree.made \in Nat
      /\ tree.made + 1 \in DomNodes
  <2>1. tree' = CreateNode(tree) /\ TreeTypeOK
    BY DEF StartTag, ParserInv, LinkedTree
  <2>2. tree'.made = tree.made + 1 /\ tree'.parent = tree.parent
    BY <2>1 DEF CreateNode, TreeTypeOK
  <2> QED
    <3>1. tree.made \in DomNodes /\ tree.made < MaxNodes
      BY MadeInDom DEF StartTag, ParserInv
    <3>2. tree.made \in Nat /\ tree.made + 1 \in DomNodes
      BY <3>1, DomAssumption DEF DomNodes
    <3> QED BY <2>2, <3>2
<1>5. html' = [Upcoming.after EXCEPT !.open = AfterImplicitClose(tag), !.el = tree.made + 1]
  BY DEF StartTag
<1>6. DOMAIN html' = Fields /\ html'.open = AfterImplicitClose(tag) /\ html'.el = tree.made + 1
  BY <1>1, <1>5 DEF Kept, Fields
<1> HIDE DEF tag
<1>7. PICK k \in 1 .. Len(html.open) : AfterImplicitClose(tag) = SubSeq(html.open, 1, k)
  BY AfterImplicitCloseCuts
<1>8. /\ html'.open \in Seq(Made) /\ html'.open # <<>>
  BY <1>6, <1>7, CutOpen
<1>9. Made \subseteq Made' /\ \A n \in Made : n < tree.made + 1
  BY <1>4 DEF Made
<1>10. html'.open \in Seq(Made')
  BY <1>8, <1>9, SeqMonotonic
<1>11. \A i \in 1 .. Len(html'.open) : html'.open[i] < html'.el
  BY <1>6, <1>8, <1>9, ElementOfSeq
<1>12. tree'.parent[html'.el] = NoNode
  <2>1. tree.made + 1 > tree.made
    BY <1>4
  <2> QED BY <1>4, <1>6, <2>1 DEF ParserInv, LinkedTree, Unborn
<1> QED
  BY <1>2, <1>3, <1>4, <1>6, <1>8, <1>10, <1>11, <1>12 DEF HtmlStep, ParserInv, OpenInv, DomNext

LEMMA AttributeStep == ParserInv /\ Attribute => HtmlStep
<1> SUFFICES ASSUME ParserInv, Attribute PROVE HtmlStep
  OBVIOUS
<1>1. Kept /\ html' = Upcoming.after /\ UNCHANGED tree
  BY UpcomingKept DEF Attribute
<1>2. LinkedTree'
  BY <1>1, StepLinked DEF ParserInv
<1> QED
  BY <1>1, <1>2 DEF HtmlStep, ParserInv, OpenInv, Kept, Made

LEMMA StartTagEndsStep == ParserInv /\ StartTagEnds => HtmlStep
<1> SUFFICES ASSUME ParserInv, StartTagEnds PROVE HtmlStep
  OBVIOUS
<1> DEFINE stays == TagOf(html.el) \notin VoidTags /\ Upcoming.token.type # "self closing"
<1>1. Kept /\ html.el # NoNode
  BY UpcomingKept DEF StartTagEnds
<1>2. /\ html.el = tree.made /\ tree.parent[html.el] = NoNode /\ html.el \in DomNodes
      /\ html.el \in Made
      /\ Current \in DomNodes /\ Current \in Made /\ Current < html.el
  BY <1>1, CurrentMade, MadeInDom DEF ParserInv, OpenInv
<1>3. tree.last[Current] < html.el
  BY <1>2, YoungestIsNoChild DEF ParserInv
<1>4. Attach(Current, html.el)
  BY <1>2, <1>3 DEF Attach, StartTagEnds
<1>5. DomNext
  BY <1>2, <1>4 DEF DomNext
<1>6. LinkedTree'
  BY <1>5, StepLinked DEF ParserInv
<1>7. html' = [Upcoming.after EXCEPT !.el = NoNode, !.open = IF stays THEN Append(@, html.el) ELSE @]
  BY DEF StartTagEnds
<1>8. /\ DOMAIN html' = Fields /\ html'.el = NoNode
      /\ html'.open = IF stays THEN Append(html.open, html.el) ELSE html.open
  BY <1>1, <1>7 DEF Kept, Fields
<1> HIDE DEF stays
<1>9. html.open \in Seq(Made) /\ html.open # <<>>
  BY DEF ParserInv, OpenInv
<1>10. Append(html.open, html.el) \in Seq(Made) /\ Append(html.open, html.el) # <<>>
  BY <1>2, <1>9, AppendProperties
<1>11. html'.open \in Seq(Made) /\ html'.open # <<>>
  BY <1>8, <1>9, <1>10
<1>12. Made' = Made
  BY <1>4 DEF Attach, AppendChild, Made
<1> QED
  BY <1>5, <1>6, <1>8, <1>11, <1>12 DEF HtmlStep, ParserInv, OpenInv

LEMMA EndTagStep == ParserInv /\ EndTag => HtmlStep
<1> SUFFICES ASSUME ParserInv, EndTag PROVE HtmlStep
  OBVIOUS
<1> DEFINE opened == {i \in 2 .. Len(html.open) : TagOf(html.open[i]) = TagIdFromName(Upcoming.token.name)}
           cut == SubSeq(html.open, 1, (CHOOSE i \in opened : \A j \in opened : i >= j) - 1)
<1>1. Kept /\ html.el = NoNode
  BY UpcomingKept DEF EndTag, InTree
<1>2. html' = [Upcoming.after EXCEPT !.open =
                 IF opened = {} THEN @
                 ELSE SubSeq(@, 1, (CHOOSE i \in opened : \A j \in opened : i >= j) - 1)]
  BY DEF EndTag
<1>3. UNCHANGED tree
  BY DEF EndTag, domVars
<1> HIDE DEF opened
<1>4. DOMAIN html' = Fields /\ html'.el = NoNode /\ html'.open = IF opened = {} THEN html.open ELSE cut
  BY <1>1, <1>2 DEF Kept, Fields
<1>5. opened # {} => \E k \in 1 .. Len(html.open) : cut = SubSeq(html.open, 1, k)
  <2> SUFFICES ASSUME opened # {} PROVE \E k \in 1 .. Len(html.open) : cut = SubSeq(html.open, 1, k)
    OBVIOUS
  <2>1. Len(html.open) \in Nat
    BY CurrentMade
  <2>2. opened \in SUBSET (1 .. Len(html.open)) /\ \A i \in opened : i >= 2
    BY <2>1 DEF opened
  <2>3. \E i \in opened : \A j \in opened : i >= j
    BY <2>1, <2>2, GreatestExists
  <2>4. (CHOOSE i \in opened : \A j \in opened : i >= j) \in opened
    BY <2>3
  <2>5. (CHOOSE i \in opened : \A j \in opened : i >= j) - 1 \in 1 .. Len(html.open)
    <3>1. ASSUME NEW i \in opened PROVE i - 1 \in 1 .. Len(html.open)
      BY <2>1, <2>2
    <3> QED BY <2>4, <3>1
  <2> QED BY <2>5
<1>6. html'.open \in Seq(Made) /\ html'.open # <<>>
  BY <1>4, <1>5, CutOpen DEF ParserInv, OpenInv
<1>7. LinkedTree'
  BY <1>3, StepLinked DEF ParserInv
<1> QED
  BY <1>3, <1>4, <1>6, <1>7 DEF HtmlStep, ParserInv, OpenInv, Made

LEMMA TextOrCommentStep == ParserInv /\ TextOrComment => HtmlStep
<1> SUFFICES ASSUME ParserInv, TextOrComment PROVE HtmlStep
  OBVIOUS
<1>1. Kept /\ html.el = NoNode /\ html' = Upcoming.after
  BY UpcomingKept DEF TextOrComment, InTree
<1>2. Current \in Made /\ Current \in DomNodes
  BY CurrentMade, MadeInDom DEF ParserInv
<1>3. AttachNew(Current)
  BY <1>2 DEF AttachNew, TextOrComment
<1>4. DomNext
  BY <1>2, <1>3 DEF DomNext
<1>5. LinkedTree'
  BY <1>4, StepLinked DEF ParserInv
<1>6. tree'.made = tree.made + 1 /\ tree.made \in Nat
  BY MadeInDom, DomAssumption DEF TextOrComment, AppendChild, CreateNode, ParserInv, LinkedTree, TreeTypeOK, DomNodes
<1>7. Made \subseteq Made'
  BY <1>6 DEF Made
<1>8. html'.open \in Seq(Made')
  BY <1>1, <1>7, SeqMonotonic DEF Kept, ParserInv, OpenInv
<1> QED
  BY <1>1, <1>4, <1>5, <1>8 DEF HtmlStep, ParserInv, OpenInv, Kept

LEMMA RestStep == ParserInv /\ (Ignored \/ ParsingDone \/ Reparse) => HtmlStep
<1> SUFFICES ASSUME ParserInv, Ignored \/ ParsingDone \/ Reparse PROVE HtmlStep
  OBVIOUS
<1>1. Kept
  BY UpcomingKept
<1>2. CASE Ignored \/ ParsingDone
  <2>1. /\ UNCHANGED tree /\ html.el = NoNode
        /\ html' = Upcoming.after \/ html' = [Upcoming.after EXCEPT !.done = TRUE]
    BY <1>2 DEF Ignored, ParsingDone, InTree, domVars
  <2>2. DOMAIN html' = Fields /\ html'.open = html.open /\ html'.el = NoNode
    BY <1>1, <2>1 DEF Kept, Fields
  <2>3. LinkedTree'
    BY <2>1, StepLinked DEF ParserInv
  <2> QED
    BY <2>1, <2>2, <2>3 DEF HtmlStep, ParserInv, OpenInv, Made
<1>3. CASE Reparse
  <2>1. tree' = EmptyTree /\ html' = NewParser(Serialize, 2, Outline)
    BY <1>3 DEF Reparse
  <2>2. LinkedTree'
    BY <2>1, NewDocumentLinked
  <2>3. OpenInv' /\ DOMAIN html' = Fields
    BY <2>1 DEF OpenInv, NewParser, EmptyTree, Made, Doc, Fields, NoNode
  <2> QED
    BY <2>1, <2>2, <2>3 DEF HtmlStep, ParserInv
<1> QED
  BY <1>2, <1>3

(* The HTML parser only makes the calls the tree's links need, whatever it *)
(* reads, so that every walk along the tree it leaves ends (parser.cc:137).*)
THEOREM ParserKeepsOrder ==
  ASSUME NEW texts
  PROVE  HtmlSpec(texts) => CallersKeepOrder /\ [](TreeLinked /\ LinkedTree)
<1>1. HtmlInit(texts) => ParserInv
  BY InitLinked
  DEF HtmlInit, DomInit, EmptyTree, ParserInv, LinkedTree, OpenInv, NewParser, Fields, Made, Doc, NoNode
<1>2. ParserInv /\ [HtmlNext]_htmlVars => ParserInv' /\ [DomNext \/ tree' = EmptyTree]_tree
  <2>1. ParserInv /\ HtmlNext => HtmlStep
    BY StartTagStep, AttributeStep, StartTagEndsStep, EndTagStep, TextOrCommentStep, RestStep
    DEF HtmlNext
  <2>2. ParserInv /\ UNCHANGED htmlVars => HtmlStep
    <3> SUFFICES ASSUME ParserInv, UNCHANGED htmlVars PROVE HtmlStep
      OBVIOUS
    <3>1. UNCHANGED <<tree, html>>
      BY DEF htmlVars, domVars
    <3>2. LinkedTree'
      BY <3>1, StepLinked DEF ParserInv
    <3> QED
      BY <3>1, <3>2 DEF HtmlStep, ParserInv, OpenInv, Made
  <2> QED
    BY <2>1, <2>2 DEF HtmlStep
<1>3. ParserInv => TreeLinked /\ LinkedTree
  BY LinkedIsTreeLinked DEF ParserInv
<1> QED
  BY <1>1, <1>2, <1>3, PTL DEF HtmlSpec, CallersKeepOrder
----------------------------------------------------------------------------
(* Listeners and their record. *)

Listener == [type : EventTypes, fn : Functions \cup {"host"}, capture : BOOLEAN, token : Nat]
Entry    == [el : DomNodes, type : EventTypes, fn : Functions, token : Nat, bind : Nat]

Manager == [alive : BOOLEAN, listeners : [DomNodes -> Seq(Listener)], token : Nat \ {0},
            observed : BOOLEAN]

Bindings == [bound : BOOLEAN, em : BOOLEAN, els : SUBSET DomNodes, entries : Seq(Entry),
             tracked : SUBSET Functions, refs : SUBSET DomNodes, inner : Seq(DomNodes),
             todo : Seq(Fragment), clearing : BOOLEAN, binds : Nat, carried : BOOLEAN]

(* A token is given out once, and a list of listeners is in their order.   *)
TokensOrdered(m) ==
  \A n \in DomNodes : \A i \in 1 .. Len(m.listeners[n]) :
    /\ m.listeners[n][i].token \in 1 .. m.token - 1
    /\ \A j \in 1 .. Len(m.listeners[n]) :
         i < j => m.listeners[n][i].token < m.listeners[n][j].token

TokensUnique(m) ==
  \A n, o \in DomNodes : \A i \in 1 .. Len(m.listeners[n]), j \in 1 .. Len(m.listeners[o]) :
    m.listeners[n][i].token = m.listeners[o][j].token => n = o

Records(e, n, l) == e.el = n /\ e.type = l.type /\ e.fn = l.fn /\ e.token = l.token

(* A listener of the script has its function kept, its element listed and  *)
(* an entry of its own.                                                    *)
Recorded(m, b) ==
  \A n \in DomNodes : \A i \in 1 .. Len(m.listeners[n]) :
    m.listeners[n][i].fn # "host" =>
      /\ b.em /\ n \in b.els /\ m.listeners[n][i].fn \in b.tracked
      /\ \E k \in 1 .. Len(b.entries) : Records(b.entries[k], n, m.listeners[n][i])

(* As long as no entry is older than the binding, an entry has its         *)
(* listener, and no two the same.                                          *)
Backed(m, b) ==
  b.em /\ ~b.carried =>
    \A k \in 1 .. Len(b.entries) :
      /\ \E i \in 1 .. Len(m.listeners[b.entries[k].el]) :
           Records(b.entries[k], b.entries[k].el, m.listeners[b.entries[k].el][i])
      /\ \A j \in 1 .. Len(b.entries) : k # j => b.entries[k].token # b.entries[j].token

Consistent(m, b) ==
  /\ m \in Manager /\ b \in Bindings
  /\ TokensOrdered(m) /\ TokensUnique(m)
  /\ Recorded(m, b) /\ Backed(m, b)

ListenersInv == Consistent(em, js) /\ (js.em => em.alive /\ em.observed)
----------------------------------------------------------------------------
LEMMA RemovedAt ==
  ASSUME NEW S, NEW s \in Seq(S), NEW i \in 1 .. Len(s)
  PROVE  /\ RemoveAt(s, i) \in Seq(S) /\ Len(RemoveAt(s, i)) = Len(s) - 1
         /\ \A k \in 1 .. Len(s) - 1 : RemoveAt(s, i)[k] = IF k < i THEN s[k] ELSE s[k + 1]
<1> DEFINE a == SubSeq(s, 1, i - 1)
           z == SubSeq(s, i + 1, Len(s))
<1>1. Len(s) \in Nat /\ i \in Nat /\ 1 <= i /\ i <= Len(s) /\ \A k \in 1 .. Len(s) : s[k] \in S
  BY LenProperties, ElementOfSeq
<1>2. /\ a \in Seq(S) /\ Len(a) = i - 1 /\ \A k \in 1 .. i - 1 : a[k] = s[k]
  <2>1. i - 1 \in Int /\ \A k \in 1 .. i - 1 : s[k] \in S
    BY <1>1
  <2>2. /\ a \in Seq(S) /\ Len(a) = (IF 1 <= i - 1 THEN i - 1 - 1 + 1 ELSE 0)
        /\ \A k \in 1 .. i - 1 - 1 + 1 : a[k] = s[1 + k - 1]
    BY <2>1, SubSeqProperties
  <2>3. i - 1 - 1 + 1 = i - 1 /\ \A k \in 1 .. i - 1 : 1 + k - 1 = k
    BY <1>1
  <2> HIDE DEF a
  <2> QED BY <2>2, <2>3, <1>1
<1>3. /\ z \in Seq(S) /\ Len(z) = Len(s) - i /\ \A k \in 1 .. Len(s) - i : z[k] = s[k + i]
  <2>1. i + 1 \in Int /\ Len(s) \in Int /\ \A k \in i + 1 .. Len(s) : s[k] \in S
    BY <1>1
  <2>2. /\ z \in Seq(S) /\ Len(z) = (IF i + 1 <= Len(s) THEN Len(s) - (i + 1) + 1 ELSE 0)
        /\ \A k \in 1 .. Len(s) - (i + 1) + 1 : z[k] = s[i + 1 + k - 1]
    BY <2>1, SubSeqProperties
  <2>3. Len(s) - (i + 1) + 1 = Len(s) - i /\ \A k \in 1 .. Len(s) - i : i + 1 + k - 1 = k + i
    BY <1>1
  <2> HIDE DEF z
  <2>4. Len(z) = Len(s) - i
    <3> DEFINE l == Len(z)
               n == Len(s)
    <3>1. n \in Nat /\ i \in Nat /\ i <= n /\ l = (IF i + 1 <= n THEN n - (i + 1) + 1 ELSE 0)
      BY <1>1, <2>2
    <3> HIDE DEF l, n
    <3>2. l = n - i
      BY <3>1
    <3> QED BY <3>2 DEF l, n
  <2>5. \A k \in 1 .. Len(s) - i : z[k] = s[k + i]
    BY <2>2, <2>3
  <2> QED BY <2>2, <2>4, <2>5
<1> HIDE DEF a, z
<1>4. /\ a \o z \in Seq(S) /\ Len(a \o z) = Len(s) - 1
      /\ \A k \in 1 .. Len(s) - 1 : (a \o z)[k] = IF k <= i - 1 THEN a[k] ELSE z[k - (i - 1)]
  <2>1. /\ a \o z \in Seq(S) /\ Len(a \o z) = Len(a) + Len(z)
        /\ \A k \in 1 .. Len(a) + Len(z) : (a \o z)[k] = IF k <= Len(a) THEN a[k] ELSE z[k - Len(a)]
    BY <1>2, <1>3, ConcatProperties
  <2>2. Len(a) + Len(z) = Len(s) - 1 /\ Len(a) = i - 1
    BY <1>1, <1>2, <1>3
  <2> QED BY <2>1, <2>2
<1>5. ASSUME NEW k \in 1 .. Len(s) - 1
      PROVE  (a \o z)[k] = IF k < i THEN s[k] ELSE s[k + 1]
  <2>1. CASE k < i
    BY <1>1, <1>2, <1>4, <2>1
  <2>2. CASE ~(k < i)
    <3>1. k - (i - 1) \in 1 .. Len(s) - i /\ k - (i - 1) + i = k + 1
      BY <1>1, <2>2
    <3>2. (a \o z)[k] = z[k - (i - 1)]
      BY <1>4, <2>2
    <3>3. z[k - (i - 1)] = s[k - (i - 1) + i]
      BY <1>3, <3>1
    <3> QED BY <2>2, <3>1, <3>2, <3>3
  <2> QED BY <2>1, <2>2
<1> QED
  BY <1>4, <1>5 DEF a, z, RemoveAt

(* The last element in the place of the dropped one.                       *)
LEMMA EntryDropped ==
  ASSUME NEW S, NEW s \in Seq(S), NEW i \in 1 .. Len(s)
  PROVE  /\ DropJsEntry(s, i) \in Seq(S) /\ Len(DropJsEntry(s, i)) = Len(s) - 1
         /\ \A k \in 1 .. Len(s) - 1 : DropJsEntry(s, i)[k] = IF k = i THEN s[Len(s)] ELSE s[k]
<1> DEFINE r == [s EXCEPT ![i] = s[Len(s)]]
<1>1. Len(s) \in Nat /\ Len(s) \in 1 .. Len(s)
  BY LenProperties
<1>2. s[Len(s)] \in S
  BY <1>1, ElementOfSeq
<1>3. /\ r \in Seq(S) /\ Len(r) = Len(s)
      /\ \A k \in 1 .. Len(s) : r[k] = IF k = i THEN s[Len(s)] ELSE s[k]
  BY <1>2, ExceptSeq
<1> HIDE DEF r
<1>4. 1 \in Int /\ Len(s) - 1 \in Int /\ \A k \in 1 .. Len(s) - 1 : r[k] \in S
  BY <1>1, <1>3, ElementOfSeq
<1>5. /\ SubSeq(r, 1, Len(s) - 1) \in Seq(S)
      /\ Len(SubSeq(r, 1, Len(s) - 1)) = IF 1 <= Len(s) - 1 THEN Len(s) - 1 - 1 + 1 ELSE 0
      /\ \A k \in 1 .. Len(s) - 1 - 1 + 1 : SubSeq(r, 1, Len(s) - 1)[k] = r[1 + k - 1]
  BY <1>4, SubSeqProperties
<1>6. ASSUME NEW k \in 1 .. Len(s) - 1
      PROVE  SubSeq(r, 1, Len(s) - 1)[k] = IF k = i THEN s[Len(s)] ELSE s[k]
  <2>1. k \in 1 .. Len(s) - 1 - 1 + 1 /\ 1 + k - 1 = k /\ k \in 1 .. Len(s)
    BY <1>1
  <2> QED BY <1>3, <1>5, <2>1
<1>7. Len(SubSeq(r, 1, Len(s) - 1)) = Len(s) - 1
  <2> DEFINE l == Len(SubSeq(r, 1, Len(s) - 1))
             n == Len(s)
  <2>1. n \in Nat /\ 1 <= n /\ l = (IF 1 <= n - 1 THEN n - 1 - 1 + 1 ELSE 0)
    BY <1>1, <1>5
  <2> HIDE DEF l, n
  <2>2. l = n - 1
    BY <2>1
  <2> QED BY <2>2 DEF l, n
<1>8. DropJsEntry(s, i) = SubSeq(r, 1, Len(s) - 1)
  BY <1>3 DEF DropJsEntry, r
<1> QED
  BY <1>5, <1>6, <1>7, <1>8
----------------------------------------------------------------------------
(* What a call leaves of the lists: some listeners, in their order, or new *)
(* ones behind them.                                                       *)
Thinned(m, m2) ==
  /\ m2 \in Manager /\ m2.token = m.token /\ m2.alive = m.alive /\ m2.observed = m.observed
  /\ TokensOrdered(m2)
  /\ \A n \in DomNodes : \A k \in 1 .. Len(m2.listeners[n]) :
       \E q \in k .. Len(m.listeners[n]) : m2.listeners[n][k] = m.listeners[n][q]

Follows(m, m2) ==
  /\ m2.token >= m.token
  /\ \A n \in DomNodes : \A k \in 1 .. Len(m2.listeners[n]) :
       \/ \E q \in k .. Len(m.listeners[n]) : m2.listeners[n][k] = m.listeners[n][q]
       \/ m2.listeners[n][k].token >= m.token

LEMMA ManagerFields ==
  ASSUME NEW m \in Manager, NEW n \in DomNodes
  PROVE  /\ m.token \in Nat \ {0} /\ m.listeners \in [DomNodes -> Seq(Listener)]
         /\ m.listeners[n] \in Seq(Listener) /\ Len(m.listeners[n]) \in Nat
         /\ \A k \in 1 .. Len(m.listeners[n]) : /\ m.listeners[n][k] \in Listener
                                                /\ m.listeners[n][k].token \in Nat
<1>1. m.token \in Nat \ {0} /\ m.listeners \in [DomNodes -> Seq(Listener)]
  BY DEF Manager
<1>2. m.listeners[n] \in Seq(Listener)
  BY <1>1
<1>3. Len(m.listeners[n]) \in Nat /\ \A k \in 1 .. Len(m.listeners[n]) : m.listeners[n][k] \in Listener
  BY <1>2, LenProperties, ElementOfSeq
<1>4. \A l \in Listener : l.token \in Nat
  BY DEF Listener
<1> QED BY <1>1, <1>2, <1>3, <1>4

(* The same lists but for one.                                             *)
LEMMA ListenersReplaced ==
  ASSUME NEW m \in Manager, NEW el \in DomNodes, NEW s \in Seq(Listener)
  PROVE  LET m2 == [m EXCEPT !.listeners[el] = s]
         IN  /\ m2 \in Manager /\ m2.token = m.token /\ m2.alive = m.alive
             /\ m2.observed = m.observed /\ m2.listeners[el] = s
             /\ \A n \in DomNodes : n # el => m2.listeners[n] = m.listeners[n]
BY DEF Manager

LEMMA ThinnedRefl ==
  ASSUME NEW m \in Manager, TokensOrdered(m)
  PROVE  Thinned(m, m)
BY ManagerFields DEF Thinned

LEMMA ThinnedTrans ==
  ASSUME NEW m \in Manager, NEW m1, NEW m2, Thinned(m, m1), Thinned(m1, m2)
  PROVE  Thinned(m, m2)
<1>1. ASSUME NEW n \in DomNodes, NEW k \in 1 .. Len(m2.listeners[n])
      PROVE  \E q \in k .. Len(m.listeners[n]) : m2.listeners[n][k] = m.listeners[n][q]
  <2>1. PICK p \in k .. Len(m1.listeners[n]) : m2.listeners[n][k] = m1.listeners[n][p]
    BY DEF Thinned
  <2>2. /\ Len(m.listeners[n]) \in Nat /\ Len(m1.listeners[n]) \in Nat
        /\ Len(m2.listeners[n]) \in Nat
    BY ManagerFields DEF Thinned
  <2>3. p \in 1 .. Len(m1.listeners[n]) /\ p >= k
    BY <2>2
  <2>4. PICK q \in p .. Len(m.listeners[n]) : m1.listeners[n][p] = m.listeners[n][q]
    BY <2>3 DEF Thinned
  <2>5. q \in k .. Len(m.listeners[n])
    BY <2>2, <2>3
  <2> QED BY <2>1, <2>4, <2>5
<1> QED BY <1>1 DEF Thinned

LEMMA ThinnedUnique ==
  ASSUME NEW m \in Manager, NEW m2, Thinned(m, m2), TokensUnique(m)
  PROVE  TokensUnique(m2)
<1>1. ASSUME NEW n \in DomNodes, NEW k \in 1 .. Len(m2.listeners[n])
      PROVE  \E q \in 1 .. Len(m.listeners[n]) : m2.listeners[n][k] = m.listeners[n][q]
  <2>1. PICK q \in k .. Len(m.listeners[n]) : m2.listeners[n][k] = m.listeners[n][q]
    BY DEF Thinned
  <2>2. Len(m2.listeners[n]) \in Nat /\ Len(m.listeners[n]) \in Nat
    BY ManagerFields DEF Thinned
  <2>3. q \in 1 .. Len(m.listeners[n])
    BY <2>2
  <2> QED BY <2>1, <2>3
<1>2. ASSUME NEW n \in DomNodes, NEW o \in DomNodes, NEW i \in 1 .. Len(m2.listeners[n]),
             NEW j \in 1 .. Len(m2.listeners[o]),
             m2.listeners[n][i].token = m2.listeners[o][j].token
      PROVE  n = o
  <2>1. PICK q \in 1 .. Len(m.listeners[n]) : m2.listeners[n][i] = m.listeners[n][q]
    BY <1>1
  <2>2. PICK p \in 1 .. Len(m.listeners[o]) : m2.listeners[o][j] = m.listeners[o][p]
    BY <1>1
  <2> QED BY <1>2, <2>1, <2>2 DEF TokensUnique
<1> QED BY <1>2 DEF TokensUnique

LEMMA ThinnedFollows ==
  ASSUME NEW m \in Manager, NEW m2, Thinned(m, m2)
  PROVE  Follows(m, m2)
BY DEF Thinned, Follows, Manager

(* One listener leaves, that of the token, and no other.                   *)
LEMMA TokenRemoved ==
  ASSUME NEW m \in Manager, TokensOrdered(m), NEW el \in DomNodes, NEW token
  PROVE  LET m2 == RemoveEventListenerByToken(m, el, token)
         IN  /\ Thinned(m, m2)
             /\ \A k \in 1 .. Len(m2.listeners[el]) : m2.listeners[el][k].token # token
             /\ \A n \in DomNodes : \A q \in 1 .. Len(m.listeners[n]) :
                  n # el \/ m.listeners[n][q].token # token =>
                    \E k \in 1 .. Len(m2.listeners[n]) : m2.listeners[n][k] = m.listeners[n][q]
<1> DEFINE s == m.listeners[el]
           at == {i \in 1 .. Len(s) : s[i].token = token}
           m2 == RemoveEventListenerByToken(m, el, token)
<1>1. /\ s \in Seq(Listener) /\ Len(s) \in Nat /\ at \in SUBSET Nat
      /\ \A k \in 1 .. Len(s) : s[k].token \in Nat
  BY ManagerFields
<1>2. CASE at = {}
  <2>1. m2 = m
    BY <1>2 DEF RemoveEventListenerByToken
  <2>2. \A k \in 1 .. Len(s) : s[k].token # token
    BY <1>2
  <2> QED BY <2>1, <2>2, ThinnedRefl
<1>3. CASE at # {}
  <2> DEFINE i == FirstOf(at)
             r == RemoveAt(s, i)
  <2>1. i \in at
    <3> HIDE DEF at
    <3> QED BY <1>1, <1>3, FirstIsLeast
  <2>2. i \in 1 .. Len(s) /\ s[i].token = token
    BY <2>1
  <2>3. m2 = [m EXCEPT !.listeners[el] = r]
    BY <1>3 DEF RemoveEventListenerByToken, Manager
  <2> HIDE DEF i, at
  <2>4. /\ r \in Seq(Listener) /\ Len(r) = Len(s) - 1
        /\ \A k \in 1 .. Len(s) - 1 : r[k] = IF k < i THEN s[k] ELSE s[k + 1]
    BY <1>1, <2>2, RemovedAt
  <2> HIDE DEF r
  <2>5. /\ m2 \in Manager /\ m2.token = m.token /\ m2.alive = m.alive
        /\ m2.observed = m.observed /\ m2.listeners[el] = r
        /\ \A n \in DomNodes : n # el => m2.listeners[n] = m.listeners[n]
    BY <2>3, <2>4, ListenersReplaced
  <2> HIDE DEF m2
  <2>6. ASSUME NEW k \in 1 .. Len(r) PROVE \E q \in k .. Len(s) : q # i /\ r[k] = s[q] /\ (k < i => q = k) /\ (~(k < i) => q = k + 1)
    <3>1. k \in 1 .. Len(s) - 1 /\ k \in k .. Len(s) /\ k + 1 \in k .. Len(s)
      BY <1>1, <2>4
    <3> QED BY <1>1, <2>2, <2>4, <3>1
  <2>7. \A j, k \in 1 .. Len(s) : j < k => s[j].token < s[k].token
    BY DEF TokensOrdered
  <2>8. ASSUME NEW k \in 1 .. Len(r) PROVE r[k].token # token
    <3>1. PICK q \in k .. Len(s) : q # i /\ r[k] = s[q]
      BY <2>6
    <3>2. q \in 1 .. Len(s) /\ s[q].token \in Nat /\ token \in Nat
      BY <1>1, <2>2, <2>4
    <3>3. s[q].token < token \/ token < s[q].token
      <4>1. CASE q < i
        BY <2>2, <2>7, <3>2, <4>1
      <4>2. CASE i < q
        BY <2>2, <2>7, <3>2, <4>2
      <4> QED BY <4>1, <4>2, <3>1, <3>2, <2>2
    <3> QED BY <3>1, <3>2, <3>3
  <2>9. ASSUME NEW q \in 1 .. Len(s), s[q].token # token PROVE \E k \in 1 .. Len(r) : r[k] = s[q]
    <3>1. q # i
      BY <2>2, <2>9
    <3>2. CASE q < i
      <4>1. q \in 1 .. Len(s) - 1
        BY <1>1, <2>2, <3>2
      <4> QED BY <2>4, <3>2, <4>1
    <3>3. CASE i < q
      <4>1. q - 1 \in 1 .. Len(s) - 1 /\ ~(q - 1 < i) /\ q - 1 + 1 = q
        BY <1>1, <2>2, <3>3
      <4> QED BY <2>4, <4>1
    <3> QED BY <3>1, <3>2, <3>3, <2>2, <1>1
  <2>10. TokensOrdered(m2)
    <3> SUFFICES ASSUME NEW n \in DomNodes, NEW j \in 1 .. Len(m2.listeners[n])
        PROVE  /\ m2.listeners[n][j].token \in 1 .. m2.token - 1
               /\ \A k \in 1 .. Len(m2.listeners[n]) :
                    j < k => m2.listeners[n][j].token < m2.listeners[n][k].token
      BY DEF TokensOrdered
    <3>1. CASE n # el
      BY <3>1, <2>5 DEF TokensOrdered
    <3>2. CASE n = el
      <4>1. PICK q \in j .. Len(s) : r[j] = s[q] /\ (j < i => q = j) /\ (~(j < i) => q = j + 1)
        BY <3>2, <2>5, <2>6
      <4>2. q \in 1 .. Len(s)
        BY <1>1, <4>1, <3>2, <2>4, <2>5
      <4>3. ASSUME NEW k \in 1 .. Len(r), j < k PROVE r[j].token < r[k].token
        <5>1. PICK p \in k .. Len(s) : r[k] = s[p] /\ (k < i => p = k) /\ (~(k < i) => p = k + 1)
          BY <2>6
        <5>2. p \in 1 .. Len(s) /\ q < p
          BY <1>1, <4>1, <4>2, <4>3, <5>1, <2>2, <2>4
        <5> QED BY <2>7, <4>1, <4>2, <5>1, <5>2
      <4>4. s[q].token \in 1 .. m.token - 1
        BY <4>2 DEF TokensOrdered
      <4> QED BY <2>5, <3>2, <4>1, <4>3, <4>4
    <3> QED BY <3>1, <3>2
  <2>11. ASSUME NEW n \in DomNodes, NEW k \in 1 .. Len(m2.listeners[n])
         PROVE  \E q \in k .. Len(m.listeners[n]) : m2.listeners[n][k] = m.listeners[n][q]
    <3>1. CASE n = el
      BY <2>5, <2>6, <3>1
    <3>2. CASE n # el
      <4>1. m2.listeners[n] = m.listeners[n] /\ Len(m.listeners[n]) \in Nat
        BY <2>5, <3>2, ManagerFields
      <4>2. k \in k .. Len(m.listeners[n])
        BY <4>1
      <4> QED BY <4>1, <4>2
    <3> QED BY <3>1, <3>2
  <2>12. Thinned(m, m2)
    BY <2>5, <2>10, <2>11 DEF Thinned
  <2>13. ASSUME NEW n \in DomNodes, NEW q \in 1 .. Len(m.listeners[n]),
                n # el \/ m.listeners[n][q].token # token
         PROVE  \E k \in 1 .. Len(m2.listeners[n]) : m2.listeners[n][k] = m.listeners[n][q]
    <3>1. CASE n = el
      BY <2>5, <2>9, <2>13, <3>1
    <3>2. CASE n # el
      BY <2>5, <3>2
    <3> QED BY <3>1, <3>2
  <2> QED
    BY <2>5, <2>8, <2>12, <2>13 DEF m2
<1> QED BY <1>2, <1>3
----------------------------------------------------------------------------
(* The record of the listeners. *)
OnlyEntries(b, b2) ==
  /\ b2 \in Bindings
  /\ b2.bound = b.bound /\ b2.em = b.em /\ b2.els = b.els /\ b2.tracked = b.tracked
  /\ b2.refs = b.refs /\ b2.inner = b.inner /\ b2.todo = b.todo /\ b2.clearing = b.clearing
  /\ b2.binds = b.binds /\ b2.carried = b.carried

LEMMA EntryFields ==
  ASSUME NEW b \in Bindings
  PROVE  /\ b.entries \in Seq(Entry) /\ Len(b.entries) \in Nat
         /\ \A k \in 1 .. Len(b.entries) : /\ b.entries[k] \in Entry
                                           /\ b.entries[k].el \in DomNodes
                                           /\ b.entries[k].token \in Nat
<1>1. b.entries \in Seq(Entry)
  BY DEF Bindings
<1>2. Len(b.entries) \in Nat /\ \A k \in 1 .. Len(b.entries) : b.entries[k] \in Entry
  BY <1>1, LenProperties, ElementOfSeq
<1>3. \A e \in Entry : e.el \in DomNodes /\ e.token \in Nat
  BY DEF Entry
<1> QED BY <1>1, <1>2, <1>3

LEMMA EntriesReplaced ==
  ASSUME NEW b \in Bindings, NEW s \in Seq(Entry)
  PROVE  LET b2 == [b EXCEPT !.entries = s] IN OnlyEntries(b, b2) /\ b2.entries = s
BY DEF Bindings, OnlyEntries

(* Where an entry comes from after one was dropped. *)
LEMMA EntriesMoved ==
  ASSUME NEW s \in Seq(Entry), NEW i \in 1 .. Len(s)
  PROVE  LET r == DropJsEntry(s, i)
         IN  /\ \A j \in 1 .. Len(s) : j # i => \E k \in 1 .. Len(r) : r[k] = s[j]
             /\ \A k \in 1 .. Len(r) : \E j \in 1 .. Len(s) : j # i /\ r[k] = s[j]
             /\ \A k, l \in 1 .. Len(r) : k # l =>
                  \E j, h \in 1 .. Len(s) : j # h /\ r[k] = s[j] /\ r[l] = s[h]
<1> DEFINE r == DropJsEntry(s, i)
           From(k) == IF k = i THEN Len(s) ELSE k
<1>1. /\ Len(s) \in Nat /\ Len(r) = Len(s) - 1
      /\ \A k \in 1 .. Len(s) - 1 : r[k] = IF k = i THEN s[Len(s)] ELSE s[k]
  BY LenProperties, EntryDropped
<1> HIDE DEF r
<1>2. \A k \in 1 .. Len(r) : From(k) \in 1 .. Len(s) /\ From(k) # i /\ r[k] = s[From(k)]
  BY <1>1
<1>3. \A k, l \in 1 .. Len(r) : k # l => From(k) # From(l)
  BY <1>1
<1>4. ASSUME NEW j \in 1 .. Len(s), j # i PROVE \E k \in 1 .. Len(r) : r[k] = s[j]
  <2>1. CASE j = Len(s)
    <3>1. i \in 1 .. Len(r)
      BY <1>1, <1>4, <2>1
    <3> QED BY <1>1, <2>1, <3>1
  <2>2. CASE j # Len(s)
    <3>1. j \in 1 .. Len(r)
      BY <1>1, <2>2
    <3> QED BY <1>1, <1>4, <3>1
  <2> QED BY <2>1, <2>2
<1>5. ASSUME NEW k \in 1 .. Len(r) PROVE \E j \in 1 .. Len(s) : j # i /\ r[k] = s[j]
  BY <1>2
<1>6. ASSUME NEW k \in 1 .. Len(r), NEW l \in 1 .. Len(r), k # l
      PROVE  \E j, h \in 1 .. Len(s) : j # h /\ r[k] = s[j] /\ r[l] = s[h]
  <2>1. From(k) \in 1 .. Len(s) /\ From(l) \in 1 .. Len(s) /\ From(k) # From(l)
    BY <1>2, <1>3, <1>6
  <2> QED BY <1>2, <2>1
<1> QED BY <1>4, <1>5, <1>6 DEF r

(* An entry goes with its listener.                                        *)
LEMMA PairDropped ==
  ASSUME NEW m, NEW b, Consistent(m, b), NEW i \in 1 .. Len(b.entries)
  PROVE  LET e  == b.entries[i]
             m2 == RemoveEventListenerByToken(m, e.el, e.token)
             b2 == [b EXCEPT !.entries = DropJsEntry(@, i)]
         IN  /\ Consistent(m2, b2) /\ Thinned(m, m2) /\ OnlyEntries(b, b2)
             /\ Len(b2.entries) = Len(b.entries) - 1
<1> DEFINE e  == b.entries[i]
           m2 == RemoveEventListenerByToken(m, e.el, e.token)
           r  == DropJsEntry(b.entries, i)
           b2 == [b EXCEPT !.entries = DropJsEntry(@, i)]
<1>1. m \in Manager /\ b \in Bindings /\ TokensOrdered(m) /\ TokensUnique(m) /\ Recorded(m, b) /\ Backed(m, b)
  BY DEF Consistent
<1>2. b.entries \in Seq(Entry) /\ e \in Entry /\ e.el \in DomNodes
  BY <1>1, EntryFields
<1>3. r \in Seq(Entry) /\ Len(r) = Len(b.entries) - 1
  BY <1>2, EntryDropped
<1>4. OnlyEntries(b, b2) /\ b2.entries = r
  <2>1. b2 = [b EXCEPT !.entries = r]
    BY <1>1 DEF Bindings
  <2> QED BY <1>1, <1>3, <2>1, EntriesReplaced
<1>5. /\ Thinned(m, m2)
      /\ \A k \in 1 .. Len(m2.listeners[e.el]) : m2.listeners[e.el][k].token # e.token
      /\ \A n \in DomNodes : \A q \in 1 .. Len(m.listeners[n]) :
           n # e.el \/ m.listeners[n][q].token # e.token =>
             \E k \in 1 .. Len(m2.listeners[n]) : m2.listeners[n][k] = m.listeners[n][q]
  <2> HIDE DEF e
  <2> QED BY <1>1, <1>2, TokenRemoved
<1>6. /\ \A j \in 1 .. Len(b.entries) : j # i => \E k \in 1 .. Len(r) : r[k] = b.entries[j]
      /\ \A k \in 1 .. Len(r) : \E j \in 1 .. Len(b.entries) : j # i /\ r[k] = b.entries[j]
      /\ \A k, l \in 1 .. Len(r) : k # l =>
           \E j, h \in 1 .. Len(b.entries) : j # h /\ r[k] = b.entries[j] /\ r[l] = b.entries[h]
  BY <1>2, EntriesMoved
<1> HIDE DEF m2, b2, r
<1>7. m2 \in Manager /\ TokensOrdered(m2) /\ TokensUnique(m2) /\ b2 \in Bindings
  BY <1>1, <1>4, <1>5, ThinnedUnique DEF Thinned, OnlyEntries
<1>8. Recorded(m2, b2)
  <2> SUFFICES ASSUME NEW n \in DomNodes, NEW k \in 1 .. Len(m2.listeners[n]),
                      m2.listeners[n][k].fn # "host"
      PROVE  /\ b2.em /\ n \in b2.els /\ m2.listeners[n][k].fn \in b2.tracked
             /\ \E j \in 1 .. Len(b2.entries) : Records(b2.entries[j], n, m2.listeners[n][k])
    BY DEF Recorded
  <2>1. PICK q \in k .. Len(m.listeners[n]) : m2.listeners[n][k] = m.listeners[n][q]
    BY <1>5 DEF Thinned
  <2>2. q \in 1 .. Len(m.listeners[n])
    BY <1>1, <1>7, ManagerFields
  <2>3. /\ b.em /\ n \in b.els /\ m2.listeners[n][k].fn \in b.tracked
        /\ \E j \in 1 .. Len(b.entries) : Records(b.entries[j], n, m2.listeners[n][k])
    BY <1>1, <2>1, <2>2 DEF Recorded
  <2>4. PICK j \in 1 .. Len(b.entries) : Records(b.entries[j], n, m2.listeners[n][k])
    BY <2>3
  <2>5. j # i
    BY <1>5, <2>4 DEF Records
  <2>6. PICK h \in 1 .. Len(r) : r[h] = b.entries[j]
    BY <1>6, <2>5
  <2> QED
    BY <1>4, <2>3, <2>4, <2>6 DEF OnlyEntries
<1>9. Backed(m2, b2)
  <2> SUFFICES ASSUME b2.em, ~b2.carried, NEW k \in 1 .. Len(b2.entries)
      PROVE  /\ \E q \in 1 .. Len(m2.listeners[b2.entries[k].el]) :
                  Records(b2.entries[k], b2.entries[k].el, m2.listeners[b2.entries[k].el][q])
             /\ \A l \in 1 .. Len(b2.entries) : k # l => b2.entries[k].token # b2.entries[l].token
    BY DEF Backed
  <2>1. /\ \A j \in 1 .. Len(b.entries) :
             /\ \E q \in 1 .. Len(m.listeners[b.entries[j].el]) :
                  Records(b.entries[j], b.entries[j].el, m.listeners[b.entries[j].el][q])
             /\ \A h \in 1 .. Len(b.entries) : j # h => b.entries[j].token # b.entries[h].token
    BY <1>1, <1>4 DEF Backed, OnlyEntries
  <2>2. PICK j \in 1 .. Len(b.entries) : j # i /\ r[k] = b.entries[j]
    BY <1>4, <1>6
  <2>3. PICK q \in 1 .. Len(m.listeners[r[k].el]) : Records(r[k], r[k].el, m.listeners[r[k].el][q])
    BY <2>1, <2>2
  <2>4. r[k].token # e.token /\ r[k].el \in DomNodes
    BY <1>1, <2>1, <2>2, EntryFields
  <2>5. \E h \in 1 .. Len(m2.listeners[r[k].el]) : m2.listeners[r[k].el][h] = m.listeners[r[k].el][q]
    BY <1>5, <2>3, <2>4 DEF Records
  <2>6. ASSUME NEW l \in 1 .. Len(r), k # l PROVE r[k].token # r[l].token
    <3>1. PICK g, h \in 1 .. Len(b.entries) : g # h /\ r[k] = b.entries[g] /\ r[l] = b.entries[h]
      <4>1. k \in 1 .. Len(r) /\ l \in 1 .. Len(r) /\ k # l
        BY <1>4, <2>6
      <4> QED BY <1>6, <4>1
    <3> QED BY <2>1, <3>1
  <2> QED
    BY <1>4, <2>3, <2>5, <2>6
<1>10. Consistent(m2, b2)
  BY <1>7, <1>8, <1>9 DEF Consistent
<1> QED
  BY <1>3, <1>4, <1>5, <1>10 DEF m2, b2

(* The loop over the entries, from the last down: what holds of lists and  *)
(* record holds at every place it comes to.                                *)
LEMMA MatchingDropped ==
  ASSUME NEW m, NEW b, Consistent(m, b), NEW el \in DomNodes, NEW types
  PROVE  LET left == DropMatching(m, b, el, types)
         IN  /\ Consistent(left[1], left[2]) /\ Thinned(m, left[1]) /\ OnlyEntries(b, left[2])
             /\ \A k \in 1 .. Len(left[2].entries) :
                  ~(left[2].entries[k].el = el /\ left[2].entries[k].type \in types)
<1> DEFINE n == Len(b.entries)
           Match(e) == e.el = el /\ e.type \in types
           Step(x, i) == DropIfMatching(x[1], x[2], el, types, n - i + 1)
           Good(x, i) == /\ Consistent(x[1], x[2]) /\ Thinned(m, x[1]) /\ OnlyEntries(b, x[2])
                         /\ Len(x[2].entries) >= n - i
                         /\ \A k \in 1 .. Len(x[2].entries) : k > n - i => ~Match(x[2].entries[k])
           HasRun(k) == \E g : g = [i \in 0 .. k |-> IF i = 0 THEN <<m, b>> ELSE Step(g[i - 1], i)]
           left == CHOOSE g : g = [i \in 0 .. n |-> IF i = 0 THEN <<m, b>> ELSE Step(g[i - 1], i)]
<1>1. n \in Nat /\ m \in Manager /\ b \in Bindings
  BY EntryFields DEF Consistent
<1>2. DropMatching(m, b, el, types) = left[n]
  BY DEF DropMatching
<1>3. Good(<<m, b>>, 0)
  <2>1. Thinned(m, m) /\ OnlyEntries(b, b)
    BY <1>1, ThinnedRefl DEF Consistent, OnlyEntries
  <2>2. \A k \in 1 .. Len(b.entries) : ~(k > n - 0)
    BY <1>1
  <2> QED BY <1>1, <2>1, <2>2
<1>4. ASSUME NEW x, NEW i \in 1 .. n, Good(x, i - 1) PROVE Good(Step(x, i), i)
  <2> DEFINE j == n - i + 1
             e == x[2].entries[j]
             m2 == RemoveEventListenerByToken(x[1], e.el, e.token)
             b2 == [x[2] EXCEPT !.entries = DropJsEntry(@, j)]
  <2>1. Len(x[2].entries) \in Nat
    BY <1>4, EntryFields DEF Consistent
  <2>2. j \in 1 .. Len(x[2].entries)
    BY <1>1, <1>4, <2>1
  <2>3. CASE e.el = el /\ e.type \in types
    <3>1. Step(x, i) = <<m2, b2>>
      BY <2>3 DEF DropIfMatching
    <3>2. /\ Consistent(m2, b2) /\ Thinned(x[1], m2) /\ OnlyEntries(x[2], b2)
          /\ Len(b2.entries) = Len(x[2].entries) - 1
      <4> HIDE DEF j
      <4> QED BY <1>4, <2>2, PairDropped
    <3> HIDE DEF m2, b2
    <3>3. Thinned(m, m2)
      BY <1>1, <1>4, <3>2, ThinnedTrans
    <3>4. OnlyEntries(b, b2)
      BY <1>4, <3>2 DEF OnlyEntries
    <3>5. Len(b2.entries) >= n - i
      BY <1>1, <1>4, <2>1, <3>2
    <3>6. ASSUME NEW k \in 1 .. Len(b2.entries), k > n - i PROVE ~Match(b2.entries[k])
      <4> DEFINE s == x[2].entries
      <4>1. s \in Seq(Entry) /\ x[2] \in Bindings
        BY <1>4, EntryFields DEF Consistent
      <4>2. b2.entries = DropJsEntry(s, j)
        BY <4>1 DEF b2, Bindings
      <4>8. j \in 1 .. Len(s)
        BY <2>2
      <4> HIDE DEF s, Match, b2
      <4>3. /\ Len(b2.entries) = Len(s) - 1
            /\ \A h \in 1 .. Len(s) - 1 : b2.entries[h] = IF h = j THEN s[Len(s)] ELSE s[h]
        <5> HIDE DEF j
        <5> QED BY <4>1, <4>2, <4>8, EntryDropped
      <4>4. \A h \in 1 .. Len(s) : h > n - (i - 1) => ~Match(s[h])
        BY <1>4 DEF s
      <4>5. Len(s) \in Nat
        BY <2>1 DEF s
      <4>6. CASE k = j
        <5>1. Len(s) \in 1 .. Len(s) /\ Len(s) > n - (i - 1) /\ k \in 1 .. Len(s) - 1
          BY <1>1, <4>3, <4>5, <4>6, <3>6
        <5> QED BY <4>3, <4>4, <4>6, <5>1
      <4>7. CASE k # j
        <5>1. k \in 1 .. Len(s) - 1 /\ k \in 1 .. Len(s) /\ k > n - (i - 1)
          <6> DEFINE l == Len(s)
                     h == Len(b2.entries)
          <6>1. l \in Nat /\ h = l - 1 /\ k \in 1 .. h /\ k > n - i /\ k # n - i + 1 /\ n \in Nat
            BY <1>1, <4>3, <4>5, <4>7, <3>6
          <6> HIDE DEF l, h, n
          <6>2. k \in 1 .. l - 1 /\ k \in 1 .. l /\ k > n - (i - 1)
            BY <6>1
          <6> QED BY <6>2 DEF l
        <5> QED BY <4>3, <4>4, <4>7, <5>1
      <4> QED BY <4>6, <4>7
    <3> HIDE DEF Step, Match
    <3> QED BY <3>1, <3>2, <3>3, <3>4, <3>5, <3>6
  <2>4. CASE ~(e.el = el /\ e.type \in types)
    <3>1. Step(x, i) = <<x[1], x[2]>>
      BY <2>4 DEF DropIfMatching
    <3>2. Len(x[2].entries) >= n - i
      BY <1>1, <1>4, <2>1
    <3>3. ASSUME NEW k \in 1 .. Len(x[2].entries), k > n - i PROVE ~Match(x[2].entries[k])
      <4>1. CASE k = j
        BY <2>4, <4>1
      <4>2. CASE k # j
        <5>1. k > n - (i - 1)
          BY <1>1, <2>1, <3>3, <4>2
        <5> HIDE DEF Match
        <5> QED BY <1>4, <5>1
      <4> QED BY <4>1, <4>2
    <3> HIDE DEF Step, Match
    <3> QED BY <1>4, <3>1, <3>2, <3>3
  <2> QED BY <2>3, <2>4
<1> HIDE DEF Step, Good
<1>5. HasRun(n)
  <2> DEFINE S == {k \in 0 .. n : ~HasRun(k)}
  <2> SUFFICES ASSUME S # {} PROVE FALSE
    BY <1>1
  <2>1. PICK k \in S : \A j \in S : k <= j
    <3>1. S \in SUBSET Nat
      BY <1>1
    <3> HIDE DEF S
    <3> QED BY <3>1, FirstIsLeast
  <2>2. CASE k = 0
    <3> DEFINE g == [i \in 0 .. 0 |-> <<m, b>>]
    <3>1. g = [i \in 0 .. 0 |-> IF i = 0 THEN <<m, b>> ELSE Step(g[i - 1], i)]
      OBVIOUS
    <3>2. HasRun(0)
      BY <3>1
    <3> QED BY <2>1, <2>2, <3>2
  <2>3. CASE k # 0
    <3>1. k \in Nat /\ k - 1 \in 0 .. n /\ k - 1 < k
      BY <1>1, <2>1, <2>3
    <3>2. HasRun(k - 1)
      <4> HIDE DEF HasRun
      <4>1. k - 1 \notin S
        BY <2>1, <3>1
      <4> QED BY <3>1, <4>1
    <3>3. PICK g : g = [i \in 0 .. k - 1 |-> IF i = 0 THEN <<m, b>> ELSE Step(g[i - 1], i)]
      BY <3>2
    <3> DEFINE h == [i \in 0 .. k |-> IF i = k THEN Step(g[k - 1], k) ELSE g[i]]
    <3>4. ASSUME NEW i \in 0 .. k PROVE h[i] = IF i = 0 THEN <<m, b>> ELSE Step(h[i - 1], i)
      <4>1. CASE i = k
        BY <2>3, <3>1, <4>1
      <4>2. CASE i # k
        <5>1. i \in 0 .. k - 1 /\ h[i] = g[i]
          BY <3>1, <4>2
        <5>2. i # 0 => i - 1 \in 0 .. k /\ i - 1 # k /\ h[i - 1] = g[i - 1]
          BY <3>1, <4>2
        <5>3. g[i] = IF i = 0 THEN <<m, b>> ELSE Step(g[i - 1], i)
          BY <3>3, <5>1
        <5> QED BY <5>1, <5>2, <5>3
      <4> QED BY <4>1, <4>2
    <3>5. h = [i \in 0 .. k |-> IF i = 0 THEN <<m, b>> ELSE Step(h[i - 1], i)]
      BY <3>4
    <3>6. HasRun(k)
      <4> HIDE DEF h
      <4> QED BY <3>5
    <3> QED BY <2>1, <3>6
  <2> QED BY <2>2, <2>3
<1>6. left = [i \in 0 .. n |-> IF i = 0 THEN <<m, b>> ELSE Step(left[i - 1], i)]
  BY <1>5
<1> HIDE DEF left
<1>7. left[0] = <<m, b>> /\ \A i \in 1 .. n : left[i] = Step(left[i - 1], i)
  <2>1. \A i \in 0 .. n : left[i] = IF i = 0 THEN <<m, b>> ELSE Step(left[i - 1], i)
    BY <1>6
  <2> QED BY <1>1, <2>1
<1>8. Good(left[n], n)
  <2> DEFINE S == {k \in 0 .. n : ~Good(left[k], k)}
  <2> SUFFICES ASSUME S # {} PROVE FALSE
    BY <1>1
  <2>1. PICK k \in S : \A j \in S : k <= j
    <3>1. S \in SUBSET Nat
      BY <1>1
    <3> HIDE DEF S
    <3> QED BY <3>1, FirstIsLeast
  <2>2. k # 0
    BY <1>3, <1>7, <2>1
  <2>3. k \in 1 .. n /\ k - 1 \in 0 .. n /\ ~(k <= k - 1)
    BY <1>1, <2>1, <2>2
  <2>4. Good(left[k - 1], k - 1)
    BY <2>1, <2>3
  <2> QED BY <1>4, <1>7, <2>1, <2>3, <2>4
<1>9. \A k \in 1 .. Len(left[n][2].entries) : k > n - n
  BY <1>1
<1> QED BY <1>2, <1>8, <1>9 DEF Good
----------------------------------------------------------------------------
(* The calls that change listeners or their record. *)

LEMMA HostOnlyConsistent ==
  ASSUME NEW m \in Manager, NEW b \in Bindings, TokensOrdered(m), TokensUnique(m),
         \A n \in DomNodes : \A k \in 1 .. Len(m.listeners[n]) : m.listeners[n][k].fn = "host",
         b.em /\ ~b.carried => b.entries = <<>>
  PROVE  Consistent(m, b)
<1>1. Recorded(m, b)
  BY DEF Recorded
<1>2. Backed(m, b)
  <2> SUFFICES ASSUME b.em, ~b.carried, NEW k \in 1 .. Len(b.entries) PROVE FALSE
    BY DEF Backed
  <2>1. Len(b.entries) = 0
    BY EmptySeq
  <2> QED BY <2>1
<1> QED BY <1>1, <1>2 DEF Consistent

(* A manager that was not used before, or one about to go. *)
LEMMA FreshManager ==
  ASSUME NEW m \in {NewManager, [NewManager EXCEPT !.alive = FALSE]}
  PROVE  /\ m \in Manager /\ TokensOrdered(m) /\ TokensUnique(m)
         /\ \A n \in DomNodes : \A k \in 1 .. Len(m.listeners[n]) : m.listeners[n][k].fn = "host"
<1>1. m \in Manager
  <2>1. [n \in DomNodes |-> <<>>] \in [DomNodes -> Seq(Listener)]
    BY EmptySeq
  <2>2. NewManager \in Manager
    BY <2>1 DEF NewManager, Everywhere, Manager
  <2> QED BY <2>2 DEF Manager
<1>2. \A n \in DomNodes : Len(m.listeners[n]) = 0
  BY EmptySeq DEF NewManager, Everywhere
<1>3. \A n \in DomNodes : 1 .. Len(m.listeners[n]) = {}
  BY <1>2
<1>4. TokensOrdered(m) /\ TokensUnique(m)
  BY <1>3 DEF TokensOrdered, TokensUnique
<1> QED BY <1>1, <1>3, <1>4

(* The bindings let go of every listener that calls into the script.       *)
LEMMA Released ==
  ASSUME NEW m, NEW b, Consistent(m, b)
  PROVE  LET m2 == Release(m, b)
         IN  /\ m2 \in Manager /\ m2.token = m.token /\ m2.alive = m.alive
             /\ TokensOrdered(m2) /\ TokensUnique(m2)
             /\ \A n \in DomNodes : \A k \in 1 .. Len(m2.listeners[n]) : m2.listeners[n][k].fn = "host"
<1> DEFINE m2 == Release(m, b)
<1>1. m \in Manager /\ TokensOrdered(m) /\ TokensUnique(m) /\ Recorded(m, b)
  BY DEF Consistent
<1>2. CASE ~b.em
  <2>1. m2 = m
    BY <1>2 DEF Release
  <2>2. \A n \in DomNodes : \A k \in 1 .. Len(m.listeners[n]) : m.listeners[n][k].fn = "host"
    BY <1>1, <1>2 DEF Recorded
  <2> QED BY <1>1, <2>1, <2>2
<1>3. CASE b.em
  <2> DEFINE ls == [n \in DomNodes |-> IF n \in b.els THEN <<>> ELSE m.listeners[n]]
  <2>1. m.listeners \in [DomNodes -> Seq(Listener)]
    BY <1>1 DEF Manager
  <2>2. ls \in [DomNodes -> Seq(Listener)]
    BY <2>1, EmptySeq
  <2>3. m2 = [m EXCEPT !.listeners = ls, !.observed = FALSE]
    BY <1>1, <1>3 DEF Release, WithoutListeners, Manager
  <2>4. m2 \in Manager /\ m2.token = m.token /\ m2.alive = m.alive /\ m2.listeners = ls
    BY <1>1, <2>2, <2>3 DEF Manager
  <2>5. \A n \in DomNodes : Len(m2.listeners[n]) = 0 \/ (n \notin b.els /\ m2.listeners[n] = m.listeners[n])
    BY <2>4, EmptySeq
  <2> HIDE DEF m2, ls
  <2>6. \A n \in DomNodes : 1 .. Len(m2.listeners[n]) = {} \/ (n \notin b.els /\ m2.listeners[n] = m.listeners[n])
    BY <2>5
  <2>7. TokensOrdered(m2) /\ TokensUnique(m2)
    <3>1. TokensOrdered(m2)
      BY <1>1, <2>4, <2>6 DEF TokensOrdered
    <3>2. ASSUME NEW n \in DomNodes, NEW o \in DomNodes, NEW i \in 1 .. Len(m2.listeners[n]),
                 NEW j \in 1 .. Len(m2.listeners[o]),
                 m2.listeners[n][i].token = m2.listeners[o][j].token
          PROVE  n = o
      <4>1. m2.listeners[n] = m.listeners[n] /\ m2.listeners[o] = m.listeners[o]
        BY <2>6
      <4> QED BY <1>1, <3>2, <4>1 DEF TokensUnique
    <3> QED BY <3>1, <3>2 DEF TokensUnique
  <2>8. \A n \in DomNodes : \A k \in 1 .. Len(m2.listeners[n]) : m2.listeners[n][k].fn = "host"
    BY <1>1, <2>6 DEF Recorded
  <2> QED BY <2>4, <2>7, <2>8 DEF m2
<1> QED BY <1>2, <1>3

(* A listener behind those of its element, with the next token.            *)
LEMMA ListenerAdded ==
  ASSUME NEW m \in Manager, TokensOrdered(m), TokensUnique(m), NEW el \in DomNodes,
         NEW type \in EventTypes, NEW fn \in Functions \cup {"host"}, NEW capture \in BOOLEAN
  PROVE  LET m2 == AddEventListener(m, el, type, fn, capture)
             l  == [type |-> type, fn |-> fn, capture |-> capture, token |-> m.token]
         IN  /\ m2 \in Manager /\ m2.token = m.token + 1 /\ m2.alive = m.alive
             /\ m2.observed = m.observed
             /\ TokensOrdered(m2) /\ TokensUnique(m2) /\ Follows(m, m2)
             /\ Len(m2.listeners[el]) = Len(m.listeners[el]) + 1
             /\ m2.listeners[el][Len(m.listeners[el]) + 1] = l
             /\ \A n \in DomNodes : \A k \in 1 .. Len(m.listeners[n]) :
                  k \in 1 .. Len(m2.listeners[n]) /\ m2.listeners[n][k] = m.listeners[n][k]
             /\ \A n \in DomNodes : \A k \in 1 .. Len(m2.listeners[n]) :
                  \/ k \in 1 .. Len(m.listeners[n]) /\ m2.listeners[n][k] = m.listeners[n][k]
                  \/ n = el /\ k = Len(m.listeners[el]) + 1 /\ m2.listeners[n][k] = l
<1> DEFINE s  == m.listeners[el]
           l  == [type |-> type, fn |-> fn, capture |-> capture, token |-> m.token]
           m2 == AddEventListener(m, el, type, fn, capture)
           len == Len(s)
<1>1. /\ m.token \in Nat \ {0} /\ s \in Seq(Listener) /\ len \in Nat
      /\ m.listeners \in [DomNodes -> Seq(Listener)]
  BY ManagerFields
<1>2. l \in Listener
  BY <1>1 DEF Listener
<1>3. /\ Append(s, l) \in Seq(Listener) /\ Len(Append(s, l)) = len + 1
      /\ \A k \in 1 .. len : Append(s, l)[k] = s[k]
      /\ Append(s, l)[len + 1] = l
  BY <1>1, <1>2, AppendProperties
<1>4. m2 = [m EXCEPT !.listeners[el] = Append(s, l), !.token = m.token + 1]
  BY DEF AddEventListener, Manager
<1> HIDE DEF l
<1>5. /\ m2 \in Manager /\ m2.token = m.token + 1 /\ m2.alive = m.alive
      /\ m2.observed = m.observed /\ m2.listeners[el] = Append(s, l)
      /\ \A n \in DomNodes : n # el => m2.listeners[n] = m.listeners[n]
  <2> DEFINE a == Append(s, l)
             m1 == [m EXCEPT !.listeners[el] = a]
  <2> HIDE DEF a
  <2>1. a \in Seq(Listener)
    BY <1>3 DEF a
  <2>2. /\ m1 \in Manager /\ m1.alive = m.alive /\ m1.observed = m.observed /\ m1.listeners[el] = a
        /\ \A n \in DomNodes : n # el => m1.listeners[n] = m.listeners[n]
    BY <2>1, ListenersReplaced
  <2>3. m2 = [m1 EXCEPT !.token = m.token + 1]
    BY <1>4 DEF Manager, a
  <2> HIDE DEF m1, m2
  <2>4. m.token + 1 \in Nat \ {0}
    BY <1>1
  <2>5. m2 \in Manager /\ m2.token = m.token + 1 /\ m2.alive = m1.alive /\ m2.observed = m1.observed /\ m2.listeners = m1.listeners
    BY <2>2, <2>3, <2>4 DEF Manager
  <2> QED BY <2>2, <2>5 DEF a
<1> HIDE DEF m2, len
<1>6. ASSUME NEW n \in DomNodes, NEW k \in 1 .. Len(m2.listeners[n])
      PROVE  \/ k \in 1 .. Len(m.listeners[n]) /\ m2.listeners[n][k] = m.listeners[n][k]
             \/ n = el /\ k = len + 1 /\ m2.listeners[n][k] = l
  BY <1>1, <1>3, <1>5 DEF len
<1>7. ASSUME NEW n \in DomNodes, NEW k \in 1 .. Len(m.listeners[n])
      PROVE  k \in 1 .. Len(m2.listeners[n]) /\ m2.listeners[n][k] = m.listeners[n][k]
  BY <1>1, <1>3, <1>5 DEF len
<1>8. l.token = m.token
  BY DEF l
<1>9. ASSUME NEW n \in DomNodes, NEW k \in 1 .. Len(m.listeners[n])
      PROVE  m.listeners[n][k].token \in 1 .. m.token - 1 /\ m.listeners[n][k].token < m.token
  <2>1. m.listeners[n][k].token \in 1 .. m.token - 1
    BY DEF TokensOrdered
  <2> QED BY <1>1, <2>1
<1>10. TokensOrdered(m2)
  <2> SUFFICES ASSUME NEW n \in DomNodes, NEW j \in 1 .. Len(m2.listeners[n])
      PROVE  /\ m2.listeners[n][j].token \in 1 .. m2.token - 1
             /\ \A k \in 1 .. Len(m2.listeners[n]) :
                  j < k => m2.listeners[n][j].token < m2.listeners[n][k].token
    BY DEF TokensOrdered
  <2>1. m2.listeners[n][j].token \in 1 .. m2.token - 1
    <3>1. CASE j \in 1 .. Len(m.listeners[n]) /\ m2.listeners[n][j] = m.listeners[n][j]
      <4>1. m.listeners[n][j].token \in 1 .. m.token - 1
        BY <1>9, <3>1
      <4> QED BY <1>1, <1>5, <3>1, <4>1
    <3>2. CASE m2.listeners[n][j] = l
      BY <1>1, <1>5, <1>8, <3>2
    <3> QED BY <1>6, <3>1, <3>2
  <2>2. ASSUME NEW k \in 1 .. Len(m2.listeners[n]), j < k
        PROVE  m2.listeners[n][j].token < m2.listeners[n][k].token
    <3>1. j \in 1 .. Len(m.listeners[n]) /\ m2.listeners[n][j] = m.listeners[n][j]
      <4>1. Len(m2.listeners[n]) \in Nat
        BY <1>5, ManagerFields
      <4> QED BY <1>1, <1>3, <1>5, <1>6, <2>2, <4>1 DEF len
    <3>2. CASE k \in 1 .. Len(m.listeners[n]) /\ m2.listeners[n][k] = m.listeners[n][k]
      BY <2>2, <3>1, <3>2 DEF TokensOrdered
    <3>3. CASE m2.listeners[n][k] = l
      BY <1>8, <1>9, <3>1, <3>3
    <3> QED BY <1>6, <3>2, <3>3
  <2> QED BY <2>1, <2>2
<1>11. TokensUnique(m2)
  <2> SUFFICES ASSUME NEW n \in DomNodes, NEW o \in DomNodes, NEW i \in 1 .. Len(m2.listeners[n]),
                      NEW j \in 1 .. Len(m2.listeners[o]),
                      m2.listeners[n][i].token = m2.listeners[o][j].token, n # o
      PROVE  FALSE
    BY DEF TokensUnique
  <2>1. CASE i \in 1 .. Len(m.listeners[n]) /\ m2.listeners[n][i] = m.listeners[n][i]
    <3>1. CASE j \in 1 .. Len(m.listeners[o]) /\ m2.listeners[o][j] = m.listeners[o][j]
      BY <2>1, <3>1 DEF TokensUnique
    <3>2. CASE m2.listeners[o][j] = l
      BY <1>1, <1>8, <1>9, <2>1, <3>2
    <3> QED BY <1>6, <3>1, <3>2
  <2>2. CASE n = el /\ m2.listeners[n][i] = l
    <3>1. j \in 1 .. Len(m.listeners[o]) /\ m2.listeners[o][j] = m.listeners[o][j]
      BY <1>6, <2>2
    <3> QED BY <1>1, <1>8, <1>9, <2>2, <3>1
  <2> QED BY <1>6, <2>1, <2>2
<1>12. Follows(m, m2)
  <2>1. ASSUME NEW n \in DomNodes, NEW k \in 1 .. Len(m2.listeners[n])
        PROVE  \/ \E q \in k .. Len(m.listeners[n]) : m2.listeners[n][k] = m.listeners[n][q]
               \/ m2.listeners[n][k].token >= m.token
    <3>1. CASE k \in 1 .. Len(m.listeners[n]) /\ m2.listeners[n][k] = m.listeners[n][k]
      <4>1. k \in k .. Len(m.listeners[n])
        BY <3>1
      <4> QED BY <3>1, <4>1
    <3>2. CASE m2.listeners[n][k] = l
      BY <1>1, <1>8, <3>2
    <3> QED BY <1>6, <3>1, <3>2
  <2> QED BY <1>1, <1>5, <2>1 DEF Follows
<1>13. Len(m2.listeners[el]) = Len(m.listeners[el]) + 1 /\ m2.listeners[el][Len(m.listeners[el]) + 1] = l
  BY <1>3, <1>5 DEF len
<1> QED
  BY <1>5, <1>6, <1>7, <1>10, <1>11, <1>12, <1>13 DEF m2, l, len
----------------------------------------------------------------------------
DispatchStages == {"capture", "target capture", "target", "bubble"}

(* What a step does to the lists, when an event is on its way also in what *)
(* order.                                                                  *)
ListenersStep == ListenersInv' /\ (disp.stage \in DispatchStages => Follows(em, em'))

LEMMA FollowsRefl == ASSUME NEW m \in Manager, TokensOrdered(m) PROVE Follows(m, m)
BY ThinnedRefl, ThinnedFollows

(* Calls that leave both alone. *)
LEMMA RecordKept ==
  ASSUME ListenersInv, em' = em, js' \in Bindings, js'.entries = js.entries, js'.em = js.em,
         js'.els = js.els, js'.tracked = js.tracked, js'.carried = js.carried
  PROVE  ListenersStep
<1>1. em' \in Manager /\ TokensOrdered(em') /\ TokensUnique(em') /\ Follows(em, em')
  BY FollowsRefl DEF ListenersInv, Consistent
<1>2. Recorded(em', js')
  BY DEF ListenersInv, Consistent, Recorded
<1>3. Backed(em', js')
  BY DEF ListenersInv, Consistent, Backed
<1> QED BY <1>1, <1>2, <1>3 DEF ListenersStep, ListenersInv, Consistent

LEMMA BindListeners == ListenersInv /\ Bind => ListenersStep
<1> SUFFICES ASSUME ListenersInv, Bind PROVE ListenersStep
  OBVIOUS
<1> DEFINE m == Release(em, js)
<1>1. /\ m \in Manager /\ m.token = em.token /\ m.alive = em.alive
      /\ TokensOrdered(m) /\ TokensUnique(m)
      /\ \A n \in DomNodes : \A k \in 1 .. Len(m.listeners[n]) : m.listeners[n][k].fn = "host"
  BY Released DEF ListenersInv
<1>2. em' = [m EXCEPT !.observed = TRUE] /\ disp.stage \notin DispatchStages /\ em.alive
  BY DEF Bind, Quiet, DispatchStages
<1> HIDE DEF m
<1>3. em' \in Manager /\ em'.listeners = m.listeners /\ em'.token = m.token /\ em'.alive /\ em'.observed
  BY <1>1, <1>2 DEF Manager
<1>4. TokensOrdered(em') /\ TokensUnique(em')
  BY <1>1, <1>3 DEF TokensOrdered, TokensUnique
<1>5. js' = [Forgotten(js) EXCEPT !.bound = TRUE, !.em = TRUE, !.binds = @ + 1,
                                  !.carried = @ \/ js.entries # <<>>]
  BY DEF Bind
<1>6. js \in Bindings
  BY DEF ListenersInv, Consistent
<1>7. js' \in Bindings /\ js'.entries = js.entries /\ js'.em /\ (~js'.carried => js.entries = <<>>)
  <2>1. /\ Forgotten(js) \in Bindings /\ Forgotten(js).entries = js.entries
        /\ Forgotten(js).binds = js.binds /\ Forgotten(js).carried = js.carried
    BY <1>6 DEF Forgotten, Bindings
  <2> DEFINE f == Forgotten(js)
             carried == f.carried \/ js.entries # <<>>
  <2>2. js' = [f EXCEPT !.bound = TRUE, !.em = TRUE, !.binds = f.binds + 1, !.carried = carried]
    BY <1>5, <2>1 DEF Bindings
  <2>3. carried \in BOOLEAN /\ (~carried => js.entries = <<>>)
    OBVIOUS
  <2>4. f.binds + 1 \in Nat
    BY <2>1 DEF Bindings
  <2> HIDE DEF f, carried
  <2>5. f \in Bindings /\ f.entries = js.entries
    BY <2>1 DEF f
  <2> QED BY <2>2, <2>3, <2>4, <2>5 DEF Bindings
<1>8. \A n \in DomNodes : \A k \in 1 .. Len(em'.listeners[n]) : em'.listeners[n][k].fn = "host"
  BY <1>1, <1>3
<1>9. Consistent(em', js')
  BY <1>3, <1>4, <1>7, <1>8, HostOnlyConsistent
<1> QED BY <1>2, <1>3, <1>9 DEF ListenersStep, ListenersInv

LEMMA UnbindListeners == ListenersInv /\ Unbind => ListenersStep
<1> SUFFICES ASSUME ListenersInv, Unbind PROVE ListenersStep
  OBVIOUS
<1>1. /\ em' \in Manager /\ TokensOrdered(em') /\ TokensUnique(em')
      /\ \A n \in DomNodes : \A k \in 1 .. Len(em'.listeners[n]) : em'.listeners[n][k].fn = "host"
  BY Released DEF ListenersInv, Unbind
<1>2. js \in Bindings
  BY DEF ListenersInv, Consistent
<1>3. js' \in Bindings /\ ~js'.em
  BY <1>2 DEF Unbind, Forgotten, Bindings
<1>4. Consistent(em', js')
  BY <1>1, <1>3, HostOnlyConsistent
<1> QED BY <1>3, <1>4 DEF ListenersStep, ListenersInv, Unbind, Quiet, DispatchStages

LEMMA DestroyListeners == ListenersInv /\ DestroyManager => ListenersStep
<1> SUFFICES ASSUME ListenersInv, DestroyManager PROVE ListenersStep
  OBVIOUS
<1>1. /\ em' \in Manager /\ TokensOrdered(em') /\ TokensUnique(em')
      /\ \A n \in DomNodes : \A k \in 1 .. Len(em'.listeners[n]) : em'.listeners[n][k].fn = "host"
  BY FreshManager DEF DestroyManager
<1>2. js \in Bindings
  BY DEF ListenersInv, Consistent
<1>3. js' \in Bindings /\ ~js'.em
  BY <1>2 DEF DestroyManager, ListenersInv, Bindings
<1>4. Consistent(em', js')
  BY <1>1, <1>3, HostOnlyConsistent
<1> QED BY <1>3, <1>4 DEF ListenersStep, ListenersInv, DestroyManager, Quiet, DispatchStages

LEMMA CreateListeners == ListenersInv /\ CreateManager => ListenersStep
<1> SUFFICES ASSUME ListenersInv, CreateManager PROVE ListenersStep
  OBVIOUS
<1>1. em' = NewManager
  BY DEF CreateManager
<1>2. /\ em' \in Manager /\ TokensOrdered(em') /\ TokensUnique(em')
      /\ \A n \in DomNodes : \A k \in 1 .. Len(em'.listeners[n]) : em'.listeners[n][k].fn = "host"
  BY <1>1, FreshManager
<1>3. js' = js /\ js' \in Bindings /\ ~js'.em
  BY DEF CreateManager, ListenersInv, Consistent
<1>4. Consistent(em', js')
  BY <1>2, <1>3, HostOnlyConsistent
<1> QED BY <1>3, <1>4 DEF ListenersStep, ListenersInv, CreateManager, Quiet, DispatchStages

LEMMA HostListeners ==
  ASSUME ListenersInv, tree.made \in DomNodes, NEW el, NEW type \in EventTypes,
         NEW capture \in BOOLEAN, HostAddsListener(el, type, capture)
  PROVE  ListenersStep
<1> DEFINE l == [type |-> type, fn |-> "host", capture |-> capture, token |-> em.token]
<1>1. em \in Manager /\ TokensOrdered(em) /\ TokensUnique(em) /\ js \in Bindings /\ el \in DomNodes
  BY DomAssumption DEF ListenersInv, Consistent, HostAddsListener, Made, DomNodes
<1>2. /\ em' = AddEventListener(em, el, type, "host", capture) /\ js' = js
      /\ disp.stage \notin DispatchStages
  BY DEF HostAddsListener, Quiet, DispatchStages
<1>3. /\ em' \in Manager /\ em'.alive = em.alive /\ em'.observed = em.observed
      /\ TokensOrdered(em') /\ TokensUnique(em')
      /\ \A n \in DomNodes : \A k \in 1 .. Len(em.listeners[n]) :
           k \in 1 .. Len(em'.listeners[n]) /\ em'.listeners[n][k] = em.listeners[n][k]
      /\ \A n \in DomNodes : \A k \in 1 .. Len(em'.listeners[n]) :
           \/ k \in 1 .. Len(em.listeners[n]) /\ em'.listeners[n][k] = em.listeners[n][k]
           \/ n = el /\ k = Len(em.listeners[el]) + 1 /\ em'.listeners[n][k] = l
  <2> HIDE DEF l
  <2> QED BY <1>1, <1>2, ListenerAdded DEF l
<1>4. l.fn = "host"
  OBVIOUS
<1> HIDE DEF l
<1>5. Recorded(em', js')
  <2> SUFFICES ASSUME NEW n \in DomNodes, NEW k \in 1 .. Len(em'.listeners[n]),
                      em'.listeners[n][k].fn # "host"
      PROVE  /\ js'.em /\ n \in js'.els /\ em'.listeners[n][k].fn \in js'.tracked
             /\ \E j \in 1 .. Len(js'.entries) : Records(js'.entries[j], n, em'.listeners[n][k])
    BY DEF Recorded
  <2>1. k \in 1 .. Len(em.listeners[n]) /\ em'.listeners[n][k] = em.listeners[n][k]
    BY <1>3, <1>4
  <2> QED BY <1>2, <2>1 DEF ListenersInv, Consistent, Recorded
<1>6. Backed(em', js')
  <2> SUFFICES ASSUME js.em, ~js.carried, NEW k \in 1 .. Len(js.entries)
      PROVE  /\ \E i \in 1 .. Len(em'.listeners[js.entries[k].el]) :
                  Records(js.entries[k], js.entries[k].el, em'.listeners[js.entries[k].el][i])
             /\ \A j \in 1 .. Len(js.entries) : k # j => js.entries[k].token # js.entries[j].token
    BY <1>2 DEF Backed
  <2>1. /\ \E i \in 1 .. Len(em.listeners[js.entries[k].el]) :
             Records(js.entries[k], js.entries[k].el, em.listeners[js.entries[k].el][i])
        /\ \A j \in 1 .. Len(js.entries) : k # j => js.entries[k].token # js.entries[j].token
    BY DEF ListenersInv, Consistent, Backed
  <2>2. js.entries[k].el \in DomNodes
    BY <1>1, EntryFields
  <2> QED BY <1>3, <2>1, <2>2
<1> QED
  BY <1>1, <1>2, <1>3, <1>5, <1>6 DEF ListenersStep, ListenersInv, Consistent

LEMMA ListenersCleared ==
  ASSUME NEW m \in Manager, TokensOrdered(m), NEW el \in DomNodes
  PROVE  LET m2 == RemoveEventListeners(m, el)
         IN  /\ Thinned(m, m2)
             /\ \A n \in DomNodes : n # el => m2.listeners[n] = m.listeners[n]
<1> DEFINE m2 == RemoveEventListeners(m, el)
<1>1. <<>> \in Seq(Listener) /\ Len(<<>>) = 0
  BY EmptySeq
<1>2. /\ m2 \in Manager /\ m2.token = m.token /\ m2.alive = m.alive
      /\ m2.observed = m.observed /\ m2.listeners[el] = <<>>
      /\ \A n \in DomNodes : n # el => m2.listeners[n] = m.listeners[n]
  BY <1>1, ListenersReplaced DEF RemoveEventListeners
<1> HIDE DEF m2
<1>3. ASSUME NEW n \in DomNodes, NEW k \in 1 .. Len(m2.listeners[n])
      PROVE  m2.listeners[n] = m.listeners[n] /\ n # el
  BY <1>1, <1>2
<1>4. TokensOrdered(m2)
  BY <1>2, <1>3 DEF TokensOrdered
<1>5. ASSUME NEW n \in DomNodes, NEW k \in 1 .. Len(m2.listeners[n])
      PROVE  \E q \in k .. Len(m.listeners[n]) : m2.listeners[n][k] = m.listeners[n][q]
  <2>1. m2.listeners[n] = m.listeners[n] /\ Len(m.listeners[n]) \in Nat
    BY <1>3, ManagerFields
  <2>2. k \in k .. Len(m.listeners[n])
    BY <2>1
  <2> QED BY <2>1, <2>2
<1> QED BY <1>2, <1>4, <1>5 DEF Thinned, m2

(* An element without entries may lose all its listeners.                  *)
LEMMA ClearedConsistent ==
  ASSUME NEW m, NEW b, Consistent(m, b), NEW el \in DomNodes,
         \A k \in 1 .. Len(b.entries) : b.entries[k].el # el
  PROVE  LET m2 == RemoveEventListeners(m, el) IN Consistent(m2, b) /\ Thinned(m, m2)
<1> DEFINE m2 == RemoveEventListeners(m, el)
<1>1. m \in Manager /\ b \in Bindings /\ TokensOrdered(m) /\ TokensUnique(m) /\ Recorded(m, b) /\ Backed(m, b)
  BY DEF Consistent
<1>2. Thinned(m, m2) /\ \A n \in DomNodes : n # el => m2.listeners[n] = m.listeners[n]
  BY <1>1, ListenersCleared
<1> HIDE DEF m2
<1>3. m2 \in Manager /\ TokensOrdered(m2) /\ TokensUnique(m2)
  BY <1>1, <1>2, ThinnedUnique DEF Thinned
<1>4. Recorded(m2, b)
  <2> SUFFICES ASSUME NEW n \in DomNodes, NEW k \in 1 .. Len(m2.listeners[n]),
                      m2.listeners[n][k].fn # "host"
      PROVE  /\ b.em /\ n \in b.els /\ m2.listeners[n][k].fn \in b.tracked
             /\ \E j \in 1 .. Len(b.entries) : Records(b.entries[j], n, m2.listeners[n][k])
    BY DEF Recorded
  <2>1. PICK q \in k .. Len(m.listeners[n]) : m2.listeners[n][k] = m.listeners[n][q]
    BY <1>2 DEF Thinned
  <2>2. q \in 1 .. Len(m.listeners[n])
    BY <1>1, <1>3, ManagerFields
  <2> QED BY <1>1, <2>1, <2>2 DEF Recorded
<1>5. Backed(m2, b)
  BY <1>1, <1>2, EntryFields DEF Backed
<1> QED BY <1>1, <1>2, <1>3, <1>4, <1>5 DEF Consistent, m2

(* What the calls about listeners leave of the bindings. *)
OnlyListeners(b, b2) ==
  /\ b2 \in Bindings
  /\ b2.bound = b.bound /\ b2.em = b.em /\ b2.refs = b.refs /\ b2.inner = b.inner
  /\ b2.todo = b.todo /\ b2.clearing = b.clearing /\ b2.binds = b.binds
  /\ b2.carried = b.carried

LEMMA ElementForgotten ==
  ASSUME NEW m, NEW b, Consistent(m, b), NEW el
  PROVE  LET b2 == MaybeForgetElement(b, el)
         IN  Consistent(m, b2) /\ OnlyListeners(b, b2) /\ b2.entries = b.entries
<1> DEFINE b2 == MaybeForgetElement(b, el)
<1>1. m \in Manager /\ b \in Bindings /\ TokensOrdered(m) /\ TokensUnique(m) /\ Recorded(m, b) /\ Backed(m, b)
  BY DEF Consistent
<1>2. CASE \E i \in 1 .. Len(b.entries) : b.entries[i].el = el
  <2>1. b2 = b
    BY <1>2 DEF MaybeForgetElement
  <2> HIDE DEF b2
  <2> QED BY <1>1, <2>1 DEF OnlyListeners, b2
<1>3. CASE ~\E i \in 1 .. Len(b.entries) : b.entries[i].el = el
  <2>1. /\ OnlyListeners(b, b2) /\ b2.entries = b.entries /\ b2.els = b.els \ {el}
        /\ b2.tracked = b.tracked
    BY <1>1, <1>3 DEF MaybeForgetElement, Bindings, OnlyListeners
  <2> HIDE DEF b2
  <2>2. Backed(m, b2)
    BY <1>1, <2>1 DEF Backed, OnlyListeners
  <2>3. Recorded(m, b2)
    BY <1>1, <1>3, <2>1 DEF Recorded, Records, OnlyListeners
  <2> QED BY <1>1, <2>1, <2>2, <2>3 DEF Consistent, OnlyListeners, b2
<1> QED BY <1>2, <1>3

LEMMA MatchingGone ==
  ASSUME NEW m, NEW b, Consistent(m, b), NEW el \in DomNodes, NEW types
  PROVE  LET left == Dropped(m, b, el, types)
         IN  /\ Consistent(left[1], left[2]) /\ Thinned(m, left[1]) /\ OnlyListeners(b, left[2])
             /\ \A k \in 1 .. Len(left[2].entries) :
                  ~(left[2].entries[k].el = el /\ left[2].entries[k].type \in types)
<1> DEFINE x == DropMatching(m, b, el, types)
           b2 == MaybeForgetElement(x[2], el)
<1>1. /\ Consistent(x[1], x[2]) /\ Thinned(m, x[1]) /\ OnlyEntries(b, x[2])
      /\ \A k \in 1 .. Len(x[2].entries) : ~(x[2].entries[k].el = el /\ x[2].entries[k].type \in types)
  BY MatchingDropped
<1>2. Dropped(m, b, el, types) = <<x[1], b2>>
  BY DEF Dropped
<1> HIDE DEF x
<1>3. Consistent(x[1], b2) /\ OnlyListeners(x[2], b2) /\ b2.entries = x[2].entries
  BY <1>1, ElementForgotten
<1> HIDE DEF b2
<1>4. OnlyListeners(b, b2)
  BY <1>1, <1>3 DEF OnlyListeners, OnlyEntries
<1> QED BY <1>1, <1>2, <1>3, <1>4

ListenersCalled == ListenersStep /\ OnlyListeners(js, js')

(* A step that lists and record take to others that agree.                 *)
LEMMA ThinnedStep ==
  ASSUME ListenersInv, Consistent(em', js'), Thinned(em, em'), OnlyListeners(js, js')
  PROVE  ListenersCalled
<1>1. em \in Manager /\ Follows(em, em')
  BY ThinnedFollows DEF ListenersInv, Consistent
<1> QED BY <1>1 DEF ListenersCalled, ListenersStep, ListenersInv, OnlyListeners, Thinned

LEMMA RemoveEverythingListeners ==
  ASSUME ListenersInv, NEW el, ElementRemoveEverything(el)
  PROVE  ListenersCalled
<1> DEFINE types == {EventName[n] : n \in DOMAIN EventName}
           left == Dropped(em, js, el, types)
           m == RemoveEventListeners(left[1], el)
<1>1. Consistent(em, js) /\ em' = m /\ js' = left[2] /\ el \in js.refs
  BY DEF ListenersInv, ElementRemoveEverything
<1>2. el \in DomNodes
  BY <1>1 DEF Consistent, Bindings
<1>3. /\ Consistent(left[1], left[2]) /\ Thinned(em, left[1]) /\ OnlyListeners(js, left[2])
      /\ \A k \in 1 .. Len(left[2].entries) :
           ~(left[2].entries[k].el = el /\ left[2].entries[k].type \in types)
  <2> HIDE DEF types
  <2> QED BY <1>1, <1>2, MatchingGone
<1>4. EventTypes \subseteq types
  BY DEF EventTypes, KnownNames
<1> HIDE DEF left
<1>5. \A k \in 1 .. Len(left[2].entries) : left[2].entries[k].el # el
  <2>1. \A k \in 1 .. Len(left[2].entries) : left[2].entries[k].type \in EventTypes
    BY <1>3, EntryFields DEF Consistent, Entry
  <2> HIDE DEF types
  <2> QED BY <1>3, <1>4, <2>1
<1>6. Consistent(m, left[2]) /\ Thinned(left[1], m)
  BY <1>2, <1>3, <1>5, ClearedConsistent
<1> HIDE DEF m
<1>7. Thinned(em, m)
  BY <1>1, <1>3, <1>6, ThinnedTrans DEF Consistent
<1> QED BY <1>1, <1>3, <1>6, <1>7, ThinnedStep

LEMMA RemoveTypeListeners ==
  ASSUME ListenersInv, NEW el, NEW name, ElementRemoveType(el, name)
  PROVE  ListenersCalled
<1> DEFINE left == Dropped(em, js, el, {EventName[name]})
<1>1. Consistent(em, js) /\ em' = left[1] /\ js' = left[2] /\ el \in js.refs
  BY DEF ListenersInv, ElementRemoveType
<1>2. el \in DomNodes
  BY <1>1 DEF Consistent, Bindings
<1>3. Consistent(left[1], left[2]) /\ Thinned(em, left[1]) /\ OnlyListeners(js, left[2])
  BY <1>1, <1>2, MatchingGone
<1> HIDE DEF left
<1> QED BY <1>1, <1>3, ThinnedStep

LEMMA RemoveOneListener ==
  ASSUME ListenersInv, NEW el, NEW name, NEW fn, ElementRemoveEventListener(el, name, fn)
  PROVE  ListenersCalled
<1>1. Consistent(em, js) /\ js \in Bindings /\ el \in js.refs /\ em \in Manager /\ TokensOrdered(em)
  BY DEF ListenersInv, Consistent, ElementRemoveEventListener
<1>2. CASE Matching(el, name, fn) = {}
  <2>1. em' = em /\ js' = js
    BY <1>2 DEF ElementRemoveEventListener
  <2>2. Thinned(em, em')
    BY <1>1, <2>1, ThinnedRefl
  <2> QED BY <1>1, <2>1, <2>2, ThinnedStep DEF OnlyListeners
<1>3. CASE Matching(el, name, fn) # {}
  <2> DEFINE i == FirstOf(Matching(el, name, fn))
             m == RemoveEventListenerByToken(em, el, js.entries[i].token)
             b == [js EXCEPT !.entries = DropJsEntry(@, i)]
  <2>1. em' = m /\ js' = MaybeForgetElement(b, el)
    BY <1>3 DEF ElementRemoveEventListener
  <2>2. i \in Matching(el, name, fn)
    <3>1. Matching(el, name, fn) \in SUBSET Nat
      BY DEF Matching
    <3> QED BY <1>3, <3>1, FirstIsLeast
  <2>3. i \in 1 .. Len(js.entries) /\ js.entries[i].el = el
    BY <2>2 DEF Matching
  <2> HIDE DEF i
  <2>4. Consistent(m, b) /\ Thinned(em, m) /\ OnlyEntries(js, b)
    BY <1>1, <2>3, PairDropped
  <2> HIDE DEF m, b
  <2>5. Consistent(m, js') /\ OnlyListeners(b, js')
    BY <2>1, <2>4, ElementForgotten
  <2>6. OnlyListeners(js, js')
    BY <2>4, <2>5 DEF OnlyListeners, OnlyEntries
  <2> QED BY <2>1, <2>4, <2>5, <2>6, ThinnedStep
<1> QED BY <1>2, <1>3

LEMMA AddListeners ==
  ASSUME ListenersInv, NEW el, NEW name \in JsNames, NEW fn \in Functions,
         ElementAddEventListener(el, name, fn)
  PROVE  ListenersCalled
<1>1. /\ em \in Manager /\ TokensOrdered(em) /\ TokensUnique(em) /\ js \in Bindings
      /\ Recorded(em, js) /\ Backed(em, js) /\ el \in js.refs /\ js.refs \subseteq DomNodes
  BY DEF ListenersInv, Consistent, ElementAddEventListener, Bindings
<1>2. CASE ~(js.em /\ name \in DOMAIN EventName)
  <2>1. em' = em /\ js' = js
    BY <1>2 DEF ElementAddEventListener
  <2>2. Thinned(em, em')
    BY <1>1, <2>1, ThinnedRefl
  <2> QED BY <1>1, <2>1, <2>2, ThinnedStep DEF ListenersInv, OnlyListeners
<1>3. CASE js.em /\ name \in DOMAIN EventName
  <2> DEFINE type == EventName[name]
             e == [el |-> el, type |-> type, fn |-> fn, token |-> em.token, bind |-> js.binds]
             l == [type |-> type, fn |-> fn, capture |-> FALSE, token |-> em.token]
  <2>1. /\ em' = AddEventListener(em, el, type, fn, FALSE)
        /\ js' = [js EXCEPT !.tracked = @ \cup {fn}, !.els = @ \cup {el},
                            !.entries = Append(@, e)]
    BY <1>3 DEF ElementAddEventListener
  <2>2. type \in EventTypes /\ fn # "host" /\ el \in DomNodes
    BY <1>1, <1>3, FunctionsAssumption DEF EventTypes, KnownNames
  <2>3. em.token \in Nat \ {0} /\ js.entries \in Seq(Entry) /\ Len(js.entries) \in Nat
    BY <1>1, ManagerFields, EntryFields, <2>2
  <2>4. e \in Entry
    BY <1>1, <2>2, <2>3 DEF Entry, Bindings
  <2>5. /\ Append(js.entries, e) \in Seq(Entry)
        /\ Len(Append(js.entries, e)) = Len(js.entries) + 1
        /\ \A k \in 1 .. Len(js.entries) : Append(js.entries, e)[k] = js.entries[k]
        /\ Append(js.entries, e)[Len(js.entries) + 1] = e
    <3> HIDE DEF e
    <3> QED BY <2>3, <2>4, AppendProperties
  <2>6. /\ e.el = el /\ e.type = type /\ e.fn = fn /\ e.token = em.token
        /\ l.type = type /\ l.fn = fn /\ l.token = em.token
    OBVIOUS
  <2>7. /\ em' \in Manager /\ em'.token = em.token + 1 /\ em'.alive = em.alive
        /\ em'.observed = em.observed
        /\ TokensOrdered(em') /\ TokensUnique(em') /\ Follows(em, em')
        /\ Len(em'.listeners[el]) = Len(em.listeners[el]) + 1
        /\ em'.listeners[el][Len(em.listeners[el]) + 1] = l
        /\ \A n \in DomNodes : \A k \in 1 .. Len(em.listeners[n]) :
             k \in 1 .. Len(em'.listeners[n]) /\ em'.listeners[n][k] = em.listeners[n][k]
        /\ \A n \in DomNodes : \A k \in 1 .. Len(em'.listeners[n]) :
             \/ k \in 1 .. Len(em.listeners[n]) /\ em'.listeners[n][k] = em.listeners[n][k]
             \/ n = el /\ k = Len(em.listeners[el]) + 1 /\ em'.listeners[n][k] = l
    <3> HIDE DEF type
    <3>1. FALSE \in BOOLEAN /\ fn \in Functions \cup {"host"}
      OBVIOUS
    <3> HIDE DEF l
    <3>2. em' = AddEventListener(em, el, type, fn, FALSE)
      BY <2>1
    <3>3. em \in Manager /\ TokensOrdered(em) /\ TokensUnique(em) /\ el \in DomNodes /\ type \in EventTypes
      BY <1>1, <2>2
    <3> DEFINE capture == FALSE
    <3>4. l = [type |-> type, fn |-> fn, capture |-> capture, token |-> em.token]
      BY DEF l
    <3>5. capture \in BOOLEAN /\ em' = AddEventListener(em, el, type, fn, capture)
      BY <3>2
    <3> HIDE DEF capture
    <3> QED BY <3>1, <3>3, <3>4, <3>5, ListenerAdded
  <2> DEFINE es == Append(js.entries, e)
  <2> HIDE DEF e, l, type
  <2>8. js' \in Bindings /\ OnlyListeners(js, js')
    <3>1. es \in Seq(Entry) /\ js.tracked \cup {fn} \in SUBSET Functions /\ js.els \cup {el} \in SUBSET DomNodes
      BY <1>1, <2>2, <2>5 DEF Bindings
    <3> HIDE DEF es
    <3>2. js' = [js EXCEPT !.tracked = js.tracked \cup {fn}, !.els = js.els \cup {el}, !.entries = es]
      BY <1>1, <2>1 DEF Bindings, es
    <3> QED BY <1>1, <3>1, <3>2 DEF Bindings, OnlyListeners
  <2>9. js'.tracked = js.tracked \cup {fn} /\ js'.els = js.els \cup {el} /\ js'.entries = es
    BY <1>1, <2>1 DEF Bindings
  <2>10. /\ Len(es) = Len(js.entries) + 1 /\ es[Len(js.entries) + 1] = e
         /\ \A k \in 1 .. Len(js.entries) : k \in 1 .. Len(es) /\ es[k] = js.entries[k]
         /\ \A k \in 1 .. Len(es) : \/ k \in 1 .. Len(js.entries) /\ es[k] = js.entries[k]
                                    \/ k = Len(js.entries) + 1 /\ es[k] = e
    <3> DEFINE len == Len(js.entries)
    <3>1. len \in Nat /\ Len(es) = len + 1
      BY <2>3, <2>5
    <3> HIDE DEF len
    <3>2. 1 .. Len(es) = (1 .. len) \cup {len + 1}
      BY <3>1
    <3> QED BY <2>5, <3>1, <3>2 DEF len
  <2> HIDE DEF es
  <2>11. Recorded(em', js')
    <3> SUFFICES ASSUME NEW n \in DomNodes, NEW k \in 1 .. Len(em'.listeners[n]),
                        em'.listeners[n][k].fn # "host"
        PROVE  /\ js'.em /\ n \in js'.els /\ em'.listeners[n][k].fn \in js'.tracked
               /\ \E j \in 1 .. Len(es) : Records(es[j], n, em'.listeners[n][k])
      BY <2>9 DEF Recorded
    <3>1. CASE k \in 1 .. Len(em.listeners[n]) /\ em'.listeners[n][k] = em.listeners[n][k]
      <4>1. /\ js.em /\ n \in js.els /\ em'.listeners[n][k].fn \in js.tracked
            /\ \E j \in 1 .. Len(js.entries) : Records(js.entries[j], n, em'.listeners[n][k])
        BY <1>1, <3>1 DEF Recorded
      <4> QED BY <2>8, <2>9, <2>10, <4>1 DEF OnlyListeners
    <3>2. CASE n = el /\ em'.listeners[n][k] = l
      <4>1. Records(e, n, em'.listeners[n][k])
        BY <2>6, <3>2 DEF Records
      <4>2. Len(js.entries) + 1 \in 1 .. Len(es)
        BY <2>3, <2>10
      <4> QED BY <1>3, <2>6, <2>8, <2>9, <2>10, <3>2, <4>1, <4>2 DEF OnlyListeners
    <3> QED BY <2>7, <3>1, <3>2
  <2>12. Backed(em', js')
    <3> SUFFICES ASSUME ~js.carried, NEW k \in 1 .. Len(es)
        PROVE  /\ \E i \in 1 .. Len(em'.listeners[es[k].el]) :
                    Records(es[k], es[k].el, em'.listeners[es[k].el][i])
               /\ \A j \in 1 .. Len(es) : k # j => es[k].token # es[j].token
      BY <2>8, <2>9 DEF Backed, OnlyListeners
    <3>1. \A j \in 1 .. Len(js.entries) :
             /\ js.entries[j].el \in DomNodes
             /\ \E i \in 1 .. Len(em.listeners[js.entries[j].el]) :
                  Records(js.entries[j], js.entries[j].el, em.listeners[js.entries[j].el][i])
             /\ \A h \in 1 .. Len(js.entries) : j # h => js.entries[j].token # js.entries[h].token
      BY <1>1, <1>3, EntryFields DEF Backed
    <3>2. ASSUME NEW j \in 1 .. Len(js.entries) PROVE js.entries[j].token # em.token
      <4>1. PICK i \in 1 .. Len(em.listeners[js.entries[j].el]) :
                   Records(js.entries[j], js.entries[j].el, em.listeners[js.entries[j].el][i])
        BY <3>1
      <4>2. em.listeners[js.entries[j].el][i].token \in 1 .. em.token - 1
        BY <1>1, <3>1 DEF TokensOrdered
      <4> QED BY <2>3, <4>1, <4>2 DEF Records
    <3>3. \E i \in 1 .. Len(em'.listeners[es[k].el]) :
            Records(es[k], es[k].el, em'.listeners[es[k].el][i])
      <4>1. CASE k \in 1 .. Len(js.entries) /\ es[k] = js.entries[k]
        <5>1. PICK i \in 1 .. Len(em.listeners[js.entries[k].el]) :
                     Records(js.entries[k], js.entries[k].el, em.listeners[js.entries[k].el][i])
          BY <3>1, <4>1
        <5>2. /\ i \in 1 .. Len(em'.listeners[js.entries[k].el])
              /\ em'.listeners[js.entries[k].el][i] = em.listeners[js.entries[k].el][i]
          BY <2>7, <3>1, <4>1
        <5> QED BY <4>1, <5>1, <5>2
      <4>2. CASE es[k] = e
        <5>1. Len(em.listeners[el]) + 1 \in 1 .. Len(em'.listeners[el])
          <6>1. Len(em.listeners[el]) \in Nat
            BY <1>1, <2>2, ManagerFields
          <6> QED BY <2>7, <6>1
        <5> QED BY <2>6, <2>7, <4>2, <5>1 DEF Records
      <4> QED BY <2>10, <4>1, <4>2
    <3>4. ASSUME NEW j \in 1 .. Len(es), k # j PROVE es[k].token # es[j].token
      <4>1. CASE k \in 1 .. Len(js.entries) /\ j \in 1 .. Len(js.entries)
        BY <2>10, <3>1, <3>4, <4>1
      <4>2. CASE k = Len(js.entries) + 1 /\ j \in 1 .. Len(js.entries)
        BY <2>6, <2>10, <3>2, <4>2
      <4>3. CASE j = Len(js.entries) + 1 /\ k \in 1 .. Len(js.entries)
        BY <2>6, <2>10, <3>2, <4>3
      <4> QED BY <2>10, <3>4, <4>1, <4>2, <4>3
    <3> QED BY <3>3, <3>4
  <2>13. Consistent(em', js')
    BY <2>7, <2>8, <2>11, <2>12 DEF Consistent
  <2> QED BY <2>7, <2>8, <2>13 DEF ListenersCalled, ListenersStep, ListenersInv, OnlyListeners
<1> QED BY <1>2, <1>3
----------------------------------------------------------------------------
(* innerHTML half way: the open clones, each in no list yet.               *)
InnerInv ==
  /\ js.refs \subseteq Made
  /\ js.clearing => Len(js.inner) = 1
  /\ js.inner # <<>> => tree.made + Len(js.todo) <= MaxNodes
  /\ \A i \in 1 .. Len(js.inner) : js.inner[i] \in Made
  /\ \A i, j \in 1 .. Len(js.inner) : i < j => js.inner[i] < js.inner[j]
  /\ \A i \in 1 .. Len(js.inner) - 1 : /\ tree.parent[js.inner[i + 1]] = NoNode
                                       /\ tree.last[js.inner[i]] < js.inner[i + 1]

BindingsInv == LinkedTree /\ ListenersInv /\ InnerInv

(* A step keeps what holds, and does to the tree what the links need.      *)
BindingsStep == ListenersStep /\ InnerInv' /\ (DomNext \/ UNCHANGED tree)

LEMMA InnerFields ==
  ASSUME BindingsInv
  PROVE  /\ tree.made \in DomNodes /\ Made \subseteq DomNodes
         /\ js \in Bindings /\ js.inner \in Seq(DomNodes) /\ Len(js.inner) \in Nat
         /\ js.todo \in Seq(Fragment) /\ Len(js.todo) \in Nat
         /\ js.inner # <<>> => Len(js.inner) \in Nat \ {0} /\ Open \in Made /\ Open \in DomNodes
<1>1. tree.made \in DomNodes /\ Made \subseteq DomNodes
  BY MadeInDom DEF BindingsInv
<1>2. js \in Bindings /\ js.inner \in Seq(DomNodes) /\ js.todo \in Seq(Fragment)
  BY DEF BindingsInv, ListenersInv, Consistent, Bindings
<1>3. Len(js.inner) \in Nat /\ Len(js.todo) \in Nat /\ (js.inner # <<>> => Len(js.inner) \in Nat \ {0})
  BY <1>2, LenProperties, EmptySeq
<1>4. ASSUME js.inner # <<>> PROVE Open \in Made
  <2>1. Len(js.inner) \in 1 .. Len(js.inner)
    BY <1>3, <1>4
  <2> QED BY <2>1 DEF BindingsInv, InnerInv, Open
<1> QED BY <1>1, <1>2, <1>3, <1>4

LEMMA InnerKept ==
  ASSUME InnerInv, UNCHANGED tree, js'.inner = js.inner, js'.todo = js.todo,
         js'.clearing = js.clearing, js'.refs \subseteq Made
  PROVE  InnerInv'
BY DEF InnerInv, Made

(* Script looks at nodes, or changes what they carry. *)
LEMMA RefsStep ==
  ASSUME BindingsInv, em' = em, UNCHANGED tree, NEW refs \in SUBSET Made,
         js' = [js EXCEPT !.refs = js.refs \cup refs]
  PROVE  BindingsStep
<1>1. js \in Bindings /\ js.refs \subseteq Made /\ Made \subseteq DomNodes
  BY InnerFields DEF BindingsInv, InnerInv
<1>2. /\ js' \in Bindings /\ js'.refs \subseteq Made
      /\ js'.entries = js.entries /\ js'.em = js.em /\ js'.els = js.els /\ js'.tracked = js.tracked
      /\ js'.carried = js.carried
      /\ js'.inner = js.inner /\ js'.todo = js.todo /\ js'.clearing = js.clearing
  BY <1>1 DEF Bindings
<1> QED BY <1>2, RecordKept, InnerKept DEF BindingsStep, BindingsInv

LEMMA LookStep ==
  ASSUME BindingsInv,
         \/ \E id : DocGetElementById(id)
         \/ \E el : ElementGetChildren(el)
         \/ \E el, text : ElementSetTextContent(el, text)
         \/ \E el, name, value : ElementSetAttribute(el, name, value)
         \/ \E el, decls : StyleSetProp(el, decls)
  PROVE  BindingsStep
<1>1. js \in Bindings
  BY InnerFields
<1>2. ASSUME NEW id, DocGetElementById(id) PROVE BindingsStep
  <2> DEFINE order == Below(Doc)
             having == {n \in Made : IsElement(n) /\ content[n].id = id}
             found == {i \in 1 .. Len(order) : order[i] \in having}
  <2>1. FindElementById(id) \in Made \cup {NoNode}
    <3>1. FindElementById(id) = IF found = {} THEN NoNode ELSE order[FirstOf(found)]
      BY DEF FindElementById
    <3>2. ASSUME found # {} PROVE order[FirstOf(found)] \in having
      <4>1. FirstOf(found) \in found
        <5>1. found \in SUBSET Nat
          OBVIOUS
        <5> HIDE DEF found
        <5> QED BY <3>2, <5>1, FirstIsLeast
      <4> QED BY <4>1
    <3> QED BY <3>1, <3>2
  <2> DEFINE refs == {FindElementById(id)} \ {NoNode}
  <2>2. js' = [js EXCEPT !.refs = js.refs \cup refs] /\ em' = em /\ UNCHANGED tree
    BY <1>1, <1>2 DEF DocGetElementById, domVars, Bindings
  <2>3. refs \in SUBSET Made
    BY <2>1
  <2> HIDE DEF refs
  <2> QED BY <2>2, <2>3, RefsStep
<1>3. ASSUME NEW el, ElementGetChildren(el) PROVE BindingsStep
  <2> DEFINE refs == {n \in Made : IsElement(n) /\ Contains(ChildrenOf(tree, el), n)}
  <2>1. js' = [js EXCEPT !.refs = js.refs \cup refs] /\ em' = em /\ UNCHANGED tree
    BY <1>1, <1>3 DEF ElementGetChildren, domVars, Bindings
  <2>2. refs \in SUBSET Made
    OBVIOUS
  <2> HIDE DEF refs
  <2> QED BY <2>1, <2>2, RefsStep
<1>4. ASSUME js' = js, em' = em, UNCHANGED tree PROVE BindingsStep
  <2>1. /\ js' \in Bindings /\ ListenersStep
    BY <1>1, <1>4, RecordKept DEF BindingsInv
  <2> QED BY <1>4, <2>1, InnerKept DEF BindingsStep, BindingsInv, InnerInv
<1> QED
  BY <1>2, <1>3, <1>4 DEF ElementSetTextContent, ElementSetAttribute, StyleSetProp

LEMMA CalledStep ==
  ASSUME BindingsInv, ListenersCalled, UNCHANGED tree
  PROVE  BindingsStep
<1>1. /\ js'.inner = js.inner /\ js'.todo = js.todo /\ js'.clearing = js.clearing
      /\ js'.refs \subseteq Made
  BY DEF ListenersCalled, OnlyListeners, BindingsInv, InnerInv
<1> QED BY <1>1, InnerKept DEF BindingsStep, BindingsInv, ListenersCalled

LEMMA HostStep ==
  ASSUME BindingsInv, HostCalls
  PROVE  BindingsStep
<1>1. UNCHANGED tree
  BY DEF HostCalls, Bind, Unbind, DestroyManager, CreateManager, HostAddsListener, domVars
<1>2. ListenersStep
  <2>1. ListenersInv /\ tree.made \in DomNodes
    BY InnerFields DEF BindingsInv
  <2>2. ASSUME NEW el \in HostNodes, NEW type \in EventTypes, NEW capture \in BOOLEAN,
               HostAddsListener(el, type, capture)
        PROVE  ListenersStep
    BY <2>1, <2>2, HostListeners
  <2> QED
    BY <2>1, <2>2, BindListeners, UnbindListeners, DestroyListeners, CreateListeners DEF HostCalls
<1>3. js \in Bindings /\ js.refs \subseteq Made
  BY InnerFields DEF BindingsInv, InnerInv
<1>4. /\ js'.inner = js.inner /\ js'.todo = js.todo /\ js'.clearing = js.clearing
      /\ js'.refs \subseteq js.refs
  <2>1. Bind => js'.inner = js.inner /\ js'.todo = js.todo /\ js'.clearing = js.clearing /\ js'.refs = {}
    BY <1>3 DEF Bind, Forgotten, Bindings
  <2>2. Unbind => js'.inner = js.inner /\ js'.todo = js.todo /\ js'.clearing = js.clearing /\ js'.refs = {}
    BY <1>3 DEF Unbind, Forgotten, Bindings
  <2>3. DestroyManager => js'.inner = js.inner /\ js'.todo = js.todo /\ js'.clearing = js.clearing /\ js'.refs = js.refs
    BY <1>3 DEF DestroyManager, Bindings
  <2> QED
    BY <2>1, <2>2, <2>3 DEF HostCalls, CreateManager, HostAddsListener
<1> QED BY <1>1, <1>2, <1>3, <1>4, InnerKept DEF BindingsStep, BindingsInv
----------------------------------------------------------------------------
(* innerHTML, node by node. *)

(* What the steps below change of the bindings.                            *)
LEMMA InnerChanged ==
  ASSUME BindingsInv, NEW inner \in Seq(DomNodes), NEW todo \in Seq(Fragment),
         NEW clearing \in BOOLEAN, em' = em,
         js' = [js EXCEPT !.inner = inner, !.todo = todo, !.clearing = clearing]
  PROVE  /\ ListenersStep /\ js'.inner = inner /\ js'.todo = todo /\ js'.clearing = clearing
         /\ js'.refs = js.refs
<1>1. js \in Bindings
  BY InnerFields
<1>2. /\ js' \in Bindings
      /\ js'.entries = js.entries /\ js'.em = js.em /\ js'.els = js.els /\ js'.tracked = js.tracked
      /\ js'.carried = js.carried
  BY <1>1 DEF Bindings
<1>3. ListenersStep
  BY <1>2, RecordKept DEF BindingsInv
<1> QED BY <1>1, <1>3 DEF Bindings

LEMMA SetInnerStep ==
  ASSUME BindingsInv, NEW el, NEW fragment \in Fragments, ElementSetInnerHTML(el, fragment)
  PROVE  BindingsStep
<1>1. /\ js \in Bindings /\ el \in Made /\ el \in DomNodes /\ em' = em /\ UNCHANGED tree
      /\ tree.made + Len(fragment) <= MaxNodes /\ js.refs \subseteq Made
  BY InnerFields DEF ElementSetInnerHTML, BindingsInv, InnerInv, domVars
<1>2. js' = [js EXCEPT !.inner = <<el>>, !.todo = fragment, !.clearing = TRUE]
  BY DEF ElementSetInnerHTML
<1>3. fragment \in Seq(Fragment) /\ <<el>> \in Seq(DomNodes) /\ Len(<<el>>) = 1 /\ <<el>>[1] = el
  BY <1>1, FragmentsAssumption
<1>4. /\ ListenersStep /\ js'.inner = <<el>> /\ js'.todo = fragment /\ js'.clearing = TRUE
      /\ js'.refs = js.refs
  <2> DEFINE inner == <<el>>
  <2>1. inner \in Seq(DomNodes) /\ js' = [js EXCEPT !.inner = inner, !.todo = fragment, !.clearing = TRUE]
    BY <1>2, <1>3
  <2>2. TRUE \in BOOLEAN
    OBVIOUS
  <2> HIDE DEF inner
  <2>3. /\ ListenersStep /\ js'.inner = inner /\ js'.todo = fragment /\ js'.clearing = TRUE
        /\ js'.refs = js.refs
    BY <1>1, <1>3, <2>1, <2>2, InnerChanged
  <2> QED BY <2>3 DEF inner
<1>5. InnerInv'
  <2>1. Len(js'.inner) = 1 /\ js'.inner[1] = el /\ Made' = Made /\ tree' = tree
    BY <1>1, <1>3, <1>4 DEF Made
  <2> QED BY <1>1, <1>4, <2>1 DEF InnerInv
<1> QED BY <1>1, <1>4, <1>5 DEF BindingsStep

LEMMA ClearStep ==
  ASSUME BindingsInv, ClearChild
  PROVE  BindingsStep
<1>1. /\ js \in Bindings /\ Open \in Made /\ Open \in DomNodes /\ em' = em
      /\ tree.made \in DomNodes /\ Made \subseteq DomNodes /\ js.clearing /\ js.inner # <<>>
  BY InnerFields DEF ClearChild, Inner
<1>2. CASE tree.first[Open] = NoNode
  <2>1. js' = [js EXCEPT !.clearing = FALSE] /\ UNCHANGED tree
    BY <1>2 DEF ClearChild
  <2>2. /\ js' \in Bindings /\ js'.refs = js.refs /\ js'.inner = js.inner /\ js'.todo = js.todo
        /\ js'.clearing = FALSE
        /\ js'.entries = js.entries /\ js'.em = js.em /\ js'.els = js.els /\ js'.tracked = js.tracked
        /\ js'.carried = js.carried
    BY <1>1, <2>1 DEF Bindings
  <2>3. ListenersStep
    BY <1>1, <2>2, RecordKept DEF BindingsInv
  <2>4. InnerInv'
    BY <2>1, <2>2 DEF BindingsInv, InnerInv, Made
  <2> QED BY <2>1, <2>3, <2>4 DEF BindingsStep
<1>3. CASE tree.first[Open] # NoNode
  <2> DEFINE c == tree.first[Open]
  <2>1. tree' = RemoveChild(tree, Open, c) /\ js' = js
    BY <1>3 DEF ClearChild
  <2>2. c \in DomNodes /\ tree.parent[c] = Open
    BY <1>1, <1>3 DEF BindingsInv, LinkedTree, LinksOK, EndsAgree, TreeTypeOK, Ref
  <2>3. c \in Made
    <3>1. Open # NoNode
      BY <1>1, NodesFinite
    <3>2. ~(c > tree.made)
      BY <2>2, <3>1 DEF BindingsInv, LinkedTree, Unborn
    <3> QED BY <1>1, <2>2, <3>2, DomAssumption DEF DomNodes, Made
  <2>4. Detach(Open, c)
    BY <1>1, <2>1, <2>2, <2>3, NodesFinite DEF Detach
  <2>5. DomNext
    BY <1>1, <2>2, <2>4 DEF DomNext
  <2>6. tree'.made = tree.made
    BY <2>1 DEF RemoveChild
  <2>7. ListenersStep
    BY <1>1, <2>1, RecordKept DEF BindingsInv
  <2>8. InnerInv'
    <3>1. Len(js.inner) = 1
      BY <1>1 DEF BindingsInv, InnerInv
    <3> QED BY <2>1, <2>6, <3>1 DEF BindingsInv, InnerInv, Made
  <2> QED BY <2>5, <2>7, <2>8 DEF BindingsStep
<1> QED BY <1>2, <1>3

(* What is left of the fragment still fits.                                *)
LEMMA NextOfFragment ==
  ASSUME BindingsInv, NEW kinds, Cloning(kinds)
  PROVE  /\ js.inner # <<>> /\ ~js.clearing /\ em' = em /\ js \in Bindings
         /\ Tail(js.todo) \in Seq(Fragment) /\ Len(Tail(js.todo)) \in Nat
         /\ Len(js.todo) = Len(Tail(js.todo)) + 1
         /\ tree.made + 1 + Len(Tail(js.todo)) <= MaxNodes
         /\ tree.made < MaxNodes /\ tree.made + 1 \in DomNodes
<1>1. /\ js.inner # <<>> /\ ~js.clearing /\ em' = em /\ js \in Bindings /\ js.todo # <<>>
      /\ js.todo \in Seq(Fragment) /\ tree.made \in DomNodes /\ Len(js.todo) \in Nat
  BY InnerFields DEF Cloning, Inner
<1>2. Tail(js.todo) \in Seq(Fragment) /\ Len(Tail(js.todo)) = Len(js.todo) - 1
  BY <1>1, HeadTailProperties
<1>3. Len(Tail(js.todo)) \in Nat
  BY <1>2, LenProperties
<1>4. tree.made + Len(js.todo) <= MaxNodes
  BY <1>1 DEF BindingsInv, InnerInv
<1>5. tree.made + 1 + Len(Tail(js.todo)) <= MaxNodes /\ Len(js.todo) = Len(Tail(js.todo)) + 1
  <2> DEFINE l == Len(js.todo)
             k == Len(Tail(js.todo))
  <2>1. l \in Nat /\ k \in Nat /\ k = l - 1 /\ tree.made + l <= MaxNodes
    BY <1>1, <1>2, <1>3, <1>4
  <2> HIDE DEF l, k
  <2>2. tree.made + 1 + k <= MaxNodes /\ l = k + 1
    BY <1>1, <2>1, DomAssumption DEF DomNodes
  <2> QED BY <2>2 DEF l, k
<1>6. tree.made < MaxNodes /\ tree.made + 1 \in DomNodes
  BY <1>1, <1>3, <1>5, DomAssumption DEF DomNodes
<1> QED BY <1>1, <1>2, <1>3, <1>5, <1>6

LEMMA SkipStep ==
  ASSUME BindingsInv, SkipComment \/ InnerDone
  PROVE  BindingsStep
<1>1. js \in Bindings /\ em' = em /\ UNCHANGED tree /\ js.inner \in Seq(DomNodes)
  BY InnerFields DEF SkipComment, InnerDone, Cloning, Inner, domVars
<1>2. CASE SkipComment
  <2>1. /\ Tail(js.todo) \in Seq(Fragment) /\ Len(Tail(js.todo)) \in Nat
        /\ tree.made + 1 + Len(Tail(js.todo)) <= MaxNodes
    BY <1>2, NextOfFragment DEF SkipComment
  <2> DEFINE todo == Tail(js.todo)
  <2>2. js' = [js EXCEPT !.todo = todo]
    BY <1>1, <1>2 DEF SkipComment, Bindings
  <2>3. todo \in Seq(Fragment) /\ tree.made + Len(todo) <= MaxNodes
    <3>1. tree.made \in DomNodes
      BY InnerFields
    <3> HIDE DEF todo
    <3>2. Len(todo) \in Nat /\ tree.made + 1 + Len(todo) <= MaxNodes
      BY <2>1 DEF todo
    <3>3. todo \in Seq(Fragment)
      BY <2>1 DEF todo
    <3> QED BY <3>1, <3>2, <3>3, DomAssumption DEF DomNodes
  <2> HIDE DEF todo
  <2>4. /\ js' \in Bindings /\ js'.refs = js.refs /\ js'.inner = js.inner /\ js'.todo = todo
        /\ js'.clearing = js.clearing
        /\ js'.entries = js.entries /\ js'.em = js.em /\ js'.els = js.els /\ js'.tracked = js.tracked
        /\ js'.carried = js.carried
    BY <1>1, <2>2, <2>3 DEF Bindings
  <2>5. ListenersStep
    BY <1>1, <2>4, RecordKept DEF BindingsInv
  <2>6. InnerInv'
    BY <1>1, <2>3, <2>4 DEF BindingsInv, InnerInv, Made
  <2> QED BY <1>1, <2>5, <2>6 DEF BindingsStep
<1>3. CASE InnerDone
  <2>1. js' = [js EXCEPT !.inner = <<>>] /\ ~js.clearing
    BY <1>3 DEF InnerDone
  <2>2. <<>> \in Seq(DomNodes) /\ Len(<<>>) = 0
    BY EmptySeq
  <2>3. /\ js' \in Bindings /\ js'.refs = js.refs /\ js'.inner = <<>> /\ js'.todo = js.todo
        /\ js'.clearing = FALSE
        /\ js'.entries = js.entries /\ js'.em = js.em /\ js'.els = js.els /\ js'.tracked = js.tracked
        /\ js'.carried = js.carried
    BY <1>1, <2>1, <2>2 DEF Bindings
  <2>4. ListenersStep
    BY <1>1, <2>3, RecordKept DEF BindingsInv
  <2>5. InnerInv'
    BY <1>1, <2>2, <2>3 DEF BindingsInv, InnerInv, Made
  <2> QED BY <1>1, <2>4, <2>5 DEF BindingsStep
<1> QED BY <1>2, <1>3

(* A node that was not there has no parent and is nobody's child.          *)
LEMMA NewNode ==
  ASSUME LinkedTree
  PROVE  /\ tree.made + 1 \in DomNodes => tree.parent[tree.made + 1] = NoNode
         /\ \A p \in DomNodes : tree.last[p] < tree.made + 1
<1>1. tree.made \in DomNodes
  BY MadeInDom
<1>2. ASSUME tree.made + 1 \in DomNodes PROVE tree.parent[tree.made + 1] = NoNode
  BY <1>1, <1>2, DomAssumption DEF LinkedTree, Unborn, DomNodes
<1>3. ASSUME NEW p \in DomNodes PROVE tree.last[p] < tree.made + 1
  <2>1. tree.last[p] \in DomNodes \/ tree.last[p] = NoNode
    BY DEF LinkedTree, TreeTypeOK, Ref
  <2>2. CASE tree.last[p] = NoNode
    BY <1>1, <2>2, DomAssumption DEF DomNodes, NoNode
  <2>3. CASE tree.last[p] \in DomNodes
    <3>1. tree.last[p] # NoNode /\ p # NoNode
      BY <2>3, NodesFinite
    <3>2. tree.parent[tree.last[p]] = p
      BY <3>1 DEF LinkedTree, LinksOK, EndsAgree
    <3>3. ~(tree.last[p] > tree.made)
      BY <2>3, <3>1, <3>2 DEF LinkedTree, Unborn
    <3> QED BY <1>1, <2>3, <3>3, DomAssumption DEF DomNodes
  <2> QED BY <2>1, <2>2, <2>3
<1> QED BY <1>2, <1>3

LEMMA CloneElementStep ==
  ASSUME BindingsInv, CloneElement
  PROVE  BindingsStep
<1> DEFINE new == tree.made + 1
           inner == Append(js.inner, new)
           todo == Tail(js.todo)
           len == Len(js.inner)
<1>1. /\ js \in Bindings /\ js.inner \in Seq(DomNodes) /\ len \in Nat \ {0}
      /\ js.inner # <<>> /\ ~js.clearing /\ em' = em
      /\ todo \in Seq(Fragment) /\ new + Len(todo) <= MaxNodes
      /\ tree.made < MaxNodes /\ new \in DomNodes /\ tree.made \in DomNodes
  BY InnerFields, NextOfFragment DEF CloneElement
<1>2. tree' = CreateNode(tree) /\ js' = [js EXCEPT !.inner = inner, !.todo = todo]
  BY <1>1 DEF CloneElement, Bindings
<1>3. /\ inner \in Seq(DomNodes) /\ Len(inner) = len + 1 /\ inner[len + 1] = new
      /\ \A i \in 1 .. len : inner[i] = js.inner[i]
  <2> HIDE DEF new
  <2> QED BY <1>1, AppendProperties
<1> HIDE DEF inner, todo, len
<1>4. /\ js' \in Bindings /\ js'.refs = js.refs /\ js'.inner = inner /\ js'.todo = todo
      /\ js'.clearing = js.clearing
      /\ js'.entries = js.entries /\ js'.em = js.em /\ js'.els = js.els /\ js'.tracked = js.tracked
      /\ js'.carried = js.carried
  BY <1>1, <1>2, <1>3 DEF Bindings
<1>5. ListenersStep
  BY <1>1, <1>4, RecordKept DEF BindingsInv
<1>6. /\ tree'.made = new /\ tree'.parent = tree.parent /\ tree'.last = tree.last /\ DomNext
  <2>1. tree \in [made : DomNodes, parent : [DomNodes -> Ref], next : [DomNodes -> Ref],
                  prev : [DomNodes -> Ref], first : [DomNodes -> Ref],
                  last : [DomNodes -> Ref], count : [DomNodes -> Int]]
    BY DEF BindingsInv, LinkedTree, TreeTypeOK
  <2> QED BY <1>1, <1>2, <2>1 DEF CreateNode, DomNext, Create
<1>7. Made \subseteq Made' /\ new \in Made' /\ \A n \in Made : n < new
  BY <1>1, <1>6 DEF Made, DomNodes
<1>8. \A i \in 1 .. len : js.inner[i] \in Made
  BY DEF BindingsInv, InnerInv, len
<1>9. tree.parent[new] = NoNode /\ \A p \in DomNodes : tree.last[p] < new
  BY <1>1, NewNode DEF BindingsInv
<1> HIDE DEF new
<1>10. \A i \in 1 .. len + 1 : (i \in 1 .. len /\ inner[i] = js.inner[i]) \/ (i = len + 1 /\ inner[i] = new)
  BY <1>1, <1>3
<1>11. ASSUME NEW i \in 1 .. Len(inner) PROVE inner[i] \in Made'
  BY <1>3, <1>7, <1>8, <1>10
<1>12. ASSUME NEW i \in 1 .. Len(inner), NEW j \in 1 .. Len(inner), i < j PROVE inner[i] < inner[j]
  <2>1. i \in 1 .. len /\ inner[i] = js.inner[i]
    BY <1>1, <1>3, <1>10, <1>12
  <2>2. CASE j \in 1 .. len /\ inner[j] = js.inner[j]
    BY <1>12, <2>1, <2>2 DEF BindingsInv, InnerInv, len
  <2>3. CASE inner[j] = new
    BY <1>7, <1>8, <2>1, <2>3
  <2> QED BY <1>3, <1>10, <2>2, <2>3
<1>13. ASSUME NEW i \in 1 .. Len(inner) - 1
       PROVE  tree'.parent[inner[i + 1]] = NoNode /\ tree'.last[inner[i]] < inner[i + 1]
  <2>1. i \in 1 .. len /\ inner[i] = js.inner[i] /\ js.inner[i] \in DomNodes
    BY <1>1, <1>3, ElementOfSeq DEF len
  <2>2. CASE i = len
    BY <1>3, <1>6, <1>9, <2>1, <2>2
  <2>3. CASE i # len
    <3>1. i \in 1 .. len - 1 /\ i + 1 \in 1 .. len
      BY <1>1, <2>1, <2>3
    <3>2. tree.parent[js.inner[i + 1]] = NoNode /\ tree.last[js.inner[i]] < js.inner[i + 1]
      BY <3>1 DEF BindingsInv, InnerInv, len
    <3> QED BY <1>3, <1>6, <2>1, <3>1, <3>2
  <2> QED BY <2>2, <2>3
<1>14. InnerInv'
  <2>1. js'.refs \subseteq Made'
    BY <1>4, <1>7 DEF BindingsInv, InnerInv
  <2>2. tree'.made + Len(todo) <= MaxNodes
    BY <1>1, <1>6
  <2> QED BY <1>1, <1>4, <1>11, <1>12, <1>13, <2>1, <2>2 DEF InnerInv
<1> QED BY <1>5, <1>6, <1>14 DEF BindingsStep

LEMMA CloneTextStep ==
  ASSUME BindingsInv, CloneText
  PROVE  BindingsStep
<1> DEFINE new == tree.made + 1
           todo == Tail(js.todo)
           len == Len(js.inner)
<1>1. /\ js \in Bindings /\ js.inner \in Seq(DomNodes) /\ len \in Nat \ {0}
      /\ js.inner # <<>> /\ ~js.clearing /\ em' = em
      /\ todo \in Seq(Fragment) /\ new + Len(todo) <= MaxNodes
      /\ tree.made < MaxNodes /\ new \in DomNodes /\ tree.made \in DomNodes
      /\ Open \in Made /\ Open \in DomNodes
  BY InnerFields, NextOfFragment DEF CloneText
<1>2. tree' = AppendChild(CreateNode(tree), Open, new) /\ js' = [js EXCEPT !.todo = todo]
  BY <1>1 DEF CloneText, Bindings
<1> HIDE DEF todo, len
<1>3. /\ js' \in Bindings /\ js'.refs = js.refs /\ js'.inner = js.inner /\ js'.todo = todo
      /\ js'.clearing = js.clearing
      /\ js'.entries = js.entries /\ js'.em = js.em /\ js'.els = js.els /\ js'.tracked = js.tracked
      /\ js'.carried = js.carried
  BY <1>1, <1>2 DEF Bindings
<1>4. ListenersStep
  BY <1>1, <1>3, RecordKept DEF BindingsInv
<1>5. DomNext
  BY <1>1, <1>2 DEF DomNext, AttachNew
<1>6. /\ tree'.made = new
      /\ \A n \in DomNodes : n # new => tree'.parent[n] = tree.parent[n]
      /\ \A n \in DomNodes : n # Open => tree'.last[n] = tree.last[n]
  <2>1. tree \in [made : DomNodes, parent : [DomNodes -> Ref], next : [DomNodes -> Ref],
                  prev : [DomNodes -> Ref], first : [DomNodes -> Ref],
                  last : [DomNodes -> Ref], count : [DomNodes -> Int]]
    BY DEF BindingsInv, LinkedTree, TreeTypeOK
  <2>2. CreateNode(tree).made = new /\ CreateNode(tree).parent = tree.parent /\ CreateNode(tree).last = tree.last
    BY <2>1 DEF CreateNode
  <2> QED BY <1>2, <2>1, <2>2 DEF AppendChild
<1>7. Made \subseteq Made' /\ \A n \in Made : n \in DomNodes /\ n # new
  BY <1>1, <1>6, DomAssumption DEF Made, DomNodes
<1>8. /\ \A i \in 1 .. len : js.inner[i] \in Made
      /\ \A i, j \in 1 .. len : i < j => js.inner[i] < js.inner[j]
      /\ \A i \in 1 .. len - 1 : /\ tree.parent[js.inner[i + 1]] = NoNode
                                 /\ tree.last[js.inner[i]] < js.inner[i + 1]
  BY DEF BindingsInv, InnerInv, len
<1> HIDE DEF new
<1>9. ASSUME NEW i \in 1 .. len - 1
      PROVE  tree'.parent[js.inner[i + 1]] = NoNode /\ tree'.last[js.inner[i]] < js.inner[i + 1]
  <2>1. i \in 1 .. len /\ i + 1 \in 1 .. len /\ len \in 1 .. len /\ i < len
    BY <1>1
  <2>2. js.inner[i] < js.inner[len] /\ js.inner[i] \in Made /\ js.inner[i + 1] \in Made
    BY <1>8, <2>1
  <2>3. js.inner[i] # Open
    <3>1. js.inner[i] \in DomNodes /\ Open = js.inner[len]
      BY <1>7, <2>2 DEF Open, len
    <3> QED BY <2>2, <3>1, DomAssumption DEF DomNodes
  <2> QED BY <1>6, <1>7, <1>8, <2>2, <2>3
<1>10. InnerInv'
  <2>1. js'.refs \subseteq Made'
    BY <1>3, <1>7 DEF BindingsInv, InnerInv
  <2>2. tree'.made + Len(todo) <= MaxNodes
    BY <1>1, <1>6
  <2> QED BY <1>1, <1>3, <1>7, <1>8, <1>9, <2>1, <2>2 DEF InnerInv, len
<1> QED BY <1>4, <1>5, <1>10 DEF BindingsStep

LEMMA CloseStep ==
  ASSUME BindingsInv, CloseClone
  PROVE  BindingsStep
<1> DEFINE len == Len(js.inner)
           inner == SubSeq(js.inner, 1, len - 1)
           p == js.inner[len - 1]
<1>1. /\ js \in Bindings /\ js.inner \in Seq(DomNodes) /\ len \in Nat
      /\ len > 1 /\ ~js.clearing /\ em' = em /\ js.inner # <<>>
      /\ tree.made \in DomNodes /\ Made \subseteq DomNodes
  BY InnerFields DEF CloseClone, Inner
<1>2. tree' = AppendChild(tree, p, Open) /\ js' = [js EXCEPT !.inner = inner]
  BY <1>1 DEF CloseClone, Bindings
<1>3. inner \in Seq(DomNodes) /\ Len(inner) = len - 1 /\ \A i \in 1 .. len - 1 : inner[i] = js.inner[i]
  <2>1. \A i \in 1 .. len - 1 : js.inner[i] \in DomNodes
    <3>1. \A i \in 1 .. len - 1 : i \in 1 .. len
      BY <1>1
    <3> QED BY <1>1, <3>1, ElementOfSeq
  <2>2. len - 1 \in Int /\ 1 \in Int /\ 1 <= len - 1
    BY <1>1
  <2> DEFINE k == len - 1
  <2>3. k \in Int /\ 1 <= k /\ \A i \in 1 .. k : js.inner[i] \in DomNodes
    BY <2>1, <2>2
  <2> HIDE DEF k
  <2>4. /\ SubSeq(js.inner, 1, k) \in Seq(DomNodes)
        /\ Len(SubSeq(js.inner, 1, k)) = IF 1 <= k THEN k - 1 + 1 ELSE 0
        /\ \A i \in 1 .. k - 1 + 1 : SubSeq(js.inner, 1, k)[i] = js.inner[1 + i - 1]
    BY <2>3, SubSeqProperties
  <2>5. Len(SubSeq(js.inner, 1, k)) = k /\ \A i \in 1 .. k : i \in 1 .. k - 1 + 1 /\ 1 + i - 1 = i
    BY <2>3, <2>4
  <2>6. \A i \in 1 .. k : SubSeq(js.inner, 1, k)[i] = js.inner[i]
    BY <2>4, <2>5
  <2> QED BY <2>4, <2>5, <2>6 DEF k
<1>4. /\ \A i \in 1 .. len : js.inner[i] \in Made
      /\ \A i, j \in 1 .. len : i < j => js.inner[i] < js.inner[j]
      /\ \A i \in 1 .. len - 1 : /\ tree.parent[js.inner[i + 1]] = NoNode
                                 /\ tree.last[js.inner[i]] < js.inner[i + 1]
      /\ js.refs \subseteq Made
      /\ tree.made + Len(js.todo) <= MaxNodes
  BY <1>1 DEF BindingsInv, InnerInv
<1>5. /\ p \in Made /\ Open \in Made /\ p < Open /\ tree.parent[Open] = NoNode /\ tree.last[p] < Open
      /\ Open = js.inner[len]
  <2>1. len - 1 \in 1 .. len /\ len \in 1 .. len /\ len - 1 < len /\ len - 1 \in 1 .. len - 1 /\ len - 1 + 1 = len
    BY <1>1
  <2>2. Open = js.inner[len]
    BY DEF Open
  <2>3. p \in Made /\ js.inner[len] \in Made /\ p < js.inner[len]
    BY <1>4, <2>1
  <2>4. tree.parent[js.inner[len - 1 + 1]] = NoNode /\ tree.last[js.inner[len - 1]] < js.inner[len - 1 + 1]
    BY <1>4, <2>1
  <2> QED BY <2>1, <2>2, <2>3, <2>4
<1> HIDE DEF p, inner, len
<1>6. DomNext
  BY <1>1, <1>2, <1>5 DEF DomNext, Attach
<1>7. /\ tree'.made = tree.made
      /\ \A n \in DomNodes : n # Open => tree'.parent[n] = tree.parent[n]
      /\ \A n \in DomNodes : n # p => tree'.last[n] = tree.last[n]
  <2>1. tree \in [made : DomNodes, parent : [DomNodes -> Ref], next : [DomNodes -> Ref],
                  prev : [DomNodes -> Ref], first : [DomNodes -> Ref],
                  last : [DomNodes -> Ref], count : [DomNodes -> Int]]
    BY DEF BindingsInv, LinkedTree, TreeTypeOK
  <2> QED BY <1>2, <2>1 DEF AppendChild
<1>8. /\ js' \in Bindings /\ js'.refs = js.refs /\ js'.inner = inner /\ js'.todo = js.todo
      /\ js'.clearing = js.clearing
      /\ js'.entries = js.entries /\ js'.em = js.em /\ js'.els = js.els /\ js'.tracked = js.tracked
      /\ js'.carried = js.carried
  BY <1>1, <1>2, <1>3 DEF Bindings
<1>9. ListenersStep
  BY <1>1, <1>8, RecordKept DEF BindingsInv
<1>10. Made' = Made
  BY <1>7 DEF Made
<1>11. \A i \in 1 .. len - 1 : i \in 1 .. len /\ i < len
  BY <1>1
<1>12. ASSUME NEW i \in 1 .. len - 1 - 1
       PROVE  tree'.parent[inner[i + 1]] = NoNode /\ tree'.last[inner[i]] < inner[i + 1]
  <2>1. /\ i \in 1 .. len - 1 /\ i + 1 \in 1 .. len - 1 /\ len - 1 \in 1 .. len /\ i < len - 1
        /\ i + 1 \in 1 .. len /\ i + 1 < len /\ len \in 1 .. len /\ i \in 1 .. len
    BY <1>1
  <2>2. js.inner[i + 1] < js.inner[len] /\ js.inner[i] < js.inner[len - 1]
    BY <1>4, <2>1
  <2>3. js.inner[i] \in DomNodes /\ js.inner[i + 1] \in DomNodes /\ p \in DomNodes /\ Open \in DomNodes
    BY <1>1, <1>4, <1>5, <2>1
  <2>4. js.inner[i + 1] # Open /\ js.inner[i] # p
    <3>1. p = js.inner[len - 1]
      BY DEF p
    <3> QED BY <1>5, <2>2, <2>3, <3>1, DomAssumption DEF DomNodes
  <2> QED BY <1>3, <1>4, <1>7, <2>1, <2>3, <2>4
<1>13. InnerInv'
  BY <1>1, <1>3, <1>4, <1>7, <1>8, <1>10, <1>11, <1>12 DEF InnerInv
<1> QED BY <1>6, <1>9, <1>13 DEF BindingsStep

LEMMA BindingsKept ==
  ASSUME BindingsInv, UNCHANGED <<tree, em, js>>
  PROVE  BindingsStep
<1>1. js' \in Bindings /\ js'.refs \subseteq Made
  BY InnerFields DEF BindingsInv, InnerInv
<1> QED BY <1>1, RecordKept, InnerKept DEF BindingsStep, BindingsInv

LEMMA BindingsStepHolds ==
  ASSUME BindingsInv, BindingsNext
  PROVE  BindingsStep
<1>1. ASSUME NEW el \in js.refs, NEW name \in JsNames, ElementRemoveType(el, name) PROVE BindingsStep
  BY <1>1, RemoveTypeListeners, CalledStep DEF BindingsInv, ElementRemoveType, domVars
<1>2. ASSUME NEW el \in js.refs, ElementRemoveEverything(el) PROVE BindingsStep
  BY <1>2, RemoveEverythingListeners, CalledStep DEF BindingsInv, ElementRemoveEverything, domVars
<1>3. ASSUME NEW el \in js.refs, NEW name \in JsNames, NEW fn \in Functions,
             ElementAddEventListener(el, name, fn)
      PROVE  BindingsStep
  BY <1>3, AddListeners, CalledStep DEF BindingsInv, ElementAddEventListener, domVars
<1>4. ASSUME NEW el \in js.refs, NEW name \in JsNames, NEW fn \in Functions,
             ElementRemoveEventListener(el, name, fn)
      PROVE  BindingsStep
  BY <1>4, RemoveOneListener, CalledStep DEF BindingsInv, ElementRemoveEventListener, domVars
<1>5. CASE ScriptCalls
  BY <1>1, <1>2, <1>3, <1>4, <1>5, LookStep, SetInnerStep DEF ScriptCalls
<1>6. CASE InnerSteps
  BY <1>6, ClearStep, CloneElementStep, CloseStep, CloneTextStep, SkipStep DEF InnerSteps
<1>7. CASE DispatchSteps
  BY <1>7, BindingsKept DEF DispatchSteps, BeginDispatch, CallHandler, HandlerReturns, ListenersDone, domVars
<1>8. CASE HostCalls
  BY <1>8, HostStep
<1> QED BY <1>5, <1>6, <1>7, <1>8 DEF BindingsNext

(* From any linked tree, such as the parser leaves it, and before any      *)
(* binding.                                                                *)
ScriptInit == LinkedTree /\ BindingsInit
ScriptSpec == ScriptInit /\ [][BindingsNext]_<<domVars, bindingVars>>

LEMMA ScriptBegins == ScriptInit => BindingsInv
<1> SUFFICES ASSUME ScriptInit PROVE BindingsInv
  OBVIOUS
<1>1. em = NewManager /\ js = Unbound
  BY DEF ScriptInit, BindingsInit
<1>2. /\ em \in Manager /\ TokensOrdered(em) /\ TokensUnique(em)
      /\ \A n \in DomNodes : \A k \in 1 .. Len(em.listeners[n]) : em.listeners[n][k].fn = "host"
  BY <1>1, FreshManager
<1>3. <<>> \in Seq(Entry) /\ <<>> \in Seq(DomNodes) /\ <<>> \in Seq(Fragment) /\ Len(<<>>) = 0
  BY EmptySeq
<1>4. js \in Bindings /\ ~js.em /\ js.inner = <<>> /\ ~js.clearing /\ js.refs = {}
  BY <1>1, <1>3 DEF Unbound, Bindings
<1>5. ListenersInv
  BY <1>2, <1>4, HostOnlyConsistent DEF ListenersInv
<1>6. InnerInv
  BY <1>3, <1>4 DEF InnerInv
<1> QED BY <1>5, <1>6 DEF BindingsInv, ScriptInit

LEMMA BindingsPreserved ==
  BindingsInv /\ [BindingsNext]_<<domVars, bindingVars>> => BindingsInv' /\ BindingsStep
<1> SUFFICES ASSUME BindingsInv, [BindingsNext]_<<domVars, bindingVars>>
    PROVE  BindingsInv' /\ BindingsStep
  OBVIOUS
<1>1. BindingsStep
  BY BindingsStepHolds, BindingsKept DEF domVars, bindingVars
<1>2. LinkedTree'
  BY <1>1, StepLinked DEF BindingsStep, BindingsInv
<1> QED BY <1>1, <1>2 DEF BindingsStep, BindingsInv, ListenersStep

(* No script function the event manager could call has been freed, in      *)
(* whichever order bindings and managers come and go.                      *)
THEOREM CallbacksStayAlive == ScriptSpec => []CallbacksAlive
<1>1. BindingsInv => CallbacksAlive
  BY DEF BindingsInv, ListenersInv, Consistent, Recorded, CallbacksAlive
<1> QED BY <1>1, ScriptBegins, BindingsPreserved, PTL DEF ScriptSpec

(* What removeEventListener looks in is what addEventListener added: the   *)
(* record of the bindings lists the script's listeners, each once.         *)
THEOREM RecordExact == ScriptSpec => []EntriesExact
<1>1. ASSUME BindingsInv, js.em, ~js.carried
      PROVE  EntriesExact
  <2> DEFINE Of(e) == [el |-> e.el, type |-> e.type, fn |-> e.fn, token |-> e.token]
             HeardAt(n, l) == [el |-> n, type |-> l.type, fn |-> l.fn, token |-> l.token]
             entries == {Of(js.entries[i]) : i \in 1 .. Len(js.entries)}
             Own(n) == {k \in 1 .. Len(em.listeners[n]) : em.listeners[n][k].fn # "host"}
             listeners == UNION {{HeardAt(n, em.listeners[n][i]) : i \in Own(n)} : n \in DomNodes}
  <2>1. js \in Bindings /\ Recorded(em, js) /\ Backed(em, js)
    BY <1>1 DEF BindingsInv, ListenersInv, Consistent
  <2>2. ASSUME NEW i \in 1 .. Len(js.entries)
        PROVE  \E n \in DomNodes : \E k \in Own(n) : Of(js.entries[i]) = HeardAt(n, em.listeners[n][k])
    <3> DEFINE e == js.entries[i]
    <3>1. e \in Entry /\ e.el \in DomNodes
      BY <2>1, EntryFields
    <3>2. PICK k \in 1 .. Len(em.listeners[e.el]) : Records(e, e.el, em.listeners[e.el][k])
      BY <1>1, <2>1 DEF Backed
    <3>3. e.fn # "host"
      BY <3>1, FunctionsAssumption DEF Entry
    <3> HIDE DEF e
    <3>4. k \in Own(e.el) /\ Of(e) = HeardAt(e.el, em.listeners[e.el][k])
      BY <3>2, <3>3 DEF Records
    <3> QED BY <3>1, <3>4 DEF e
  <2>3. ASSUME NEW n \in DomNodes, NEW k \in Own(n)
        PROVE  \E i \in 1 .. Len(js.entries) : Of(js.entries[i]) = HeardAt(n, em.listeners[n][k])
    <3>1. PICK i \in 1 .. Len(js.entries) : Records(js.entries[i], n, em.listeners[n][k])
      BY <2>1 DEF Recorded
    <3> QED BY <3>1 DEF Records
  <2>4. entries \subseteq listeners
    <3> SUFFICES ASSUME NEW i \in 1 .. Len(js.entries) PROVE Of(js.entries[i]) \in listeners
      OBVIOUS
    <3>1. PICK n \in DomNodes : \E k \in Own(n) : Of(js.entries[i]) = HeardAt(n, em.listeners[n][k])
      BY <2>2
    <3>2. PICK k \in Own(n) : Of(js.entries[i]) = HeardAt(n, em.listeners[n][k])
      BY <3>1
    <3> HIDE DEF Of, HeardAt, Own
    <3> QED BY <3>2
  <2>5. listeners \subseteq entries
    <3> SUFFICES ASSUME NEW x \in listeners PROVE x \in entries
      OBVIOUS
    <3> HIDE DEF Of, HeardAt, Own
    <3>1. PICK n \in DomNodes : x \in {HeardAt(n, em.listeners[n][i]) : i \in Own(n)}
      OBVIOUS
    <3>2. PICK k \in Own(n) : x = HeardAt(n, em.listeners[n][k])
      BY <3>1
    <3>3. PICK i \in 1 .. Len(js.entries) : Of(js.entries[i]) = HeardAt(n, em.listeners[n][k])
      BY <2>3
    <3> QED BY <3>2, <3>3
  <2>6. entries = listeners
    BY <2>4, <2>5
  <2> QED BY <2>6 DEF EntriesExact
<1>2. BindingsInv => EntriesExact
  BY <1>1 DEF EntriesExact
<1> QED BY <1>2, ScriptBegins, BindingsPreserved, PTL DEF ScriptSpec

(* Script does to the tree only what its links need, so they stay those of *)
(* one tree: through innerHTML half done, and on nodes taken out before.   *)
THEOREM ScriptKeepsOrder == ScriptSpec => CallersKeepOrder /\ []TreeLinked
<1>1. BindingsInv => TreeLinked
  BY LinkedIsTreeLinked DEF BindingsInv
<1>2. BindingsStep => [DomNext \/ tree' = EmptyTree]_tree
  BY DEF BindingsStep
<1> QED BY <1>1, <1>2, ScriptBegins, BindingsPreserved, PTL DEF ScriptSpec, CallersKeepOrder
----------------------------------------------------------------------------
(* The path of an event. *)

LEMMA UpTo ==
  ASSUME NEW n \in Nat, NEW S, \A k \in 0 .. n : (\A j \in 0 .. k - 1 : j \in S) => k \in S
  PROVE  \A k \in 0 .. n : k \in S
<1> DEFINE T == {k \in 0 .. n : k \notin S}
<1> SUFFICES ASSUME T # {} PROVE FALSE
  OBVIOUS
<1>1. PICK k \in T : \A j \in T : k <= j
  <2>1. T \in SUBSET Nat
    OBVIOUS
  <2> HIDE DEF T
  <2> QED BY <2>1, FirstIsLeast
<1>2. ASSUME NEW j \in 0 .. k - 1 PROVE j \in S
  <2>1. j \in 0 .. n /\ ~(k <= j)
    OBVIOUS
  <2> QED BY <1>1, <2>1
<1> QED BY <1>1, <1>2

(* From the element to older and older nodes.                              *)
Descends(path, el) ==
  /\ path \in Seq(DomNodes) /\ (el # NoNode => Len(path) \in Nat \ {0})
  /\ \A i \in 1 .. Len(path) : path[i] <= el
  /\ \A i, j \in 1 .. Len(path) : i < j => path[j] < path[i]

LEMMA PathGrows ==
  ASSUME NEW el \in DomNodes, NEW up \in Nat, up < el, NEW path, Descends(path, up)
  PROVE  Descends(<<el>> \o path, el)
<1> DEFINE p == <<el>> \o path
<1>1. path \in Seq(DomNodes) /\ Len(path) \in Nat /\ el \in Nat
  BY LenProperties, DomAssumption DEF Descends, DomNodes
<1>2. <<el>> \in Seq(DomNodes) /\ Len(<<el>>) = 1 /\ <<el>>[1] = el
  OBVIOUS
<1>3. /\ p \in Seq(DomNodes) /\ Len(p) = 1 + Len(path)
      /\ \A i \in 1 .. 1 + Len(path) : p[i] = IF i <= 1 THEN <<el>>[i] ELSE path[i - 1]
  BY <1>1, <1>2, ConcatProperties
<1> HIDE DEF p
<1>4. \A i \in 1 .. Len(path) : path[i] \in Nat /\ path[i] < el
  <2> SUFFICES ASSUME NEW i \in 1 .. Len(path) PROVE path[i] \in Nat /\ path[i] < el
    OBVIOUS
  <2>1. path[i] \in DomNodes /\ path[i] <= up
    BY <1>1, ElementOfSeq DEF Descends
  <2> QED BY <1>1, <2>1, DomAssumption DEF DomNodes
<1>5. \A i \in 1 .. Len(p) : (i = 1 /\ p[i] = el) \/ (i - 1 \in 1 .. Len(path) /\ p[i] = path[i - 1])
  BY <1>1, <1>2, <1>3
<1>6. ASSUME NEW i \in 1 .. Len(p) PROVE p[i] <= el
  <2>1. CASE p[i] = el
    BY <1>1, <2>1
  <2>2. CASE i - 1 \in 1 .. Len(path) /\ p[i] = path[i - 1]
    <3>1. path[i - 1] \in Nat /\ path[i - 1] < el
      BY <1>4, <2>2
    <3> QED BY <1>1, <2>2, <3>1
  <2> QED BY <1>5, <2>1, <2>2
<1>7. ASSUME NEW i \in 1 .. Len(p), NEW j \in 1 .. Len(p), i < j PROVE p[j] < p[i]
  <2>1. j - 1 \in 1 .. Len(path) /\ p[j] = path[j - 1]
    BY <1>1, <1>3, <1>5, <1>7
  <2>2. CASE i = 1 /\ p[i] = el
    BY <1>4, <2>1, <2>2
  <2>3. CASE i - 1 \in 1 .. Len(path) /\ p[i] = path[i - 1]
    <3>1. i - 1 < j - 1
      BY <1>7
    <3> QED BY <2>1, <2>3, <3>1 DEF Descends
  <2> QED BY <1>5, <2>2, <2>3
<1> QED BY <1>1, <1>3, <1>6, <1>7 DEF Descends, p

LEMMA PathDescends ==
  ASSUME LinkedTree, NEW el \in DomNodes
  PROVE  Descends(PathFrom(el), el)
<1> DEFINE Next(g, n) == IF n = NoNode THEN <<>> ELSE <<n>> \o g[tree.parent[n]]
           IsUp(g, k) == g = [n \in 0 .. k |-> Next(g, n)]
           up == CHOOSE g : g = [n \in Ref |-> Next(g, n)]
<1>1. Ref = 0 .. MaxNodes /\ MaxNodes \in Nat /\ el \in 0 .. MaxNodes
  BY DomAssumption DEF Ref, DomNodes, NoNode
<1>2. PathFrom(el) = up[el]
  BY DEF PathFrom
<1>3. ASSUME NEW n \in 1 .. MaxNodes
      PROVE  tree.parent[n] \in 0 .. n - 1 /\ n \in DomNodes /\ n # NoNode
  <2>1. n \in DomNodes
    BY DEF DomNodes
  <2>2. tree.parent[n] \in 0 .. MaxNodes /\ tree.parent[n] < n
    BY <1>1, <2>1 DEF LinkedTree, TreeTypeOK, LinksOK, NoCycle
  <2> QED BY <2>1, <2>2 DEF NoNode
<1>4. \E g : IsUp(g, MaxNodes)
  <2> DEFINE S == {k \in 0 .. MaxNodes : \E g : IsUp(g, k)}
  <2>1. ASSUME NEW k \in 0 .. MaxNodes, \A j \in 0 .. k - 1 : j \in S PROVE k \in S
    <3>1. CASE k = 0
      <4> DEFINE g == [n \in 0 .. 0 |-> <<>>]
      <4>1. g = [n \in 0 .. 0 |-> Next(g, n)]
        BY DEF NoNode
      <4> HIDE DEF g
      <4> QED BY <3>1, <4>1
    <3>2. CASE k # 0
      <4>1. k \in 1 .. MaxNodes /\ k - 1 \in 0 .. k - 1 /\ k - 1 \in Nat
        BY <1>1, <3>2
      <4>2. PICK g : IsUp(g, k - 1)
        BY <2>1, <4>1
      <4> DEFINE h == [n \in 0 .. k |-> IF n = k THEN Next(g, k) ELSE g[n]]
      <4>3. ASSUME NEW n \in 0 .. k PROVE h[n] = Next(h, n)
        <5>1. CASE n = 0
          <6>1. n \in 0 .. k - 1 /\ h[n] = g[n]
            BY <4>1, <5>1
          <6>2. g[n] = Next(g, n)
            BY <4>2, <6>1
          <6> QED BY <5>1, <6>1, <6>2 DEF NoNode
        <5>2. CASE n # 0
          <6>1. n \in 1 .. MaxNodes /\ tree.parent[n] \in 0 .. n - 1
            BY <1>1, <1>3, <4>1, <5>2
          <6>2. tree.parent[n] \in 0 .. k /\ tree.parent[n] # k
            BY <4>1, <6>1
          <6>3. h[tree.parent[n]] = g[tree.parent[n]]
            BY <6>2
          <6>4. h[n] = Next(g, n)
            <7>1. CASE n = k
              BY <7>1
            <7>2. CASE n # k
              <8>1. n \in 0 .. k - 1
                BY <4>1, <7>2
              <8>2. g[n] = Next(g, n)
                BY <4>2, <8>1
              <8> QED BY <7>2, <8>2
            <7> QED BY <7>1, <7>2
          <6> HIDE DEF h
          <6> QED BY <6>3, <6>4
        <5> QED BY <5>1, <5>2
      <4>4. h = [n \in 0 .. k |-> Next(h, n)]
        <5> HIDE DEF Next
        <5> QED BY <4>3
      <4> HIDE DEF h
      <4> QED BY <4>4
    <3> QED BY <3>1, <3>2
  <2> HIDE DEF IsUp
  <2>2. \A k \in 0 .. MaxNodes : k \in S
    <3> HIDE DEF S
    <3> QED BY <1>1, <2>1, UpTo
  <2> QED BY <1>1, <2>2
<1>5. up = [n \in Ref |-> Next(up, n)]
  BY <1>1, <1>4
<1> HIDE DEF up
<1>6. \A n \in 0 .. MaxNodes : up[n] = Next(up, n)
  BY <1>1, <1>5
<1>7. \A n \in 0 .. MaxNodes : Descends(up[n], n)
  <2> DEFINE S == {n \in 0 .. MaxNodes : Descends(up[n], n)}
  <2>1. ASSUME NEW n \in 0 .. MaxNodes, \A j \in 0 .. n - 1 : j \in S PROVE n \in S
    <3>1. CASE n = 0
      <4>1. up[n] = <<>> /\ n = NoNode
        BY <1>6, <3>1 DEF NoNode
      <4>2. <<>> \in Seq(DomNodes) /\ Len(<<>>) = 0
        BY EmptySeq
      <4>3. Descends(<<>>, NoNode)
        BY <4>2 DEF Descends
      <4> QED BY <4>1, <4>3
    <3>2. CASE n # 0
      <4>1. n \in 1 .. MaxNodes
        BY <1>1, <3>2
      <4>2. tree.parent[n] \in 0 .. n - 1 /\ n \in DomNodes /\ n # NoNode
        BY <1>3, <4>1
      <4>3. Descends(up[tree.parent[n]], tree.parent[n])
        BY <2>1, <4>2
      <4>4. tree.parent[n] \in Nat /\ tree.parent[n] < n
        BY <4>1, <4>2
      <4>5. Descends(<<n>> \o up[tree.parent[n]], n)
        BY <4>2, <4>3, <4>4, PathGrows
      <4>6. up[n] = <<n>> \o up[tree.parent[n]]
        BY <1>6, <4>2
      <4> QED BY <4>5, <4>6
    <3> QED BY <3>1, <3>2
  <2>2. \A n \in 0 .. MaxNodes : n \in S
    <3> HIDE DEF S
    <3> QED BY <1>1, <2>1, UpTo
  <2> QED BY <2>2
<1> QED BY <1>1, <1>2, <1>7
----------------------------------------------------------------------------
(* A dispatch on its way. *)
Dispatch == [stage : DispatchStages \cup {"idle", "crashed"}, type : EventTypes \cup {""},
             path : Seq(DomNodes), at : Nat, i : Nat, token : Nat,
             fn : Functions \cup {"host", ""}, torn : BOOLEAN, last : Nat \X Nat,
             called : SUBSET Nat]

(* A path goes from a node to older ones, and a stage is that of a place   *)
(* on it.                                                                  *)
PlaceOK ==
  /\ \A i, j \in 1 .. Len(disp.path) : i < j => disp.path[j] < disp.path[i]
  /\ disp.at \in 1 .. Len(disp.path) /\ disp.i # 0
  /\ disp.stage \in {"target capture", "target"} <=> disp.at = 1

(* When a listener of an element on the path has its turn. *)
Turn(j, capture) ==
  CASE capture /\ j = 1 -> Len(disp.path)
    [] capture /\ j # 1 -> Len(disp.path) - j
    [] OTHER            -> Len(disp.path) + j

(* A listener that was called and is still there has had its turn. *)
CalledPassed ==
  \A n \in DomNodes : \A k \in 1 .. Len(em.listeners[n]) :
    em.listeners[n][k].token \in disp.called =>
      \E j \in 1 .. Len(disp.path) :
        LET turn == Turn(j, em.listeners[n][k].capture)
        IN  /\ disp.path[j] = n
            /\ turn < Progress \/ (turn = Progress /\ k < disp.i)

LastPassed ==
  /\ disp.last[1] <= Progress
  /\ disp.last[1] = Progress =>
       \A k \in disp.i .. Len(em.listeners[Element]) :
         disp.last[2] < em.listeners[Element][k].token

DispatchInv ==
  /\ disp \in Dispatch
  /\ disp.stage \notin DispatchStages => disp.token = 0
  /\ disp.stage \in DispatchStages =>
       /\ PlaceOK /\ CalledPassed /\ LastPassed
       /\ disp.last[2] < em.token /\ \A t \in disp.called : t < em.token

LEMMA DispatchFields ==
  ASSUME DispatchInv, disp.stage \in DispatchStages, em \in Manager
  PROVE  /\ disp \in Dispatch /\ disp.path \in Seq(DomNodes) /\ Len(disp.path) \in Nat
         /\ disp.at \in 1 .. Len(disp.path) /\ disp.i \in Nat \ {0}
         /\ Element \in DomNodes /\ Progress \in Nat
         /\ disp.last \in Nat \X Nat /\ disp.last[1] \in Nat /\ disp.last[2] \in Nat
         /\ em.listeners[Element] \in Seq(Listener) /\ Len(em.listeners[Element]) \in Nat
<1>1. disp \in Dispatch /\ PlaceOK
  BY DEF DispatchInv
<1>2. disp.path \in Seq(DomNodes) /\ disp.at \in 1 .. Len(disp.path) /\ disp.i \in Nat \ {0}
  BY <1>1 DEF Dispatch, PlaceOK
<1>3. Len(disp.path) \in Nat /\ Element \in DomNodes
  BY <1>2, LenProperties, ElementOfSeq DEF Element
<1>4. Progress \in Nat
  <2> DEFINE len == Len(disp.path)
             at == disp.at
  <2>1. len \in Nat /\ at \in 1 .. len
    BY <1>2, <1>3
  <2>2. Progress \in {len - at, len, len + 1, len + at}
    BY DEF Progress
  <2> HIDE DEF len, at
  <2>3. len - at \in Nat /\ len \in Nat /\ len + 1 \in Nat /\ len + at \in Nat
    BY <2>1
  <2> QED BY <2>2, <2>3
<1>5. disp.last \in Nat \X Nat /\ disp.last[1] \in Nat /\ disp.last[2] \in Nat
  BY <1>1 DEF Dispatch
<1> QED BY <1>1, <1>2, <1>3, <1>4, <1>5, ManagerFields

(* A listener that FireListeners calls has its turn now.                   *)
LEMMA TurnIsNow ==
  ASSUME DispatchInv, disp.stage \in DispatchStages, em \in Manager, NEW capture \in BOOLEAN,
         capture <=> disp.stage \in {"capture", "target capture"}
  PROVE  Turn(disp.at, capture) = Progress
<1>1. Len(disp.path) \in Nat /\ disp.at \in 1 .. Len(disp.path)
  BY DispatchFields
<1>2. disp.stage \in {"target capture", "target"} <=> disp.at = 1
  BY DEF DispatchInv, PlaceOK
<1> QED BY <1>1, <1>2 DEF Turn, Progress, DispatchStages

(* What a call of script does to the lists leaves the dispatch in order.   *)
LEMMA DispatchKept ==
  ASSUME DispatchInv, em \in Manager, em' \in Manager,
         disp.stage \in DispatchStages => Follows(em, em'),
         disp' = disp \/ disp' = [disp EXCEPT !.torn = TRUE]
  PROVE  DispatchInv'
<1>1. disp \in Dispatch
  BY DEF DispatchInv
<1>2. /\ disp' \in Dispatch
      /\ disp'.stage = disp.stage /\ disp'.path = disp.path /\ disp'.at = disp.at
      /\ disp'.i = disp.i /\ disp'.token = disp.token /\ disp'.last = disp.last
      /\ disp'.called = disp.called
  BY <1>1 DEF Dispatch
<1>3. ASSUME disp.stage \in DispatchStages
      PROVE  /\ PlaceOK' /\ CalledPassed' /\ LastPassed'
             /\ disp.last[2] < em'.token /\ \A t \in disp.called : t < em'.token
  <2>1. /\ PlaceOK /\ CalledPassed /\ LastPassed /\ Follows(em, em')
        /\ disp.last[2] < em.token /\ \A t \in disp.called : t < em.token
    BY <1>3 DEF DispatchInv
  <2>2. /\ Len(disp.path) \in Nat /\ disp.i \in Nat \ {0} /\ Element \in DomNodes
        /\ disp.last[2] \in Nat /\ Progress \in Nat
        /\ em.token \in Nat /\ em'.token \in Nat /\ em'.token >= em.token
        /\ disp.called \subseteq Nat
    BY <1>1, <1>3, <2>1, DispatchFields DEF Manager, Follows, Dispatch
  <2>3. Progress' = Progress /\ Element' = Element
    BY <1>2 DEF Progress, Element
  <2>4. PlaceOK'
    BY <1>2, <2>1 DEF PlaceOK
  <2>5. disp.last[2] < em'.token /\ \A t \in disp.called : t < em'.token
    <3>1. \A t \in Nat : t < em.token => t < em'.token
      BY <2>2
    <3> QED BY <2>1, <2>2, <3>1
  <2>6. ASSUME NEW n \in DomNodes, NEW k \in 1 .. Len(em'.listeners[n])
        PROVE  /\ em'.listeners[n][k].token \in Nat /\ k \in Nat
               /\ \/ \E q \in 1 .. Len(em.listeners[n]) :
                       q >= k /\ em'.listeners[n][k] = em.listeners[n][q]
                  \/ em'.listeners[n][k].token >= em.token
    <3>1. em'.listeners[n][k].token \in Nat /\ Len(em'.listeners[n]) \in Nat /\ Len(em.listeners[n]) \in Nat
      BY ManagerFields
    <3>2. \A q \in k .. Len(em.listeners[n]) : q \in 1 .. Len(em.listeners[n]) /\ q >= k
      BY <3>1
    <3> QED BY <2>1, <3>1, <3>2 DEF Follows
  <2>7. CalledPassed'
    <3> SUFFICES ASSUME NEW n \in DomNodes, NEW k \in 1 .. Len(em'.listeners[n]),
                        em'.listeners[n][k].token \in disp.called
        PROVE  \E j \in 1 .. Len(disp.path) :
                 /\ disp.path[j] = n
                 /\ \/ Turn(j, em'.listeners[n][k].capture) < Progress
                    \/ Turn(j, em'.listeners[n][k].capture) = Progress /\ k < disp.i
      BY <1>2, <2>3 DEF CalledPassed, Turn
    <3>1. ~(em'.listeners[n][k].token >= em.token)
      BY <2>1, <2>2
    <3>2. PICK q \in 1 .. Len(em.listeners[n]) : q >= k /\ em'.listeners[n][k] = em.listeners[n][q]
      BY <2>6, <3>1
    <3>3. PICK j \in 1 .. Len(disp.path) :
             /\ disp.path[j] = n
             /\ \/ Turn(j, em.listeners[n][q].capture) < Progress
                \/ Turn(j, em.listeners[n][q].capture) = Progress /\ q < disp.i
      BY <2>1, <3>2 DEF CalledPassed
    <3>4. q < disp.i => k < disp.i
      BY <2>2, <2>6, <3>2
    <3> QED BY <3>2, <3>3, <3>4
  <2>8. LastPassed'
    <3> SUFFICES ASSUME disp.last[1] = Progress,
                        NEW k \in disp.i .. Len(em'.listeners[Element])
        PROVE  disp.last[2] < em'.listeners[Element][k].token
      BY <1>2, <2>1, <2>3 DEF LastPassed
    <3>1. k \in 1 .. Len(em'.listeners[Element]) /\ k >= disp.i
      BY <2>2
    <3>2. CASE em'.listeners[Element][k].token >= em.token
      BY <2>1, <2>2, <2>6, <3>1, <3>2
    <3>3. CASE \E q \in 1 .. Len(em.listeners[Element]) :
                 q >= k /\ em'.listeners[Element][k] = em.listeners[Element][q]
      <4>1. PICK q \in 1 .. Len(em.listeners[Element]) :
                   q >= k /\ em'.listeners[Element][k] = em.listeners[Element][q]
        BY <3>3
      <4>2. q \in disp.i .. Len(em.listeners[Element])
        BY <2>2, <3>1, <4>1
      <4> QED BY <2>1, <4>1, <4>2 DEF LastPassed
    <3> QED BY <2>2, <2>6, <3>1, <3>2, <3>3
  <2> QED BY <2>4, <2>5, <2>7, <2>8
<1> QED BY <1>2, <1>3 DEF DispatchInv

LEMMA BeginInOrder ==
  ASSUME BindingsInv, DispatchInv, NEW target, NEW type \in EventTypes, BeginDispatch(target, type),
         target \in Made
  PROVE  DispatchInv'
<1> DEFINE path == PathFrom(target)
           len == Len(path)
           stage == IF len > 1 THEN "capture" ELSE "target capture"
<1>1. target \in DomNodes /\ em \in Manager /\ em' = em /\ em.token \in Nat \ {0}
  BY MadeInDom DEF BindingsInv, ListenersInv, Consistent, Manager, BeginDispatch
<1>2. Descends(path, target) /\ target # NoNode
  BY <1>1, PathDescends, NodesFinite DEF BindingsInv
<1>3. disp' = [NoDispatch EXCEPT !.path = path, !.type = type, !.i = 1, !.at = len, !.stage = stage]
  BY DEF BeginDispatch
<1>4. path \in Seq(DomNodes) /\ len \in Nat \ {0} /\ \A i, j \in 1 .. len : i < j => path[j] < path[i]
  BY <1>2 DEF Descends
<1>5. stage \in {"capture", "target capture"} /\ (stage = "capture" <=> len > 1)
  OBVIOUS
<1> HIDE DEF path, len, stage
<1>6. /\ disp'.stage = stage /\ disp'.path = path /\ disp'.at = len /\ disp'.i = 1
  BY <1>3 DEF NoDispatch
<1>12. disp'.last[1] = 0 /\ disp'.last[2] = 0
  BY <1>3 DEF NoDispatch
<1>13. disp'.called = {}
  BY <1>3 DEF NoDispatch
<1>7. disp' \in Dispatch
  BY <1>3, <1>4, <1>5 DEF NoDispatch, Dispatch, DispatchStages
<1>8. len = Len(path)
  BY DEF len
<1>9. PlaceOK'
  <2>1. \A i, j \in 1 .. len : i < j => path[j] < path[i]
    BY <1>4
  <2>2. len \in 1 .. len /\ (stage \in {"target capture", "target"} <=> len = 1)
    <3>1. len \in 1 .. len /\ (len = 1 <=> ~(len > 1))
      BY <1>4
    <3>2. stage \in {"target capture", "target"} <=> stage # "capture"
      BY <1>5
    <3> QED BY <1>5, <3>1, <3>2
  <2>3. /\ \A i, j \in 1 .. Len(disp'.path) : i < j => disp'.path[j] < disp'.path[i]
        /\ disp'.at \in 1 .. Len(disp'.path) /\ disp'.i # 0
    <3>1. 1 # 0
      OBVIOUS
    <3> QED BY <1>6, <1>8, <2>1, <2>2, <3>1
  <2>4. disp'.stage \in {"target capture", "target"} <=> disp'.at = 1
    BY <1>6, <2>2
  <2> QED BY <2>3, <2>4 DEF PlaceOK
<1>10. CalledPassed'
  BY <1>13 DEF CalledPassed
<1>11. LastPassed'
  <2>1. Element' \in DomNodes
    <3>1. len \in 1 .. Len(path)
      BY <1>4, <1>8
    <3>2. path[len] \in DomNodes
      BY <1>4, <3>1, ElementOfSeq
    <3> QED BY <1>6, <3>2 DEF Element
  <2>2. ASSUME NEW k \in 1 .. Len(em.listeners[Element']) PROVE 0 < em.listeners[Element'][k].token
    BY <1>1, <2>1, <2>2 DEF BindingsInv, ListenersInv, Consistent, TokensOrdered
  <2>3. Progress' \in Nat
    <3>1. len \in Nat /\ len - len = 0
      BY <1>4
    <3>2. disp'.stage = stage /\ disp'.at = len /\ Len(disp'.path) = len
      BY <1>6, <1>8
    <3>3. Progress' \in {len - len, len}
      BY <1>5, <3>2 DEF Progress
    <3> QED BY <3>1, <3>3
  <2>4. disp'.last[1] = 0 /\ disp'.last[2] = 0 /\ disp'.i = 1 /\ em' = em
    BY <1>1, <1>6, <1>12
  <2>5. disp'.last[1] <= Progress'
    BY <2>3, <2>4
  <2>6. \A k \in disp'.i .. Len(em'.listeners[Element']) : disp'.last[2] < em'.listeners[Element'][k].token
    BY <2>2, <2>4
  <2> QED BY <2>5, <2>6 DEF LastPassed
<1> QED
  <2>1. disp'.stage \in DispatchStages
    BY <1>5, <1>6 DEF DispatchStages
  <2>2. disp'.last[2] < em'.token /\ \A t \in disp'.called : t < em'.token
    BY <1>1, <1>12, <1>13
  <2> QED BY <1>7, <1>9, <1>10, <1>11, <2>1, <2>2 DEF DispatchInv

(* What CallHandler finds: a listener not called before whose turn it is.  *)
LEMMA NextWanted ==
  ASSUME BindingsInv, DispatchInv, disp.stage \in DispatchStages, Wanted # {}
  PROVE  LET i == FirstOf(Wanted)
             l == em.listeners[Element][i]
         IN  /\ i \in Wanted /\ i \in 1 .. Len(em.listeners[Element]) /\ i >= disp.i /\ i \in Nat
             /\ l \in Listener /\ l.token \in Nat \ {0} /\ l.token < em.token
             /\ l.token \notin disp.called
             /\ Turn(disp.at, l.capture) = Progress
             /\ disp.last[1] = Progress => disp.last[2] < l.token
<1> DEFINE s == em.listeners[Element]
           i == FirstOf(Wanted)
           l == s[i]
<1>1. /\ em \in Manager /\ TokensOrdered(em) /\ PlaceOK /\ CalledPassed /\ LastPassed
      /\ em.token \in Nat
  BY DEF BindingsInv, ListenersInv, Consistent, DispatchInv, Manager
<1>2. /\ disp.i \in Nat \ {0} /\ Element \in DomNodes /\ s \in Seq(Listener) /\ Len(s) \in Nat
      /\ disp.at \in 1 .. Len(disp.path) /\ Len(disp.path) \in Nat /\ disp.path \in Seq(DomNodes)
      /\ Progress \in Nat
  BY <1>1, DispatchFields
<1>3. i \in Wanted
  <2>1. disp.i \in Nat /\ \A x \in Wanted : x \in disp.i .. Len(s)
    BY <1>2 DEF Wanted
  <2> HIDE DEF s
  <2>2. Wanted \in SUBSET Nat
    <3>1. \A x \in disp.i .. Len(s) : x \in Nat
      BY <2>1
    <3> QED BY <2>1, <3>1
  <2> QED BY <2>2, FirstIsLeast
<1> HIDE DEF i
<1>4. /\ i \in disp.i .. Len(s) /\ (l.capture <=> disp.stage \in {"capture", "target capture"})
  BY <1>3 DEF Wanted
<1> HIDE DEF s
<1>5. i \in 1 .. Len(s) /\ i >= disp.i /\ i \in Nat
  <2>1. disp.i \in Nat \ {0} /\ i \in disp.i .. Len(s)
    BY <1>2, <1>4
  <2> QED BY <2>1
<1>6. l \in Listener /\ l.capture \in BOOLEAN
  <2>1. s[i] \in Listener
    BY <1>2, <1>5, ElementOfSeq
  <2> QED BY <2>1 DEF Listener
<1>7. l.token \in Nat \ {0} /\ l.token < em.token
  <2>1. l.token \in 1 .. em.token - 1
    BY <1>1, <1>2, <1>5 DEF TokensOrdered, s
  <2> QED BY <1>1, <2>1
<1>8. Turn(disp.at, l.capture) = Progress
  BY <1>1, <1>4, <1>6, TurnIsNow
<1>9. disp.last[1] = Progress => disp.last[2] < l.token
  BY <1>1, <1>4 DEF LastPassed, s
<1>10. l.token \notin disp.called
  <2> SUFFICES ASSUME l.token \in disp.called PROVE FALSE
    OBVIOUS
  <2>1. PICK j \in 1 .. Len(disp.path) :
           /\ disp.path[j] = Element
           /\ Turn(j, l.capture) < Progress \/ (Turn(j, l.capture) = Progress /\ i < disp.i)
    BY <1>1, <1>2, <1>5 DEF CalledPassed, s
  <2>2. j = disp.at
    <3>1. disp.path[disp.at] = Element /\ Element \in Nat
      BY <1>2, DomAssumption DEF Element, DomNodes
    <3>2. \A g, h \in 1 .. Len(disp.path) : g < h => disp.path[h] < disp.path[g]
      BY <1>1 DEF PlaceOK
    <3>3. ASSUME NEW g \in 1 .. Len(disp.path), NEW h \in 1 .. Len(disp.path), g < h
          PROVE  disp.path[g] # disp.path[h]
      <4>1. disp.path[g] \in Nat /\ disp.path[h] < disp.path[g]
        BY <1>2, <3>2, <3>3, ElementOfSeq, DomAssumption DEF DomNodes
      <4> QED BY <4>1
    <3>4. ~(j < disp.at) /\ ~(disp.at < j)
      BY <1>2, <2>1, <3>1, <3>3
    <3>5. disp.at \in 1 .. Len(disp.path) /\ Len(disp.path) \in Nat
      BY <1>2
    <3> QED BY <3>4, <3>5
  <2> QED BY <1>2, <1>5, <1>8, <2>1, <2>2
<1> QED
  BY <1>3, <1>5, <1>6, <1>7, <1>8, <1>9, <1>10 DEF s, i

LEMMA CallInOrder ==
  ASSUME BindingsInv, DispatchInv, CallHandler
  PROVE  DispatchInv'
<1> DEFINE i == FirstOf(Wanted)
           l == em.listeners[Element][i]
<1>1. /\ disp \in Dispatch /\ disp.stage \in DispatchStages /\ Wanted # {} /\ em' = em
      /\ disp' = [disp EXCEPT !.i = i + 1, !.token = l.token, !.fn = l.fn,
                              !.last = <<Progress, l.token>>, !.called = @ \cup {l.token}]
  BY DEF CallHandler, Firing, DispatchInv, Dispatch
<1>2. /\ i \in Wanted /\ i \in 1 .. Len(em.listeners[Element]) /\ i >= disp.i /\ i \in Nat
      /\ l \in Listener /\ l.token \in Nat \ {0} /\ l.token < em.token
      /\ l.token \notin disp.called
      /\ Turn(disp.at, l.capture) = Progress
      /\ disp.last[1] = Progress => disp.last[2] < l.token
  BY <1>1, NextWanted
<1> HIDE DEF i, l
<1>3. /\ em \in Manager /\ TokensOrdered(em) /\ TokensUnique(em) /\ PlaceOK /\ CalledPassed
      /\ disp.last[2] < em.token /\ \A t \in disp.called : t < em.token
  BY <1>1 DEF BindingsInv, ListenersInv, Consistent, DispatchInv
<1>4. Progress \in Nat /\ Element \in DomNodes /\ disp.at \in 1 .. Len(disp.path) /\ disp.i \in Nat
  BY <1>1, <1>3, DispatchFields
<1>5. l.fn \in Functions \cup {"host"} /\ <<Progress, l.token>> \in Nat \X Nat /\ i + 1 \in Nat
  BY <1>2, <1>4 DEF Listener
<1>6. disp' \in Dispatch
  <2> DEFINE last == <<Progress, l.token>>
             called == disp.called \cup {l.token}
  <2>1. called \in SUBSET Nat /\ last \in Nat \X Nat
    BY <1>1, <1>2, <1>5 DEF Dispatch
  <2>2. disp' = [disp EXCEPT !.i = i + 1, !.token = l.token, !.fn = l.fn, !.last = last, !.called = called]
    BY <1>1 DEF Dispatch
  <2> HIDE DEF last, called
  <2> QED BY <1>1, <1>2, <1>5, <2>1, <2>2 DEF Dispatch
<1>7. /\ disp'.stage = disp.stage /\ disp'.path = disp.path /\ disp'.at = disp.at
      /\ disp'.i = i + 1 /\ disp'.token = l.token
  BY <1>1 DEF Dispatch
<1>8. disp'.last[1] = Progress /\ disp'.last[2] = l.token
  BY <1>1 DEF Dispatch
<1>9. disp'.called = disp.called \cup {l.token}
  BY <1>1 DEF Dispatch
<1>10. Progress' = Progress /\ Element' = Element
  BY <1>7 DEF Progress, Element
<1>11. PlaceOK'
  <2>1. i + 1 # 0
    BY <1>2
  <2> QED BY <1>3, <1>7, <2>1 DEF PlaceOK
<1>12. CalledPassed'
  <2> SUFFICES ASSUME NEW n \in DomNodes, NEW k \in 1 .. Len(em.listeners[n]),
                      em.listeners[n][k].token \in disp.called \cup {l.token}
      PROVE  \E j \in 1 .. Len(disp.path) :
               /\ disp.path[j] = n
               /\ \/ Turn(j, em.listeners[n][k].capture) < Progress
                  \/ Turn(j, em.listeners[n][k].capture) = Progress /\ k < i + 1
    BY <1>1, <1>7, <1>9, <1>10 DEF CalledPassed, Turn
  <2>1. CASE em.listeners[n][k].token \in disp.called
    <3>1. PICK j \in 1 .. Len(disp.path) :
             /\ disp.path[j] = n
             /\ \/ Turn(j, em.listeners[n][k].capture) < Progress
                \/ Turn(j, em.listeners[n][k].capture) = Progress /\ k < disp.i
      BY <1>3, <2>1 DEF CalledPassed
    <3>2. k < disp.i => k < i + 1
      BY <1>2, <1>4
    <3> QED BY <3>1, <3>2
  <2>2. CASE em.listeners[n][k].token = l.token
    <3>1. n = Element
      BY <1>2, <1>3, <1>4, <2>2 DEF TokensUnique, l
    <3>2. k = i
      <4>1. em.listeners[n][k].token \in Nat
        BY <1>2, <2>2
      <4>2. ~(k < i) /\ ~(i < k)
        <5>1. k < i => em.listeners[n][k].token < l.token
          BY <1>2, <1>3, <1>4, <3>1 DEF TokensOrdered, l
        <5>2. i < k => l.token < em.listeners[n][k].token
          BY <1>2, <1>3, <1>4, <3>1 DEF TokensOrdered, l
        <5> QED BY <2>2, <4>1, <5>1, <5>2
      <4> QED BY <1>2, <4>2
    <3>3. em.listeners[n][k] = l
      BY <3>1, <3>2 DEF l
    <3>4. disp.path[disp.at] = n /\ k < i + 1
      BY <1>2, <3>1, <3>2 DEF Element
    <3> QED BY <1>2, <1>4, <3>3, <3>4
  <2> QED BY <2>1, <2>2
<1>13. LastPassed'
  <2>1. ASSUME NEW k \in i + 1 .. Len(em.listeners[Element])
        PROVE  l.token < em.listeners[Element][k].token
    <3>1. k \in 1 .. Len(em.listeners[Element]) /\ i < k
      BY <1>2
    <3> QED BY <1>2, <1>3, <1>4, <3>1 DEF TokensOrdered, l
  <2>2. disp'.last[1] <= Progress'
    BY <1>4, <1>8, <1>10
  <2>3. \A k \in disp'.i .. Len(em'.listeners[Element']) : disp'.last[2] < em'.listeners[Element'][k].token
    BY <1>1, <1>7, <1>8, <1>10, <2>1
  <2> QED BY <2>2, <2>3 DEF LastPassed
<1>14. disp'.last[2] < em'.token /\ \A t \in disp'.called : t < em'.token
  BY <1>1, <1>2, <1>3, <1>8, <1>9
<1> QED BY <1>1, <1>6, <1>7, <1>11, <1>12, <1>13, <1>14 DEF DispatchInv

LEMMA IdleInOrder ==
  ASSUME disp' \in {NoDispatch, [NoDispatch EXCEPT !.stage = "crashed"]}
  PROVE  DispatchInv'
<1>1. disp'.token = 0 /\ disp'.stage \notin DispatchStages
  <2>1. CASE disp' = NoDispatch
    <3>1. disp'.token = 0 /\ disp'.stage = "idle"
      BY <2>1 DEF NoDispatch
    <3> QED BY <3>1 DEF DispatchStages
  <2>2. CASE disp' = [NoDispatch EXCEPT !.stage = "crashed"]
    <3>1. disp'.token = 0 /\ disp'.stage = "crashed"
      BY <2>2 DEF NoDispatch
    <3> QED BY <3>1 DEF DispatchStages
  <2> QED BY <2>1, <2>2
<1>2. <<>> \in Seq(DomNodes) /\ <<0, 0>> \in Nat \X Nat /\ {} \in SUBSET Nat
  BY EmptySeq
<1>3. NoDispatch \in Dispatch
  BY <1>2 DEF NoDispatch, Dispatch
<1>4. disp' \in Dispatch
  BY <1>3 DEF Dispatch
<1> QED BY <1>1, <1>4 DEF DispatchInv

(* The dispatch goes to a later place.                                     *)
Moved ==
  /\ disp' \in Dispatch /\ disp'.stage \in DispatchStages /\ disp'.path = disp.path
  /\ disp'.last = disp.last /\ disp'.called = disp.called /\ disp'.i = 1
  /\ disp'.at \in 1 .. Len(disp.path)
  /\ disp'.stage \in {"target capture", "target"} <=> disp'.at = 1
  /\ Progress' \in Nat /\ Progress < Progress'

LEMMA MovedInOrder ==
  ASSUME BindingsInv, DispatchInv, disp.stage \in DispatchStages, em' = em, Moved
  PROVE  DispatchInv'
<1>1. /\ em \in Manager /\ PlaceOK /\ CalledPassed /\ LastPassed
      /\ disp.last[2] < em.token /\ \A t \in disp.called : t < em.token
  BY DEF BindingsInv, ListenersInv, Consistent, DispatchInv
<1>2. Progress \in Nat /\ disp.last[1] \in Nat /\ Len(disp.path) \in Nat
  BY <1>1, DispatchFields
<1>3. PlaceOK'
  <2>1. 1 # 0
    OBVIOUS
  <2> QED BY <1>1, <2>1 DEF PlaceOK, Moved
<1>4. ASSUME NEW j \in 1 .. Len(disp.path), NEW capture PROVE Turn(j, capture) \in Int
  <2> DEFINE len == Len(disp.path)
  <2>1. len \in Nat /\ j \in Int
    BY <1>2
  <2> HIDE DEF len
  <2>2. len - j \in Int /\ len + j \in Int /\ len \in Int
    BY <2>1
  <2>3. Turn(j, capture) \in {len, len - j, len + j}
    BY DEF Turn, len
  <2> QED BY <2>2, <2>3
<1>5. CalledPassed'
  <2> SUFFICES ASSUME NEW n \in DomNodes, NEW k \in 1 .. Len(em.listeners[n]),
                      em.listeners[n][k].token \in disp.called
      PROVE  \E j \in 1 .. Len(disp.path) :
               disp.path[j] = n /\ Turn(j, em.listeners[n][k].capture) < Progress'
    <3>1. disp'.path = disp.path /\ disp'.called = disp.called
      BY DEF Moved
    <3> QED BY <3>1 DEF CalledPassed, Turn
  <2>1. PICK j \in 1 .. Len(disp.path) :
           /\ disp.path[j] = n
           /\ \/ Turn(j, em.listeners[n][k].capture) < Progress
              \/ Turn(j, em.listeners[n][k].capture) = Progress
    BY <1>1 DEF CalledPassed
  <2>3. Progress' \in Nat /\ Progress < Progress'
    BY DEF Moved
  <2>2. Turn(j, em.listeners[n][k].capture) \in Int
    BY <1>4
  <2> QED BY <1>2, <2>1, <2>2, <2>3
<1>6. LastPassed'
  <2>1. disp.last[1] <= Progress
    BY <1>1 DEF LastPassed
  <2>2. disp.last[1] <= Progress' /\ disp.last[1] # Progress' /\ disp'.last = disp.last
    <3>1. Progress' \in Nat /\ Progress < Progress' /\ disp'.last = disp.last
      BY DEF Moved
    <3> QED BY <1>2, <2>1, <3>1
  <2> QED BY <2>2 DEF LastPassed
<1> QED BY <1>1, <1>3, <1>5, <1>6 DEF DispatchInv, Moved

(* Stages and elements come in their order.                                *)
SamePlace(d) ==
  /\ d \in Dispatch /\ d.stage = disp.stage /\ d.path = disp.path /\ d.at = disp.at
  /\ d.last = disp.last /\ d.called = disp.called

LEMMA NextStageInOrder ==
  ASSUME BindingsInv, DispatchInv, disp.stage \in DispatchStages, em' = em,
         NEW d, SamePlace(d), disp' = NextStage(d)
  PROVE  DispatchInv'
<1> DEFINE len == Len(disp.path)
           at == disp.at
           To(a, s) == [d EXCEPT !.at = a, !.i = 1, !.stage = s]
<1>1. em \in Manager /\ (disp.stage \in {"target capture", "target"} <=> at = 1)
  BY DEF BindingsInv, ListenersInv, Consistent, DispatchInv, PlaceOK
<1>2. len \in Nat /\ at \in 1 .. len
  BY <1>1, DispatchFields
<1>3. Len(disp.path) = len /\ disp.at = at
  OBVIOUS
<1>4. d \in Dispatch /\ d.stage = disp.stage /\ d.at = at /\ Len(d.path) = len
  BY DEF SamePlace
<1> HIDE DEF len, at
<1>5. Progress = CASE disp.stage = "capture"        -> len - at
                   [] disp.stage = "target capture" -> len
                   [] disp.stage = "target"         -> len + 1
                   [] OTHER                         -> len + at
  BY <1>3 DEF Progress
<1>6. ASSUME NEW a \in 1 .. len, NEW stage \in DispatchStages, disp' = To(a, stage),
             stage \in {"target capture", "target"} <=> a = 1,
             NEW progress \in Nat, Progress < progress,
             progress = CASE stage = "capture"        -> len - a
                          [] stage = "target capture" -> len
                          [] stage = "target"         -> len + 1
                          [] OTHER                    -> len + a
      PROVE  DispatchInv'
  <2>1. /\ disp' \in Dispatch /\ disp'.stage = stage /\ disp'.at = a /\ disp'.i = 1
        /\ disp'.path = d.path /\ disp'.last = d.last /\ disp'.called = d.called
    <3>1. a \in Nat
      BY <1>2
    <3>2. disp' = To(a, stage)
      BY <1>6
    <3>3. LET e == To(a, stage)
          IN  /\ e \in Dispatch /\ e.stage = stage /\ e.at = a /\ e.i = 1
              /\ e.path = d.path /\ e.last = d.last /\ e.called = d.called
      <4>1. d \in Dispatch
        BY <1>4
      <4> QED BY <3>1, <4>1 DEF Dispatch
    <3> HIDE DEF To
    <3> QED BY <3>2, <3>3
  <2>2. disp'.path = disp.path /\ disp'.last = disp.last /\ disp'.called = disp.called
    BY <2>1 DEF SamePlace
  <2>3. Progress' = progress
    BY <1>3, <1>6, <2>1, <2>2 DEF Progress
  <2> HIDE DEF To
  <2>4. Moved
    BY <1>3, <1>6, <2>1, <2>2, <2>3 DEF Moved
  <2> QED BY <2>4, MovedInOrder
<1>7. CASE disp.stage = "capture" /\ at > 2
  <2>1. disp' = [d EXCEPT !.at = at - 1, !.i = 1]
    <3>1. ~(at <= 2)
      BY <1>2, <1>7
    <3> QED BY <1>4, <1>7, <3>1 DEF NextStage
  <2>2. disp' = To(at - 1, "capture")
    BY <1>4, <1>7, <2>1 DEF Dispatch
  <2>3. at - 1 \in 1 .. len /\ at - 1 # 1 /\ len - (at - 1) \in Nat /\ len - at < len - (at - 1)
    BY <1>2, <1>7
  <2>4. Progress = len - at
    BY <1>5, <1>7
  <2>5. Progress < len - (at - 1)
    BY <2>3, <2>4
  <2> HIDE DEF To
  <2> QED BY <1>6, <2>2, <2>3, <2>5 DEF DispatchStages
<1>8. CASE disp.stage = "capture" /\ ~(at > 2)
  <2>1. disp' = [d EXCEPT !.at = 1, !.i = 1, !.stage = "target capture"]
    <3>1. at <= 2
      BY <1>2, <1>8
    <3> QED BY <1>4, <1>8, <3>1 DEF NextStage
  <2>2. 1 \in 1 .. len /\ len - at < len
    BY <1>2
  <2>3. Progress = len - at
    BY <1>5, <1>8
  <2>4. Progress < len
    BY <2>2, <2>3
  <2>5. disp' = To(1, "target capture")
    BY <2>1
  <2> HIDE DEF To
  <2> QED BY <1>2, <1>6, <2>2, <2>4, <2>5 DEF DispatchStages
<1>9. CASE disp.stage = "target capture"
  <2>1. disp' = [d EXCEPT !.i = 1, !.stage = "target"]
    BY <1>4, <1>9 DEF NextStage
  <2>2. at = 1
    BY <1>1, <1>9
  <2>3. disp' = To(at, "target")
    BY <1>4, <1>9, <2>1 DEF Dispatch
  <2>4. len + 1 \in Nat /\ len < len + 1
    BY <1>2
  <2>5. Progress = len
    BY <1>5, <1>9
  <2>6. Progress < len + 1
    BY <2>4, <2>5
  <2> HIDE DEF To
  <2> QED BY <1>2, <1>6, <2>2, <2>3, <2>4, <2>6 DEF DispatchStages
<1>10. CASE disp.stage \in {"target", "bubble"} /\ at < len
  <2>1. disp' = [d EXCEPT !.at = at + 1, !.i = 1, !.stage = "bubble"]
    BY <1>4, <1>10 DEF NextStage
  <2>2. /\ at + 1 \in 1 .. len /\ at + 1 # 1 /\ len + (at + 1) \in Nat
        /\ len + at < len + (at + 1)
    BY <1>2, <1>10
  <2>3. Progress = len + at
    <3>1. disp.stage = "target" => at = 1
      BY <1>1
    <3> QED BY <1>5, <1>10, <3>1
  <2>4. Progress < len + (at + 1)
    BY <2>2, <2>3
  <2>5. disp' = To(at + 1, "bubble")
    BY <2>1
  <2> HIDE DEF To
  <2> QED BY <1>6, <2>2, <2>4, <2>5 DEF DispatchStages
<1>11. CASE disp.stage \in {"target", "bubble"} /\ ~(at < len)
  <2>1. disp' = NoDispatch
    BY <1>4, <1>11 DEF NextStage
  <2> QED BY <2>1, IdleInOrder
<1> QED BY <1>7, <1>8, <1>9, <1>10, <1>11 DEF DispatchStages

LEMMA ReturnInOrder ==
  ASSUME BindingsInv, DispatchInv, HandlerReturns
  PROVE  DispatchInv'
<1> DEFINE back == [disp EXCEPT !.token = 0, !.torn = FALSE]
<1>1. disp \in Dispatch /\ disp.stage \in DispatchStages /\ em' = em /\ em \in Manager
  BY DEF HandlerReturns, Running, DispatchInv, BindingsInv, ListenersInv, Consistent
<1>2. /\ back \in Dispatch /\ back.stage = disp.stage /\ back.path = disp.path /\ back.at = disp.at
      /\ back.i = disp.i /\ back.last = disp.last /\ back.called = disp.called
  BY <1>1 DEF Dispatch
<1>3. \/ disp' = back
      \/ disp' = NextStage(back)
      \/ disp' \in {NoDispatch, [NoDispatch EXCEPT !.stage = "crashed"]}
  BY DEF HandlerReturns
<1> HIDE DEF back
<1>4. ASSUME disp' = back PROVE DispatchInv'
  <2>1. PlaceOK /\ CalledPassed /\ LastPassed /\ disp.last[2] < em.token /\ \A t \in disp.called : t < em.token
    BY <1>1 DEF DispatchInv
  <2>2. Progress' = Progress /\ Element' = Element
    BY <1>2, <1>4 DEF Progress, Element
  <2>3. PlaceOK'
    BY <1>2, <1>4, <2>1 DEF PlaceOK
  <2>4. CalledPassed'
    BY <1>1, <1>2, <1>4, <2>1, <2>2 DEF CalledPassed, Turn
  <2>5. LastPassed'
    BY <1>1, <1>2, <1>4, <2>1, <2>2 DEF LastPassed
  <2> QED BY <1>1, <1>2, <1>4, <2>1, <2>3, <2>4, <2>5 DEF DispatchInv
<1>5. ASSUME disp' = NextStage(back) PROVE DispatchInv'
  <2>1. SamePlace(back)
    BY <1>2 DEF SamePlace
  <2> QED BY <1>1, <1>5, <2>1, NextStageInOrder
<1> QED BY <1>3, <1>4, <1>5, IdleInOrder

LEMMA DispatchStep ==
  ASSUME BindingsInv, DispatchInv, DispatchSteps
  PROVE  DispatchInv'
<1>1. ASSUME ListenersDone PROVE DispatchInv'
  <2>1. disp.stage \in DispatchStages /\ em' = em /\ disp' = NextStage(disp) /\ disp \in Dispatch
    BY <1>1 DEF ListenersDone, Firing, DispatchInv, Dispatch
  <2>2. SamePlace(disp)
    BY <2>1 DEF SamePlace
  <2> QED BY <2>1, <2>2, NextStageInOrder
<1> QED BY <1>1, BeginInOrder, CallInOrder, ReturnInOrder DEF DispatchSteps

LEMMA OthersInOrder ==
  ASSUME BindingsInv, DispatchInv, [~Crashed /\ (ScriptCalls \/ InnerSteps \/ HostCalls)]_<<domVars, bindingVars>>
  PROVE  /\ DispatchInv'
         /\ disp'.token = disp.token
<1>1. em \in Manager /\ em' \in Manager /\ (disp.stage \in DispatchStages => Follows(em, em'))
  <2>1. BindingsInv' /\ BindingsStep
    BY BindingsPreserved DEF BindingsNext, domVars, bindingVars
  <2> QED BY <2>1 DEF BindingsInv, BindingsStep, ListenersStep, ListenersInv, Consistent
<1>2. disp' = disp \/ disp' = [disp EXCEPT !.torn = TRUE]
  <2>1. ScriptCalls => disp' = disp \/ disp' = [disp EXCEPT !.torn = TRUE]
    BY DEF ScriptCalls, DocGetElementById, ElementGetChildren, ElementSetTextContent, ElementSetAttribute,
           StyleSetProp, ElementSetInnerHTML, ElementRemoveEverything, ElementRemoveType,
           ElementAddEventListener, ElementRemoveEventListener, TornBy
  <2>2. InnerSteps => disp' = disp
    BY DEF InnerSteps, ClearChild, CloneElement, CloseClone, CloneText, SkipComment, InnerDone, Cloning, Inner
  <2>3. HostCalls => disp' = disp
    BY DEF HostCalls, Bind, Unbind, DestroyManager, CreateManager, HostAddsListener
  <2> QED BY <2>1, <2>2, <2>3 DEF bindingVars
<1>3. disp'.token = disp.token
  BY <1>2 DEF DispatchInv, Dispatch
<1> QED BY <1>1, <1>2, <1>3, DispatchKept

(* However handlers change the lists a dispatch walks, it calls handlers   *)
(* in the order of stages and elements, on an element in the order they    *)
(* were added, and none twice.                                             *)
THEOREM EventsInOrder == ScriptSpec => DispatchOrdered
<1> DEFINE Inv == BindingsInv /\ DispatchInv
           Ordered == /\ disp'.token \notin disp.called
                      /\ \/ disp'.last[1] > disp.last[1]
                         \/ disp'.last[1] = disp.last[1] /\ disp'.last[2] > disp.last[2]
<1>1. ScriptInit => Inv
  <2> SUFFICES ASSUME ScriptInit PROVE DispatchInv
    BY ScriptBegins
  <2>1. disp = NoDispatch
    BY DEF ScriptInit, BindingsInit
  <2>2. disp.token = 0 /\ disp.stage = "idle"
    BY <2>1 DEF NoDispatch
  <2>3. <<>> \in Seq(DomNodes) /\ <<0, 0>> \in Nat \X Nat /\ {} \in SUBSET Nat
    BY EmptySeq
  <2>4. disp \in Dispatch
    BY <2>1, <2>3 DEF NoDispatch, Dispatch
  <2> QED BY <2>2, <2>4 DEF DispatchInv, DispatchStages
<1>2. Inv /\ [BindingsNext]_<<domVars, bindingVars>> => Inv'
  BY BindingsPreserved, DispatchStep, OthersInOrder DEF BindingsNext
<1>3. ASSUME Inv, CallHandler PROVE Ordered
  <2> DEFINE i == FirstOf(Wanted)
             l == em.listeners[Element][i]
  <2>1. /\ disp \in Dispatch /\ disp.stage \in DispatchStages /\ Wanted # {}
        /\ disp' = [disp EXCEPT !.i = i + 1, !.token = l.token, !.fn = l.fn,
                                !.last = <<Progress, l.token>>, !.called = @ \cup {l.token}]
    BY <1>3 DEF CallHandler, Firing, DispatchInv, Dispatch
  <2>2. /\ l.token \in Nat \ {0} /\ l.token \notin disp.called
        /\ disp.last[1] = Progress => disp.last[2] < l.token
    BY <1>3, <2>1, NextWanted
  <2> HIDE DEF i, l
  <2>3. disp'.token = l.token /\ disp'.last[1] = Progress /\ disp'.last[2] = l.token
    BY <2>1 DEF Dispatch
  <2>4. Progress \in Nat /\ disp.last[1] \in Nat /\ disp.last[2] \in Nat /\ disp.last[1] <= Progress
    BY <1>3, <2>1, DispatchFields DEF BindingsInv, ListenersInv, Consistent, DispatchInv, LastPassed
  <2>5. Progress > disp.last[1] \/ (Progress = disp.last[1] /\ l.token > disp.last[2])
    BY <2>2, <2>4
  <2> QED BY <2>2, <2>3, <2>5
<1>4. ASSUME Inv, [BindingsNext]_<<domVars, bindingVars>>, ~Running, disp'.token # 0
      PROVE  Ordered \/ disp' = disp
  <2>1. CASE CallHandler
    BY <1>3, <1>4, <2>1
  <2>2. disp.token = 0
    BY <1>4 DEF Running
  <2>3. CASE [~Crashed /\ (ScriptCalls \/ InnerSteps \/ HostCalls)]_<<domVars, bindingVars>>
    BY <1>4, <2>2, <2>3, OthersInOrder
  <2>4. ASSUME NEW target, NEW type, BeginDispatch(target, type) PROVE disp'.token = 0
    BY <2>4 DEF BeginDispatch, NoDispatch
  <2>5. NextStage(disp).token = 0
    <3>1. disp \in Dispatch
      BY <1>4 DEF DispatchInv
    <3> DEFINE down   == [disp EXCEPT !.at = @ - 1, !.i = 1]
               target == [disp EXCEPT !.at = 1, !.i = 1, !.stage = "target capture"]
               again  == [disp EXCEPT !.i = 1, !.stage = "target"]
               up     == [disp EXCEPT !.at = @ + 1, !.i = 1, !.stage = "bubble"]
    <3>2. NextStage(disp) \in {down, target, again, up, NoDispatch}
      BY DEF NextStage
    <3>3. /\ down.token = disp.token /\ target.token = disp.token /\ again.token = disp.token
          /\ up.token = disp.token /\ NoDispatch.token = 0
      BY <3>1 DEF Dispatch, NoDispatch
    <3> HIDE DEF down, target, again, up
    <3> QED BY <2>2, <3>2, <3>3
  <2>6. ~HandlerReturns
    BY <1>4 DEF HandlerReturns
  <2> QED
    BY <1>4, <2>1, <2>3, <2>4, <2>5, <2>6 DEF BindingsNext, DispatchSteps, ListenersDone
<1>5. Inv /\ [BindingsNext]_<<domVars, bindingVars>> =>
        [~Running /\ disp'.token # 0 => Ordered]_disp
  BY <1>4
<1> QED BY <1>1, <1>2, <1>5, PTL DEF ScriptSpec, DispatchOrdered
=============================================================================
