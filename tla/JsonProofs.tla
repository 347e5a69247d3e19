----------------------------- MODULE JsonProofs -----------------------------
(***************************************************************************)
(* The memory of the parser, for every text, every depth and every point   *)
(* at which an allocation is refused: module JsonParser.                   *)
(***************************************************************************)
EXTENDS JsonParser, FiniteSetTheorems, SequenceTheorems, WellFoundedInduction, TLAPS

Fields == {"type", "value", "valuestring", "string", "child", "next", "prev"}

IsHeap(h) ==
  /\ IsFiniteSet(DOMAIN h) /\ DOMAIN h \subseteq Nat \ {0}
  /\ \A a \in DOMAIN h : DOMAIN h[a] = Fields

-----------------------------------------------------------------------------
(* The links of a heap.  The items that are in use hang on the anchors: on  *)
(* the root and on the lists under construction.  Two maps go with a heap:  *)
(* o says on which anchor an item hangs, l which item is the head of its    *)
(* list.                                                                    *)

Links(h, a) == {h[a].child, h[a].next} \ {NULL}

(* Every item has an anchor and a head, which hangs there too. *)
Mapped(h, A, o, l) ==
  /\ A \subseteq DOMAIN h
  /\ \A a \in DOMAIN h : o[a] \in A /\ l[a] \in DOMAIN h /\ o[l[a]] = o[a]
  /\ \A a \in A : o[a] = a /\ l[a] = a

(* What hangs on an item is in use and no anchor, but has the same one. *)
Hanging(h, A, o) ==
  \A a \in DOMAIN h : \A b \in Links(h, a) : b \in DOMAIN h /\ b \notin A /\ o[b] = o[a]

(* Nothing hangs twice. *)
Single(h) ==
  \A a, b \in DOMAIN h :
    /\ h[a].child = h[b].child /\ h[a].child # NULL => a = b
    /\ h[a].next = h[b].next /\ h[a].next # NULL => a = b
    /\ h[a].child = h[b].next => h[a].child = NULL

(* Everything hangs on an anchor. *)
Reached(h, A) ==
  \A S \in SUBSET DOMAIN h : A \subseteq S /\ Closure(h, S) => S = DOMAIN h

(* The lists, and those that are complete. *)
Listed(h, l) ==
  \A a \in DOMAIN h :
    /\ h[a].next # NULL => l[h[a].next] = l[a] /\ h[h[a].next].prev = a
    /\ h[a].child # NULL =>
         /\ l[h[a].child] = h[a].child
         /\ h[h[a].child].prev \in DOMAIN h
         /\ h[h[h[a].child].prev].next = NULL
         /\ l[h[h[a].child].prev] = h[a].child

Shape(h, A, o, l) ==
  /\ Mapped(h, A, o, l)
  /\ Hanging(h, A, o)
  /\ Single(h)
  /\ Reached(h, A)
  /\ Listed(h, l)

SameLinks(h, g) ==
  /\ DOMAIN g = DOMAIN h
  /\ \A a \in DOMAIN h :
       g[a].child = h[a].child /\ g[a].next = h[a].next /\ g[a].prev = h[a].prev

(* What an item carries besides its links does not matter to the shape. *)
LEMMA ShapeOfLinks ==
  ASSUME NEW h, NEW g, NEW A, NEW o, NEW l, SameLinks(h, g), Shape(h, A, o, l)
  PROVE  Shape(g, A, o, l)
<1>1. Mapped(g, A, o, l)
  BY DEF Mapped, Shape, SameLinks
<1>2. Hanging(g, A, o)
  BY DEF Hanging, Shape, SameLinks, Links
<1>3. Single(g)
  BY DEF Single, Shape, SameLinks
<1>4. Reached(g, A)
  BY DEF Reached, Closure, Shape, SameLinks
<1>5. Listed(g, l)
  <2>1. \A a \in DOMAIN h : h[a].next # NULL => h[a].next \in DOMAIN h
    BY DEF Hanging, Links, Shape
  <2>2. \A a \in DOMAIN h : h[a].child # NULL => h[a].child \in DOMAIN h
    BY DEF Hanging, Links, Shape
  <2> QED
    BY <2>1, <2>2 DEF Listed, Shape, SameLinks
<1> QED
  BY <1>1, <1>2, <1>3, <1>4, <1>5 DEF Shape

(* Deleting an anchor reaches just what hangs on it. *)
LEMMA TreeOfAnchor ==
  ASSUME NEW h, NEW A, NEW o, NEW l, NEW b \in A, NULL \notin DOMAIN h, Shape(h, A, o, l)
  PROVE  Tree(h, b) = {a \in DOMAIN h : o[a] = b}
<1> DEFINE C == {a \in DOMAIN h : o[a] = b}
<1>1. b \in C /\ C \in SUBSET DOMAIN h
  BY DEF Shape, Mapped
<1>2. Closure(h, C)
  BY DEF Shape, Hanging, Closure, Links
<1>3. Tree(h, b) \subseteq C
  BY <1>1, <1>2 DEF Tree
<1>4. \A S \in SUBSET DOMAIN h : b \in S /\ Closure(h, S) => C \subseteq S
  <2> SUFFICES ASSUME NEW S \in SUBSET DOMAIN h, b \in S, Closure(h, S)
               PROVE  C \subseteq S
    OBVIOUS
  <2> DEFINE R == S \cup (DOMAIN h \ C)
  <2>1. Closure(h, R)
    <3> SUFFICES ASSUME NEW a \in R, NEW c \in Links(h, a)
                 PROVE  c \in R
      BY DEF Closure, Links
    <3>1. CASE a \in S
      BY <3>1 DEF Closure, Links
    <3>2. CASE a \notin S
      BY <3>2 DEF Shape, Hanging
    <3> QED
      BY <3>1, <3>2
  <2>2. A \subseteq R
    BY DEF Shape, Mapped
  <2>3. R = DOMAIN h
    BY <2>1, <2>2 DEF Shape, Reached
  <2> QED
    BY <2>3
<1>5. C \subseteq Tree(h, b)
  <2>1. b # NULL
    BY <1>1
  <2> SUFFICES ASSUME NEW a \in C, NEW S \in SUBSET DOMAIN h,
                      {b} \ {NULL} \subseteq S, Closure(h, S)
               PROVE  a \in S
    BY DEF Tree
  <2> QED
    BY <2>1, <1>4
<1> QED
  BY <1>3, <1>5

(* Nothing hangs on no item. *)
LEMMA TreeOfNothing ==
  ASSUME NEW h
  PROVE  Tree(h, NULL) = {}
<1>1. {} \in SUBSET DOMAIN h /\ {NULL} \ {NULL} \subseteq {} /\ Closure(h, {})
  BY DEF Closure
<1> QED
  BY <1>1 DEF Tree

(* What is in the list of a head is reached from it. *)
LEMMA TreeOfList ==
  ASSUME NEW h, NEW A, NEW o, NEW l, NULL \notin DOMAIN h, Shape(h, A, o, l),
         NEW b \in DOMAIN h, NEW t \in DOMAIN h, l[t] = b
  PROVE  t \in Tree(h, b)
<1> SUFFICES ASSUME NEW S \in SUBSET DOMAIN h, b \in S, Closure(h, S)
             PROVE  t \in S
  BY DEF Tree
<1> DEFINE R == S \cup {a \in DOMAIN h : l[a] # b}
<1>1. Closure(h, R)
  <2> SUFFICES ASSUME NEW a \in R, NEW c \in Links(h, a)
               PROVE  c \in R
    BY DEF Closure, Links
  <2>1. CASE a \in S
    BY <2>1 DEF Closure, Links
  <2>2. CASE a \notin S /\ c = h[a].child
    BY <2>2 DEF Shape, Hanging, Listed, Links
  <2>3. CASE a \notin S /\ c = h[a].next
    BY <2>3 DEF Shape, Hanging, Listed, Links
  <2> QED
    BY <2>1, <2>2, <2>3 DEF Links
<1>2. A \subseteq R
  BY DEF Shape, Mapped
<1>3. R = DOMAIN h
  BY <1>1, <1>2 DEF Shape, Reached
<1> QED
  BY <1>3

(* Maps of more items, that say the same of the old ones. *)
Agree(h, o, l, o2, l2) == \A a \in DOMAIN h : o2[a] = o[a] /\ l2[a] = l[a]

Added(h, g, n) ==
  /\ n \notin DOMAIN h /\ DOMAIN g = DOMAIN h \cup {n}
  /\ \A a \in DOMAIN h : g[a] = h[a]
  /\ g[n].child = NULL /\ g[n].next = NULL

(* A new item becomes an anchor. *)
LEMMA ShapeOfNewAnchor ==
  ASSUME NEW h, NEW g, NEW A, NEW o, NEW l, NEW n, NULL \notin DOMAIN h, Shape(h, A, o, l),
         Added(h, g, n)
  PROVE  \E o2, l2 : Shape(g, A \cup {n}, o2, l2) /\ Agree(h, o, l, o2, l2)
<1>a. /\ n \notin DOMAIN h /\ DOMAIN g = DOMAIN h \cup {n}
      /\ \A a \in DOMAIN h : g[a] = h[a]
      /\ g[n].child = NULL /\ g[n].next = NULL
  BY DEF Added
<1> DEFINE o2 == [a \in DOMAIN g |-> IF a = n THEN n ELSE o[a]]
           l2 == [a \in DOMAIN g |-> IF a = n THEN n ELSE l[a]]
<1> USE <1>a
<1>1. /\ \A a \in DOMAIN h : o2[a] = o[a] /\ l2[a] = l[a]
      /\ o2[n] = n /\ l2[n] = n
  OBVIOUS
<1> HIDE DEF o2, l2
<1>2. Mapped(g, A \cup {n}, o2, l2)
  BY <1>1 DEF Shape, Mapped
<1>3. \A a \in DOMAIN h : Links(g, a) = Links(h, a) /\ Links(h, a) \subseteq DOMAIN h
  BY DEF Shape, Hanging, Links
<1>4. Links(g, n) = {}
  BY DEF Links
<1>5. Hanging(g, A \cup {n}, o2)
  BY <1>1, <1>3, <1>4 DEF Shape, Hanging
<1>6. Single(g)
  BY DEF Shape, Single
<1>7. Reached(g, A \cup {n})
  <2> SUFFICES ASSUME NEW S \in SUBSET DOMAIN g, A \cup {n} \subseteq S, Closure(g, S)
               PROVE  S = DOMAIN g
    BY DEF Reached
  <2> DEFINE R == S \ {n}
  <2>1. R \in SUBSET DOMAIN h /\ A \subseteq R
    BY DEF Shape, Mapped
  <2>2. Closure(h, R)
    <3> SUFFICES ASSUME NEW a \in R
                 PROVE  Links(h, a) \subseteq R
      BY DEF Closure, Links
    <3>1. Links(g, a) \subseteq S
      BY DEF Closure, Links
    <3> QED
      BY <2>1, <3>1, <1>3
  <2>3. R = DOMAIN h
    BY <2>1, <2>2 DEF Shape, Reached
  <2> QED
    BY <2>3
<1>8. Listed(g, l2)
  <2>1. \A a \in DOMAIN h : /\ h[a].next # NULL => h[a].next \in DOMAIN h
                            /\ h[a].child # NULL => h[a].child \in DOMAIN h
    BY DEF Shape, Hanging, Links
  <2>2. \A a \in DOMAIN h : Listed(h, l) => 
           /\ g[a].next # NULL => l2[g[a].next] = l2[a] /\ g[g[a].next].prev = a
           /\ g[a].child # NULL =>
                /\ l2[g[a].child] = g[a].child
                /\ g[g[a].child].prev \in DOMAIN g
                /\ g[g[g[a].child].prev].next = NULL
                /\ l2[g[g[a].child].prev] = g[a].child
    BY <1>1, <2>1 DEF Listed
  <2> QED
    BY <2>2 DEF Listed, Shape
<1> QED
  BY <1>1, <1>2, <1>5, <1>6, <1>7, <1>8 DEF Shape, Agree

(* A new item is linked to the end of the list of an anchor. *)
LEMMA ShapeOfAppended ==
  ASSUME NEW h, NEW g, NEW A, NEW o, NEW l, NEW n, NEW b \in A, NEW c \in DOMAIN h,
         NULL \notin DOMAIN h, Shape(h, A, o, l),
         o[c] = b, l[c] = b, h[c].next = NULL,
         n # NULL, n \notin DOMAIN h, DOMAIN g = DOMAIN h \cup {n},
         \A a \in DOMAIN h : /\ g[a].child = h[a].child /\ g[a].prev = h[a].prev
                             /\ a # c => g[a].next = h[a].next,
         g[c].next = n, g[n].child = NULL, g[n].next = NULL, g[n].prev = c
  PROVE  \E o2, l2 : /\ Shape(g, A, o2, l2)
                     /\ \A a \in DOMAIN h : o2[a] = o[a] /\ l2[a] = l[a]
                     /\ o2[n] = b /\ l2[n] = b
<1> DEFINE o2 == [a \in DOMAIN g |-> IF a = n THEN b ELSE o[a]]
           l2 == [a \in DOMAIN g |-> IF a = n THEN b ELSE l[a]]
<1>1. /\ \A a \in DOMAIN h : o2[a] = o[a] /\ l2[a] = l[a]
      /\ o2[n] = b /\ l2[n] = b
  OBVIOUS
<1> HIDE DEF o2, l2
<1>2. Mapped(g, A, o2, l2)
  BY <1>1 DEF Shape, Mapped
<1>3. \A a \in DOMAIN h : Links(h, a) \subseteq DOMAIN h \ A
  BY DEF Shape, Hanging
<1>4. /\ \A a \in DOMAIN h : a # c => Links(g, a) = Links(h, a)
      /\ Links(g, c) = Links(h, c) \cup {n}
      /\ Links(g, n) = {}
  BY DEF Links
<1>5. n \notin A
  BY DEF Shape, Mapped
<1>6. Hanging(g, A, o2)
  <2> SUFFICES ASSUME NEW a \in DOMAIN g, NEW d \in Links(g, a)
               PROVE  d \in DOMAIN g /\ d \notin A /\ o2[d] = o2[a]
    BY DEF Hanging
  <2>1. a \in DOMAIN h
    BY <1>4
  <2>2. CASE d = n
    BY <1>1, <1>3, <1>4, <1>5, <2>1, <2>2
  <2>3. CASE d # n
    <3>1. d \in Links(h, a)
      BY <1>4, <2>1, <2>3
    <3>2. d \in DOMAIN h /\ d \notin A /\ o[d] = o[a]
      BY <2>1, <3>1 DEF Shape, Hanging
    <3> QED
      BY <1>1, <2>1, <3>2
  <2> QED
    BY <2>2, <2>3
<1>7. Single(g)
  <2>1. \A a \in DOMAIN h : h[a].next # n /\ h[a].child # n
    BY <1>3 DEF Links
  <2> QED
    BY <2>1 DEF Shape, Single
<1>8. Reached(g, A)
  <2> SUFFICES ASSUME NEW S \in SUBSET DOMAIN g, A \subseteq S, Closure(g, S)
               PROVE  S = DOMAIN g
    BY DEF Reached
  <2> DEFINE R == S \ {n}
  <2>1. R \in SUBSET DOMAIN h /\ A \subseteq R
    BY <1>5
  <2>2. Closure(h, R)
    <3> SUFFICES ASSUME NEW a \in R
                 PROVE  Links(h, a) \subseteq R
      BY DEF Closure, Links
    <3>1. Links(g, a) \subseteq S
      BY DEF Closure, Links
    <3> QED
      BY <2>1, <3>1, <1>3, <1>4
  <2>3. R = DOMAIN h
    BY <2>1, <2>2 DEF Shape, Reached
  <2>4. n \in S
    <3>1. c \in S
      BY <2>3
    <3> QED
      BY <3>1 DEF Closure
  <2> QED
    BY <2>3, <2>4
<1>9. Listed(g, l2)
  <2> SUFFICES ASSUME NEW a \in DOMAIN h
               PROVE  /\ g[a].next # NULL => l2[g[a].next] = l2[a] /\ g[g[a].next].prev = a
                      /\ g[a].child # NULL =>
                           /\ l2[g[a].child] = g[a].child
                           /\ g[g[a].child].prev \in DOMAIN g
                           /\ g[g[g[a].child].prev].next = NULL
                           /\ l2[g[g[a].child].prev] = g[a].child
    BY DEF Listed
  <2>1. ASSUME g[a].next # NULL
        PROVE  l2[g[a].next] = l2[a] /\ g[g[a].next].prev = a
    <3>1. CASE a = c
      BY <1>1, <3>1
    <3>2. CASE a # c
      <4>1. h[a].next # NULL /\ g[a].next = h[a].next /\ h[a].next \in DOMAIN h
        BY <1>3, <2>1, <3>2 DEF Links
      <4>2. l[h[a].next] = l[a] /\ h[h[a].next].prev = a
        BY <4>1 DEF Shape, Listed
      <4> QED
        BY <1>1, <4>1, <4>2
    <3> QED
      BY <3>1, <3>2
  <2>2. ASSUME g[a].child # NULL
        PROVE  /\ l2[g[a].child] = g[a].child
               /\ g[g[a].child].prev \in DOMAIN g
               /\ g[g[g[a].child].prev].next = NULL
               /\ l2[g[g[a].child].prev] = g[a].child
    <3>1. h[a].child # NULL /\ g[a].child = h[a].child /\ h[a].child \in DOMAIN h \ A
      BY <1>3, <2>2 DEF Links
    <3>2. /\ l[h[a].child] = h[a].child
          /\ h[h[a].child].prev \in DOMAIN h
          /\ h[h[h[a].child].prev].next = NULL
          /\ l[h[h[a].child].prev] = h[a].child
      BY <3>1 DEF Shape, Listed
    <3>3. g[g[a].child].prev = h[h[a].child].prev
      BY <3>1
    <3>4. h[h[a].child].prev # c
      BY <3>1, <3>2
    <3> QED
      BY <1>1, <3>1, <3>2, <3>3, <3>4
  <2> QED
    BY <2>1, <2>2
<1> QED
  BY <1>1, <1>2, <1>6, <1>7, <1>8, <1>9 DEF Shape

(* The list from b to c is handed to the item i. *)
Handed(h, g, i, b, c) ==
  /\ DOMAIN g = DOMAIN h
  /\ \A a \in DOMAIN h :
       /\ g[a].next = h[a].next
       /\ a # i => g[a].child = h[a].child
       /\ a # b => g[a].prev = h[a].prev
  /\ g[i].child = b /\ g[b].prev = c

(* Only what hung on b hangs elsewhere. *)
Rehung(h, b, o, o2) == \A a \in DOMAIN h : o[a] # b => o2[a] = o[a]

(* A complete list becomes the children of an item: its head is no anchor  *)
(* any longer, and knows the tail.                                         *)
LEMMA ShapeOfClosed ==
  ASSUME NEW h, NEW g, NEW A, NEW o, NEW l, NEW b \in A, NEW c \in DOMAIN h, NEW i \in DOMAIN h,
         NULL \notin DOMAIN h, Shape(h, A, o, l),
         o[c] = b, l[c] = b, h[c].next = NULL, o[i] # b, h[i].child = NULL,
         Handed(h, g, i, b, c)
  PROVE  \E o2 : Shape(g, A \ {b}, o2, l) /\ Rehung(h, b, o, o2)
<1> USE DEF Handed
<1> DEFINE o2 == [a \in DOMAIN h |-> IF o[a] = b THEN o[i] ELSE o[a]]
<1>1. /\ \A a \in DOMAIN h : o[a] # b => o2[a] = o[a]
      /\ \A a \in DOMAIN h : o[a] = b => o2[a] = o[i]
  OBVIOUS
<1> HIDE DEF o2
<1>2. b \in DOMAIN h /\ b # NULL /\ o[b] = b /\ l[b] = b /\ o[i] \in A
  BY DEF Shape, Mapped
<1>3. Mapped(g, A \ {b}, o2, l)
  <2>1. A \subseteq DOMAIN h
    BY DEF Shape, Mapped
  <2>2. \A a \in DOMAIN h : o[a] \in A /\ l[a] \in DOMAIN h /\ o[l[a]] = o[a]
    BY DEF Shape, Mapped
  <2>3. \A a \in DOMAIN h : o2[a] \in A \ {b} /\ o2[l[a]] = o2[a]
    BY <1>1, <1>2, <2>2
  <2>4. \A a \in A \ {b} : o2[a] = a /\ l[a] = a
    BY <1>1, <2>1 DEF Shape, Mapped
  <2> QED
    BY <2>1, <2>2, <2>3, <2>4 DEF Mapped
<1>4. \A a \in DOMAIN h : Links(h, a) \subseteq DOMAIN h \ A
  BY DEF Shape, Hanging
<1>5. /\ \A a \in DOMAIN h : a # i => Links(g, a) = Links(h, a)
      /\ Links(g, i) = Links(h, i) \cup {b}
  BY <1>2 DEF Links
<1>6. Hanging(g, A \ {b}, o2)
  <2> SUFFICES ASSUME NEW a \in DOMAIN h, NEW d \in Links(g, a)
               PROVE  d \in DOMAIN h /\ d \notin A \ {b} /\ o2[d] = o2[a]
    BY DEF Hanging
  <2>1. CASE d \in Links(h, a)
    <3>1. d \in DOMAIN h /\ d \notin A /\ o[d] = o[a]
      BY <2>1 DEF Shape, Hanging
    <3> QED
      BY <1>1, <3>1
  <2>2. CASE d \notin Links(h, a)
    <3>1. a = i /\ d = b
      BY <1>5, <2>2
    <3> QED
      BY <1>1, <1>2, <3>1
  <2> QED
    BY <2>1, <2>2
<1>7. Single(g)
  <2>1. \A a \in DOMAIN h : h[a].next # b /\ h[a].child # b
    BY <1>2, <1>4 DEF Links
  <2> QED
    BY <1>2, <2>1 DEF Shape, Single
<1>8. Reached(g, A \ {b})
  <2> SUFFICES ASSUME NEW S \in SUBSET DOMAIN h, A \ {b} \subseteq S, Closure(g, S)
               PROVE  S = DOMAIN h
    BY DEF Reached
  <2>1. Closure(h, S)
    <3> SUFFICES ASSUME NEW a \in S
                 PROVE  Links(h, a) \subseteq S
      BY DEF Closure, Links
    <3>1. Links(g, a) \subseteq S
      BY DEF Closure, Links
    <3> QED
      BY <3>1, <1>5
  <2> DEFINE R == S \cup {a \in DOMAIN h : o[a] = b}
  <2>2. Closure(h, R)
    <3> SUFFICES ASSUME NEW a \in R, NEW d \in Links(h, a)
                 PROVE  d \in R
      BY DEF Closure, Links
    <3>1. CASE a \in S
      BY <2>1, <3>1 DEF Closure, Links
    <3>2. CASE a \notin S
      BY <3>2 DEF Shape, Hanging
    <3> QED
      BY <3>1, <3>2
  <2>3. R = DOMAIN h
    <3>1. A \subseteq R
      BY <1>2
    <3> QED
      BY <2>2, <3>1 DEF Shape, Reached
  <2>4. i \in S
    BY <2>3
  <2>5. b \in S
    BY <1>2, <2>4 DEF Closure
  <2>6. A \subseteq S
    BY <2>5
  <2> QED
    BY <2>1, <2>6 DEF Shape, Reached
<1>9. Listed(g, l)
  <2> SUFFICES ASSUME NEW a \in DOMAIN h
               PROVE  /\ g[a].next # NULL => l[g[a].next] = l[a] /\ g[g[a].next].prev = a
                      /\ g[a].child # NULL =>
                           /\ l[g[a].child] = g[a].child
                           /\ g[g[a].child].prev \in DOMAIN g
                           /\ g[g[g[a].child].prev].next = NULL
                           /\ l[g[g[a].child].prev] = g[a].child
    BY DEF Listed
  <2>1. ASSUME g[a].next # NULL
        PROVE  l[g[a].next] = l[a] /\ g[g[a].next].prev = a
    <3>1. h[a].next \in DOMAIN h \ A
      BY <1>4, <2>1 DEF Links
    <3>2. l[h[a].next] = l[a] /\ h[h[a].next].prev = a
      BY <2>1 DEF Shape, Listed
    <3> QED
      BY <3>1, <3>2
  <2>2. ASSUME g[a].child # NULL
        PROVE  /\ l[g[a].child] = g[a].child
               /\ g[g[a].child].prev \in DOMAIN g
               /\ g[g[g[a].child].prev].next = NULL
               /\ l[g[g[a].child].prev] = g[a].child
    <3>1. CASE a = i
      BY <1>2, <3>1
    <3>2. CASE a # i
      <4>1. h[a].child \in DOMAIN h \ A /\ g[a].child = h[a].child
        BY <1>4, <2>2, <3>2 DEF Links
      <4>2. /\ l[h[a].child] = h[a].child
            /\ h[h[a].child].prev \in DOMAIN h
            /\ h[h[h[a].child].prev].next = NULL
            /\ l[h[h[a].child].prev] = h[a].child
        BY <2>2, <3>2 DEF Shape, Listed
      <4>3. g[g[a].child].prev = h[h[a].child].prev
        BY <4>1
      <4> QED
        BY <4>1, <4>2, <4>3
    <3> QED
      BY <3>1, <3>2
  <2> QED
    BY <2>1, <2>2
<1>10. Shape(g, A \ {b}, o2, l) /\ Rehung(h, b, o, o2)
  BY <1>1, <1>3, <1>6, <1>7, <1>8, <1>9 DEF Shape, Rehung
<1> QED
  BY <1>10, Zenon

(* What hangs on an anchor is deleted. *)
LEMMA ShapeOfDeleted ==
  ASSUME NEW h, NEW g, NEW A, NEW o, NEW l, NEW b \in A,
         NULL \notin DOMAIN h, Shape(h, A, o, l),
         DOMAIN g = {a \in DOMAIN h : o[a] # b}, \A a \in DOMAIN g : g[a] = h[a]
  PROVE  Shape(g, A \ {b}, o, l)
<1>1. Mapped(g, A \ {b}, o, l)
  BY DEF Shape, Mapped
<1>2. \A a \in DOMAIN g : Links(g, a) = Links(h, a)
  BY DEF Links
<1>3. \A a \in DOMAIN g : Links(h, a) \subseteq DOMAIN g \ A
  BY DEF Shape, Hanging
<1>4. Hanging(g, A \ {b}, o)
  BY <1>2, <1>3 DEF Shape, Hanging
<1>5. Single(g)
  BY DEF Shape, Single
<1>6. Reached(g, A \ {b})
  <2> SUFFICES ASSUME NEW S \in SUBSET DOMAIN g, A \ {b} \subseteq S, Closure(g, S)
               PROVE  S = DOMAIN g
    BY DEF Reached
  <2> DEFINE R == S \cup {a \in DOMAIN h : o[a] = b}
  <2>1. Closure(h, R)
    <3> SUFFICES ASSUME NEW a \in R, NEW d \in Links(h, a)
                 PROVE  d \in R
      BY DEF Closure, Links
    <3>1. CASE a \in S
      <4>1. Links(g, a) \subseteq S
        BY <3>1 DEF Closure, Links
      <4> QED
        BY <1>2, <3>1, <4>1
    <3>2. CASE a \notin S
      BY <3>2 DEF Shape, Hanging
    <3> QED
      BY <3>1, <3>2
  <2>2. A \subseteq R /\ R \in SUBSET DOMAIN h
    BY DEF Shape, Mapped
  <2>3. R = DOMAIN h
    BY <2>1, <2>2 DEF Shape, Reached
  <2> QED
    BY <2>3
<1>7. Listed(g, l)
  <2> SUFFICES ASSUME NEW a \in DOMAIN g
               PROVE  /\ g[a].next # NULL => l[g[a].next] = l[a] /\ g[g[a].next].prev = a
                      /\ g[a].child # NULL =>
                           /\ l[g[a].child] = g[a].child
                           /\ g[g[a].child].prev \in DOMAIN g
                           /\ g[g[g[a].child].prev].next = NULL
                           /\ l[g[g[a].child].prev] = g[a].child
    BY DEF Listed
  <2>1. g[a] = h[a] /\ a \in DOMAIN h
    OBVIOUS
  <2>2. ASSUME g[a].next # NULL
        PROVE  l[g[a].next] = l[a] /\ g[g[a].next].prev = a
    <3>1. h[a].next \in DOMAIN g
      BY <1>3, <2>2 DEF Links
    <3>2. l[h[a].next] = l[a] /\ h[h[a].next].prev = a
      BY <2>1, <2>2 DEF Shape, Listed
    <3> QED
      BY <3>1, <3>2
  <2>3. ASSUME g[a].child # NULL
        PROVE  /\ l[g[a].child] = g[a].child
               /\ g[g[a].child].prev \in DOMAIN g
               /\ g[g[g[a].child].prev].next = NULL
               /\ l[g[g[a].child].prev] = g[a].child
    <3>1. h[a].child \in DOMAIN g /\ g[a].child = h[a].child
      BY <1>3, <2>3 DEF Links
    <3>2. /\ l[h[a].child] = h[a].child
          /\ h[h[a].child].prev \in DOMAIN h
          /\ h[h[h[a].child].prev].next = NULL
          /\ l[h[h[a].child].prev] = h[a].child
      BY <2>1, <2>3 DEF Shape, Listed
    <3>3. g[h[a].child].prev = h[h[a].child].prev
      BY <3>1
    <3>4. h[h[a].child].prev \in DOMAIN g
      BY <3>1, <3>2 DEF Shape, Mapped
    <3> QED
      BY <3>1, <3>2, <3>3, <3>4
  <2> QED
    BY <2>2, <2>3
<1> QED
  BY <1>1, <1>4, <1>5, <1>6, <1>7 DEF Shape

-----------------------------------------------------------------------------
(* The strings.  Every block is the name or the string of one item, and of *)
(* no second.                                                              *)

Spelt(h, s) ==
  /\ IsFiniteSet(DOMAIN s) /\ DOMAIN s \subseteq Nat \ {0}
  /\ \A a \in DOMAIN h :
       /\ h[a].string # NULL => h[a].string \in DOMAIN s
       /\ h[a].valuestring # NULL => h[a].valuestring \in DOMAIN s
  /\ \A a, b \in DOMAIN h :
       /\ h[a].string = h[b].string /\ h[a].string # NULL => a = b
       /\ h[a].valuestring = h[b].valuestring /\ h[a].valuestring # NULL => a = b
       /\ h[a].string = h[b].valuestring => h[a].string = NULL
  /\ \A t \in DOMAIN s : \E a \in DOMAIN h : h[a].string = t \/ h[a].valuestring = t

LEMMA LeastExists ==
  ASSUME NEW S \in SUBSET Nat, S # {}
  PROVE  Least(S) \in S /\ \A n \in S : Least(S) <= n
<1>1. PICK x \in S : \A y \in S : ~ (<<y, x>> \in OpToRel(<, Nat))
  BY WFMin, NatLessThanWellFounded, Zenon
<1>2. \A y \in S : ~ (y < x)
  BY <1>1 DEF OpToRel
<1>3. \A y \in S : x <= y
  BY <1>2
<1> QED
  BY <1>3 DEF Least

(* Allocated blocks do not overlap. *)
LEMMA UnusedIsNew ==
  ASSUME NEW blocks, IsFiniteSet(DOMAIN blocks), DOMAIN blocks \subseteq Nat \ {0}
  PROVE  Unused(blocks) \in Nat \ {0} /\ Unused(blocks) \notin DOMAIN blocks
<1> DEFINE n == Cardinality(DOMAIN blocks)
           S == (1 .. n + 1) \ DOMAIN blocks
<1>1. n \in Nat
  BY FS_CardinalityType
<1>2. IsFiniteSet(1 .. n + 1) /\ Cardinality(1 .. n + 1) = n + 1
  <2> HIDE DEF n
  <2>1. Cardinality(1 .. n + 1) = IF 1 > n + 1 THEN 0 ELSE (n + 1) - 1 + 1
    BY <1>1, FS_Interval
  <2>2. IsFiniteSet(1 .. n + 1)
    BY <1>1, FS_Interval
  <2> QED
    BY <1>1, <2>1, <2>2
<1>3. S # {}
  <2> SUFFICES ASSUME 1 .. n + 1 \subseteq DOMAIN blocks
               PROVE  FALSE
    OBVIOUS
  <2>1. Cardinality(1 .. n + 1) <= n
    BY FS_Subset
  <2> QED
    BY <1>1, <1>2, <2>1
<1>4. S \in SUBSET Nat
  BY <1>1
<1>5. Least(S) \in S
  <2> HIDE DEF S
  <2> QED
    BY <1>3, <1>4, LeastExists
<1> QED
  BY <1>1, <1>5 DEF Unused

SameStrings(h, g) ==
  /\ DOMAIN g = DOMAIN h
  /\ \A a \in DOMAIN h : g[a].string = h[a].string /\ g[a].valuestring = h[a].valuestring

(* Links do not matter to the ownership of the strings. *)
LEMMA SpeltOfStrings ==
  ASSUME NEW h, NEW g, NEW s, SameStrings(h, g), Spelt(h, s)
  PROVE  Spelt(g, s)
BY DEF SameStrings, Spelt

(* An item without strings is added. *)
LEMMA SpeltOfNewItem ==
  ASSUME NEW h, NEW g, NEW s, NEW n, Spelt(h, s), n \notin DOMAIN h, DOMAIN g = DOMAIN h \cup {n},
         \A a \in DOMAIN h : g[a].string = h[a].string /\ g[a].valuestring = h[a].valuestring,
         g[n].string = NULL, g[n].valuestring = NULL
  PROVE  Spelt(g, s)
BY DEF Spelt

(* A new string is the name of an item, or its string. *)
LEMMA SpeltOfNewString ==
  ASSUME NEW h, NEW g, NEW s, NEW z, NEW i \in DOMAIN h, NEW t \in Nat \ {0}, NEW text,
         Spelt(h, s), t \notin DOMAIN s,
         DOMAIN g = DOMAIN h, DOMAIN z = DOMAIN s \cup {t},
         \A a \in DOMAIN h :
           a # i => g[a].string = h[a].string /\ g[a].valuestring = h[a].valuestring,
         \/ h[i].string = NULL /\ g[i].string = t /\ g[i].valuestring = h[i].valuestring
         \/ h[i].valuestring = NULL /\ g[i].valuestring = t /\ g[i].string = h[i].string
  PROVE  Spelt(g, z)
<1>1. IsFiniteSet(DOMAIN z)
  BY FS_AddElement DEF Spelt
<1>2. DOMAIN z \subseteq Nat \ {0}
  BY DEF Spelt
<1>3. \A a \in DOMAIN h : h[a].string # t /\ h[a].valuestring # t
  BY DEF Spelt, NULL
<1>4. \A a \in DOMAIN g :
       /\ g[a].string # NULL => g[a].string \in DOMAIN z
       /\ g[a].valuestring # NULL => g[a].valuestring \in DOMAIN z
  BY DEF Spelt
<1>5. \A a, b \in DOMAIN g :
       /\ g[a].string = g[b].string /\ g[a].string # NULL => a = b
       /\ g[a].valuestring = g[b].valuestring /\ g[a].valuestring # NULL => a = b
       /\ g[a].string = g[b].valuestring => g[a].string = NULL
  <2>1. \A a, b \in DOMAIN h :
          /\ h[a].string = h[b].string /\ h[a].string # NULL => a = b
          /\ h[a].valuestring = h[b].valuestring /\ h[a].valuestring # NULL => a = b
          /\ h[a].string = h[b].valuestring => h[a].string = NULL
    BY DEF Spelt
  <2>2. t # NULL
    BY DEF NULL
  <2>3. CASE h[i].string = NULL /\ g[i].string = t /\ g[i].valuestring = h[i].valuestring
    BY <1>3, <2>1, <2>2, <2>3
  <2>4. CASE h[i].valuestring = NULL /\ g[i].valuestring = t /\ g[i].string = h[i].string
    BY <1>3, <2>1, <2>2, <2>4
  <2> QED
    BY <2>3, <2>4
<1>6. \A b \in DOMAIN z : \E a \in DOMAIN g : g[a].string = b \/ g[a].valuestring = b
  BY DEF Spelt, NULL
<1> QED
  BY <1>1, <1>2, <1>4, <1>5, <1>6 DEF Spelt

(* Items are deleted with their strings. *)
LEMMA SpeltOfDeleted ==
  ASSUME NEW h, NEW g, NEW s, NEW z, NEW C, Spelt(h, s), C \subseteq DOMAIN h,
         DOMAIN g = DOMAIN h \ C, \A a \in DOMAIN g : g[a] = h[a],
         DOMAIN z = DOMAIN s \ StringsOf(h, C)
  PROVE  Spelt(g, z)
<1>1. \A t : t \in StringsOf(h, C) <=> t # NULL /\ \E a \in C : h[a].string = t \/ h[a].valuestring = t
  BY DEF StringsOf
<1>2. IsFiniteSet(DOMAIN z)
  <2>1. IsFiniteSet(DOMAIN s) /\ DOMAIN z \subseteq DOMAIN s
    BY DEF Spelt
  <2> QED
    BY <2>1, FS_Subset
<1>3. DOMAIN z \subseteq Nat \ {0}
  BY DEF Spelt
<1>4. \A a \in DOMAIN g :
       /\ g[a].string # NULL => g[a].string \in DOMAIN z
       /\ g[a].valuestring # NULL => g[a].valuestring \in DOMAIN z
  BY <1>1 DEF Spelt
<1>5. \A a, b \in DOMAIN g :
       /\ g[a].string = g[b].string /\ g[a].string # NULL => a = b
       /\ g[a].valuestring = g[b].valuestring /\ g[a].valuestring # NULL => a = b
       /\ g[a].string = g[b].valuestring => g[a].string = NULL
  BY DEF Spelt
<1>6. \A b \in DOMAIN z : \E a \in DOMAIN g : g[a].string = b \/ g[a].valuestring = b
  BY <1>1 DEF Spelt, NULL
<1> QED
  BY <1>2, <1>3, <1>4, <1>5, <1>6 DEF Spelt

-----------------------------------------------------------------------------
(* The calls that have not returned. *)

Call ==
  [fn : {"value", "array", "object"}, at : {"enter", "next", "parsed"},
   item : Nat, head : Nat, current : Nat]

Anchored(c, r) == ({r} \cup {c[k].head : k \in 1 .. Len(c)}) \ {NULL}

(* A call of parse_array or parse_object that waits for parse_value. *)
Waits(f) == f.fn \in {"array", "object"} /\ f.at = "parsed" /\ f.head # NULL

(* Every call but the first fills in the last item of the list of the call *)
(* below, and no two build the same list.                                  *)
Stack(c, r) ==
  /\ c \in Seq(Call)
  /\ c # <<>> => c[1].item = r
  /\ \A k \in 1 .. Len(c) - 1 : Waits(c[k]) /\ c[k + 1].item = c[k].current
  /\ \A k, m \in 1 .. Len(c) : k # m /\ c[k].head = c[m].head => c[k].head = NULL

(* The item a call fills in is still empty; the list it builds, if it has  *)
(* begun, ends in the current item.                                        *)
Frame(h, f, r, o, l) ==
  /\ f.item \in DOMAIN h /\ h[f.item].child = NULL /\ h[f.item].valuestring = NULL
  /\ f.head = NULL <=> f.current = NULL
  /\ f.head # NULL =>
       /\ f.head # r
       /\ f.current \in DOMAIN h /\ h[f.current].next = NULL
       /\ o[f.current] = f.head /\ l[f.current] = f.head
  /\ f.fn = "value" => f.at = "enter" /\ f.head = NULL
  /\ f.at = "parsed" => f.head # NULL

Frames(h, c, r, o, l) == \A k \in 1 .. Len(c) : Frame(h, c[k], r, o, l)

Below(c) == SubSeq(c, 1, Len(c) - 1)

Replaced(c, f) == Append(Below(c), f)

Pushing(c, v) == Append(c, v)

(* The stack below its top. *)
LEMMA Lower ==
  ASSUME NEW S, NEW c \in Seq(S), c # <<>>
  PROVE  /\ Len(c) \in Nat \ {0} /\ c[Len(c)] \in S
         /\ SubSeq(c, 1, Len(c) - 1) \in Seq(S)
         /\ Len(SubSeq(c, 1, Len(c) - 1)) = Len(c) - 1
         /\ \A k \in 1 .. Len(c) - 1 : SubSeq(c, 1, Len(c) - 1)[k] = c[k]
<1> DEFINE last == Len(c) - 1
<1>1. last \in Nat /\ last + 1 = Len(c)
  BY EmptySeq
<1>2. \A k \in 1 .. Len(c) : c[k] \in S
  BY ElementOfSeq
<1>3. c[Len(c)] \in S
  BY <1>1, <1>2
<1>4. \A k \in 1 .. last : c[k] \in S
  BY <1>1, <1>2
<1> HIDE DEF last
<1>5. /\ SubSeq(c, 1, last) \in Seq(S)
      /\ Len(SubSeq(c, 1, last)) = IF 1 <= last THEN last - 1 + 1 ELSE 0
      /\ \A k \in 1 .. last - 1 + 1 : SubSeq(c, 1, last)[k] = c[1 + k - 1]
  <2>1. 1 \in Int /\ last \in Int
    BY <1>1
  <2> QED
    BY <1>4, <2>1, SubSeqProperties
<1>6. Len(SubSeq(c, 1, last)) = last
  BY <1>1, <1>5
<1>7. \A k \in 1 .. last : SubSeq(c, 1, last)[k] = c[k]
  <2> SUFFICES ASSUME NEW k \in 1 .. last
               PROVE  SubSeq(c, 1, last)[k] = c[k]
    OBVIOUS
  <2>1. k \in 1 .. last - 1 + 1 /\ 1 + k - 1 = k
    BY <1>1
  <2> QED
    BY <1>5, <2>1
<1>8. Len(c) \in Nat \ {0}
  BY <1>1
<1> QED
  BY <1>3, <1>5, <1>6, <1>7, <1>8 DEF last

(* A call is put on the stack. *)
LEMMA Pushed ==
  ASSUME NEW S, NEW d \in Seq(S), NEW e \in S
  PROVE  /\ Append(d, e) \in Seq(S)
         /\ Len(Append(d, e)) = Len(d) + 1
         /\ \A k \in 1 .. Len(d) : Append(d, e)[k] = d[k]
         /\ Append(d, e)[Len(d) + 1] = e
OBVIOUS

(* A call that makes another one is replaced and the other put on it. *)
LEMMA PushedTwice ==
  ASSUME NEW S, NEW d \in Seq(S), NEW e \in S, NEW v \in S
  PROVE  d \o <<e, v>> = Append(Append(d, e), v)
<1>1. <<e>> \in Seq(S) /\ <<v>> \in Seq(S) /\ <<e, v>> = <<e>> \o <<v>>
  <2>1. <<e>> \in Seq(S) /\ <<v>> \in Seq(S) /\ <<e, v>> = Append(<<e>>, v)
    OBVIOUS
  <2> QED
    BY <2>1, AppendIsConcat
<1>2. Append(d, e) = d \o <<e>> /\ Append(d, e) \in Seq(S)
  BY AppendIsConcat, AppendProperties
<1>3. Append(Append(d, e), v) = Append(d, e) \o <<v>>
  BY <1>2, AppendIsConcat
<1>4. (d \o <<e>>) \o <<v>> = d \o (<<e>> \o <<v>>)
  BY <1>1, ConcatAssociative
<1> QED
  BY <1>1, <1>2, <1>3, <1>4

(* What was pushed is on top, and gone when it returns. *)
LEMMA PoppedAgain ==
  ASSUME NEW S, NEW d \in Seq(S), NEW e \in S
  PROVE  /\ Append(d, e) # <<>> /\ Append(d, e)[Len(Append(d, e))] = e
         /\ SubSeq(Append(d, e), 1, Len(Append(d, e)) - 1) = d
<1> DEFINE q == Append(d, e)
           p == SubSeq(q, 1, Len(q) - 1)
<1>1. /\ q \in Seq(S) /\ Len(q) = Len(d) + 1 /\ q[Len(d) + 1] = e
      /\ \A k \in 1 .. Len(d) : q[k] = d[k]
  BY Pushed
<1> HIDE DEF q
<1>2. Len(d) \in Nat
  BY LenProperties
<1>3. q # <<>>
  BY <1>1, <1>2, EmptySeq
<1>4. /\ p \in Seq(S) /\ Len(p) = Len(q) - 1
      /\ \A k \in 1 .. Len(q) - 1 : p[k] = q[k]
  BY <1>1, <1>3, Lower
<1> HIDE DEF p
<1>5. Len(p) = Len(d) /\ \A k \in 1 .. Len(d) : p[k] = d[k]
  BY <1>1, <1>2, <1>4
<1>6. p = d
  BY <1>4, <1>5, SeqEqual
<1> QED
  BY <1>1, <1>3, <1>6 DEF p, q

(* The innermost call returns, and its list is no anchor any more. *)
LEMMA StackOfReturn ==
  ASSUME NEW c, NEW r, Stack(c, r), c # <<>>, c[Len(c)].head # r \/ c[Len(c)].head = NULL
  PROVE  /\ Stack(Below(c), r)
         /\ Anchored(Below(c), r) = Anchored(c, r) \ {c[Len(c)].head}
<1> DEFINE n == Len(c)
           d == SubSeq(c, 1, n - 1)
<1>1. /\ n \in Nat \ {0} /\ d \in Seq(Call) /\ Len(d) = n - 1
      /\ \A k \in 1 .. n - 1 : d[k] = c[k]
  BY Lower DEF Stack
<1> HIDE DEF d
<1>2. /\ c # <<>> => c[1].item = r
      /\ \A k \in 1 .. n - 1 : Waits(c[k]) /\ c[k + 1].item = c[k].current
      /\ \A k, m \in 1 .. n : k # m /\ c[k].head = c[m].head => c[k].head = NULL
  BY DEF Stack
<1>3. Stack(d, r)
  <2>1. d # <<>> => d[1].item = r
    <3>1. d # <<>> => 1 \in 1 .. n - 1
      BY <1>1
    <3> QED
      BY <1>1, <1>2, <3>1
  <2>2. \A k \in 1 .. Len(d) - 1 : Waits(d[k]) /\ d[k + 1].item = d[k].current
    BY <1>1, <1>2
  <2>3. \A k, m \in 1 .. Len(d) : k # m /\ d[k].head = d[m].head => d[k].head = NULL
    BY <1>1, <1>2
  <2> QED
    BY <1>1, <2>1, <2>2, <2>3 DEF Stack
<1>4. Anchored(d, r) \subseteq Anchored(c, r) \ {c[n].head}
  BY <1>1, <1>2 DEF Anchored
<1>5. Anchored(c, r) \ {c[n].head} \subseteq Anchored(d, r)
  <2>1. \A k \in 1 .. n : k = n \/ k \in 1 .. n - 1
    BY <1>1
  <2> QED
    BY <1>1, <2>1 DEF Anchored
<1> QED
  BY <1>3, <1>4, <1>5 DEF d, Below

(* The innermost call goes on. *)
LEMMA StackOfReplaced ==
  ASSUME NEW c, NEW r, Stack(c, r), c # <<>>, NEW f \in Call,
         f.item = c[Len(c)].item,
         f.head = c[Len(c)].head \/ (c[Len(c)].head = NULL /\ f.head \notin Anchored(c, r))
  PROVE  /\ Stack(Replaced(c, f), r)
         /\ Anchored(Replaced(c, f), r) = Anchored(c, r) \cup ({f.head} \ {NULL})
<1> DEFINE n == Len(c)
           d == Append(SubSeq(c, 1, n - 1), f)
<1>1. /\ n \in Nat \ {0} /\ SubSeq(c, 1, n - 1) \in Seq(Call) /\ Len(SubSeq(c, 1, n - 1)) = n - 1
      /\ \A k \in 1 .. n - 1 : SubSeq(c, 1, n - 1)[k] = c[k]
  BY Lower DEF Stack
<1> DEFINE p == SubSeq(c, 1, n - 1)
<1>a. /\ Append(p, f) \in Seq(Call) /\ Len(Append(p, f)) = Len(p) + 1
      /\ Append(p, f)[Len(p) + 1] = f
      /\ \A k \in 1 .. Len(p) : Append(p, f)[k] = p[k]
  <2> HIDE DEF p
  <2>1. p \in Seq(Call)
    BY <1>1 DEF p
  <2> QED
    BY <2>1, Pushed
<1>b. d = Append(p, f) /\ Len(p) = n - 1 /\ \A k \in 1 .. n - 1 : p[k] = c[k]
  BY <1>1
<1> HIDE DEF p, d
<1>2. /\ d \in Seq(Call)
      /\ \A k \in 1 .. n - 1 : d[k] = c[k]
  BY <1>a, <1>b
<1>3. Len(d) = n /\ d[n] = f
  BY <1>1, <1>a, <1>b
<1>4. /\ c # <<>> => c[1].item = r
      /\ \A k \in 1 .. n - 1 : Waits(c[k]) /\ c[k + 1].item = c[k].current
      /\ \A k, m \in 1 .. n : k # m /\ c[k].head = c[m].head => c[k].head = NULL
  BY DEF Stack
<1>5. \A k \in 1 .. n : d[k].item = c[k].item
  BY <1>1, <1>2, <1>3
<1>6. \A k \in 1 .. n : k \in 1 .. n - 1 \/ k = n
  BY <1>1
<1>7. \A k \in 1 .. n - 1 : d[k].head = c[k].head /\ c[k].head \in Anchored(c, r)
  BY <1>1, <1>2, <1>4 DEF Anchored, Waits
<1>8. Stack(d, r)
  <2>1. d[1].item = r
    BY <1>1, <1>4, <1>5
  <2>2. \A k \in 1 .. n - 1 : Waits(d[k]) /\ d[k + 1].item = d[k].current
    <3> SUFFICES ASSUME NEW k \in 1 .. n - 1
                 PROVE  Waits(d[k]) /\ d[k + 1].item = d[k].current
      OBVIOUS
    <3>1. k + 1 \in 1 .. n
      BY <1>1
    <3> QED
      BY <1>2, <1>4, <1>5, <3>1
  <2>3. \A k, m \in 1 .. n : k # m /\ d[k].head = d[m].head => d[k].head = NULL
    <3>1. \A k \in 1 .. n - 1 : d[k].head # f.head
      <4>1. \A k \in 1 .. n - 1 : c[k].head # c[n].head
        BY <1>1, <1>4 DEF Waits
      <4> QED
        BY <1>7, <4>1
    <3>2. \A k, m \in 1 .. n - 1 : k # m /\ d[k].head = d[m].head => d[k].head = NULL
      BY <1>1, <1>2, <1>4
    <3> QED
      BY <1>3, <1>6, <3>1, <3>2
  <2> QED
    BY <1>2, <1>3, <2>1, <2>2, <2>3 DEF Stack
<1>9. Anchored(d, r) = Anchored(c, r) \cup ({f.head} \ {NULL})
  <2>1. n \in 1 .. n /\ 1 .. n - 1 \subseteq 1 .. n
    BY <1>1
  <2>2. Anchored(d, r) \subseteq Anchored(c, r) \cup ({f.head} \ {NULL})
    BY <1>3, <1>6, <1>7 DEF Anchored
  <2>3. Anchored(c, r) \cup ({f.head} \ {NULL}) \subseteq Anchored(d, r)
    <3>1. f.head # NULL => f.head \in Anchored(d, r)
      BY <1>3, <2>1 DEF Anchored
    <3>2. \A k \in 1 .. n - 1 : c[k].head \in Anchored(d, r)
      BY <1>3, <1>4, <1>7, <2>1 DEF Anchored
    <3>3. c[n].head # NULL => c[n].head \in Anchored(d, r)
      BY <3>1
    <3>4. r # NULL => r \in Anchored(d, r)
      BY DEF Anchored
    <3> QED
      BY <1>6, <3>1, <3>2, <3>3, <3>4 DEF Anchored
  <2> QED
    BY <2>2, <2>3
<1> QED
  BY <1>8, <1>9 DEF d, Below, Replaced

(* The innermost call waits for the value of its current item. *)
LEMMA StackOfPushed ==
  ASSUME NEW c, NEW r, Stack(c, r), c # <<>>, Waits(c[Len(c)]),
         NEW v \in Call, v.item = c[Len(c)].current, v.head = NULL
  PROVE  Stack(Pushing(c, v), r) /\ Anchored(Pushing(c, v), r) = Anchored(c, r)
<1> DEFINE n == Len(c)
           d == Append(c, v)
<1>1. n \in Nat \ {0}
  BY Lower DEF Stack
<1>2. /\ d \in Seq(Call) /\ Len(d) = n + 1 /\ d[n + 1] = v
      /\ \A k \in 1 .. n : d[k] = c[k]
  BY Pushed DEF Stack
<1> HIDE DEF d
<1>3. /\ c # <<>> => c[1].item = r
      /\ \A k \in 1 .. n - 1 : Waits(c[k]) /\ c[k + 1].item = c[k].current
      /\ \A k, m \in 1 .. n : k # m /\ c[k].head = c[m].head => c[k].head = NULL
  BY DEF Stack
<1>4. \A k \in 1 .. n + 1 : k \in 1 .. n \/ k = n + 1
  BY <1>1
<1>5. Stack(d, r)
  <2>1. d[1].item = r
    BY <1>1, <1>2, <1>3
  <2>2. \A k \in 1 .. n : Waits(d[k]) /\ d[k + 1].item = d[k].current
    <3> SUFFICES ASSUME NEW k \in 1 .. n
                 PROVE  Waits(d[k]) /\ d[k + 1].item = d[k].current
      OBVIOUS
    <3>1. CASE k = n
      BY <1>2, <3>1
    <3>2. CASE k # n
      <4>1. k \in 1 .. n - 1 /\ k + 1 \in 1 .. n
        BY <1>1, <3>2
      <4> QED
        BY <1>2, <1>3, <4>1
    <3> QED
      BY <3>1, <3>2
  <2>3. \A k, m \in 1 .. n + 1 : k # m /\ d[k].head = d[m].head => d[k].head = NULL
    <3>1. \A k, m \in 1 .. n : k # m /\ d[k].head = d[m].head => d[k].head = NULL
      BY <1>2, <1>3
    <3> QED
      BY <1>2, <1>4, <3>1
  <2>4. 1 .. Len(d) - 1 = 1 .. n /\ 1 .. Len(d) = 1 .. n + 1
    BY <1>1, <1>2
  <2> QED
    BY <1>2, <2>1, <2>2, <2>3, <2>4 DEF Stack
<1>6. Anchored(d, r) = Anchored(c, r)
  <2>1. \A k \in 1 .. n : k \in 1 .. n + 1 /\ d[k].head = c[k].head
    BY <1>1, <1>2
  <2> QED
    BY <1>2, <1>4, <2>1 DEF Anchored
<1> QED
  BY <1>5, <1>6 DEF d, Pushing

-----------------------------------------------------------------------------
(* Heap, strings and calls together. *)

Stored(h, s, c, r, o, l) ==
  /\ IsHeap(h)
  /\ Shape(h, Anchored(c, r), o, l)
  /\ Spelt(h, s)
  /\ Stack(c, r)
  /\ Frames(h, c, r, o, l)

Accounted(h, s, c, r) == \E o, l : Stored(h, s, c, r, o, l)

(* The innermost call and those that wait below it do not interfere. *)
LEMMA TopOfStack ==
  ASSUME NEW h, NEW s, NEW c, NEW r, NEW o, NEW l, Stored(h, s, c, r, o, l), c # <<>>
  PROVE  /\ Len(c) \in Nat \ {0} /\ c[Len(c)] \in Call
         /\ Frame(h, c[Len(c)], r, o, l)
         /\ NULL \notin DOMAIN h /\ r \in DOMAIN h
         /\ o[c[Len(c)].item] # c[Len(c)].head
         /\ c[Len(c)].head # NULL => c[Len(c)].head \in Anchored(c, r)
         /\ \A k \in 1 .. Len(c) - 1 :
              /\ Frame(h, c[k], r, o, l)
              /\ c[k].item # c[Len(c)].item
              /\ c[k].head \in Anchored(c, r) /\ c[k].head # c[Len(c)].head
              /\ o[c[k].item] # c[Len(c)].head
<1> DEFINE n == Len(c)
           A == Anchored(c, r)
<1>1. n \in Nat \ {0} /\ c[n] \in Call
  BY Lower DEF Stored, Stack
<1>2. /\ c[1].item = r
      /\ \A k \in 1 .. n - 1 : Waits(c[k]) /\ c[k + 1].item = c[k].current
      /\ \A k, m \in 1 .. n : k # m /\ c[k].head = c[m].head => c[k].head = NULL
  BY DEF Stored, Stack
<1>3. NULL \notin DOMAIN h
  BY DEF Stored, IsHeap, NULL
<1>4. \A k \in 1 .. n : Frame(h, c[k], r, o, l)
  BY DEF Stored, Frames
<1>5. r \in DOMAIN h /\ r # NULL
  <2>1. c[1].item \in DOMAIN h
    BY <1>1, <1>4 DEF Frame
  <2> QED
    BY <1>2, <1>3, <2>1
<1>6. o[r] = r
  <2>1. r \in A
    BY <1>5 DEF Anchored
  <2> QED
    BY <2>1 DEF Stored, Shape, Mapped
<1>7. \A k \in 1 .. n - 1 : o[c[k + 1].item] = c[k].head /\ c[k].head # NULL
  <2> SUFFICES ASSUME NEW k \in 1 .. n - 1
               PROVE  o[c[k + 1].item] = c[k].head /\ c[k].head # NULL
    OBVIOUS
  <2>1. k \in 1 .. n
    BY <1>1
  <2> QED
    BY <1>2, <1>4, <2>1 DEF Waits, Frame
<1>8. \A k \in 1 .. n : c[k].head # NULL => c[k].head # r /\ c[k].head \in A
  BY <1>4 DEF Frame, Anchored
<1>9. \A k \in 1 .. n - 1 : c[k].head \in A /\ c[k].head # c[n].head
  BY <1>1, <1>2, <1>7, <1>8
(* An item hangs where the list of the call below does. *)
<1>10. \A k \in 1 .. n : k = 1 \/ (k - 1 \in 1 .. n - 1 /\ o[c[k].item] = c[k - 1].head)
  <2> SUFFICES ASSUME NEW k \in 1 .. n, k # 1
               PROVE  k - 1 \in 1 .. n - 1 /\ o[c[k].item] = c[k - 1].head
    OBVIOUS
  <2>1. k - 1 \in 1 .. n - 1 /\ (k - 1) + 1 = k
    BY <1>1
  <2> QED
    BY <1>7, <2>1
<1>11. \A k \in 1 .. n : o[c[k].item] # c[n].head
  <2> SUFFICES ASSUME NEW k \in 1 .. n
               PROVE  o[c[k].item] # c[n].head
    OBVIOUS
  <2>1. CASE k = 1
    BY <1>1, <1>2, <1>5, <1>6, <1>8, <2>1
  <2>2. CASE k # 1
    BY <1>9, <1>10, <2>2
  <2> QED
    BY <2>1, <2>2
<1>12. \A k \in 1 .. n - 1 : c[k].item # c[n].item
  <2> SUFFICES ASSUME NEW k \in 1 .. n - 1
               PROVE  o[c[k].item] # o[c[n].item]
    OBVIOUS
  <2>1. n # 1 /\ k \in 1 .. n /\ n - 1 \in 1 .. n /\ n - 1 \in 1 .. n - 1
    BY <1>1
  <2>2. o[c[n].item] = c[n - 1].head
    BY <1>1, <1>10, <2>1
  <2>3. CASE k = 1
    BY <1>2, <1>6, <1>7, <1>8, <2>1, <2>2, <2>3
  <2>4. CASE k # 1
    <3>1. o[c[k].item] = c[k - 1].head /\ k - 1 \in 1 .. n /\ k - 1 # n - 1
      BY <1>1, <1>10, <2>1, <2>4
    <3> QED
      BY <1>2, <1>7, <2>1, <2>2, <3>1
  <2> QED
    BY <2>3, <2>4
<1>13. n \in 1 .. n /\ \A k \in 1 .. n - 1 : k \in 1 .. n
  BY <1>1
<1>14. \A k \in 1 .. n - 1 : Frame(h, c[k], r, o, l) /\ o[c[k].item] # c[n].head
  BY <1>4, <1>11, <1>13
<1>15. Frame(h, c[n], r, o, l) /\ o[c[n].item] # c[n].head
  BY <1>4, <1>11, <1>13
<1>16. c[n].head # NULL => c[n].head \in A
  BY <1>8, <1>13
<1> QED
  BY <1>1, <1>3, <1>5, <1>9, <1>12, <1>14, <1>15, <1>16

(* A call below the innermost one rests on what is not touched. *)
LEMMA FrameKept ==
  ASSUME NEW h, NEW g, NEW f, NEW r, NEW o, NEW l, NEW o2, NEW l2, Frame(h, f, r, o, l),
         f.item \in DOMAIN g, g[f.item].child = h[f.item].child,
         g[f.item].valuestring = h[f.item].valuestring,
         f.head # NULL =>
           /\ f.current \in DOMAIN g /\ g[f.current].next = h[f.current].next
           /\ o2[f.current] = o[f.current] /\ l2[f.current] = l[f.current]
  PROVE  Frame(g, f, r, o2, l2)
BY DEF Frame

(* The frames of the calls below the innermost one, and of a new one. *)
LEMMA FramesOfLower ==
  ASSUME NEW g, NEW c, NEW r, NEW o, NEW l, Stack(c, r), c # <<>>,
         \A k \in 1 .. Len(c) - 1 : Frame(g, c[k], r, o, l)
  PROVE  /\ Frames(g, Below(c), r, o, l)
         /\ \A f \in Call : Frame(g, f, r, o, l) => Frames(g, Replaced(c, f), r, o, l)
<1> DEFINE n == Len(c)
           p == SubSeq(c, 1, n - 1)
<1>1. /\ n \in Nat \ {0} /\ p \in Seq(Call) /\ Len(p) = n - 1
      /\ \A k \in 1 .. n - 1 : p[k] = c[k]
  BY Lower DEF Stack
<1> HIDE DEF p
<1>2. Frames(g, p, r, o, l)
  BY <1>1 DEF Frames
<1>3. ASSUME NEW f \in Call, Frame(g, f, r, o, l)
      PROVE  Frames(g, Append(p, f), r, o, l)
  <2>1. /\ Len(Append(p, f)) = Len(p) + 1 /\ Append(p, f)[Len(p) + 1] = f
        /\ \A k \in 1 .. Len(p) : Append(p, f)[k] = p[k]
    BY <1>1, Pushed
  <2>2. \A k \in 1 .. Len(p) + 1 : k \in 1 .. n - 1 \/ k = Len(p) + 1
    BY <1>1
  <2> QED
    BY <1>1, <1>3, <2>1, <2>2 DEF Frames
<1> QED
  BY <1>2, <1>3 DEF p, Below, Replaced

(* A call returns that has built no list. *)
LEMMA StoredOnReturn ==
  ASSUME NEW h, NEW g, NEW s, NEW z, NEW c, NEW r, NEW o, NEW l, Stored(h, s, c, r, o, l),
         c # <<>>, c[Len(c)].head = NULL,
         IsHeap(g), SameLinks(h, g), Spelt(g, z),
         \A a \in DOMAIN h : a # c[Len(c)].item => g[a].valuestring = h[a].valuestring
  PROVE  Stored(g, z, Below(c), r, o, l)
<1> DEFINE p == Below(c)
<1>1. Stack(c, r) /\ Shape(h, Anchored(c, r), o, l)
  BY DEF Stored
<1>2. Stack(p, r) /\ Anchored(p, r) = Anchored(c, r)
  <2>1. NULL \notin Anchored(c, r)
    BY DEF Anchored
  <2> QED
    BY <1>1, <2>1, StackOfReturn
<1>3. Shape(g, Anchored(p, r), o, l)
  BY <1>1, <1>2, ShapeOfLinks
<1>4. \A k \in 1 .. Len(c) - 1 : Frame(g, c[k], r, o, l)
  <2> SUFFICES ASSUME NEW k \in 1 .. Len(c) - 1
               PROVE  Frame(g, c[k], r, o, l)
    OBVIOUS
  <2>1. Frame(h, c[k], r, o, l) /\ c[k].item # c[Len(c)].item
    BY TopOfStack
  <2> QED
    BY <2>1, FrameKept DEF Frame, SameLinks
<1>5. Frames(g, p, r, o, l)
  BY <1>1, <1>4, FramesOfLower
<1> QED
  BY <1>2, <1>3, <1>5 DEF Stored

(* The innermost call goes on. *)
LEMMA StoredOnReplace ==
  ASSUME NEW h, NEW s, NEW c, NEW r, NEW o, NEW l, Stored(h, s, c, r, o, l),
         c # <<>>, NEW f \in Call, f.item = c[Len(c)].item, f.head = c[Len(c)].head,
         Frame(h, f, r, o, l)
  PROVE  Stored(h, s, Replaced(c, f), r, o, l)
<1> DEFINE d == Replaced(c, f)
<1>1. Stack(c, r) /\ Shape(h, Anchored(c, r), o, l)
  BY DEF Stored
<1>2. Stack(d, r) /\ Anchored(d, r) = Anchored(c, r)
  <2>1. /\ Stack(d, r)
        /\ Anchored(d, r) = Anchored(c, r) \cup ({f.head} \ {NULL})
    BY <1>1, StackOfReplaced
  <2>2. f.head # NULL => f.head \in Anchored(c, r)
    BY TopOfStack
  <2> QED
    BY <2>1, <2>2
<1>3. \A k \in 1 .. Len(c) - 1 : Frame(h, c[k], r, o, l)
  BY TopOfStack
<1>4. Frames(h, d, r, o, l)
  BY <1>1, <1>3, FramesOfLower
<1> QED
  BY <1>1, <1>2, <1>4 DEF Stored

(* The list of the innermost call begins, or is extended. *)
LEMMA StoredOnExtend ==
  ASSUME NEW h, NEW g, NEW s, NEW z, NEW c, NEW r, NEW o, NEW l, Stored(h, s, c, r, o, l),
         c # <<>>, NEW i, i # NULL, i \notin DOMAIN h,
         IsHeap(g), Spelt(g, z), DOMAIN g = DOMAIN h \cup {i},
         g[i].child = NULL, g[i].next = NULL,
         \A a \in DOMAIN h : g[a].valuestring = h[a].valuestring,
         c[Len(c)].head = NULL => \A a \in DOMAIN h : g[a] = h[a],
         c[Len(c)].head # NULL =>
           /\ \A a \in DOMAIN h : /\ g[a].child = h[a].child /\ g[a].prev = h[a].prev
                                  /\ a # c[Len(c)].current => g[a].next = h[a].next
           /\ g[c[Len(c)].current].next = i /\ g[i].prev = c[Len(c)].current,
         NEW f \in Call, f.item = c[Len(c)].item, Waits(f), f.current = i,
         f.head = IF c[Len(c)].head = NULL THEN i ELSE c[Len(c)].head
  PROVE  Accounted(g, z, Replaced(c, f), r)
<1> DEFINE top == c[Len(c)]
           d == Replaced(c, f)
           A == Anchored(c, r)
<1>1. Stack(c, r) /\ Shape(h, A, o, l)
  BY DEF Stored
<1>2. /\ Frame(h, top, r, o, l)
      /\ NULL \notin DOMAIN h /\ r \in DOMAIN h
      /\ top.head # NULL => top.head \in A
      /\ \A k \in 1 .. Len(c) - 1 :
           /\ Frame(h, c[k], r, o, l) /\ c[k].head # top.head
           /\ c[k].head \in A
  BY TopOfStack
<1>3. A \subseteq DOMAIN h /\ NULL \notin A
  BY <1>1 DEF Shape, Mapped, Anchored
<1>4. i # NULL
  OBVIOUS
<1>5. Stack(d, r) /\ Anchored(d, r) = A \cup {f.head}
  <2>1. top.head = NULL => f.head \notin A
    BY <1>3
  <2>2. f.head = top.head \/ (top.head = NULL /\ f.head \notin A)
    BY <2>1
  <2>3. /\ Stack(d, r)
        /\ Anchored(d, r) = A \cup ({f.head} \ {NULL})
    BY <1>1, <2>2, StackOfReplaced
  <2>4. f.head # NULL
    BY <1>4
  <2> QED
    BY <2>3, <2>4
<1>a. top.head = NULL => \A a \in DOMAIN h : g[a] = h[a]
  OBVIOUS
<1>b. top.head # NULL =>
        /\ \A a \in DOMAIN h : /\ g[a].child = h[a].child /\ g[a].prev = h[a].prev
                               /\ a # top.current => g[a].next = h[a].next
        /\ g[top.current].next = i /\ g[i].prev = top.current
  OBVIOUS
<1> HIDE DEF d, A, top
<1>6. ASSUME NEW o2, NEW l2, Shape(g, A \cup {f.head}, o2, l2),
             \A a \in DOMAIN h : o2[a] = o[a] /\ l2[a] = l[a],
             o2[i] = f.head /\ l2[i] = f.head
      PROVE  Accounted(g, z, d, r)
  <2>1. \A k \in 1 .. Len(c) - 1 : Frame(g, c[k], r, o2, l2)
    <3> SUFFICES ASSUME NEW k \in 1 .. Len(c) - 1
                 PROVE  Frame(g, c[k], r, o2, l2)
      OBVIOUS
    <3>1. Frame(h, c[k], r, o, l) /\ c[k].head # top.head /\ c[k].head # NULL
      BY <1>2, <1>3
    <3>2. c[k].item \in DOMAIN h /\ c[k].current \in DOMAIN h /\ o[c[k].current] = c[k].head
      BY <3>1 DEF Frame
    <3>3. top.head # NULL => o[top.current] = top.head
      BY <1>2 DEF Frame
    <3>4. g[c[k].current].next = h[c[k].current].next /\ g[c[k].item].child = h[c[k].item].child
      BY <1>a, <1>b, <3>1, <3>2, <3>3
    <3> QED
      BY <1>6, <3>1, <3>2, <3>4, FrameKept
  <2>2. Frame(g, f, r, o2, l2)
    <3>1. f.item \in DOMAIN h /\ h[f.item].child = NULL /\ h[f.item].valuestring = NULL
      BY <1>2 DEF Frame, top
    <3>2. f.item \in DOMAIN g /\ g[f.item].child = NULL /\ g[f.item].valuestring = NULL
      BY <1>a, <1>b, <3>1
    <3>3. f.head # r
      <4>1. CASE top.head = NULL
        BY <1>2, <4>1 DEF top
      <4>2. CASE top.head # NULL
        BY <1>2, <4>2 DEF Frame, top
      <4> QED
        BY <4>1, <4>2
    <3> QED
      BY <1>4, <1>6, <3>2, <3>3 DEF Frame, Waits
  <2>3. Frames(g, d, r, o2, l2)
    BY <1>1, <2>1, <2>2, FramesOfLower DEF d
  <2> QED
    BY <1>5, <1>6, <2>3 DEF Stored, Accounted
<1>7. ASSUME top.head = NULL
      PROVE  Accounted(g, z, d, r)
  <2>1. f.head = i
    BY <1>7 DEF top
  <2>2. PICK o2, l2 : Shape(g, A \cup {i}, o2, l2) /\ Agree(h, o, l, o2, l2)
    <3>1. \A a \in DOMAIN h : g[a] = h[a]
      BY <1>a, <1>7
    <3>2. Added(h, g, i)
      BY <3>1 DEF Added
    <3> QED
      BY <1>1, <1>2, <3>2, ShapeOfNewAnchor, Zenon
  <2> QED
    <3>1. Shape(g, A \cup {f.head}, o2, l2) /\ o2[i] = f.head /\ l2[i] = f.head
      BY <2>1, <2>2 DEF Shape, Mapped
    <3>2. \A a \in DOMAIN h : o2[a] = o[a] /\ l2[a] = l[a]
      BY <2>2 DEF Agree
    <3> QED
      BY <1>6, <3>1, <3>2
<1>8. ASSUME top.head # NULL
      PROVE  Accounted(g, z, d, r)
  <2>1. f.head = top.head /\ A \cup {f.head} = A
    BY <1>2, <1>8 DEF top
  <2>2. /\ top.head \in A /\ top.current \in DOMAIN h /\ h[top.current].next = NULL
        /\ o[top.current] = top.head /\ l[top.current] = top.head
    BY <1>2, <1>8 DEF Frame
  <2>3. /\ \A a \in DOMAIN h : /\ g[a].child = h[a].child /\ g[a].prev = h[a].prev
                               /\ a # top.current => g[a].next = h[a].next
        /\ g[top.current].next = i /\ g[i].prev = top.current
    BY <1>b, <1>8
  <2>4. PICK o2, l2 : /\ Shape(g, A, o2, l2)
                      /\ \A a \in DOMAIN h : o2[a] = o[a] /\ l2[a] = l[a]
                      /\ o2[i] = top.head /\ l2[i] = top.head
    <3> QED
      BY <1>1, <1>2, <1>4, <2>2, <2>3, ShapeOfAppended
  <2> QED
    <3>1. Shape(g, A \cup {f.head}, o2, l2) /\ o2[i] = f.head /\ l2[i] = f.head
      BY <2>1, <2>4
    <3>2. \A a \in DOMAIN h : o2[a] = o[a] /\ l2[a] = l[a]
      BY <2>4
    <3> QED
      BY <1>6, <3>1, <3>2
<1> QED
  BY <1>7, <1>8 DEF d

(* The value of the last item of a list is parsed. *)
LEMMA StoredOnPush ==
  ASSUME NEW h, NEW s, NEW c, NEW r, NEW o, NEW l, Stored(h, s, c, r, o, l),
         c # <<>>, Waits(c[Len(c)]),
         h[c[Len(c)].current].child = NULL, h[c[Len(c)].current].valuestring = NULL
  PROVE  Stored(h, s, Pushing(c, Value(c[Len(c)].current)), r, o, l)
<1> DEFINE top == c[Len(c)]
           v == Value(top.current)
           d == Pushing(c, v)
<1>1. Stack(c, r) /\ c \in Seq(Call) /\ Frames(h, c, r, o, l)
  BY DEF Stored, Stack
<1>2. Len(c) \in Nat \ {0} /\ top \in Call /\ Frame(h, top, r, o, l)
  BY TopOfStack
<1>3. v \in Call /\ v.item = top.current /\ v.head = NULL /\ v.current = NULL /\ v.fn = "value" /\ v.at = "enter"
  BY <1>2 DEF Value, Call, NULL
<1>4. Stack(d, r) /\ Anchored(d, r) = Anchored(c, r)
  <2> HIDE DEF v
  <2> QED
    BY <1>1, <1>3, StackOfPushed
<1>5. Frame(h, v, r, o, l)
  BY <1>2, <1>3 DEF Frame, Waits
<1>6. Frames(h, d, r, o, l)
  <2> HIDE DEF v
  <2>1. Len(d) = Len(c) + 1 /\ d[Len(c) + 1] = v /\ \A k \in 1 .. Len(c) : d[k] = c[k]
    BY <1>1, <1>3, Pushed DEF Pushing
  <2>2. \A k \in 1 .. Len(c) + 1 : k \in 1 .. Len(c) \/ k = Len(c) + 1
    BY <1>2
  <2> QED
    BY <1>1, <1>5, <2>1, <2>2 DEF Frames
<1> QED
  BY <1>4, <1>6 DEF Stored

(* A complete list is handed to the item of the innermost call. *)
LEMMA StoredOnClose ==
  ASSUME NEW h, NEW g, NEW s, NEW c, NEW r, NEW o, NEW l, Stored(h, s, c, r, o, l),
         c # <<>>, c[Len(c)].head # NULL,
         IsHeap(g), SameStrings(h, g),
         \A a \in DOMAIN h : /\ g[a].next = h[a].next
                             /\ a # c[Len(c)].item => g[a].child = h[a].child
                             /\ a # c[Len(c)].head => g[a].prev = h[a].prev,
         g[c[Len(c)].item].child = c[Len(c)].head, g[c[Len(c)].head].prev = c[Len(c)].current
  PROVE  Accounted(g, s, Below(c), r)
<1> DEFINE top == c[Len(c)]
           A == Anchored(c, r)
<1>1. Stack(c, r) /\ Shape(h, A, o, l) /\ Spelt(h, s)
  BY DEF Stored
<1>2. /\ Frame(h, top, r, o, l)
      /\ NULL \notin DOMAIN h /\ r \in DOMAIN h
      /\ top.head \in A /\ o[top.item] # top.head
      /\ \A k \in 1 .. Len(c) - 1 :
           /\ Frame(h, c[k], r, o, l) /\ c[k].head # top.head
           /\ c[k].head \in A /\ c[k].item # top.item
  BY TopOfStack
<1>3. Stack(Below(c), r) /\ Anchored(Below(c), r) = A \ {top.head}
  <2>1. top.head # r
    BY <1>2 DEF Frame
  <2> QED
    BY <1>1, <2>1, StackOfReturn
<1>4. PICK o2 : Shape(g, A \ {top.head}, o2, l) /\ Rehung(h, top.head, o, o2)
  <2>1. /\ top.head \in A /\ top.current \in DOMAIN h /\ top.item \in DOMAIN h
        /\ o[top.current] = top.head /\ l[top.current] = top.head /\ h[top.current].next = NULL
        /\ o[top.item] # top.head /\ h[top.item].child = NULL
    BY <1>2 DEF Frame
  <2>2. Handed(h, g, top.item, top.head, top.current)
    BY DEF SameStrings, Handed
  <2> HIDE DEF top, A
  <2> QED
    BY <1>1, <1>2, <2>1, <2>2, ShapeOfClosed, Zenon
<1> HIDE DEF A, top
<1>5. \A k \in 1 .. Len(c) - 1 : Frame(g, c[k], r, o2, l)
  <2> SUFFICES ASSUME NEW k \in 1 .. Len(c) - 1
               PROVE  Frame(g, c[k], r, o2, l)
    OBVIOUS
  <2>1. /\ Frame(h, c[k], r, o, l) /\ c[k].head # top.head /\ c[k].head # NULL
        /\ c[k].item # top.item
    BY <1>2 DEF A, Anchored
  <2>2. /\ c[k].item \in DOMAIN h /\ c[k].current \in DOMAIN h
        /\ o[c[k].current] = c[k].head /\ l[c[k].current] = c[k].head
    BY <2>1 DEF Frame
  <2>3. o2[c[k].current] = o[c[k].current]
    BY <1>4, <2>1, <2>2 DEF Rehung
  <2>4. /\ c[k].item \in DOMAIN g /\ c[k].current \in DOMAIN g
        /\ g[c[k].current].next = h[c[k].current].next
        /\ g[c[k].item].child = h[c[k].item].child
        /\ g[c[k].item].valuestring = h[c[k].item].valuestring
    BY <2>1, <2>2 DEF SameStrings, top
  <2> QED
    BY <2>1, <2>3, <2>4, FrameKept
<1>6. Frames(g, Below(c), r, o2, l)
  BY <1>1, <1>5, FramesOfLower
<1>7. Spelt(g, s)
  BY <1>1, SpeltOfStrings
<1> QED
  BY <1>3, <1>4, <1>6, <1>7 DEF Stored, Accounted

(* What free() leaves. *)
LEMMA WithoutThem ==
  ASSUME NEW b, NEW S
  PROVE  DOMAIN Without(b, S) = DOMAIN b \ S /\ \A a \in DOMAIN b \ S : Without(b, S)[a] = b[a]
BY DEF Without

(* The list of the innermost call is deleted, if it has begun. *)
LEMMA StoredOnDelete ==
  ASSUME NEW h, NEW g, NEW s, NEW z, NEW c, NEW r, NEW o, NEW l, Stored(h, s, c, r, o, l),
         c # <<>>, g = Without(h, Tree(h, c[Len(c)].head)),
         z = Without(s, StringsOf(h, Tree(h, c[Len(c)].head)))
  PROVE  Stored(g, z, Below(c), r, o, l)
<1> DEFINE top == c[Len(c)]
           A == Anchored(c, r)
           C == Tree(h, top.head)
<1>1. Stack(c, r) /\ Shape(h, A, o, l) /\ Spelt(h, s) /\ IsHeap(h)
  BY DEF Stored
<1>2. /\ Frame(h, top, r, o, l)
      /\ NULL \notin DOMAIN h /\ r \in DOMAIN h
      /\ top.head # NULL => top.head \in A
      /\ \A k \in 1 .. Len(c) - 1 :
           /\ Frame(h, c[k], r, o, l) /\ c[k].head # top.head
           /\ c[k].head \in A /\ o[c[k].item] # top.head
  BY TopOfStack
<1>3. C = {a \in DOMAIN h : o[a] = top.head}
  <2>1. CASE top.head = NULL
    <3>1. C = {}
      BY <2>1, TreeOfNothing
    <3>2. \A a \in DOMAIN h : o[a] # NULL
      BY <1>1 DEF Shape, Mapped, Anchored
    <3> QED
      BY <2>1, <3>1, <3>2
  <2>2. CASE top.head # NULL
    <3>1. top.head \in A
      BY <1>2, <2>2
    <3> HIDE DEF A, top
    <3> QED
      BY <1>1, <1>2, <3>1, TreeOfAnchor
  <2> QED
    BY <2>1, <2>2
<1>4. DOMAIN g = DOMAIN h \ C /\ \A a \in DOMAIN g : g[a] = h[a]
  <2>1. g = Without(h, C)
    OBVIOUS
  <2>2. DOMAIN Without(h, C) = DOMAIN h \ C /\ \A a \in DOMAIN h \ C : Without(h, C)[a] = h[a]
    <3> HIDE DEF C
    <3> QED
      BY WithoutThem
  <2> HIDE DEF C
  <2> QED
    BY <2>1, <2>2
<1>5. DOMAIN z = DOMAIN s \ StringsOf(h, C)
  BY WithoutThem
<1>6. Stack(Below(c), r) /\ Anchored(Below(c), r) = A \ {top.head}
  <2>1. top.head # r \/ top.head = NULL
    BY <1>2 DEF Frame
  <2> QED
    BY <1>1, <2>1, StackOfReturn
<1> HIDE DEF A, top, C
<1>7. IsHeap(g)
  <2>1. IsFiniteSet(DOMAIN g)
    <3>1. IsFiniteSet(DOMAIN h) /\ DOMAIN g \subseteq DOMAIN h
      BY <1>1, <1>4 DEF IsHeap
    <3> QED
      BY <3>1, FS_Subset
  <2> QED
    BY <1>1, <1>4, <2>1 DEF IsHeap
<1>8. Spelt(g, z)
  BY <1>1, <1>3, <1>4, <1>5, SpeltOfDeleted
<1>9. Shape(g, A \ {top.head}, o, l)
  <2>1. DOMAIN g = {a \in DOMAIN h : o[a] # top.head}
    BY <1>3, <1>4
  <2>2. CASE top.head \in A
    BY <1>1, <1>2, <1>4, <2>1, <2>2, ShapeOfDeleted
  <2>3. CASE top.head \notin A
    <3>1. DOMAIN g = DOMAIN h
      BY <1>1, <2>1, <2>3 DEF Shape, Mapped
    <3>2. SameLinks(h, g)
      BY <1>4, <3>1 DEF SameLinks
    <3>3. Shape(g, A, o, l)
      BY <1>1, <3>2, ShapeOfLinks
    <3>4. A \ {top.head} = A
      BY <2>3
    <3> QED
      BY <3>3, <3>4
  <2> QED
    BY <2>2, <2>3
<1>10. \A k \in 1 .. Len(c) - 1 : Frame(g, c[k], r, o, l)
  <2> SUFFICES ASSUME NEW k \in 1 .. Len(c) - 1
               PROVE  Frame(g, c[k], r, o, l)
    OBVIOUS
  <2>1. /\ Frame(h, c[k], r, o, l) /\ c[k].head # top.head /\ c[k].head # NULL
        /\ o[c[k].item] # top.head
    BY <1>2 DEF A, Anchored
  <2>2. /\ c[k].item \in DOMAIN h /\ c[k].current \in DOMAIN h
        /\ o[c[k].current] = c[k].head
    BY <2>1 DEF Frame
  <2>3. c[k].item \in DOMAIN g /\ c[k].current \in DOMAIN g
    BY <1>3, <1>4, <2>1, <2>2
  <2>4. /\ g[c[k].current].next = h[c[k].current].next
        /\ g[c[k].item].child = h[c[k].item].child
        /\ g[c[k].item].valuestring = h[c[k].item].valuestring
    BY <1>4, <2>3
  <2> QED
    BY <2>1, <2>3, <2>4, FrameKept
<1>11. Frames(g, Below(c), r, o, l)
  BY <1>1, <1>10, FramesOfLower
<1> QED
  BY <1>6, <1>7, <1>8, <1>9, <1>11 DEF Stored, A, top

(* Without anchors there is nothing. *)
LEMMA NothingIsStored ==
  ASSUME NEW h, NEW s, NEW o, NEW l, Stored(h, s, <<>>, NULL, o, l)
  PROVE  DOMAIN h = {} /\ DOMAIN s = {}
<1>1. Anchored(<<>>, NULL) = {}
  BY DEF Anchored
<1>2. DOMAIN h = {}
  <2>1. Closure(h, {})
    BY DEF Closure
  <2> QED
    BY <1>1, <2>1 DEF Stored, Shape, Reached
<1>3. DOMAIN s = {}
  BY <1>2 DEF Stored, Spelt
<1> QED
  BY <1>2, <1>3

(* The tree of the root is all there is once no call is left. *)
LEMMA RootIsDeleted ==
  ASSUME NEW h, NEW s, NEW r, NEW o, NEW l, Stored(h, s, <<>>, r, o, l), r # NULL
  PROVE  Without(h, Tree(h, r)) = <<>> /\ Without(s, StringsOf(h, Tree(h, r))) = <<>>
<1>1. Anchored(<<>>, r) = {r}
  BY DEF Anchored
<1>2. Shape(h, {r}, o, l) /\ Spelt(h, s) /\ NULL \notin DOMAIN h
  BY <1>1 DEF Stored, IsHeap, NULL
<1>3. Tree(h, r) = DOMAIN h
  <2>1. Tree(h, r) = {a \in DOMAIN h : o[a] = r}
    <3> DEFINE A == {r}
    <3>1. r \in A /\ Shape(h, A, o, l) /\ NULL \notin DOMAIN h
      BY <1>2
    <3> HIDE DEF A
    <3> QED
      BY <3>1, TreeOfAnchor
  <2>2. \A a \in DOMAIN h : o[a] = r
    BY <1>2 DEF Shape, Mapped
  <2> QED
    BY <2>1, <2>2
<1>4. DOMAIN s \subseteq StringsOf(h, DOMAIN h)
  <2> SUFFICES ASSUME NEW t \in DOMAIN s
               PROVE  t \in StringsOf(h, DOMAIN h)
    OBVIOUS
  <2>1. t # NULL
    BY <1>2 DEF Spelt, NULL
  <2>2. PICK a \in DOMAIN h : h[a].string = t \/ h[a].valuestring = t
    BY <1>2 DEF Spelt
  <2> QED
    BY <2>1, <2>2 DEF StringsOf
<1>5. \A b, S : DOMAIN b \subseteq S => Without(b, S) = <<>>
  <2> SUFFICES ASSUME NEW b, NEW S, DOMAIN b \subseteq S
               PROVE  Without(b, S) = <<>>
    OBVIOUS
  <2>1. DOMAIN b \ S = {}
    OBVIOUS
  <2> QED
    BY <2>1 DEF Without
<1> QED
  BY <1>3, <1>4, <1>5

(* The first item is the root. *)
LEMMA RootIsStored ==
  ASSUME NEW h, NEW s, NEW r \in Nat \ {0}, DOMAIN h = {}, DOMAIN s = {}
  PROVE  Accounted(With(h, r, cJSON_New_Item), s, <<Value(r)>>, r)
<1> DEFINE g == With(h, r, cJSON_New_Item)
           c == <<Value(r)>>
           o == [a \in {r} |-> r]
<1>1. DOMAIN g = {r} /\ g[r] = cJSON_New_Item
  BY DEF With
<1>2. /\ DOMAIN g[r] = Fields
      /\ g[r].child = NULL /\ g[r].next = NULL /\ g[r].string = NULL /\ g[r].valuestring = NULL
  BY <1>1 DEF cJSON_New_Item, Fields
<1>3. c \in Seq(Call) /\ Len(c) = 1 /\ c[1] = Value(r)
  BY DEF Value, Call, NULL
<1>4. Value(r).head = NULL /\ Value(r).current = NULL /\ Value(r).item = r
      /\ Value(r).fn = "value" /\ Value(r).at = "enter"
  BY DEF Value
<1>5. o[r] = r
  OBVIOUS
<1> HIDE DEF g, c, o
<1>6. IsHeap(g)
  BY <1>1, <1>2, FS_Singleton DEF IsHeap
<1>7. Anchored(c, r) = {r}
  BY <1>3, <1>4 DEF Anchored, NULL
<1>8. Shape(g, {r}, o, o)
  <2>1. Mapped(g, {r}, o, o)
    BY <1>1, <1>5 DEF Mapped
  <2>2. Hanging(g, {r}, o) /\ Single(g) /\ Reached(g, {r}) /\ Listed(g, o)
    BY <1>1, <1>2 DEF Hanging, Links, Single, Reached, Listed
  <2> QED
    BY <2>1, <2>2 DEF Shape
<1>9. Spelt(g, s)
  BY <1>1, <1>2, FS_EmptySet DEF Spelt
<1>10. Stack(c, r)
  BY <1>3, <1>4 DEF Stack
<1>11. Frames(g, c, r, o, o)
  BY <1>1, <1>2, <1>3, <1>4 DEF Frames, Frame
<1> QED
  BY <1>6, <1>7, <1>8, <1>9, <1>10, <1>11 DEF Stored, Accounted, g, c

(* Before it, nothing is. *)
LEMMA NothingToStore ==
  Accounted(<<>>, <<>>, <<>>, NULL)
<1>1. DOMAIN <<>> = {} /\ Len(<<>>) = 0
  OBVIOUS
<1>2. IsHeap(<<>>) /\ Spelt(<<>>, <<>>)
  BY <1>1, FS_EmptySet DEF IsHeap, Spelt
<1>3. Anchored(<<>>, NULL) = {}
  BY DEF Anchored
<1>4. Shape(<<>>, {}, <<>>, <<>>)
  BY <1>1 DEF Shape, Mapped, Hanging, Single, Reached, Listed
<1>5. Stack(<<>>, NULL) /\ Frames(<<>>, <<>>, NULL, <<>>, <<>>)
  BY <1>1 DEF Stack, Frames
<1> QED
  BY <1>2, <1>3, <1>4, <1>5 DEF Stored, Accounted

-----------------------------------------------------------------------------
(* What is stored is owned, and its lists are linked. *)

(* The invariant says what the property says, item by item. *)
LEMMA StoredIsOwned ==
  ASSUME Accounted(heap, strings, calls, root)
  PROVE  MemoryIsOwned
<1> DEFINE A == Anchored(calls, root)
<1>1. PICK o, l : Stored(heap, strings, calls, root, o, l)
  BY DEF Accounted
<1>2. A = Anchors \ {NULL}
  BY DEF Anchored, Anchors
<1> HIDE DEF A
<1>3. Shape(heap, A, o, l) /\ Spelt(heap, strings) /\ NULL \notin DOMAIN heap
  BY <1>1 DEF Stored, IsHeap, NULL, A
<1>4. Kept = DOMAIN heap
  <2>1. Kept = UNION {Tree(heap, b) : b \in A}
    BY <1>2 DEF Kept
  <2>2. \A b \in A : Tree(heap, b) = {a \in DOMAIN heap : o[a] = b}
    BY <1>3, TreeOfAnchor
  <2>3. \A a \in DOMAIN heap : o[a] \in A
    BY <1>3 DEF Shape, Mapped
  <2>4. Kept \subseteq DOMAIN heap
    BY <2>1, <2>2
  <2>5. \A a \in DOMAIN heap : a \in Tree(heap, o[a])
    BY <2>2, <2>3
  <2> QED
    BY <2>1, <2>3, <2>4, <2>5
<1>5. References("child") \cup References("next") \subseteq DOMAIN heap
  BY <1>3 DEF References, Shape, Hanging, Links
<1>6. ASSUME NEW a \in DOMAIN heap
      PROVE  Cardinality(Owners(a)) = IF a \in Anchors THEN 0 ELSE 1
  <2>1. CASE a \in Anchors
    <3>1. a \in A
      BY <1>2, <1>3, <2>1
    <3>2. \A b \in DOMAIN heap : heap[b].child # a /\ heap[b].next # a
      BY <1>3, <3>1 DEF Shape, Hanging, Links
    <3>3. Owners(a) = {}
      BY <3>2 DEF Owners
    <3> QED
      BY <2>1, <3>3, FS_EmptySet
  <2>2. CASE a \notin Anchors
    <3>1. a \notin A
      BY <1>2, <2>2
    <3>2. \E b \in DOMAIN heap : heap[b].child = a \/ heap[b].next = a
      <4> SUFFICES ASSUME \A b \in DOMAIN heap : heap[b].child # a /\ heap[b].next # a
                   PROVE  FALSE
        OBVIOUS
      <4> DEFINE S == DOMAIN heap \ {a}
      <4>1. Closure(heap, S)
        BY <1>3 DEF Closure, Shape, Hanging, Links
      <4>2. A \subseteq S
        BY <1>3, <3>1 DEF Shape, Mapped
      <4>3. S = DOMAIN heap
        BY <1>3, <4>1, <4>2 DEF Shape, Reached
      <4> QED
        BY <4>3
    <3>3. PICK b \in DOMAIN heap : heap[b].child = a \/ heap[b].next = a
      BY <3>2
    <3>4. a # NULL
      BY <1>3
    <3>5. /\ \A c \in DOMAIN heap : heap[c].child = a /\ heap[b].child = a => c = b
          /\ \A c \in DOMAIN heap : heap[c].next = a /\ heap[b].next = a => c = b
          /\ \A c, d \in DOMAIN heap : ~(heap[c].child = a /\ heap[d].next = a)
      BY <1>3, <3>4 DEF Shape, Single
    <3>6. PICK f \in {"child", "next"} : heap[b][f] = a
      BY <3>3
    <3>7. Owners(a) = {<<b, f>>}
      <4>1. <<b, f>> \in Owners(a)
        BY <3>6 DEF Owners
      <4>2. ASSUME NEW w \in Owners(a)
            PROVE  w = <<b, f>>
        <5>1. PICK c \in DOMAIN heap, e \in {"child", "next"} : w = <<c, e>> /\ heap[c][e] = a
          BY DEF Owners
        <5>2. c = b /\ e = f
          BY <3>5, <3>6, <5>1
        <5> QED
          BY <5>1, <5>2
      <4> QED
        BY <4>1, <4>2
    <3> QED
      BY <2>2, <3>7, FS_Singleton
  <2> QED
    BY <2>1, <2>2
<1>7. References("string") \cup References("valuestring") = DOMAIN strings
  <2>1. References("string") \cup References("valuestring") \subseteq DOMAIN strings
    BY <1>3 DEF References, Spelt
  <2>2. ASSUME NEW t \in DOMAIN strings
        PROVE  t \in References("string") \cup References("valuestring")
    <3>1. t # NULL
      BY <1>3 DEF Spelt, NULL
    <3>2. PICK a \in DOMAIN heap : heap[a].string = t \/ heap[a].valuestring = t
      BY <1>3 DEF Spelt
    <3> QED
      BY <3>1, <3>2 DEF References
  <2> QED
    BY <2>1, <2>2
<1>8. ASSUME NEW t \in DOMAIN strings
      PROVE  Cardinality(Holders(t)) = 1
  <2>1. t # NULL
    BY <1>3 DEF Spelt, NULL
  <2>2. PICK b \in DOMAIN heap : heap[b].string = t \/ heap[b].valuestring = t
    BY <1>3 DEF Spelt
  <2>3. /\ \A c \in DOMAIN heap : heap[c].string = t /\ heap[b].string = t => c = b
        /\ \A c \in DOMAIN heap : heap[c].valuestring = t /\ heap[b].valuestring = t => c = b
        /\ \A c, d \in DOMAIN heap : ~(heap[c].string = t /\ heap[d].valuestring = t)
    BY <1>3, <2>1 DEF Spelt
  <2>4. PICK f \in {"string", "valuestring"} : heap[b][f] = t
    BY <2>2
  <2>5. Holders(t) = {<<b, f>>}
    <3>1. <<b, f>> \in Holders(t)
      BY <2>4 DEF Holders
    <3>2. ASSUME NEW w \in Holders(t)
          PROVE  w = <<b, f>>
      <4>1. PICK c \in DOMAIN heap, e \in {"string", "valuestring"} : w = <<c, e>> /\ heap[c][e] = t
        BY DEF Holders
      <4>2. c = b /\ e = f
        BY <2>3, <2>4, <4>1
      <4> QED
        BY <4>1, <4>2
    <3> QED
      BY <3>1, <3>2
  <2> QED
    BY <2>5, FS_Singleton
<1> QED
  BY <1>4, <1>5, <1>6, <1>7, <1>8 DEF MemoryIsOwned

(* A head knows the tail of its list, which is reached from it. *)
LEMMA StoredIsLinked ==
  ASSUME Accounted(heap, strings, calls, root)
  PROVE  ListsAreLinked
<1> DEFINE A == Anchored(calls, root)
<1>1. PICK o, l : Stored(heap, strings, calls, root, o, l)
  BY DEF Accounted
<1>2. Shape(heap, A, o, l) /\ NULL \notin DOMAIN heap
  BY <1>1 DEF Stored, IsHeap, NULL
<1> HIDE DEF A
<1> SUFFICES ASSUME NEW a \in DOMAIN heap
             PROVE  /\ heap[a].next # NULL => heap[heap[a].next].prev = a
                    /\ heap[a].child # NULL =>
                         /\ heap[heap[a].child].prev # NULL
                         /\ heap[heap[heap[a].child].prev].next = NULL
                         /\ heap[heap[a].child].prev \in Tree(heap, heap[a].child)
  BY DEF ListsAreLinked
<1>3. heap[a].next # NULL => heap[heap[a].next].prev = a
  BY <1>2 DEF Shape, Listed
<1>4. ASSUME heap[a].child # NULL
      PROVE  /\ heap[heap[a].child].prev # NULL
             /\ heap[heap[heap[a].child].prev].next = NULL
             /\ heap[heap[a].child].prev \in Tree(heap, heap[a].child)
  <2> DEFINE b == heap[a].child
             t == heap[b].prev
  <2>1. /\ t \in DOMAIN heap
        /\ heap[t].next = NULL
        /\ l[t] = b
    BY <1>2, <1>4 DEF Shape, Listed
  <2>2. b \in DOMAIN heap
    BY <1>2, <1>4 DEF Shape, Hanging, Links
  <2>3. t \in Tree(heap, b)
    <3> HIDE DEF t, b
    <3> QED
      BY <1>2, <2>1, <2>2, TreeOfList
  <2> QED
    BY <1>2, <2>1, <2>3
<1> QED
  BY <1>3, <1>4

-----------------------------------------------------------------------------
(* The steps of the parser. *)

(* What the caller of the parser can rely on. *)
ParserControl ==
  /\ parse \in {"idle", "start", "running", "done"}
  /\ parse # "running" => calls = <<>>
  /\ parse = "running" => root # NULL
  /\ parse \in {"idle", "start"} => root = NULL
  /\ root = NULL => heap = <<>> /\ strings = <<>> /\ calls = <<>>

ParserInv == ParserControl /\ Accounted(heap, strings, calls, root)

(* While the parser runs, the rest is about the heap. *)
LEMMA ParserGoesOn ==
  ASSUME ParserInv, parse = "running", parse' = parse, root' = root,
         Accounted(heap', strings', calls', root')
  PROVE  ParserInv'
BY DEF ParserInv, ParserControl

(* What the innermost call can rely on. *)
LEMMA InnermostCall ==
  ASSUME NEW o, NEW l, Stored(heap, strings, calls, root, o, l), calls # <<>>
  PROVE  /\ Top = calls[Len(calls)] /\ Callers = Below(calls)
         /\ Top \in Call /\ Frame(heap, Top, root, o, l)
         /\ Callers \in Seq(Call)
         /\ IsHeap(heap) /\ Spelt(heap, strings)
<1>1. Top = calls[Len(calls)] /\ Callers = Below(calls)
  BY DEF Top, Callers, Below
<1>2. Callers \in Seq(Call)
  BY Lower DEF Stored, Stack, Callers
<1> QED
  BY <1>1, <1>2, TopOfStack DEF Stored

(* An item says of what type it is. *)
LEMMA ItemIsTyped ==
  ASSUME NEW h, NEW g, NEW s, IsHeap(h), Spelt(h, s), IsHeap(g),
         SameLinks(h, g), SameStrings(h, g),
         NEW o, NEW l, NEW c, NEW r, Stored(h, s, c, r, o, l), c # <<>>, c[Len(c)].head = NULL
  PROVE  Accounted(g, s, Below(c), r)
<1>1. Spelt(g, s)
  BY SpeltOfStrings
<1>2. \A a \in DOMAIN h : g[a].valuestring = h[a].valuestring
  BY DEF SameStrings
<1>3. Stored(g, s, Below(c), r, o, l)
  BY <1>1, <1>2, StoredOnReturn
<1> QED
  BY <1>3 DEF Accounted

(* parse_value returns without a change of the heap. *)
LEMMA NothingIsParsed ==
  ASSUME ParserInv, At({"value"}, "enter"), calls' = Callers,
         UNCHANGED <<heap, strings, root, parse>>
  PROVE  ParserInv'
<1>1. PICK o, l : Stored(heap, strings, calls, root, o, l)
  BY DEF ParserInv, Accounted
<1>2. calls # <<>> /\ parse = "running" /\ Top.fn = "value"
  BY DEF At
<1>3. /\ Top = calls[Len(calls)] /\ Callers = Below(calls) /\ Top.head = NULL
      /\ IsHeap(heap) /\ Spelt(heap, strings)
  BY <1>1, <1>2, InnermostCall DEF Frame
<1>4. SameLinks(heap, heap) /\ SameStrings(heap, heap)
  BY DEF SameLinks, SameStrings
<1>5. Accounted(heap, strings, Below(calls), root)
  BY <1>1, <1>2, <1>3, <1>4, ItemIsTyped
<1>6. Accounted(heap', strings', calls', root')
  BY <1>3, <1>5
<1> QED
  BY <1>2, <1>6, ParserGoesOn

LEMMA StepOfParseLiteral ==
  ASSUME ParserInv, ParseLiteral
  PROVE  ParserInv'
<1>1. PICK o, l : Stored(heap, strings, calls, root, o, l)
  BY DEF ParserInv, Accounted
<1>2. /\ calls # <<>> /\ parse = "running" /\ Top.fn = "value"
      /\ calls' = Callers /\ strings' = strings /\ root' = root /\ parse' = parse
  BY DEF ParseLiteral, At, Return
<1>3. /\ Top = calls[Len(calls)] /\ Callers = Below(calls) /\ Top.head = NULL
      /\ Top.item \in DOMAIN heap /\ IsHeap(heap) /\ Spelt(heap, strings)
  BY <1>1, <1>2, InnermostCall DEF Frame
<1>4. /\ DOMAIN heap' = DOMAIN heap
      /\ \A a \in DOMAIN heap : /\ DOMAIN heap'[a] = DOMAIN heap[a]
                                /\ heap'[a].child = heap[a].child
                                /\ heap'[a].next = heap[a].next
                                /\ heap'[a].prev = heap[a].prev
                                /\ heap'[a].string = heap[a].string
                                /\ heap'[a].valuestring = heap[a].valuestring
  BY DEF ParseLiteral
<1>5. IsHeap(heap') /\ SameLinks(heap, heap') /\ SameStrings(heap, heap')
  BY <1>3, <1>4 DEF IsHeap, SameLinks, SameStrings
<1>6. Accounted(heap', strings, Below(calls), root)
  BY <1>1, <1>2, <1>3, <1>5, ItemIsTyped
<1>7. Accounted(heap', strings', calls', root')
  BY <1>2, <1>3, <1>6
<1> QED
  BY <1>2, <1>7, ParserGoesOn

LEMMA StepOfParseNumber ==
  ASSUME ParserInv, ParseNumber
  PROVE  ParserInv'
<1>1. PICK o, l : Stored(heap, strings, calls, root, o, l)
  BY DEF ParserInv, Accounted
<1>2. /\ At({"value"}, "enter") /\ calls # <<>> /\ parse = "running" /\ Top.fn = "value"
      /\ calls' = Callers /\ strings' = strings /\ root' = root /\ parse' = parse
  BY DEF ParseNumber, At, Return
<1>3. /\ Top = calls[Len(calls)] /\ Callers = Below(calls) /\ Top.head = NULL
      /\ Top.item \in DOMAIN heap /\ IsHeap(heap) /\ Spelt(heap, strings)
  BY <1>1, <1>2, InnermostCall DEF Frame
<1>4. PICK v : \/ heap' = heap
               \/ heap' = [heap EXCEPT ![Top.item].type = "Number", ![Top.item].value = v]
  BY DEF ParseNumber
<1>5. /\ DOMAIN heap' = DOMAIN heap
      /\ \A a \in DOMAIN heap : /\ DOMAIN heap'[a] = DOMAIN heap[a]
                                /\ heap'[a].child = heap[a].child
                                /\ heap'[a].next = heap[a].next
                                /\ heap'[a].prev = heap[a].prev
                                /\ heap'[a].string = heap[a].string
                                /\ heap'[a].valuestring = heap[a].valuestring
  <2>1. CASE heap' = heap
    BY <2>1
  <2>2. CASE heap' = [heap EXCEPT ![Top.item].type = "Number", ![Top.item].value = v]
    BY <2>2
  <2> QED
    BY <1>4, <2>1, <2>2
<1>6. IsHeap(heap') /\ SameLinks(heap, heap') /\ SameStrings(heap, heap')
  BY <1>3, <1>5 DEF IsHeap, SameLinks, SameStrings
<1>7. Accounted(heap', strings, Below(calls), root)
  BY <1>1, <1>2, <1>3, <1>6, ItemIsTyped
<1>8. Accounted(heap', strings', calls', root')
  BY <1>2, <1>3, <1>7
<1> QED
  BY <1>2, <1>8, ParserGoesOn

LEMMA StepOfParseString ==
  ASSUME ParserInv, ParseString
  PROVE  ParserInv'
<1>1. PICK o, l : Stored(heap, strings, calls, root, o, l)
  BY DEF ParserInv, Accounted
<1>2. /\ At({"value"}, "enter") /\ calls # <<>> /\ parse = "running" /\ Top.fn = "value"
      /\ calls' = Callers /\ root' = root /\ parse' = parse
  BY DEF ParseString, At, Return
<1>3. /\ Top = calls[Len(calls)] /\ Callers = Below(calls) /\ Top.head = NULL
      /\ Top.item \in DOMAIN heap /\ heap[Top.item].valuestring = NULL
      /\ IsHeap(heap) /\ Spelt(heap, strings)
  BY <1>1, <1>2, InnermostCall DEF Frame
<1>4. CASE heap' = heap /\ strings' = strings
  BY <1>2, <1>4, NothingIsParsed
<1>5. ASSUME NEW text, strings' = With(strings, Unused(strings), text),
             heap' = [heap EXCEPT ![Top.item].type = "String",
                                  ![Top.item].valuestring = Unused(strings)]
      PROVE  ParserInv'
  <2> DEFINE t == Unused(strings)
  <2>1. t \in Nat \ {0} /\ t \notin DOMAIN strings
    BY <1>3, UnusedIsNew DEF Spelt
  <2> HIDE DEF t
  <2>2. /\ DOMAIN heap' = DOMAIN heap
        /\ \A a \in DOMAIN heap : /\ DOMAIN heap'[a] = DOMAIN heap[a]
                                  /\ heap'[a].child = heap[a].child
                                  /\ heap'[a].next = heap[a].next
                                  /\ heap'[a].prev = heap[a].prev
                                  /\ heap'[a].string = heap[a].string
                                  /\ a # Top.item => heap'[a].valuestring = heap[a].valuestring
    BY <1>5
  <2>3. heap'[Top.item].valuestring = t
    BY <1>3, <1>5 DEF t, IsHeap, Fields
  <2>4. IsHeap(heap') /\ SameLinks(heap, heap')
    BY <1>3, <2>2 DEF IsHeap, SameLinks
  <2>5. DOMAIN strings' = DOMAIN strings \cup {t}
    BY <1>5 DEF With, t
  <2>6. Spelt(heap', strings')
    <3>1. /\ heap'[Top.item].string = heap[Top.item].string
          /\ \A a \in DOMAIN heap :
               a # Top.item => /\ heap'[a].string = heap[a].string
                               /\ heap'[a].valuestring = heap[a].valuestring
      BY <1>3, <2>2
    <3> QED
      BY <1>3, <2>1, <2>2, <2>3, <2>5, <3>1, SpeltOfNewString
  <2>7. Stored(heap', strings', Below(calls), root, o, l)
    BY <1>1, <1>2, <1>3, <2>2, <2>4, <2>6, StoredOnReturn
  <2>8. Accounted(heap', strings', calls', root')
    BY <1>2, <1>3, <2>7 DEF Accounted
  <2> QED
    BY <1>2, <2>8, ParserGoesOn
<1> QED
  BY <1>4, <1>5 DEF ParseString

LEMMA StepOfOpen ==
  ASSUME ParserInv, Open
  PROVE  ParserInv'
<1>1. PICK o, l : Stored(heap, strings, calls, root, o, l)
  BY DEF ParserInv, Accounted
<1>2. /\ calls # <<>> /\ parse = "running" /\ Top.fn = "value"
      /\ strings' = strings /\ root' = root /\ parse' = parse
  BY DEF Open, At
<1>3. /\ Top = calls[Len(calls)] /\ Callers = Below(calls) /\ Top.head = NULL
      /\ Top.item \in DOMAIN heap /\ IsHeap(heap) /\ Spelt(heap, strings)
      /\ Top \in Call /\ Frame(heap, Top, root, o, l)
  BY <1>1, <1>2, InnermostCall DEF Frame
<1>4. ASSUME NEW fn \in {"array", "object"}, heap' = [heap EXCEPT ![Top.item].type = fn],
             calls' = Callers
      PROVE  ParserInv'
  <2>1. /\ DOMAIN heap' = DOMAIN heap
        /\ \A a \in DOMAIN heap : /\ DOMAIN heap'[a] = DOMAIN heap[a]
                                  /\ heap'[a].child = heap[a].child
                                  /\ heap'[a].next = heap[a].next
                                  /\ heap'[a].prev = heap[a].prev
                                  /\ heap'[a].string = heap[a].string
                                  /\ heap'[a].valuestring = heap[a].valuestring
    BY <1>4
  <2>2. IsHeap(heap') /\ SameLinks(heap, heap') /\ SameStrings(heap, heap')
    BY <1>3, <2>1 DEF IsHeap, SameLinks, SameStrings
  <2>3. Accounted(heap', strings, Below(calls), root)
    BY <1>1, <1>2, <1>3, <2>2, ItemIsTyped
  <2>4. Accounted(heap', strings', calls', root')
    BY <1>2, <1>3, <1>4, <2>3
  <2> QED
    BY <1>2, <2>4, ParserGoesOn
<1>5. ASSUME NEW fn \in {"array", "object"}, heap' = heap,
             calls' = Append(Callers, [Top EXCEPT !.fn = fn, !.at = "next"])
      PROVE  ParserInv'
  <2> DEFINE f == [Top EXCEPT !.fn = fn, !.at = "next"]
  <2>1. /\ f \in Call /\ f.fn = fn /\ f.at = "next"
        /\ f.item = Top.item /\ f.head = Top.head /\ f.current = Top.current
    BY <1>3 DEF Call
  <2>2. Frame(heap, f, root, o, l)
    BY <1>3, <2>1 DEF Frame
  <2>3. calls' = Replaced(calls, f)
    BY <1>3, <1>5 DEF Replaced
  <2> HIDE DEF f
  <2>4. Stored(heap, strings, Replaced(calls, f), root, o, l)
    BY <1>1, <1>2, <1>3, <2>1, <2>2, StoredOnReplace
  <2>5. Accounted(heap', strings', calls', root')
    BY <1>2, <1>5, <2>3, <2>4 DEF Accounted
  <2> QED
    BY <1>2, <2>5, ParserGoesOn
<1>6. \E fn \in {"array", "object"} :
        \/ heap' = [heap EXCEPT ![Top.item].type = fn] /\ calls' = Callers
        \/ heap' = heap /\ calls' = Append(Callers, [Top EXCEPT !.fn = fn, !.at = "next"])
  BY DEF Open, Return
<1> QED
  BY <1>4, <1>5, <1>6

LEMMA StepOfComma ==
  ASSUME ParserInv, Comma
  PROVE  ParserInv'
<1>1. PICK o, l : Stored(heap, strings, calls, root, o, l)
  BY DEF ParserInv, Accounted
<1>2. /\ calls # <<>> /\ parse = "running" /\ Top.fn \in {"array", "object"}
      /\ strings' = strings /\ root' = root /\ parse' = parse /\ heap' = heap
      /\ calls' = Append(Callers, [Top EXCEPT !.at = "next"])
  BY DEF Comma, At
<1>3. /\ Top = calls[Len(calls)] /\ Callers = Below(calls)
      /\ Top \in Call /\ Frame(heap, Top, root, o, l)
  BY <1>1, <1>2, InnermostCall
<1> DEFINE f == [Top EXCEPT !.at = "next"]
<1>4. /\ f \in Call /\ f.fn = Top.fn /\ f.at = "next"
      /\ f.item = Top.item /\ f.head = Top.head /\ f.current = Top.current
  BY <1>3 DEF Call
<1>5. Frame(heap, f, root, o, l)
  BY <1>2, <1>3, <1>4 DEF Frame
<1>6. calls' = Replaced(calls, f)
  BY <1>2, <1>3 DEF Replaced
<1> HIDE DEF f
<1>7. Stored(heap, strings, Replaced(calls, f), root, o, l)
  BY <1>1, <1>2, <1>3, <1>4, <1>5, StoredOnReplace
<1>8. Accounted(heap', strings', calls', root')
  BY <1>2, <1>6, <1>7 DEF Accounted
<1> QED
  BY <1>2, <1>8, ParserGoesOn

LEMMA StepOfEndOfList ==
  ASSUME ParserInv, EndOfList
  PROVE  ParserInv'
<1>1. PICK o, l : Stored(heap, strings, calls, root, o, l)
  BY DEF ParserInv, Accounted
<1>2. /\ calls # <<>> /\ parse = "running" /\ Top.fn \in {"array", "object"} /\ Top.at = "parsed"
      /\ strings' = strings /\ root' = root /\ parse' = parse
      /\ calls' = Callers
  BY DEF EndOfList, At, Return
<1>3. /\ Top = calls[Len(calls)] /\ Callers = Below(calls)
      /\ Top \in Call /\ Frame(heap, Top, root, o, l) /\ IsHeap(heap) /\ Spelt(heap, strings)
  BY <1>1, <1>2, InnermostCall
<1>4. /\ Top.head # NULL /\ Top.head \in DOMAIN heap /\ Top.item \in DOMAIN heap
      /\ Top.item # Top.head
  <2>1. Top.head # NULL
    BY <1>2, <1>3 DEF Frame
  <2>2. Top.head \in Anchored(calls, root)
    BY <1>1, <1>2, <1>3, <2>1, TopOfStack
  <2>3. Anchored(calls, root) \subseteq DOMAIN heap
    BY <1>1 DEF Stored, Shape, Mapped
  <2>4. o[Top.head] = Top.head /\ o[Top.item] # Top.head
    BY <1>1, <1>2, <1>3, <2>2, TopOfStack DEF Stored, Shape, Mapped
  <2> QED
    BY <1>3, <2>1, <2>2, <2>3, <2>4 DEF Frame
<1>5. PICK fn : heap' = [heap EXCEPT ![Top.item].type = fn, ![Top.item].child = Top.head,
                                     ![Top.head].prev = Top.current]
  BY DEF EndOfList, Closed
<1> DEFINE closed == [heap EXCEPT ![Top.item].type = fn, ![Top.item].child = Top.head,
                                  ![Top.head].prev = Top.current]
<1>6. /\ DOMAIN heap' = DOMAIN heap
      /\ \A a \in DOMAIN heap : /\ DOMAIN heap'[a] = DOMAIN heap[a]
                                /\ a # Top.item => heap'[a].child = heap[a].child
                                /\ heap'[a].next = heap[a].next
                                /\ a # Top.head => heap'[a].prev = heap[a].prev
                                /\ heap'[a].string = heap[a].string
                                /\ heap'[a].valuestring = heap[a].valuestring
  <2>1. \A a \in DOMAIN heap : a # Top.item /\ a # Top.head => closed[a] = heap[a]
    OBVIOUS
  <2>2. closed[Top.item] = [heap[Top.item] EXCEPT !.type = fn, !.child = Top.head]
    BY <1>4
  <2>3. closed[Top.head] = [heap[Top.head] EXCEPT !.prev = Top.current]
    BY <1>4
  <2>4. DOMAIN closed = DOMAIN heap
    OBVIOUS
  <2> HIDE DEF closed
  <2>5. /\ DOMAIN closed[Top.item] = DOMAIN heap[Top.item] /\ closed[Top.item].next = heap[Top.item].next
        /\ closed[Top.item].string = heap[Top.item].string /\ closed[Top.item].valuestring = heap[Top.item].valuestring
        /\ closed[Top.item].prev = heap[Top.item].prev
    BY <2>2
  <2>6. /\ DOMAIN closed[Top.head] = DOMAIN heap[Top.head] /\ closed[Top.head].next = heap[Top.head].next
        /\ closed[Top.head].string = heap[Top.head].string /\ closed[Top.head].valuestring = heap[Top.head].valuestring
        /\ closed[Top.head].child = heap[Top.head].child
    BY <2>3
  <2> QED
    BY <1>5, <2>1, <2>4, <2>5, <2>6 DEF closed
<1>7. heap'[Top.item].child = Top.head /\ heap'[Top.head].prev = Top.current
  BY <1>3, <1>4, <1>5 DEF IsHeap, Fields
<1> HIDE DEF closed
<1>8. IsHeap(heap') /\ SameStrings(heap, heap')
  BY <1>3, <1>6 DEF IsHeap, SameStrings
<1>9. Accounted(heap', strings, Below(calls), root)
  BY <1>1, <1>2, <1>3, <1>4, <1>6, <1>7, <1>8, StoredOnClose
<1>10. Accounted(heap', strings', calls', root')
  BY <1>2, <1>3, <1>9
<1> QED
  BY <1>2, <1>10, ParserGoesOn

(* The list of the innermost call is given up. *)
LEMMA ListIsDeleted ==
  ASSUME ParserInv, parse = "running", calls # <<>>, cJSON_Delete(heap, strings, Top.head),
         calls' = Callers, root' = root, parse' = parse
  PROVE  ParserInv'
<1>1. PICK o, l : Stored(heap, strings, calls, root, o, l)
  BY DEF ParserInv, Accounted
<1>2. Top = calls[Len(calls)] /\ Callers = Below(calls)
  BY <1>1, InnermostCall
<1>3. /\ heap' = Without(heap, Tree(heap, Top.head))
      /\ strings' = Without(strings, StringsOf(heap, Tree(heap, Top.head)))
  BY DEF cJSON_Delete
<1>4. Stored(heap', strings', Below(calls), root, o, l)
  BY <1>1, <1>2, <1>3, StoredOnDelete
<1>5. Accounted(heap', strings', calls', root')
  BY <1>2, <1>4 DEF Accounted
<1> QED
  BY <1>5, ParserGoesOn

(* The list of the innermost call is one item longer. *)
Grown(g, i) ==
  /\ IsHeap(g) /\ DOMAIN g = DOMAIN heap \cup {i}
  /\ g[i].child = NULL /\ g[i].next = NULL /\ g[i].valuestring = NULL
  /\ \A a \in DOMAIN heap : g[a].string = heap[a].string /\ g[a].valuestring = heap[a].valuestring
  /\ Top.head = NULL => \A a \in DOMAIN heap : g[a] = heap[a]
  /\ Top.head # NULL =>
       /\ \A a \in DOMAIN heap : /\ g[a].child = heap[a].child /\ g[a].prev = heap[a].prev
                                 /\ a # Top.current => g[a].next = heap[a].next
       /\ g[Top.current].next = i /\ g[i].prev = Top.current

(* What is linked is a new item without strings. *)
LEMMA LinkedIsGrown ==
  ASSUME IsHeap(heap), NEW i \in Nat \ {0}, i \notin DOMAIN heap,
         Top.head # NULL => Top.current \in DOMAIN heap
  PROVE  Grown(Linked(i), i) /\ Linked(i)[i].string = NULL
<1> DEFINE new == cJSON_New_Item
           last == [cJSON_New_Item EXCEPT !.prev = Top.current]
<1>1. /\ DOMAIN new = Fields /\ DOMAIN last = Fields
      /\ new.child = NULL /\ new.next = NULL /\ new.string = NULL /\ new.valuestring = NULL
      /\ last.child = NULL /\ last.next = NULL /\ last.string = NULL /\ last.valuestring = NULL
      /\ last.prev = Top.current
  BY DEF cJSON_New_Item, Fields
<1>2. IsFiniteSet(DOMAIN heap \cup {i})
  BY FS_AddElement DEF IsHeap
<1> HIDE DEF new, last
<1>3. CASE Top.head = NULL
  <2>1. Linked(i) = With(heap, i, new)
    BY <1>3 DEF Linked, new
  <2> DEFINE g == With(heap, i, new)
  <2>2. DOMAIN g = DOMAIN heap \cup {i} /\ g[i] = new /\ \A a \in DOMAIN heap : g[a] = heap[a]
    BY DEF With
  <2> HIDE DEF g
  <2>3. IsHeap(g)
    BY <1>1, <1>2, <2>2 DEF IsHeap
  <2> QED
    BY <1>1, <1>3, <2>1, <2>2, <2>3 DEF Grown, g
<1>4. CASE Top.head # NULL
  <2> DEFINE w == With(heap, i, last)
             g == [w EXCEPT ![Top.current].next = i]
  <2>1. Linked(i) = g
    BY <1>4 DEF Linked, last
  <2>2. DOMAIN w = DOMAIN heap \cup {i} /\ w[i] = last /\ \A a \in DOMAIN heap : w[a] = heap[a]
    BY DEF With
  <2> HIDE DEF w
  <2>3. Top.current \in DOMAIN heap /\ Top.current # i
    BY <1>4
  <2>4. /\ DOMAIN g = DOMAIN w
        /\ \A a \in DOMAIN w : a # Top.current => g[a] = w[a]
        /\ g[Top.current] = [w[Top.current] EXCEPT !.next = i]
    BY <2>2, <2>3
  <2> HIDE DEF g
  <2>5. DOMAIN w[Top.current] = Fields
    BY <2>2, <2>3 DEF IsHeap
  <2>6. /\ DOMAIN g[Top.current] = Fields /\ g[Top.current].next = i
        /\ g[Top.current].child = w[Top.current].child
        /\ g[Top.current].prev = w[Top.current].prev
        /\ g[Top.current].string = w[Top.current].string
        /\ g[Top.current].valuestring = w[Top.current].valuestring
    BY <2>4, <2>5 DEF Fields
  <2>7. g[i] = last
    BY <2>2, <2>3, <2>4
  <2>8. IsHeap(g)
    BY <1>1, <1>2, <2>2, <2>4, <2>6, <2>7 DEF IsHeap
  <2>9. \A a \in DOMAIN heap :
          /\ g[a].string = heap[a].string /\ g[a].valuestring = heap[a].valuestring
          /\ g[a].child = heap[a].child /\ g[a].prev = heap[a].prev
          /\ a # Top.current => g[a].next = heap[a].next
    BY <2>2, <2>4, <2>6
  <2>10. Linked(i)[i].string = NULL
    BY <1>1, <2>1, <2>7
  <2> QED
    BY <1>1, <1>4, <2>1, <2>2, <2>4, <2>6, <2>7, <2>8, <2>9, <2>10 DEF Grown
<1> QED
  BY <1>3, <1>4

(* A member has a name, too. *)
LEMMA NamedIsGrown ==
  ASSUME NEW i, NEW t, i \notin DOMAIN heap, Grown(Linked(i), i),
         Top.head # NULL => Top.current \in DOMAIN heap
  PROVE  Grown(Named(i, t), i) /\ Named(i, t)[i].string = t
<1> DEFINE w == Linked(i)
           g == [w EXCEPT ![i].type = "String", ![i].string = t]
<1>1. Grown(w, i)
  OBVIOUS
<1>2. Named(i, t) = g
  BY DEF Named
<1> HIDE DEF w
<1>3. i \in DOMAIN w /\ DOMAIN w[i] = Fields
  BY <1>1 DEF Grown, IsHeap
<1>4. /\ DOMAIN g = DOMAIN w
      /\ \A a \in DOMAIN w : a # i => g[a] = w[a]
      /\ g[i] = [w[i] EXCEPT !.type = "String", !.string = t]
  BY <1>3
<1> HIDE DEF g
<1>5. /\ DOMAIN g[i] = Fields /\ g[i].string = t
      /\ g[i].child = w[i].child /\ g[i].next = w[i].next /\ g[i].prev = w[i].prev
      /\ g[i].valuestring = w[i].valuestring
  BY <1>3, <1>4 DEF Fields
<1>6. IsHeap(g)
  <2>1. IsHeap(w)
    BY <1>1 DEF Grown
  <2> QED
    BY <1>3, <1>4, <1>5, <2>1 DEF IsHeap
<1>7. \A a \in DOMAIN heap : g[a] = w[a] /\ a # i
  BY <1>1, <1>4 DEF Grown
<1>8. Grown(g, i)
  <2>1. /\ DOMAIN g = DOMAIN heap \cup {i}
        /\ g[i].child = NULL /\ g[i].next = NULL /\ g[i].valuestring = NULL
    BY <1>1, <1>4, <1>5 DEF Grown
  <2>2. \A a \in DOMAIN heap : g[a].string = heap[a].string /\ g[a].valuestring = heap[a].valuestring
    BY <1>1, <1>7 DEF Grown
  <2>3. Top.head = NULL => \A a \in DOMAIN heap : g[a] = heap[a]
    BY <1>1, <1>7 DEF Grown
  <2>4. ASSUME Top.head # NULL
        PROVE  /\ \A a \in DOMAIN heap : /\ g[a].child = heap[a].child /\ g[a].prev = heap[a].prev
                                         /\ a # Top.current => g[a].next = heap[a].next
               /\ g[Top.current].next = i /\ g[i].prev = Top.current
    BY <1>1, <1>5, <1>7, <2>4 DEF Grown
  <2> QED
    BY <1>6, <2>1, <2>2, <2>3, <2>4 DEF Grown
<1> QED
  BY <1>2, <1>5, <1>8

(* With the longer list, the innermost call stores as much as before, and   *)
(* may call parse_value for the new item.                                  *)
LEMMA GrownIsStored ==
  ASSUME NEW o, NEW l, Stored(heap, strings, calls, root, o, l), calls # <<>>,
         Top.fn \in {"array", "object"},
         NEW i \in Nat \ {0}, i \notin DOMAIN heap, NEW g, NEW z, Grown(g, i), Spelt(g, z)
  PROVE  /\ Accounted(g, z, Replaced(calls, Extended(i)), root)
         /\ Accounted(g, z, Callers \o <<Extended(i), Value(i)>>, root)
<1> DEFINE f == Extended(i)
           d == Replaced(calls, f)
<1>1. /\ Top = calls[Len(calls)] /\ Callers = Below(calls) /\ Callers \in Seq(Call)
      /\ Top \in Call /\ IsHeap(heap) /\ Frame(heap, Top, root, o, l)
  BY InnermostCall
<1>2. /\ f \in Call /\ f.fn = Top.fn /\ f.at = "parsed" /\ f.item = Top.item /\ f.current = i
      /\ Top.head = NULL => f.head = i
      /\ Top.head # NULL => f.head = Top.head
  BY <1>1 DEF Extended, Call
<1>3. Waits(f) /\ i # NULL /\ f.head = IF Top.head = NULL THEN i ELSE Top.head
  BY <1>2 DEF Waits, NULL
<1> HIDE DEF f
<1>4. Accounted(g, z, d, root)
  <2>1. /\ IsHeap(g) /\ DOMAIN g = DOMAIN heap \cup {i} /\ g[i].child = NULL /\ g[i].next = NULL
        /\ \A a \in DOMAIN heap : g[a].valuestring = heap[a].valuestring
        /\ Top.head = NULL => \A a \in DOMAIN heap : g[a] = heap[a]
        /\ Top.head # NULL =>
             /\ \A a \in DOMAIN heap : /\ g[a].child = heap[a].child /\ g[a].prev = heap[a].prev
                                       /\ a # Top.current => g[a].next = heap[a].next
             /\ g[Top.current].next = i /\ g[i].prev = Top.current
    BY DEF Grown
  <2> HIDE DEF d
  <2>2. Accounted(g, z, Replaced(calls, f), root)
    BY <1>1, <1>2, <1>3, <2>1, StoredOnExtend
  <2> QED
    BY <2>2 DEF d
<1>5. PICK o2, l2 : Stored(g, z, d, root, o2, l2)
  BY <1>4 DEF Accounted
<1>6. d # <<>> /\ d[Len(d)] = f
  BY <1>1, <1>2, PoppedAgain DEF Replaced
<1>7. Value(i) \in Call
  BY DEF Value, Call, NULL
<1>8. Callers \o <<f, Value(i)>> = Pushing(d, Value(i))
  BY <1>1, <1>2, <1>7, PushedTwice DEF Replaced, Pushing
<1> HIDE DEF d
<1>9. Stored(g, z, Pushing(d, Value(d[Len(d)].current)), root, o2, l2)
  <2>1. g[i].child = NULL /\ g[i].valuestring = NULL
    BY DEF Grown
  <2> QED
    BY <1>2, <1>3, <1>5, <1>6, <2>1, StoredOnPush
<1>10. Accounted(g, z, Callers \o <<f, Value(i)>>, root)
  BY <1>2, <1>6, <1>8, <1>9 DEF Accounted
<1> QED
  BY <1>4, <1>10 DEF d, f

(* It may as well give up. *)
LEMMA GrownIsDeleted ==
  ASSUME calls # <<>>, Callers \in Seq(Call), Callers = Below(calls), NEW i, Extended(i) \in Call,
         NEW g, NEW z, Accounted(g, z, Replaced(calls, Extended(i)), root),
         cJSON_Delete(g, z, Extended(i).head)
  PROVE  Accounted(heap', strings', Callers, root)
<1> DEFINE f == Extended(i)
           d == Replaced(calls, f)
<1>1. d # <<>> /\ d[Len(d)] = f /\ Below(d) = Callers
  BY PoppedAgain DEF Replaced, Below
<1>2. PICK o, l : Stored(g, z, d, root, o, l)
  BY DEF Accounted
<1>3. /\ heap' = Without(g, Tree(g, f.head))
      /\ strings' = Without(z, StringsOf(g, Tree(g, f.head)))
  BY DEF cJSON_Delete
<1> HIDE DEF d, f
<1>4. Stored(heap', strings', Below(d), root, o, l)
  BY <1>1, <1>2, <1>3, StoredOnDelete
<1> QED
  BY <1>1, <1>4 DEF Accounted

(* What parse_array and parse_object find when they allocate an item. *)
LEMMA RoomForAnItem ==
  ASSUME NEW o, NEW l, Stored(heap, strings, calls, root, o, l), calls # <<>>,
         Top.fn \in {"array", "object"}
  PROVE  /\ Unused(heap) \in Nat \ {0} /\ Unused(heap) \notin DOMAIN heap
         /\ Unused(strings) \in Nat \ {0} /\ Unused(strings) \notin DOMAIN strings
         /\ Extended(Unused(heap)) \in Call
         /\ Grown(Linked(Unused(heap)), Unused(heap))
         /\ Spelt(Linked(Unused(heap)), strings)
         /\ Grown(Named(Unused(heap), Unused(strings)), Unused(heap))
         /\ \A text : Spelt(Named(Unused(heap), Unused(strings)),
                            With(strings, Unused(strings), text))
<1> DEFINE i == Unused(heap)
           t == Unused(strings)
<1>1. /\ Top \in Call /\ Frame(heap, Top, root, o, l)
      /\ IsHeap(heap) /\ Spelt(heap, strings)
  BY InnermostCall
<1>2. i \in Nat \ {0} /\ i \notin DOMAIN heap
  BY <1>1, UnusedIsNew DEF IsHeap
<1>3. t \in Nat \ {0} /\ t \notin DOMAIN strings
  BY <1>1, UnusedIsNew DEF Spelt
<1>4. Top.head # NULL => Top.current \in DOMAIN heap
  BY <1>1 DEF Frame
<1> HIDE DEF i, t
<1>5. Extended(i) \in Call
  BY <1>1, <1>2 DEF Extended, Call
<1>6. Grown(Linked(i), i) /\ Linked(i)[i].string = NULL
  BY <1>1, <1>2, <1>4, LinkedIsGrown
<1>7. Grown(Named(i, t), i) /\ Named(i, t)[i].string = t
  BY <1>2, <1>4, <1>6, NamedIsGrown
<1>8. Spelt(Linked(i), strings)
  <2> DEFINE g == Linked(i)
  <2>1. Grown(g, i) /\ g[i].string = NULL
    BY <1>6
  <2> HIDE DEF g
  <2>2. /\ DOMAIN g = DOMAIN heap \cup {i} /\ g[i].valuestring = NULL
        /\ \A a \in DOMAIN heap : g[a].string = heap[a].string /\ g[a].valuestring = heap[a].valuestring
    BY <2>1 DEF Grown
  <2>3. Spelt(g, strings)
    BY <1>1, <1>2, <2>1, <2>2, SpeltOfNewItem
  <2> QED
    BY <2>3 DEF g
<1>9. ASSUME NEW text
      PROVE  Spelt(Named(i, t), With(strings, t, text))
  <2> DEFINE g == Linked(i)
             w == Named(i, t)
             z == With(strings, t, text)
  <2>1. /\ Grown(g, i) /\ g[i].string = NULL /\ Spelt(g, strings)
        /\ Grown(w, i) /\ w[i].string = t
    BY <1>6, <1>7, <1>8
  <2>2. DOMAIN z = DOMAIN strings \cup {t}
    BY DEF With
  <2> HIDE DEF g, w, z
  <2>3. /\ DOMAIN w = DOMAIN g /\ i \in DOMAIN g
        /\ w[i].valuestring = g[i].valuestring
        /\ \A a \in DOMAIN g :
             a # i => w[a].string = g[a].string /\ w[a].valuestring = g[a].valuestring
    BY <2>1 DEF Grown
  <2>4. Spelt(w, z)
    BY <1>3, <2>1, <2>2, <2>3, SpeltOfNewString
  <2> QED
    BY <2>4 DEF w, z
<1> QED
  BY <1>2, <1>3, <1>5, <1>6, <1>7, <1>8, <1>9 DEF i, t

LEMMA StepOfNextElement ==
  ASSUME ParserInv, NextElement
  PROVE  ParserInv'
<1>1. PICK o, l : Stored(heap, strings, calls, root, o, l)
  BY DEF ParserInv, Accounted
<1> DEFINE i == Unused(heap)
<1>2. /\ calls # <<>> /\ parse = "running" /\ Top.fn \in {"array", "object"}
      /\ strings' = strings /\ root' = root /\ parse' = parse
      /\ heap' = Linked(i) /\ calls' = Callers \o <<Extended(i), Value(i)>>
  BY DEF NextElement, At
<1>3. /\ i \in Nat \ {0} /\ i \notin DOMAIN heap
      /\ Grown(Linked(i), i) /\ Spelt(Linked(i), strings)
  BY <1>1, <1>2, RoomForAnItem
<1> HIDE DEF i
<1>4. Accounted(Linked(i), strings, Callers \o <<Extended(i), Value(i)>>, root)
  BY <1>1, <1>2, <1>3, GrownIsStored
<1>5. Accounted(heap', strings', calls', root')
  BY <1>2, <1>4
<1> QED
  BY <1>2, <1>5, ParserGoesOn

LEMMA StepOfNextMember ==
  ASSUME ParserInv, NextMember
  PROVE  ParserInv'
<1>1. PICK o, l : Stored(heap, strings, calls, root, o, l)
  BY DEF ParserInv, Accounted
<1> DEFINE i == Unused(heap)
           t == Unused(strings)
<1>2. /\ calls # <<>> /\ parse = "running" /\ Top.fn \in {"array", "object"}
      /\ root' = root /\ parse' = parse
  BY DEF NextMember, At
<1>3. PICK text : /\ heap' = Named(i, t) /\ strings' = With(strings, t, text)
                  /\ calls' = Callers \o <<Extended(i), Value(i)>>
  BY DEF NextMember
<1>4. /\ i \in Nat \ {0} /\ i \notin DOMAIN heap
      /\ Grown(Named(i, t), i) /\ Spelt(Named(i, t), With(strings, t, text))
  BY <1>1, <1>2, RoomForAnItem
<1> HIDE DEF i, t
<1>5. Accounted(Named(i, t), With(strings, t, text), Callers \o <<Extended(i), Value(i)>>, root)
  BY <1>1, <1>2, <1>4, GrownIsStored
<1>6. Accounted(heap', strings', calls', root')
  BY <1>2, <1>3, <1>5
<1> QED
  BY <1>2, <1>6, ParserGoesOn

LEMMA StepOfNotAMember ==
  ASSUME ParserInv, NotAMember
  PROVE  ParserInv'
<1>1. PICK o, l : Stored(heap, strings, calls, root, o, l)
  BY DEF ParserInv, Accounted
<1> DEFINE i == Unused(heap)
           t == Unused(strings)
<1>2. /\ calls # <<>> /\ parse = "running" /\ Top.fn \in {"array", "object"}
      /\ root' = root /\ parse' = parse /\ calls' = Callers
  BY DEF NotAMember, At, Return
<1>3. PICK g, z : /\ cJSON_Delete(g, z, Extended(i).head)
                  /\ \/ g = Linked(i) /\ z = strings
                     \/ g = Named(i, t) /\ \E text : z = With(strings, t, text)
  <2>1. \/ cJSON_Delete(Linked(i), strings, Extended(i).head)
        \/ \E text : cJSON_Delete(Named(i, t), With(strings, t, text), Extended(i).head)
    BY DEF NotAMember
  <2> QED
    BY <2>1, Zenon
<1>4. /\ i \in Nat \ {0} /\ i \notin DOMAIN heap /\ Extended(i) \in Call
      /\ Grown(Linked(i), i) /\ Spelt(Linked(i), strings)
      /\ Grown(Named(i, t), i) /\ \A text : Spelt(Named(i, t), With(strings, t, text))
  BY <1>1, <1>2, RoomForAnItem
<1> HIDE DEF i, t
<1>5. Grown(g, i) /\ Spelt(g, z)
  BY <1>3, <1>4
<1>6. Accounted(g, z, Replaced(calls, Extended(i)), root)
  BY <1>1, <1>2, <1>4, <1>5, GrownIsStored
<1>7. Callers \in Seq(Call) /\ Callers = Below(calls)
  BY <1>1, <1>2, InnermostCall
<1>8. Accounted(heap', strings', Callers, root)
  BY <1>2, <1>3, <1>4, <1>6, <1>7, GrownIsDeleted
<1>9. Accounted(heap', strings', calls', root')
  BY <1>2, <1>8
<1> QED
  BY <1>2, <1>9, ParserGoesOn

LEMMA StepOfNewRoot ==
  ASSUME ParserInv, NewRoot
  PROVE  ParserInv'
<1> DEFINE r == Unused(heap)
<1>1. /\ parse = "start" /\ root = NULL /\ heap = <<>> /\ strings = <<>>
  BY DEF NewRoot, ParserInv, ParserControl
<1>2. DOMAIN heap = {} /\ DOMAIN strings = {}
  BY <1>1
<1>3. /\ root' = r /\ heap' = With(heap, r, cJSON_New_Item) /\ calls' = <<Value(r)>>
      /\ parse' = "running" /\ strings' = strings
  BY DEF NewRoot
<1>4. r \in Nat \ {0}
  BY <1>2, FS_EmptySet, UnusedIsNew
<1> HIDE DEF r
<1>5. Accounted(heap', strings', calls', root')
  BY <1>2, <1>3, <1>4, RootIsStored
<1>6. ParserControl'
  BY <1>3, <1>4 DEF ParserControl, NULL
<1> QED
  BY <1>5, <1>6 DEF ParserInv

LEMMA StepOfParseFails ==
  ASSUME ParserInv, ParseFails
  PROVE  ParserInv'
<1>1. PICK o, l : Stored(heap, strings, calls, root, o, l)
  BY DEF ParserInv, Accounted
<1>2. /\ parse = "running" /\ calls = <<>> /\ root # NULL
      /\ heap' = Without(heap, Tree(heap, root))
      /\ strings' = Without(strings, StringsOf(heap, Tree(heap, root)))
      /\ root' = NULL /\ parse' = "done" /\ calls' = <<>>
  BY DEF ParseFails, ParserInv, ParserControl, cJSON_Delete
<1>3. heap' = <<>> /\ strings' = <<>>
  BY <1>1, <1>2, RootIsDeleted
<1>4. Accounted(heap', strings', calls', root')
  BY <1>2, <1>3, NothingToStore
<1>5. ParserControl'
  BY <1>2, <1>3 DEF ParserControl
<1> QED
  BY <1>4, <1>5 DEF ParserInv

(* A list that is given up, with or without a refused allocation. *)
LEMMA StepOfFailure ==
  ASSUME ParserInv, ItemRefused \/ ListFails
  PROVE  ParserInv'
<1>1. /\ parse = "running" /\ calls # <<>> /\ cJSON_Delete(heap, strings, Top.head)
      /\ calls' = Callers /\ root' = root /\ parse' = parse
  BY DEF ItemRefused, ListFails, At, Return
<1> QED
  BY <1>1, ListIsDeleted

(* Every step of the parser keeps the invariant. *)
LEMMA StepOfParser ==
  ASSUME ParserInv, ParserNext
  PROVE  ParserInv'
<1>1. CASE NewRoot
  BY <1>1, StepOfNewRoot
<1>2. CASE RootRefused
  <2>1. /\ parse = "start" /\ root = NULL /\ root' = NULL /\ parse' = "done"
        /\ heap' = heap /\ strings' = strings /\ calls' = calls
    BY <1>2 DEF RootRefused, ParserInv, ParserControl
  <2>2. Accounted(heap', strings', calls', root')
    BY <2>1 DEF ParserInv
  <2> QED
    BY <2>1, <2>2 DEF ParserInv, ParserControl
<1>3. CASE ParseLiteral
  BY <1>3, StepOfParseLiteral
<1>4. CASE ParseString
  BY <1>4, StepOfParseString
<1>5. CASE ParseNumber
  BY <1>5, StepOfParseNumber
<1>6. CASE BufferRefused \/ TooDeep \/ NotAValue
  <2>1. /\ At({"value"}, "enter") /\ calls' = Callers /\ heap' = heap /\ strings' = strings
        /\ root' = root /\ parse' = parse
    BY <1>6 DEF BufferRefused, TooDeep, NotAValue, Return
  <2> QED
    BY <2>1, NothingIsParsed
<1>7. CASE Open
  BY <1>7, StepOfOpen
<1>8. CASE NextElement
  BY <1>8, StepOfNextElement
<1>9. CASE NextMember
  BY <1>9, StepOfNextMember
<1>10. CASE NotAMember
  BY <1>10, StepOfNotAMember
<1>11. CASE ItemRefused \/ ListFails
  BY <1>11, StepOfFailure
<1>12. CASE Comma
  BY <1>12, StepOfComma
<1>13. CASE EndOfList
  BY <1>13, StepOfEndOfList
<1>14. CASE ParseFails
  BY <1>14, StepOfParseFails
<1>15. CASE ParseSucceeds
  <2>1. /\ parse = "running" /\ calls = <<>> /\ parse' = "done"
        /\ root' = root /\ heap' = heap /\ strings' = strings /\ calls' = calls
    BY <1>15 DEF ParseSucceeds
  <2>2. Accounted(heap', strings', calls', root')
    BY <2>1 DEF ParserInv
  <2> QED
    BY <2>1, <2>2 DEF ParserInv, ParserControl
<1> QED
  BY <1>1, <1>2, <1>3, <1>4, <1>5, <1>6, <1>7, <1>8, <1>9, <1>10, <1>11, <1>12, <1>13, <1>14, <1>15
  DEF ParserNext
=============================================================================
