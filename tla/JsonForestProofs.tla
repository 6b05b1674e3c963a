-------------------------- MODULE JsonForestProofs --------------------------
(***************************************************************************)
(* The proof that a program's calls on cJSON.c are steps of JsonForest:    *)
(* whatever the pointers and whichever allocation fails, each call that    *)
(* does not build a whole tree does to the trees that memory stands for    *)
(* all it is asked for, or nothing (CallsImplementForest).                 *)
(*                                                                         *)
(* JsonMemoryProofs says of each function which sequences of children the  *)
(* links are after it; here the same is said of Trees.  IInv is not        *)
(* enough: that an item is below itself would be in order for the links,   *)
(* and deleting it would free what is still in use.  RInv adds that this   *)
(* never happens, which again needs that a call is never given a           *)
(* container that is below the item it adds (Free).                        *)
(***************************************************************************)
EXTENDS JsonTextProofs

-----------------------------------------------------------------------------
(* The trees that a memory stands for. *)

(* Item b is the same but for its links. *)
SameItem(h, g, b) ==
  /\ g[b].type = h[b].type /\ g[b].string = h[b].string /\ g[b].StringIsConst = h[b].StringIsConst
  /\ g[b].valuestring = h[b].valuestring /\ g[b].valuedouble = h[b].valuedouble
  /\ g[b].IsReference = h[b].IsReference
  /\ \A x \in TextsOf(h, b) : g[x] = h[x]

(* It shows the same type, key and value. *)
LEMMA ItemStays ==
  ASSUME NEW h, NEW lists, NEW held, NEW loose, MemoryIs(h, lists, held, loose),
         NEW b \in ItemsOf(h), NEW g, SameItem(h, g, b)
  PROVE  g[b].type = h[b].type /\ KeyOf(g, b) = KeyOf(h, b) /\ ValueOf(g, b) = ValueOf(h, b)
<1>1. /\ h[b].string = StaticKey <=> h[b].StringIsConst /\ h[b].string # NULL
      /\ h[b].StringIsConst \in BOOLEAN /\ h[b].IsReference \in BOOLEAN
  BY ItemFields DEF MemoryIs, TextsAre
<1>2. h[b].string # NULL /\ h[b].string # StaticKey => g[h[b].string] = h[h[b].string]
  <2>1. h[b].string # NULL /\ ~h[b].StringIsConst => h[b].string \in TextsOf(h, b)
    BY DEF TextsOf
  <2> QED BY <1>1, <2>1 DEF SameItem
<1>3. h[b].valuestring # NULL /\ ~h[b].IsReference => g[h[b].valuestring] = h[h[b].valuestring]
  <2>1. h[b].valuestring # NULL /\ ~h[b].IsReference => h[b].valuestring \in TextsOf(h, b)
    BY DEF TextsOf
  <2> QED BY <2>1 DEF SameItem
<1>4. KeyOf(g, b) = KeyOf(h, b)
  BY <1>2 DEF KeyOf, Chars, SameItem
<1>5. ValueOf(g, b) = ValueOf(h, b)
  <2>1. CASE h[b].IsReference
    BY <2>1 DEF ValueOf, SameItem
  <2>2. CASE ~h[b].IsReference /\ h[b].valuestring = NULL
    BY <2>2 DEF ValueOf, SameItem
  <2>3. CASE ~h[b].IsReference /\ h[b].valuestring # NULL
    <3>1. h[b].valuestring # StaticKey
      <4>1. h[b].valuestring \in TextsOf(h, b)
        BY <2>3 DEF TextsOf
      <4>2. h[b].valuestring \in Blocks
        BY <4>1 DEF MemoryIs, TextsAre
      <4> QED BY <4>2, BlocksAssumption DEF StaticKey
    <3> QED BY <1>3, <2>3, <3>1 DEF ValueOf, Chars, SameItem
  <2> QED BY <2>1, <2>2, <2>3
<1> QED BY <1>4, <1>5 DEF SameItem

(* What the trees of memory are. *)
Node(type, key, value, kids) == [type |-> type, key |-> key, value |-> value, kids |-> kids]
ListOf(lists, b) == IF b \in DOMAIN lists THEN lists[b] ELSE <<>>

(* Every item is a node: its type, its key, its value and, if it owns its   *)
(* children, the list of them.                                             *)
LEMMA TreesAre ==
  ASSUME NEW h, NEW lists, NEW held, NEW loose, MemoryIs(h, lists, held, loose)
  PROVE  /\ DOMAIN Trees(h) = ItemsOf(h) /\ IsMap(Trees(h))
         /\ \A b \in ItemsOf(h) :
              Trees(h)[b] = Node(h[b].type, KeyOf(h, b), ValueOf(h, b), ListOf(lists, b))
<1>1. DOMAIN Trees(h) = ItemsOf(h) /\ IsMap(Trees(h))
  BY DEF Trees, ItemsOf, IsMap
<1>2. ASSUME NEW b \in ItemsOf(h) PROVE KidsOf(h, b) = ListOf(lists, b)
  <2>1. b \in DOMAIN lists <=> ~h[b].IsReference
    BY DEF MemoryIs, Owners
  <2>2. b \in DOMAIN lists => Children(h, b) = lists[b]
    BY ChildrenAre
  <2> QED BY <2>1, <2>2 DEF KidsOf, ListOf
<1>3. ASSUME NEW b \in ItemsOf(h)
      PROVE  Trees(h)[b] = Node(h[b].type, KeyOf(h, b), ValueOf(h, b), KidsOf(h, b))
  BY DEF Trees, ItemsOf, Node
<1> QED BY <1>1, <1>2, <1>3

(* An item that is the same, with the same children, is the same node. *)
LEMMA NodeStays ==
  ASSUME NEW h, NEW lists, NEW held, NEW loose, MemoryIs(h, lists, held, loose),
         NEW g, NEW lists2, NEW held2, NEW loose2, MemoryIs(g, lists2, held2, loose2),
         NEW b \in ItemsOf(h), b \in ItemsOf(g), SameItem(h, g, b), ListOf(lists2, b) = ListOf(lists, b)
  PROVE  Trees(g)[b] = Trees(h)[b]
<1>1. g[b].type = h[b].type /\ KeyOf(g, b) = KeyOf(h, b) /\ ValueOf(g, b) = ValueOf(h, b)
  BY ItemStays
<1>2. /\ Trees(h)[b] = Node(h[b].type, KeyOf(h, b), ValueOf(h, b), ListOf(lists, b))
      /\ Trees(g)[b] = Node(g[b].type, KeyOf(g, b), ValueOf(g, b), ListOf(lists2, b))
  BY TreesAre
<1> QED BY <1>1, <1>2

(* Functions with the same values are equal. *)
LEMMA MapsEqual ==
  ASSUME NEW f, NEW g, IsMap(f), IsMap(g), DOMAIN f = DOMAIN g, \A x \in DOMAIN f : f[x] = g[x]
  PROVE  f = g
BY DEF IsMap

(* Where all items are the same, the trees are. *)
LEMMA TreesSame ==
  ASSUME NEW h, NEW lists, NEW held, NEW loose, MemoryIs(h, lists, held, loose),
         NEW g, NEW held2, NEW loose2, MemoryIs(g, lists, held2, loose2),
         ItemsOf(g) = ItemsOf(h), \A b \in ItemsOf(h) : SameItem(h, g, b)
  PROVE  Trees(g) = Trees(h)
<1>1. \A b \in ItemsOf(h) : Trees(g)[b] = Trees(h)[b]
  BY NodeStays
<1>2. DOMAIN Trees(g) = ItemsOf(h) /\ DOMAIN Trees(h) = ItemsOf(h) /\ IsMap(Trees(g)) /\ IsMap(Trees(h))
  BY TreesAre
<1> QED BY <1>1, <1>2, MapsEqual

(* A record of the trees with other children. *)
LEMMA NodeKids ==
  ASSUME NEW n, NEW a, NEW k, NEW v, NEW s, NEW t, n = Node(a, k, v, s)
  PROVE  /\ [n EXCEPT !.kids = t] = Node(a, k, v, t) /\ n.kids = s
         /\ [n EXCEPT !.key = t] = Node(a, t, v, s) /\ n.key = k
         /\ [n EXCEPT !.value = t] = Node(a, k, t, s) /\ n.value = v
BY DEF Node

(* When only the list of c changes, only its children do. *)
LEMMA LinksTrees ==
  ASSUME NEW h, NEW lists, NEW held, NEW loose, MemoryIs(h, lists, held, loose),
         NEW g, NEW moved, NEW held2, NEW loose2, MemoryIs(g, moved, held2, loose2),
         ItemsOf(g) = ItemsOf(h), SameButLinks(h, g), DOMAIN moved = DOMAIN lists,
         NEW c \in DOMAIN lists, NEW s, moved[c] = s, \A d \in DOMAIN lists : d # c => moved[d] = lists[d]
  PROVE  Trees(g) = [Trees(h) EXCEPT ![c].kids = s]
<1>1. ASSUME NEW b \in ItemsOf(h) PROVE SameItem(h, g, b)
  <2>1. IsItem(h, b) /\ b \in DOMAIN h
    BY DEF ItemsOf
  <2>2. \A x \in TextsOf(h, b) : x \in DOMAIN h /\ ~IsItem(h, x)
    BY DEF MemoryIs, TextsAre, ItemsOf
  <2> QED BY <2>1, <2>2 DEF SameButLinks, SameItem
<1>2. c \in ItemsOf(h)
  BY DEF MemoryIs, Owners
<1>3. \A b \in ItemsOf(h) : b # c => Trees(g)[b] = Trees(h)[b]
  <2>1. \A b \in ItemsOf(h) : b # c => ListOf(moved, b) = ListOf(lists, b)
    BY DEF ListOf
  <2> QED BY <1>1, <2>1, NodeStays
<1>4. Trees(g)[c] = [Trees(h)[c] EXCEPT !.kids = s]
  <2>1. g[c].type = h[c].type /\ KeyOf(g, c) = KeyOf(h, c) /\ ValueOf(g, c) = ValueOf(h, c)
    BY <1>1, <1>2, ItemStays
  <2>2. ListOf(moved, c) = s
    BY DEF ListOf
  <2>3. /\ Trees(h)[c] = Node(h[c].type, KeyOf(h, c), ValueOf(h, c), ListOf(lists, c))
        /\ Trees(g)[c] = Node(g[c].type, KeyOf(g, c), ValueOf(g, c), ListOf(moved, c))
    BY <1>2, TreesAre
  <2> QED BY <2>1, <2>2, <2>3, NodeKids
<1>5. DOMAIN Trees(g) = ItemsOf(h) /\ DOMAIN Trees(h) = ItemsOf(h) /\ IsMap(Trees(g)) /\ IsMap(Trees(h))
  BY TreesAre
<1>6. Trees(g) = [b \in ItemsOf(h) |-> IF b = c THEN [Trees(h)[c] EXCEPT !.kids = s] ELSE Trees(h)[b]]
  <2> DEFINE e == [b \in ItemsOf(h) |-> IF b = c THEN [Trees(h)[c] EXCEPT !.kids = s] ELSE Trees(h)[b]]
  <2>1. DOMAIN e = ItemsOf(h) /\ IsMap(e) /\ \A b \in ItemsOf(h) : e[b] = Trees(g)[b]
    BY <1>3, <1>4 DEF IsMap
  <2> HIDE DEF e
  <2>2. Trees(g) = e
    BY <1>5, <2>1, MapsEqual
  <2> QED BY <2>2 DEF e
<1>7. [Trees(h) EXCEPT ![c].kids = s]
        = [b \in DOMAIN Trees(h) |-> IF b = c THEN [Trees(h)[c] EXCEPT !.kids = s] ELSE Trees(h)[b]]
  OBVIOUS
<1> QED BY <1>5, <1>6, <1>7

-----------------------------------------------------------------------------
(* What is below a node, and trees without loops. *)

(* The children of a node lead to nodes. *)
Whole(t) == \A p \in DOMAIN t : Forest!Kids(t, p) \subseteq DOMAIN t

(* S holds the children of all its nodes. *)
KidsIn(t, S) == \A p \in S : Forest!Kids(t, p) \subseteq S

(* A node and all below it: the least set with it and the children of each. *)
Under(t, b) == {q \in DOMAIN t : \A S \in SUBSET DOMAIN t : b \in S /\ KidsIn(t, S) => q \in S}

(* That set has the node, is closed under children, and is part of every    *)
(* other such set.                                                         *)
LEMMA UnderIsLeast ==
  ASSUME NEW t, Whole(t), NEW b \in DOMAIN t
  PROVE  /\ b \in Under(t, b) /\ Under(t, b) \subseteq DOMAIN t /\ KidsIn(t, Under(t, b))
         /\ \A S \in SUBSET DOMAIN t : b \in S /\ KidsIn(t, S) => Under(t, b) \subseteq S
<1>1. KidsIn(t, Under(t, b))
  <2> SUFFICES ASSUME NEW p \in Under(t, b), NEW q \in Forest!Kids(t, p) PROVE q \in Under(t, b)
    BY DEF KidsIn
  <2>1. q \in DOMAIN t
    BY DEF Under, Whole
  <2>2. ASSUME NEW S \in SUBSET DOMAIN t, b \in S, KidsIn(t, S) PROVE q \in S
    <3>1. p \in S
      BY <2>2 DEF Under
    <3> QED BY <2>2, <3>1 DEF KidsIn
  <2> QED BY <2>1, <2>2 DEF Under
<1> QED BY <1>1 DEF Under

(* What is under a node is the node, or a child of something under it. *)
LEMMA UnderFrom ==
  ASSUME NEW t, Whole(t), NEW b \in DOMAIN t, NEW q \in Under(t, b), q # b
  PROVE  \E r \in Under(t, b) : q \in Forest!Kids(t, r)
<1> SUFFICES ASSUME \A r \in Under(t, b) : q \notin Forest!Kids(t, r) PROVE FALSE
  OBVIOUS
<1> DEFINE S == Under(t, b) \ {q}
<1>1. /\ b \in Under(t, b) /\ Under(t, b) \subseteq DOMAIN t /\ KidsIn(t, Under(t, b))
      /\ \A U \in SUBSET DOMAIN t : b \in U /\ KidsIn(t, U) => Under(t, b) \subseteq U
  BY UnderIsLeast
<1>2. S \in SUBSET DOMAIN t /\ b \in S
  BY <1>1
<1>3. KidsIn(t, S)
  BY <1>1 DEF KidsIn
<1>4. Under(t, b) \subseteq S
  BY <1>1, <1>2, <1>3
<1> QED BY <1>4

(* What is under a child is under the node. *)
LEMMA UnderKid ==
  ASSUME NEW t, Whole(t), NEW b \in DOMAIN t, NEW p \in Under(t, b)
  PROVE  p \in DOMAIN t /\ Under(t, p) \subseteq Under(t, b)
<1>1. p \in DOMAIN t /\ Under(t, b) \in SUBSET DOMAIN t /\ KidsIn(t, Under(t, b))
  BY UnderIsLeast
<1> QED BY <1>1, UnderIsLeast

(* Nothing under x changes when a node that is not under x gets other children. *)
LEMMA UnderStays ==
  ASSUME NEW t, Whole(t), NEW u, Whole(u), DOMAIN u = DOMAIN t, NEW x \in DOMAIN t, NEW c, c \notin Under(t, x),
         \A p \in DOMAIN t : p # c => Forest!Kids(u, p) = Forest!Kids(t, p)
  PROVE  Under(u, x) = Under(t, x)
<1>1. /\ x \in Under(t, x) /\ Under(t, x) \in SUBSET DOMAIN u /\ KidsIn(t, Under(t, x))
  BY UnderIsLeast
<1>2. KidsIn(u, Under(t, x))
  BY <1>1 DEF KidsIn
<1>3. Under(u, x) \subseteq Under(t, x)
  BY <1>1, <1>2, UnderIsLeast
<1>4. /\ x \in Under(u, x) /\ Under(u, x) \in SUBSET DOMAIN t /\ KidsIn(u, Under(u, x))
  BY UnderIsLeast
<1>5. KidsIn(t, Under(u, x))
  BY <1>3, <1>4 DEF KidsIn
<1>6. Under(t, x) \subseteq Under(u, x)
  BY <1>4, <1>5, UnderIsLeast
<1> QED BY <1>3, <1>6

-----------------------------------------------------------------------------
(* No item is below itself: in every set of items there is one without     *)
(* children in the set.                                                    *)
NoLoops(t) ==
  \A S \in SUBSET DOMAIN t : S # {} => \E x \in S : Forest!Kids(t, x) \cap S = {}

(* Without loops a node is not below its own children. *)
LEMMA NotUnderKid ==
  ASSUME NEW t, Whole(t), NoLoops(t), NEW c \in DOMAIN t, NEW x \in Forest!Kids(t, c)
  PROVE  c \notin Under(t, x)
<1> SUFFICES ASSUME c \in Under(t, x) PROVE FALSE
  OBVIOUS
<1>0. x \in DOMAIN t
  BY DEF Whole
<1>1. /\ x \in Under(t, x) /\ Under(t, x) \subseteq DOMAIN t /\ KidsIn(t, Under(t, x))
  BY <1>0, UnderIsLeast
<1> DEFINE S == {p \in Under(t, x) : c \in Under(t, p)}
<1>2. S \in SUBSET DOMAIN t /\ x \in S
  BY <1>1
<1>3. PICK p \in S : Forest!Kids(t, p) \cap S = {}
  BY <1>2 DEF NoLoops
<1>4. p # c
  BY <1>2, <1>3
<1>5. p \in DOMAIN t /\ Forest!Kids(t, p) \subseteq Under(t, x) /\ Forest!Kids(t, p) \subseteq DOMAIN t
  BY <1>1, <1>2 DEF KidsIn
<1>6. \A q \in Forest!Kids(t, p) : c \notin Under(t, q)
  BY <1>3, <1>5
<1> DEFINE U == {p} \cup UNION {Under(t, q) : q \in Forest!Kids(t, p)}
<1>7. U \in SUBSET DOMAIN t /\ p \in U /\ c \notin U
  BY <1>4, <1>5, <1>6 DEF Under
<1>8. KidsIn(t, U)
  <2> SUFFICES ASSUME NEW y \in U, NEW z \in Forest!Kids(t, y) PROVE z \in U
    BY DEF KidsIn
  <2>1. CASE y = p
    <3>1. z \in Forest!Kids(t, p) /\ z \in DOMAIN t
      BY <1>5, <2>1
    <3>2. z \in Under(t, z)
      BY <3>1, UnderIsLeast
    <3> QED BY <3>1, <3>2
  <2>2. ASSUME NEW q \in Forest!Kids(t, p), y \in Under(t, q) PROVE z \in U
    <3>1. q \in DOMAIN t
      BY <1>5
    <3>2. z \in Under(t, q)
      BY <2>2, <3>1, UnderIsLeast DEF KidsIn
    <3> QED BY <3>2
  <2> QED BY <2>1, <2>2
<1>9. Under(t, p) \subseteq U
  BY <1>5, <1>7, <1>8, UnderIsLeast
<1> QED BY <1>7, <1>9

(* No loop comes into being where no child does. *)
LEMMA NoLoopsLess ==
  ASSUME NEW t, NoLoops(t), NEW u,
         \A x \in DOMAIN u : IF x \in DOMAIN t THEN Forest!Kids(u, x) \subseteq Forest!Kids(t, x)
                             ELSE Forest!Kids(u, x) = {}
  PROVE  NoLoops(u)
<1> SUFFICES ASSUME NEW S \in SUBSET DOMAIN u, S # {} PROVE \E x \in S : Forest!Kids(u, x) \cap S = {}
  BY DEF NoLoops
<1>1. CASE S \subseteq DOMAIN t
  <2>1. PICK x \in S : Forest!Kids(t, x) \cap S = {}
    BY <1>1 DEF NoLoops
  <2> QED BY <1>1, <2>1
<1>2. CASE ~(S \subseteq DOMAIN t)
  BY <1>2
<1> QED BY <1>1, <1>2

(* Or where an item becomes a child that has the new parent not below it. *)
LEMMA NoLoopsAdded ==
  ASSUME NEW t, Whole(t), NoLoops(t), NEW u, DOMAIN u = DOMAIN t, NEW i \in DOMAIN t, NEW c \in DOMAIN t,
         c \notin Under(t, i), Forest!Kids(u, c) \subseteq Forest!Kids(t, c) \cup {i},
         \A x \in DOMAIN t : x # c => Forest!Kids(u, x) = Forest!Kids(t, x)
  PROVE  NoLoops(u)
<1> SUFFICES ASSUME NEW S \in SUBSET DOMAIN t, S # {} PROVE \E x \in S : Forest!Kids(u, x) \cap S = {}
  BY DEF NoLoops
<1>1. CASE i \in S
  <2> DEFINE U == S \cap Under(t, i)
  <2>1. i \in Under(t, i) /\ KidsIn(t, Under(t, i))
    BY UnderIsLeast
  <2>2. U \in SUBSET DOMAIN t /\ U # {}
    BY <1>1, <2>1
  <2>3. PICK x \in U : Forest!Kids(t, x) \cap U = {}
    BY <2>2 DEF NoLoops
  <2>4. Forest!Kids(t, x) \subseteq Under(t, i) /\ x # c
    BY <2>1, <2>3 DEF KidsIn
  <2> QED BY <2>3, <2>4
<1>2. CASE i \notin S
  <2>1. PICK x \in S : Forest!Kids(t, x) \cap S = {}
    BY DEF NoLoops
  <2> QED BY <1>2, <2>1
<1> QED BY <1>1, <1>2

(* The children of the trees are the entries of the lists. *)
LEMMA KidsAre ==
  ASSUME NEW h, NEW lists, NEW held, NEW loose, MemoryIs(h, lists, held, loose)
  PROVE  /\ \A b \in ItemsOf(h) : Trees(h)[b].kids = ListOf(lists, b)
         /\ \A b \in DOMAIN lists : b \in ItemsOf(h)
              /\ Forest!Kids(Trees(h), b) = {lists[b][k] : k \in DOMAIN lists[b]}
         /\ \A b \in ItemsOf(h) : b \notin DOMAIN lists => Forest!Kids(Trees(h), b) = {}
         /\ Whole(Trees(h)) /\ DOMAIN Trees(h) = ItemsOf(h) /\ IsMap(Trees(h))
<1>1. \A b \in ItemsOf(h) : Trees(h)[b].kids = ListOf(lists, b)
  <2> TAKE b \in ItemsOf(h)
  <2>1. Trees(h)[b] = Node(h[b].type, KeyOf(h, b), ValueOf(h, b), ListOf(lists, b))
    BY TreesAre
  <2> QED BY <2>1, NodeKids
<1>2. \A b \in DOMAIN lists : b \in ItemsOf(h)
  BY DEF MemoryIs, Owners
<1>3. \A b \in DOMAIN lists : Forest!Kids(Trees(h), b) = {lists[b][k] : k \in DOMAIN lists[b]}
  BY <1>1, <1>2 DEF Forest!Kids, ListOf
<1>4. \A b \in ItemsOf(h) : b \notin DOMAIN lists => Forest!Kids(Trees(h), b) = {}
  BY <1>1 DEF Forest!Kids, ListOf
<1>5. DOMAIN Trees(h) = ItemsOf(h) /\ IsMap(Trees(h))
  BY TreesAre
<1>6. \A b \in DOMAIN lists : \A k \in DOMAIN lists[b] : lists[b][k] \in ItemsOf(h)
  BY Placed
<1>7. \A b \in ItemsOf(h) : Forest!Kids(Trees(h), b) \subseteq ItemsOf(h)
  BY <1>3, <1>4, <1>6
<1>8. Whole(Trees(h))
  BY <1>5, <1>7 DEF Whole
<1> QED BY <1>1, <1>2, <1>3, <1>4, <1>5, <1>8

(* What cJSON_Delete reaches from an item that is held is what is under it. *)
LEMMA ReachIsUnder ==
  ASSUME NEW h, NEW lists, NEW held, NEW loose, MemoryIs(h, lists, held, loose), NEW i \in held
  PROVE  Reach(h, i) = Under(Trees(h), i)
<1> DEFINE t == Trees(h)
           U == Under(t, i)
<1>1. /\ \A b \in DOMAIN lists : Forest!Kids(t, b) = {lists[b][k] : k \in DOMAIN lists[b]}
      /\ \A b \in ItemsOf(h) : b \notin DOMAIN lists => Forest!Kids(t, b) = {}
      /\ Whole(t) /\ DOMAIN t = ItemsOf(h)
  BY KidsAre
<1>2. i \in ItemsOf(h)
  BY DEF MemoryIs, ListsAre, ItemsOf
<1>3. /\ i \in Reach(h, i) /\ Reach(h, i) \subseteq ItemsOf(h)
      /\ \A S \in SUBSET ItemsOf(h) : i \in S /\ Closed(h, S) => Reach(h, i) \subseteq S
  BY <1>2, ReachIsLeast
<1> HIDE DEF t
<1>4. /\ i \in U /\ U \subseteq ItemsOf(h) /\ KidsIn(t, U)
      /\ \A S \in SUBSET ItemsOf(h) : i \in S /\ KidsIn(t, S) => U \subseteq S
  BY <1>1, <1>2, UnderIsLeast
<1>5. KidsIn(t, Reach(h, i))
  <2> SUFFICES ASSUME NEW p \in Reach(h, i), NEW q \in Forest!Kids(t, p) PROVE q \in Reach(h, i)
    BY DEF KidsIn
  <2>1. p \in DOMAIN lists
    BY <1>1, <1>3
  <2>2. PICK k \in DOMAIN lists[p] : q = lists[p][k]
    BY <1>1, <2>1
  <2> QED BY <2>1, <2>2, ListsPart
<1>6. Closed(h, U)
  <2> SUFFICES ASSUME NEW p \in U, NEW q \in Succ(h, p) PROVE q \in U
    BY DEF Closed
  <2>0. p \in ItemsOf(h)
    BY <1>4
  <2>1. \/ p \in DOMAIN lists /\ 1 \in DOMAIN lists[p] /\ q = lists[p][1]
        \/ \E c \in DOMAIN lists : \E k \in DOMAIN lists[c] :
             k + 1 \in DOMAIN lists[c] /\ p = lists[c][k] /\ q = lists[c][k + 1]
    BY <2>0, LeadsTo
  <2>2. CASE p \in DOMAIN lists /\ 1 \in DOMAIN lists[p] /\ q = lists[p][1]
    <3>1. q \in Forest!Kids(t, p)
      BY <1>1, <2>2
    <3> QED BY <1>4, <3>1 DEF KidsIn
  <2>3. ASSUME NEW c \in DOMAIN lists, NEW k \in DOMAIN lists[c],
               k + 1 \in DOMAIN lists[c], p = lists[c][k], q = lists[c][k + 1]
        PROVE  q \in U
    <3>1. p # i
      BY <2>3, Placed
    <3>2. PICK r \in U : p \in Forest!Kids(t, r)
      BY <1>1, <1>2, <3>1, UnderFrom
    <3>3. r \in DOMAIN lists
      BY <1>1, <1>4, <3>2
    <3>4. PICK l \in DOMAIN lists[r] : p = lists[r][l]
      BY <1>1, <3>2, <3>3
    <3>5. r = c
      BY <2>3, <3>3, <3>4, PlacedOnce
    <3>6. q \in Forest!Kids(t, r)
      BY <1>1, <2>3, <3>5
    <3> QED BY <1>4, <3>2, <3>6 DEF KidsIn
  <2> QED BY <2>1, <2>2, <2>3
<1>7. Reach(h, i) \subseteq U
  BY <1>3, <1>4, <1>6
<1>8. U \subseteq Reach(h, i)
  BY <1>3, <1>4, <1>5
<1> QED BY <1>7, <1>8 DEF t

(* cJSON_Delete takes an item that is held and all under it from the trees. *)
LEMMA DeleteTrees ==
  ASSUME NEW m, NEW held, NEW loose, NEW refs, Ready(m, held, loose, refs),
         NEW i \in held, NEW g, g = cJSON_Delete(m, i)
  PROVE  Trees(g.heap) = Forest!Without(Trees(m.heap), Under(Trees(m.heap), i))
<1> DEFINE h == m.heap
           order == FreeOrder(h, i)
           k == [x \in DOMAIN h \ ToSet(order) |-> h[x]]
           t == Trees(h)
<1>1. DOMAIN m = {"heap", "room", "fuel", "ret", "ok", "bad", "oom", "off", "depth"}
  BY DEF Ready
<1>2. g = [m EXCEPT !.heap = k, !.bad = @ \/ ~IsInjective(order) \/ ~(ToSet(order) \subseteq DOMAIN m.heap)]
  BY Zenon DEF cJSON_Delete
<1>3. IsMap(k) /\ DOMAIN k = DOMAIN h \ ToSet(order) /\ \A x \in DOMAIN k : k[x] = h[x]
  BY DEF IsMap
<1>4. PICK lists : MemoryIs(h, lists, held, loose)
  BY DEF Ready, Sound
<1> DEFINE rest == [c \in DOMAIN lists \ Reach(h, i) |-> lists[c]]
<1> HIDE DEF k, order, h
<1>5. g.heap = k
  BY <1>1, <1>2
<1>6. ItemsOf(k) = ItemsOf(h) \ Reach(h, i) /\ MemoryIs(k, rest, held \ {i}, loose)
  <2>1. order = FreeOrder(h, i) /\ i \in held
    BY DEF order
  <2> QED BY ONLY <1>3, <1>4, <2>1, DeleteIs
<1>7. Reach(h, i) = Under(t, i)
  BY <1>4, ReachIsUnder
<1>8. \A b \in ItemsOf(k) : ListOf(rest, b) = ListOf(lists, b)
  BY <1>6 DEF ListOf
<1> HIDE DEF rest
<1>9. ASSUME NEW b \in ItemsOf(k) PROVE Trees(k)[b] = t[b]
  <2>1. b \in ItemsOf(h) /\ b \in DOMAIN k
    BY <1>6 DEF ItemsOf
  <2>2. \A x \in TextsOf(k, b) : x \in DOMAIN k
    BY <1>6 DEF MemoryIs, TextsAre
  <2>3. TextsOf(k, b) = TextsOf(h, b) /\ k[b] = h[b]
    BY <1>3, <2>1 DEF TextsOf
  <2>4. SameItem(h, k, b)
    BY <1>3, <2>2, <2>3 DEF SameItem
  <2> QED BY <1>4, <1>6, <1>8, <2>1, <2>4, NodeStays
<1>10. /\ DOMAIN Trees(k) = ItemsOf(k) /\ IsMap(Trees(k)) /\ DOMAIN t = ItemsOf(h) /\ IsMap(t)
  BY <1>4, <1>6, TreesAre
<1> DEFINE w == Forest!Without(t, Under(t, i))
<1>11. DOMAIN w = ItemsOf(k) /\ IsMap(w) /\ \A b \in ItemsOf(k) : w[b] = t[b]
  BY <1>6, <1>7, <1>10 DEF Forest!Without, IsMap
<1> HIDE DEF w, t
<1>12. Trees(k) = w
  BY <1>9, <1>10, <1>11, MapsEqual
<1> QED BY <1>5, <1>12 DEF w, t, h

-----------------------------------------------------------------------------
(* Changing one field of one item. *)

(* The trees t with other children, another key or another value at b. *)
PutKids(t, b, s) == [t EXCEPT ![b].kids = s]
PutKey(t, b, key) == [t EXCEPT ![b].key = key]
PutValue(t, b, value) == [t EXCEPT ![b].value = value]

(* Only item b may differ, in its key and its value; no item's links do. *)
OnlyItem(h, g, b) ==
  /\ ItemsOf(g) = ItemsOf(h)
  /\ \A x \in ItemsOf(h) : /\ g[x].next = h[x].next /\ g[x].prev = h[x].prev
                           /\ g[x].child = h[x].child /\ g[x].IsReference = h[x].IsReference
                           /\ x # b => SameItem(h, g, x)
  /\ g[b].type = h[b].type

(* The node n with another key and another value. *)
NodeWith(n, key, value) == [[n EXCEPT !.key = key] EXCEPT !.value = value]

(* What differs in the key and the value is the same node with these. *)
LEMMA NodePut ==
  ASSUME NEW n, NEW m, NEW a, NEW k, NEW v, NEW s, NEW k2, NEW v2,
         n = Node(a, k, v, s), m = Node(a, k2, v2, s)
  PROVE  m = NodeWith(n, k2, v2)
<1>1. [n EXCEPT !.key = k2] = Node(a, k2, v, s)
  BY NodeKids
<1> DEFINE p == [n EXCEPT !.key = k2]
<1> HIDE DEF p
<1>2. [p EXCEPT !.value = v2] = Node(a, k2, v2, s)
  <2>1. p = Node(a, k2, v, s)
    BY <1>1 DEF p
  <2> QED BY ONLY <2>1 DEF Node
<1> QED BY <1>2 DEF p, NodeWith

(* What changes one item but its links changes its key and value alone. *)
LEMMA ItemTrees ==
  ASSUME NEW h, NEW held, NEW loose, NEW refs, Sound(h, held, loose, refs),
         NEW g, NEW held2, NEW loose2, NEW refs2, Sound(g, held2, loose2, refs2),
         NEW b \in ItemsOf(h), OnlyItem(h, g, b)
  PROVE  Trees(g) = PutValue(PutKey(Trees(h), b, KeyOf(g, b)), b, ValueOf(g, b))
<1>1. PICK lists : MemoryIs(h, lists, held, loose)
  BY DEF Sound
<1>2. PICK lists2 : MemoryIs(g, lists2, held2, loose2)
  BY DEF Sound
<1>3. MemoryIs(g, lists, held, loose2)
  <2>1. /\ g = [x \in DOMAIN g |-> g[x]] /\ DOMAIN g \subseteq Blocks
        /\ \A x \in DOMAIN g : g[x] \in ItemRecord \cup [chars : Seq(Byte)]
        /\ TextsAre(g, loose2)
    BY <1>2, Zenon DEF MemoryIs
  <2>2. /\ ItemsOf(g) = ItemsOf(h)
        /\ \A x \in ItemsOf(h) : /\ g[x].next = h[x].next /\ g[x].prev = h[x].prev
                                 /\ g[x].child = h[x].child /\ g[x].IsReference = h[x].IsReference
    BY DEF OnlyItem
  <2> QED BY ONLY <1>1, <2>1, <2>2, LinksStay
<1> DEFINE t == Trees(h)
           u == Trees(g)
<1>4. /\ DOMAIN u = ItemsOf(h) /\ IsMap(u) /\ DOMAIN t = ItemsOf(h) /\ IsMap(t)
  BY <1>1, <1>3, TreesAre DEF OnlyItem
<1>5. ASSUME NEW x \in ItemsOf(h), x # b PROVE u[x] = t[x]
  <2>1. SameItem(h, g, x) /\ x \in ItemsOf(g)
    BY <1>5 DEF OnlyItem
  <2> QED BY <1>1, <1>3, <2>1, NodeStays
<1>6. /\ t[b] = Node(h[b].type, KeyOf(h, b), ValueOf(h, b), ListOf(lists, b))
      /\ u[b] = Node(h[b].type, KeyOf(g, b), ValueOf(g, b), ListOf(lists, b))
  BY <1>1, <1>3, TreesAre DEF OnlyItem
<1>7. u[b] = NodeWith(t[b], KeyOf(g, b), ValueOf(g, b))
  BY <1>6, NodePut
<1> HIDE DEF t, u
<1> DEFINE e == PutValue(PutKey(t, b, KeyOf(g, b)), b, ValueOf(g, b))
<1>8. IsMap(e) /\ DOMAIN e = ItemsOf(h) /\ e[b] = u[b] /\ \A x \in ItemsOf(h) : x # b => e[x] = t[x]
  BY <1>4, <1>7 DEF IsMap, PutKey, PutValue, NodeWith
<1>9. \A x \in ItemsOf(h) : u[x] = e[x]
  BY <1>5, <1>8
<1> HIDE DEF e
<1>10. u = e
  BY <1>4, <1>8, <1>9, MapsEqual
<1> QED BY <1>10 DEF e, t, u

(* A node stays itself when it gets what it has. *)
LEMMA NoChange ==
  ASSUME NEW h, NEW lists, NEW held, NEW loose, MemoryIs(h, lists, held, loose), NEW b \in ItemsOf(h)
  PROVE  /\ PutKey(Trees(h), b, KeyOf(h, b)) = Trees(h)
         /\ PutValue(Trees(h), b, ValueOf(h, b)) = Trees(h)
         /\ PutKids(Trees(h), b, ListOf(lists, b)) = Trees(h)
<1> DEFINE t == Trees(h)
<1>1. t[b] = Node(h[b].type, KeyOf(h, b), ValueOf(h, b), ListOf(lists, b))
      /\ IsMap(t) /\ DOMAIN t = ItemsOf(h)
  BY TreesAre
<1> HIDE DEF t
<1>2. /\ [t[b] EXCEPT !.key = KeyOf(h, b)] = t[b] /\ [t[b] EXCEPT !.value = ValueOf(h, b)] = t[b]
      /\ [t[b] EXCEPT !.kids = ListOf(lists, b)] = t[b]
  BY <1>1 DEF Node
<1>3. /\ PutKey(t, b, KeyOf(h, b)) = t /\ PutValue(t, b, ValueOf(h, b)) = t
      /\ PutKids(t, b, ListOf(lists, b)) = t
  BY <1>1, <1>2 DEF PutKey, PutValue, PutKids, IsMap
<1> QED BY <1>3 DEF t

(* The node n with another key; with another value. *)
NodeKey(n, key) == [n EXCEPT !.key = key]
NodeValue(n, value) == [n EXCEPT !.value = value]

(* With its old key, or its old value, only the other changes. *)
LEMMA NodeOnly ==
  ASSUME NEW n, NEW a, NEW k, NEW v, NEW s, n = Node(a, k, v, s), NEW k2, NEW v2
  PROVE  /\ NodeWith(n, k2, v) = NodeKey(n, k2)
         /\ NodeWith(n, k, v2) = NodeValue(n, v2)
<1>1. [n EXCEPT !.key = k2] = Node(a, k2, v, s) /\ [n EXCEPT !.key = k] = Node(a, k, v, s)
  BY DEF Node
<1> DEFINE p == [n EXCEPT !.key = k2]
           q == [n EXCEPT !.key = k]
<1> HIDE DEF p, q
<1>2. p = Node(a, k2, v, s) /\ q = Node(a, k, v, s)
  BY <1>1 DEF p, q
<1>3. [p EXCEPT !.value = v] = p
  BY ONLY <1>2 DEF Node
<1>4. q = n
  BY <1>2
<1> QED BY <1>3, <1>4 DEF p, q, NodeWith, NodeKey, NodeValue

(* Where only the key or only the value of an item changes. *)
LEMMA OneFieldTrees ==
  ASSUME NEW h, NEW held, NEW loose, NEW refs, Sound(h, held, loose, refs),
         NEW g, NEW held2, NEW loose2, NEW refs2, Sound(g, held2, loose2, refs2),
         NEW b \in ItemsOf(h), OnlyItem(h, g, b)
  PROVE  /\ ValueOf(g, b) = ValueOf(h, b) => Trees(g) = PutKey(Trees(h), b, KeyOf(g, b))
         /\ KeyOf(g, b) = KeyOf(h, b) => Trees(g) = PutValue(Trees(h), b, ValueOf(g, b))
<1>1. PICK lists : MemoryIs(h, lists, held, loose)
  BY DEF Sound
<1>2. Trees(g) = PutValue(PutKey(Trees(h), b, KeyOf(g, b)), b, ValueOf(g, b))
  BY ItemTrees
<1> DEFINE t == Trees(h)
<1>3. t[b] = Node(h[b].type, KeyOf(h, b), ValueOf(h, b), ListOf(lists, b)) /\ DOMAIN t = ItemsOf(h) /\ IsMap(t)
  BY <1>1, TreesAre
<1> HIDE DEF t
<1>4. ASSUME NEW k, NEW v
      PROVE  /\ PutValue(PutKey(t, b, k), b, v) = [x \in DOMAIN t |-> IF x = b THEN NodeWith(t[b], k, v) ELSE t[x]]
             /\ PutKey(t, b, k) = [x \in DOMAIN t |-> IF x = b THEN NodeKey(t[b], k) ELSE t[x]]
             /\ PutValue(t, b, v) = [x \in DOMAIN t |-> IF x = b THEN NodeValue(t[b], v) ELSE t[x]]
  BY <1>3 DEF PutValue, PutKey, NodeWith, NodeKey, NodeValue
<1>5. \A k, v : /\ NodeWith(t[b], k, ValueOf(h, b)) = NodeKey(t[b], k)
                /\ NodeWith(t[b], KeyOf(h, b), v) = NodeValue(t[b], v)
  BY <1>3, NodeOnly
<1>6. /\ \A k : PutValue(PutKey(t, b, k), b, ValueOf(h, b)) = PutKey(t, b, k)
      /\ \A v : PutValue(PutKey(t, b, KeyOf(h, b)), b, v) = PutValue(t, b, v)
  BY <1>4, <1>5
<1> QED BY <1>2, <1>6 DEF t

(* Where only texts that no item has change, the trees do not. *)
LEMMA TreesStay ==
  ASSUME NEW h, NEW held, NEW loose, NEW refs, Sound(h, held, loose, refs),
         NEW g, NEW held2, NEW loose2, NEW refs2, Sound(g, held2, loose2, refs2),
         ItemsOf(g) = ItemsOf(h), \A x \in DOMAIN h \ loose : g[x] = h[x]
  PROVE  Trees(g) = Trees(h)
<1>1. PICK lists : MemoryIs(h, lists, held, loose)
  BY DEF Sound
<1>2. PICK lists2 : MemoryIs(g, lists2, held2, loose2)
  BY DEF Sound
<1>3. loose \subseteq DOMAIN h \ ItemsOf(h) /\ \A x \in ItemsOf(h) : TextsOf(h, x) \subseteq DOMAIN h \ loose
  BY <1>1 DEF MemoryIs, TextsAre
<1>4. \A x \in ItemsOf(h) : x \in DOMAIN h \ loose
  BY <1>3 DEF ItemsOf
<1>5. \A x \in ItemsOf(h) : g[x] = h[x] /\ SameItem(h, g, x)
  BY <1>3, <1>4 DEF SameItem
<1>6. MemoryIs(g, lists, held, loose2)
  <2>1. /\ g = [x \in DOMAIN g |-> g[x]] /\ DOMAIN g \subseteq Blocks
        /\ \A x \in DOMAIN g : g[x] \in ItemRecord \cup [chars : Seq(Byte)]
        /\ TextsAre(g, loose2)
    BY <1>2, Zenon DEF MemoryIs
  <2>2. \A x \in ItemsOf(h) : /\ g[x].next = h[x].next /\ g[x].prev = h[x].prev
                              /\ g[x].child = h[x].child /\ g[x].IsReference = h[x].IsReference
    BY <1>5
  <2>3. ItemsOf(g) = ItemsOf(h)
    OBVIOUS
  <2> QED BY ONLY <1>1, <2>1, <2>2, <2>3, LinksStay
<1> QED BY <1>1, <1>5, <1>6, TreesSame

(* A copied text is nobody's yet. *)
LEMMA StrdupTrees ==
  ASSUME NEW m, NEW held, NEW loose, NEW refs, Ready(m, held, loose, refs),
         NEW chars \in Seq(Byte), NEW g, g = cJSON_strdup(m, chars)
  PROVE  /\ Trees(g.heap) = Trees(m.heap)
         /\ g.ret # NULL => g.heap[g.ret].chars = chars
<1>1. IsMachine(m) /\ Sound(m.heap, held, loose, refs)
  BY DEF Ready, IsMachine
<1>2. \/ g.ret = NULL /\ g.heap = m.heap
      \/ g.heap[g.ret] = [chars |-> chars] /\ g.ret # NULL
  BY <1>1, AllocateIs DEF cJSON_strdup
<1>3. ItemsOf(g.heap) = ItemsOf(m.heap)
  BY StrdupIs
<1>4. \/ g.ret = NULL /\ g.heap = m.heap
      \/ Grown(m.heap, g.heap, g.ret) /\ Ready(g, held, loose \cup {g.ret}, refs)
  BY StrdupIs
<1>5. CASE g.ret = NULL /\ g.heap = m.heap
  BY <1>5
<1>6. CASE Grown(m.heap, g.heap, g.ret) /\ Ready(g, held, loose \cup {g.ret}, refs)
  <2> DEFINE h == m.heap
             k == g.heap
             more == loose \cup {g.ret}
  <2>1. (\A x \in DOMAIN h \ loose : k[x] = h[x]) /\ Sound(k, held, more, refs) /\ Sound(h, held, loose, refs)
        /\ ItemsOf(k) = ItemsOf(h)
    BY <1>1, <1>3, <1>6 DEF Grown, Ready
  <2> HIDE DEF h, k, more
  <2>2. Trees(k) = Trees(h)
    BY ONLY <2>1, TreesStay
  <2> QED BY <1>2, <2>2 DEF h, k
<1> QED BY <1>4, <1>5, <1>6

(* Freeing a loose text changes no tree. *)
LEMMA DeallocateTrees ==
  ASSUME NEW m, NEW held, NEW loose, NEW refs, Ready(m, held, loose, refs),
         NEW t \in loose, NEW g, g = Deallocate(m, t)
  PROVE  Trees(g.heap) = Trees(m.heap)
<1> DEFINE h == m.heap
           k == g.heap
           less == loose \ {t}
<1>1. Ready(g, held, loose \ {t}, refs) /\ ItemsOf(k) = ItemsOf(h)
  BY DeallocateIs
<1>2. Sound(h, held, loose, refs) /\ Sound(k, held, less, refs)
  BY <1>1 DEF Ready
<1>3. DOMAIN m = {"heap", "room", "fuel", "ret", "ok", "bad", "oom", "off", "depth"}
  BY DEF Ready
<1>4. t \in DOMAIN h
  BY SoundType DEF Ready
<1>5. k = [x \in DOMAIN h \ {t} |-> h[x]]
  BY <1>3, <1>4 DEF Deallocate
<1>6. \A x \in DOMAIN h \ loose : k[x] = h[x]
  BY <1>5
<1>7. ItemsOf(k) = ItemsOf(h)
  BY <1>1
<1> HIDE DEF h, k, less
<1>8. Trees(k) = Trees(h)
  BY ONLY <1>2, <1>6, <1>7, TreesStay
<1> QED BY <1>8 DEF h, k

(* The same item, but for its key. *)
ButKey(n, r) ==
  /\ n.type = r.type /\ n.next = r.next /\ n.prev = r.prev /\ n.child = r.child
  /\ n.valuestring = r.valuestring /\ n.valuedouble = r.valuedouble /\ n.IsReference = r.IsReference

(* Another key of one item, in place of the old one's text, is another key in its node. *)
LEMMA KeyTrees ==
  ASSUME NEW h, NEW held, NEW loose, NEW refs, Sound(h, held, loose, refs),
         NEW g, NEW held2, NEW loose2, NEW refs2, Sound(g, held2, loose2, refs2),
         ItemsOf(g) = ItemsOf(h), NEW b \in ItemsOf(h), ButKey(g[b], h[b]),
         \A x \in DOMAIN h \ OldKey(h, b) : x # b => g[x] = h[x]
  PROVE  Trees(g) = PutKey(Trees(h), b, KeyOf(g, b))
<1>1. PICK lists : MemoryIs(h, lists, held, loose)
  BY DEF Sound
<1>2. TextsAre(h, loose)
  BY <1>1 DEF MemoryIs
<1>3. /\ OldKey(h, b) \subseteq DOMAIN h \ (ItemsOf(h) \cup loose)
      /\ b \in DOMAIN h
  BY <1>1, OldKeyIs
<1>4. OldKey(h, b) \subseteq TextsOf(h, b)
  BY DEF OldKey, TextsOf
<1>5. ASSUME NEW x \in ItemsOf(h), x # b PROVE g[x] = h[x] /\ SameItem(h, g, x)
  <2>1. TextsOf(h, x) \cap OldKey(h, b) = {} /\ TextsOf(h, x) \subseteq DOMAIN h \ ItemsOf(h)
    BY <1>2, <1>4, <1>5 DEF TextsAre
  <2>2. x \in DOMAIN h \ OldKey(h, b)
    BY <1>3 DEF ItemsOf
  <2>3. g[x] = h[x]
    BY <1>5, <2>2
  <2>4. \A t \in TextsOf(h, x) : g[t] = h[t]
    BY <2>1
  <2> QED BY <2>3, <2>4 DEF SameItem
<1>6. OnlyItem(h, g, b)
  BY <1>5 DEF OnlyItem, ButKey
<1>7. ValueOf(g, b) = ValueOf(h, b)
  <2>1. g[b].valuestring = h[b].valuestring /\ g[b].valuedouble = h[b].valuedouble
        /\ g[b].IsReference = h[b].IsReference
    BY DEF ButKey
  <2>2. CASE h[b].IsReference \/ h[b].valuestring = NULL
    BY <2>1, <2>2 DEF ValueOf
  <2>3. CASE ~h[b].IsReference /\ h[b].valuestring # NULL
    <3> DEFINE v == h[b].valuestring
    <3>1. v \in TextsOf(h, b)
      BY <2>3 DEF TextsOf
    <3>2. v \in DOMAIN h \ (ItemsOf(h) \cup loose)
      BY <1>2, <3>1 DEF TextsAre
    <3>3. v \notin OldKey(h, b) /\ v # b
      BY <1>2, <2>3, <3>2 DEF TextsAre, OldKey
    <3>4. g[v] = h[v]
      BY <3>2, <3>3
    <3>5. v # StaticKey
      BY <3>2, SoundType
    <3> QED BY <2>1, <2>3, <3>4, <3>5 DEF ValueOf, Chars
  <2> QED BY <2>2, <2>3
<1> QED BY <1>6, <1>7, OneFieldTrees

(* A key that was put in an item's place for it. *)
LEMMA KeySetTrees ==
  ASSUME NEW m, NEW held, NEW loose, NEW refs, Ready(m, held, loose, refs),
         NEW b \in ItemsOf(m.heap), NEW p, NEW const, KeyFits(const, p, loose),
         NEW f, f = WithoutKey(m, b),
         NEW g, g = WithKey(f, b, p, const)
  PROVE  Trees(g.heap) = PutKey(Trees(m.heap), b, Chars(m.heap, p))
<1> DEFINE h == m.heap
           k == g.heap
           left == loose \ {p}
<1>1. /\ Ready(g, held, loose \ {p}, refs)
      /\ Owners(g.heap) = Owners(m.heap) /\ g.ret = m.ret /\ g.ok = m.ok
      /\ KeyIs(h, k, b, p, const)
  BY KeySet
<1>2. Sound(h, held, loose, refs) /\ Sound(k, held, left, refs)
  BY <1>1 DEF Ready
<1>3. /\ KeyChanged(h, k, b) /\ k[b] = [h[b] EXCEPT !.string = p, !.StringIsConst = const]
  BY <1>1 DEF KeyIs
<1>4. PICK lists : MemoryIs(h, lists, held, loose)
  BY <1>2 DEF Sound
<1>5. /\ OldKey(h, b) \subseteq DOMAIN h \ (ItemsOf(h) \cup loose)
      /\ b \in DOMAIN h /\ h[b] \in ItemRecord
  BY <1>4, OldKeyIs
<1>6. /\ DOMAIN k = DOMAIN h \ OldKey(h, b) /\ \A x \in DOMAIN k : x # b => k[x] = h[x]
  BY <1>3 DEF KeyChanged
<1>7. ButKey(k[b], h[b]) /\ k[b].string = p /\ IsItem(k, b)
  <2>1. ButKey(k[b], h[b]) /\ k[b].string = p
    BY <1>3, <1>5 DEF ButKey, ItemRecord
  <2>2. b \in DOMAIN k /\ {"child", "next", "prev"} \subseteq DOMAIN k[b]
    BY <1>3, <1>5, <1>6 DEF ItemRecord
  <2> QED BY <2>1, <2>2 DEF IsItem
<1>8. ItemsOf(k) = ItemsOf(h)
  <2>1. \A x \in DOMAIN h : x \in ItemsOf(h) => x \in DOMAIN k
    BY <1>5, <1>6
  <2>2. \A x \in DOMAIN k : x # b => (IsItem(k, x) <=> IsItem(h, x))
    BY <1>6 DEF IsItem
  <2> QED BY <1>5, <1>6, <1>7, <2>1, <2>2 DEF ItemsOf
<1>9. KeyOf(k, b) = Chars(h, p)
  <2>1. p # NULL /\ (p # StaticKey => p \in DOMAIN h /\ k[p] = h[p])
    <3>1. loose \subseteq DOMAIN h \ ItemsOf(h) /\ NULL \notin DOMAIN h
      BY <1>2, SoundType
    <3>2. p \in loose => p \in DOMAIN k /\ p # b
      BY <1>5, <1>6, <3>1
    <3>3. StaticKey # NULL
      BY DEF StaticKey, NULL
    <3> QED BY <1>6, <3>1, <3>2, <3>3 DEF KeyFits
  <2> QED BY <1>7, <2>1 DEF KeyOf, Chars
<1>10. \A x \in DOMAIN h \ OldKey(h, b) : x # b => k[x] = h[x]
  BY <1>6
<1>11. b \in ItemsOf(h)
  OBVIOUS
<1> HIDE DEF h, k, left
<1>12. Trees(k) = PutKey(Trees(h), b, KeyOf(k, b))
  BY ONLY <1>2, <1>7, <1>8, <1>10, <1>11, KeyTrees
<1> QED BY <1>9, <1>12 DEF h, k

-----------------------------------------------------------------------------
(* The functions on lists. *)

(* The trees with another child of c: at the end, taken out, put in, or in another's place. *)
AppendKid(t, c, i) == PutKids(t, c, Append(t[c].kids, i))
RemoveKid(t, c, k) == PutKids(t, c, RemoveAt(t[c].kids, k))
InsertKid(t, c, k, i) == PutKids(t, c, InsertAt(t[c].kids, k, i))
ReplaceKid(t, c, k, i) == PutKids(t, c, ReplaceAt(t[c].kids, k, i))

(* Item i is child k of c. *)
IsKid(t, c, k, i) == c \in DOMAIN t /\ k \in DOMAIN t[c].kids /\ i = t[c].kids[k]

(* Where only the list of c became s, the children of c did. *)
LEMMA MovedTrees ==
  ASSUME NEW h, NEW lists, NEW held, NEW loose, MemoryIs(h, lists, held, loose), NEW c \in DOMAIN lists, NEW s,
         NEW g, NEW moved, NEW held2, NEW loose2, MemoryIs(g, moved, held2, loose2),
         ItemsOf(g) = ItemsOf(h), SameButLinks(h, g), DOMAIN moved = DOMAIN lists,
         moved[c] = s, \A d \in DOMAIN lists : d # c => moved[d] = lists[d]
  PROVE  Trees(g) = PutKids(Trees(h), c, s)
<1>1. Trees(g) = [Trees(h) EXCEPT ![c].kids = s]
  BY LinksTrees
<1> QED BY <1>1 DEF PutKids

(* The children of an owner are its list. *)
LEMMA KidsOfOwner ==
  ASSUME NEW h, NEW lists, NEW held, NEW loose, MemoryIs(h, lists, held, loose), NEW c \in DOMAIN lists
  PROVE  Trees(h)[c].kids = lists[c] /\ c \in DOMAIN Trees(h) /\ Children(h, c) = lists[c]
<1>1. c \in ItemsOf(h)
  BY DEF MemoryIs, Owners
<1>2. Children(h, c) = lists[c]
  BY ChildrenAre
<1>3. Trees(h)[c].kids = ListOf(lists, c) /\ DOMAIN Trees(h) = ItemsOf(h)
  BY <1>1, KidsAre
<1> QED BY <1>1, <1>2, <1>3 DEF ListOf

(* add_item_to_array *)
LEMMA AddToArrayTrees ==
  ASSUME NEW m, NEW held, NEW loose, NEW refs, Ready(m, held, loose, refs),
         NEW c \in Owners(m.heap), NEW item \in held, item # NULL, c # item,
         NEW g, g = add_item_to_array(m, c, item)
  PROVE  g.ok /\ g.ret = m.ret /\ Trees(g.heap) = AppendKid(Trees(m.heap), c, item)
<1> DEFINE h == m.heap
           k == AppendLinks(h, c, item)
<1>1. DOMAIN m = {"heap", "room", "fuel", "ret", "ok", "bad", "oom", "off", "depth"}
  BY DEF Ready
<1>2. g = [m EXCEPT !.heap = k, !.ok = TRUE]
  BY DEF add_item_to_array
<1>3. PICK lists : MemoryIs(h, lists, held, loose)
  BY DEF Ready, Sound
<1>4. c \in DOMAIN lists
  BY <1>3 DEF MemoryIs
<1>5. k = AppendLinks(h, c, item) /\ item \in held
  OBVIOUS
<1> HIDE DEF k
<1>6. g.heap = k /\ g.ok /\ g.ret = m.ret
  BY <1>1, <1>2
<1> HIDE DEF h
<1>7. /\ \E longer : MemoryIs(k, longer, held \ {item}, loose) /\ Lengthened(lists, longer, c, item)
      /\ ItemsOf(k) = ItemsOf(h) /\ SameButLinks(h, k)
  BY ONLY <1>3, <1>4, <1>5, AppendIs
<1>8. PICK longer : MemoryIs(k, longer, held \ {item}, loose) /\ Lengthened(lists, longer, c, item)
  BY <1>7
<1> DEFINE s == longer[c]
<1>9. s = Append(lists[c], item)
  BY <1>8 DEF Lengthened
<1>10. /\ DOMAIN longer = DOMAIN lists /\ longer[c] = s /\ \A d \in DOMAIN lists : d # c => longer[d] = lists[d]
  BY <1>8 DEF Lengthened
<1> HIDE DEF s
<1>11. Trees(k) = PutKids(Trees(h), c, s)
  BY ONLY <1>3, <1>4, <1>7, <1>8, <1>10, MovedTrees
<1>12. Trees(h)[c].kids = lists[c]
  BY <1>3, <1>4, KidsOfOwner
<1>13. Trees(k) = AppendKid(Trees(h), c, item)
  BY <1>9, <1>11, <1>12 DEF AppendKid
<1> QED BY <1>6, <1>13 DEF h

(* cJSON_DetachItemViaPointer *)
LEMMA DetachTrees ==
  ASSUME NEW m, NEW held, NEW loose, NEW refs, Ready(m, held, loose, refs),
         NEW c \in Owners(m.heap), NEW item, NEW k, IsKid(Trees(m.heap), c, k, item),
         NEW g, g = Detach(m, c, item)
  PROVE  /\ g.ret = item /\ g.ok /\ item # NULL /\ item \in ItemsOf(m.heap)
         /\ Trees(g.heap) = RemoveKid(Trees(m.heap), c, k)
<1> DEFINE h == m.heap
           n == DetachLinks(h, c, item)
<1>1. DOMAIN m = {"heap", "room", "fuel", "ret", "ok", "bad", "oom", "off", "depth"}
  BY DEF Ready
<1>2. g = IF item = NULL \/ (item # h[c].child /\ h[item].prev = NULL) THEN Return(m, NULL)
          ELSE Return([m EXCEPT !.heap = n], item)
  BY Zenon DEF Detach
<1>3. PICK lists : MemoryIs(h, lists, held, loose)
  BY DEF Ready, Sound
<1>4. c \in DOMAIN lists
  BY <1>3 DEF MemoryIs
<1>5. n = DetachLinks(h, c, item) /\ IsKid(Trees(h), c, k, item) /\ c \in Owners(h)
  OBVIOUS
<1> HIDE DEF n
<1>6. ~(item = NULL \/ (item # h[c].child /\ h[item].prev = NULL)) /\ item = lists[c][k] /\ k \in DOMAIN lists[c]
      /\ item \in ItemsOf(h)
  <2> HIDE DEF h
  <2>1. Trees(h)[c].kids = lists[c]
    BY <1>3, <1>4, KidsOfOwner
  <2>2. k \in DOMAIN lists[c] /\ item = lists[c][k]
    BY <1>5, <2>1 DEF IsKid
  <2> DEFINE before == IF k = 1 THEN Len(lists[c]) ELSE k - 1
  <2>3. /\ lists[c][k] \in ItemsOf(h) /\ NULL \notin ItemsOf(h) /\ h[lists[c][k]].prev = lists[c][before]
        /\ Len(lists[c]) \in Nat /\ k \in 1 .. Len(lists[c]) /\ DOMAIN lists[c] = 1 .. Len(lists[c])
    BY <1>3, <1>4, <2>2, Placed
  <2>4. before \in DOMAIN lists[c]
    BY <2>3
  <2> HIDE DEF before
  <2>5. lists[c][before] \in ItemsOf(h)
    BY <1>3, <1>4, <2>4, Placed
  <2> QED BY <2>2, <2>3, <2>5
<1>7. g.heap = n /\ g.ret = item /\ g.ok
  BY <1>1, <1>2, <1>6 DEF Return
<1> DEFINE s == RemoveAt(lists[c], k)
           moved == [lists EXCEPT ![c] = s]
<1>8. MemoryIs(n, moved, held \cup {item}, loose) /\ ItemsOf(n) = ItemsOf(h) /\ SameButLinks(h, n)
  <2> HIDE DEF h
  <2>1. /\ MemoryIs(n, [lists EXCEPT ![c] = RemoveAt(@, k)], held \cup {item}, loose)
        /\ ItemsOf(n) = ItemsOf(h) /\ SameButLinks(h, n)
    BY <1>3, <1>4, <1>5, <1>6, DetachIs
  <2> QED BY <2>1
<1>9. DOMAIN moved = DOMAIN lists /\ moved[c] = s /\ \A d \in DOMAIN lists : d # c => moved[d] = lists[d]
  BY <1>4
<1>10. Trees(h)[c].kids = lists[c]
  <2> HIDE DEF h
  <2> QED BY <1>3, <1>4, KidsOfOwner
<1>11. s = RemoveAt(Trees(h)[c].kids, k)
  BY <1>10
<1> HIDE DEF h, s, moved
<1>12. Trees(n) = PutKids(Trees(h), c, s)
  BY ONLY <1>3, <1>4, <1>8, <1>9, MovedTrees
<1>13. Trees(n) = RemoveKid(Trees(h), c, k)
  BY ONLY <1>11, <1>12 DEF RemoveKid
<1> QED BY <1>6, <1>7, <1>13 DEF h

(* What is inserted after the last one is appended. *)
LEMMA AppendIsInsert ==
  ASSUME NEW S, NEW s \in Seq(S), NEW e \in S
  PROVE  InsertAt(s, Len(s) + 1, e) = Append(s, e)
<1> DEFINE n == Len(s) + 1
           before == SubSeq(s, 1, n - 1)
           after == SubSeq(s, n, Len(s))
<1>1. before = s /\ after = <<>> /\ Len(s) \in Nat
  OBVIOUS
<1>2. InsertAt(s, n, e) = before \o <<e>> \o after
  BY Zenon DEF InsertAt
<1> HIDE DEF before, after, n
<1>3. s \o <<e>> \o <<>> = Append(s, e)
  OBVIOUS
<1>4. InsertAt(s, n, e) = Append(s, e)
  BY <1>1, <1>2, <1>3
<1> QED BY <1>4 DEF n

(* To insert behind the last child is to append. *)
LEMMA InsertWhere ==
  ASSUME NEW h, NEW lists, NEW held, NEW loose, MemoryIs(h, lists, held, loose),
         NEW c \in DOMAIN lists, NEW item \in ItemsOf(h)
  PROVE  InsertKid(Trees(h), c, Len(lists[c]) + 1, item) = AppendKid(Trees(h), c, item)
<1>1. Trees(h)[c].kids = lists[c]
  BY KidsOfOwner
<1>2. lists[c] \in Seq(ItemsOf(h))
  BY DEF MemoryIs, ListsAre, ItemsOf
<1>3. InsertAt(lists[c], Len(lists[c]) + 1, item) = Append(lists[c], item)
  BY <1>2, AppendIsInsert
<1> QED BY <1>1, <1>3 DEF InsertKid, AppendKid

(* cJSON_InsertItemInArray *)
LEMMA InsertTrees ==
  ASSUME NEW m, NEW held, NEW loose, NEW refs, Ready(m, held, loose, refs),
         NEW c \in Owners(m.heap), NEW item \in held, item # NULL, c # item,
         NEW which \in 0 .. Len(Children(m.heap, c)),
         NEW g, g = Insert(m, c, which, item)
  PROVE  g.ok /\ g.ret = m.ret /\ Trees(g.heap) = InsertKid(Trees(m.heap), c, which + 1, item)
<1> DEFINE h == m.heap
           after == get_array_item(m, c, which)
           n == InsertLinks(h, c, after, item)
<1>1. DOMAIN m = {"heap", "room", "fuel", "ret", "ok", "bad", "oom", "off", "depth"}
  BY DEF Ready
<1>2. g = IF after = NULL THEN add_item_to_array(m, c, item)
          ELSE IF after # h[c].child /\ h[after].prev = NULL THEN Fail(m)
          ELSE [m EXCEPT !.heap = n, !.ok = TRUE]
  BY Zenon DEF Insert
<1>3. PICK lists : MemoryIs(h, lists, held, loose)
  BY DEF Ready, Sound
<1>4. c \in DOMAIN lists
  BY <1>3 DEF MemoryIs
<1>5. Trees(h)[c].kids = lists[c] /\ Children(h, c) = lists[c]
  <2> HIDE DEF h
  <2> QED BY <1>3, <1>4, KidsOfOwner
<1>6. lists[c] \in Seq(ItemsOf(h)) /\ NULL \notin ItemsOf(h) /\ item \in ItemsOf(h)
  BY <1>3, <1>4 DEF MemoryIs, ListsAre, ItemsOf
<1>7. after = IF which < Len(lists[c]) THEN lists[c][which + 1] ELSE NULL
  BY <1>5 DEF get_array_item
<1>8. Len(lists[c]) \in Nat /\ DOMAIN lists[c] = 1 .. Len(lists[c]) /\ which \in 0 .. Len(lists[c])
  BY <1>5, <1>6
<1> HIDE DEF after, n
<1>9. CASE which = Len(lists[c])
  <2>1. g = add_item_to_array(m, c, item)
    BY <1>2, <1>7, <1>8, <1>9
  <2>2. g.ok /\ g.ret = m.ret /\ Trees(g.heap) = AppendKid(Trees(m.heap), c, item)
    BY <2>1, AddToArrayTrees
  <2>3. InsertKid(Trees(h), c, Len(lists[c]) + 1, item) = AppendKid(Trees(h), c, item)
    <3> HIDE DEF h
    <3> QED BY <1>3, <1>4, <1>6, InsertWhere
  <2> QED BY <1>9, <2>2, <2>3
<1>10. CASE which # Len(lists[c])
  <2> DEFINE k == which + 1
  <2>1. k \in DOMAIN lists[c] /\ after = lists[c][k]
    BY <1>7, <1>8, <1>10
  <2>2. after # NULL /\ h[after].prev # NULL
    <3> HIDE DEF h, k
    <3> DEFINE before == IF k = 1 THEN Len(lists[c]) ELSE k - 1
    <3>1. /\ lists[c][k] \in ItemsOf(h) /\ h[lists[c][k]].prev = lists[c][before]
          /\ k \in 1 .. Len(lists[c])
      BY <1>3, <1>4, <2>1, Placed
    <3>2. before \in DOMAIN lists[c]
      BY <1>8, <3>1
    <3> HIDE DEF before
    <3>3. lists[c][before] \in ItemsOf(h)
      BY <1>3, <1>4, <3>2, Placed
    <3> QED BY <1>6, <2>1, <3>1, <3>3
  <2>3. g = [m EXCEPT !.heap = n, !.ok = TRUE]
    BY <1>2, <2>2
  <2>4. g.heap = n /\ g.ret = m.ret /\ g.ok
    BY <1>1, <2>3
  <2>5. n = InsertLinks(h, c, lists[c][k], item) /\ item \in held
    BY <2>1 DEF n
  <2> DEFINE s == InsertAt(lists[c], k, item)
             moved == [lists EXCEPT ![c] = s]
  <2>6. MemoryIs(n, moved, held \ {item}, loose) /\ ItemsOf(n) = ItemsOf(h) /\ SameButLinks(h, n)
    <3> HIDE DEF h, k
    <3>1. /\ MemoryIs(n, [lists EXCEPT ![c] = InsertAt(@, k, item)], held \ {item}, loose)
          /\ ItemsOf(n) = ItemsOf(h) /\ SameButLinks(h, n)
      BY <1>3, <1>4, <2>1, <2>5, InsertIs
    <3> QED BY <3>1
  <2>7. DOMAIN moved = DOMAIN lists /\ moved[c] = s /\ \A d \in DOMAIN lists : d # c => moved[d] = lists[d]
    BY <1>4
  <2>8. s = InsertAt(Trees(h)[c].kids, k, item)
    BY <1>5
  <2> HIDE DEF h, s, moved
  <2>9. Trees(n) = PutKids(Trees(h), c, s)
    BY ONLY <1>3, <1>4, <2>6, <2>7, MovedTrees
  <2>10. Trees(n) = InsertKid(Trees(h), c, k, item)
    BY ONLY <2>8, <2>9 DEF InsertKid
  <2> QED BY <2>4, <2>10 DEF h
<1> QED BY <1>9, <1>10

(* The other children of c do not matter to what is under item, which has  *)
(* not c under it.                                                         *)
LEMMA UnderPutKids ==
  ASSUME NEW t, Whole(t), NEW c \in DOMAIN t, NEW s, NEW u, u = PutKids(t, c, s), Whole(u),
         NEW x \in DOMAIN t, c \notin Under(t, x)
  PROVE  Under(u, x) = Under(t, x)
<1>1. DOMAIN u = DOMAIN t /\ \A p \in DOMAIN t : p # c => u[p] = t[p]
  BY DEF PutKids
<1>2. \A p \in DOMAIN t : p # c => Forest!Kids(u, p) = Forest!Kids(t, p)
  BY <1>1 DEF Forest!Kids
<1> QED BY <1>1, <1>2, UnderStays

(* What a replacement does to the forest. *)
ReplacedIn(m, g, c, k, r, item) ==
  /\ g.ok /\ g.ret = m.ret
  /\ Trees(g.heap) = Forest!Without(ReplaceKid(Trees(m.heap), c, k, r), Under(Trees(m.heap), item))

(* cJSON_ReplaceItemViaPointer *)
LEMMA ReplaceTrees ==
  ASSUME NEW m, NEW held, NEW loose, NEW refs, Ready(m, held, loose, refs), NoLoops(Trees(m.heap)),
         NEW c \in Owners(m.heap), NEW item, NEW k, IsKid(Trees(m.heap), c, k, item), NEW r \in held,
         NEW g, g = ReplaceItem(m, c, item, r)
  PROVE  ReplacedIn(m, g, c, k, r, item)
<1> DEFINE h == m.heap
           n == ReplaceLinks(h, c, item, r)
           linked == [m EXCEPT !.heap = n]
           deleted == cJSON_Delete(linked, item)
<1>1. DOMAIN m = {"heap", "room", "fuel", "ret", "ok", "bad", "oom", "off", "depth"}
  BY DEF Ready
<1>2. g = IF item = NULL THEN Fail(m)
          ELSE IF item = r THEN [m EXCEPT !.ok = TRUE] ELSE [deleted EXCEPT !.ok = TRUE]
  BY Zenon DEF ReplaceItem
<1>3. PICK lists : MemoryIs(h, lists, held, loose)
  BY DEF Ready, Sound
<1>4. c \in DOMAIN lists
  BY <1>3 DEF MemoryIs
<1>5. n = ReplaceLinks(h, c, item, r) /\ r \in held /\ IsKid(Trees(h), c, k, item) /\ NoLoops(Trees(h))
  OBVIOUS
<1>6. linked.heap = n /\ DOMAIN linked = DOMAIN m /\ linked.room = m.room /\ linked.bad = m.bad
      /\ linked.ret = m.ret
  BY <1>1
<1> HIDE DEF n, linked
<1>7. Trees(h)[c].kids = lists[c] /\ c \in DOMAIN Trees(h)
  <2> HIDE DEF h
  <2> QED BY <1>3, <1>4, KidsOfOwner
<1>8. k \in DOMAIN lists[c] /\ item = lists[c][k]
  BY <1>5, <1>7 DEF IsKid
<1>9. item \in ItemsOf(h) \ held /\ NULL \notin ItemsOf(h)
  <2> HIDE DEF h
  <2> QED BY <1>3, <1>4, <1>8, Placed
<1> DEFINE s == ReplaceAt(lists[c], k, r)
           moved == [lists EXCEPT ![c] = s]
           held2 == (held \ {r}) \cup {item}
<1>10. MemoryIs(n, moved, held2, loose) /\ ItemsOf(n) = ItemsOf(h) /\ SameButLinks(h, n)
  <2> HIDE DEF h
  <2>1. /\ MemoryIs(n, [lists EXCEPT ![c] = ReplaceAt(@, k, r)], (held \ {r}) \cup {lists[c][k]}, loose)
        /\ ItemsOf(n) = ItemsOf(h) /\ SameButLinks(h, n)
    BY <1>3, <1>4, <1>5, <1>8, ReplaceIs
  <2> QED BY <1>8, <2>1
<1>11. DOMAIN moved = DOMAIN lists /\ moved[c] = s /\ \A d \in DOMAIN lists : d # c => moved[d] = lists[d]
  BY <1>4
<1>12. s = ReplaceAt(Trees(h)[c].kids, k, r)
  BY <1>7
<1>13. item \in held2 /\ refs \ {r} \subseteq refs \cap held2
  BY DEF Ready, Sound
<1> HIDE DEF s, moved, held2
<1>14. Ready(linked, held2, loose, refs \ {r})
  BY <1>3, <1>6, <1>10, <1>11, <1>13, ReadyStep
<1> HIDE DEF deleted
<1>15. Ready(deleted, held2 \ {item}, loose, (refs \ {r}) \ {item}) /\ deleted.ret = linked.ret
  BY <1>13, <1>14, DeleteHeld DEF deleted
<1>16. DOMAIN deleted = {"heap", "room", "fuel", "ret", "ok", "bad", "oom", "off", "depth"}
  BY <1>15 DEF Ready
<1>17. g.heap = deleted.heap /\ g.ret = deleted.ret /\ g.ok
  <2>1. item # NULL /\ item # r
    BY <1>9
  <2>2. g = [deleted EXCEPT !.ok = TRUE]
    BY <1>2, <2>1
  <2> QED BY <1>16, <2>2
<1>18. Trees(deleted.heap) = Forest!Without(Trees(linked.heap), Under(Trees(linked.heap), item))
  BY <1>13, <1>14, DeleteTrees DEF deleted
<1> HIDE DEF h
<1>19. Trees(n) = PutKids(Trees(h), c, s)
  BY ONLY <1>3, <1>4, <1>10, <1>11, MovedTrees
<1>20. Whole(Trees(h)) /\ Whole(Trees(n)) /\ DOMAIN Trees(h) = ItemsOf(h)
  BY <1>3, <1>10, KidsAre
<1>21. c \notin Under(Trees(h), item)
  <2>1. item \in Forest!Kids(Trees(h), c)
    BY <1>7, <1>8 DEF Forest!Kids
  <2> QED BY <1>5, <1>7, <1>20, <2>1, NotUnderKid
<1>22. Under(Trees(n), item) = Under(Trees(h), item)
  BY <1>7, <1>9, <1>19, <1>20, <1>21, UnderPutKids
<1>23. Trees(n) = ReplaceKid(Trees(h), c, k, r)
  BY ONLY <1>12, <1>19 DEF ReplaceKid
<1> QED BY <1>6, <1>15, <1>17, <1>18, <1>22, <1>23 DEF h, ReplacedIn

-----------------------------------------------------------------------------
(* New items. *)

(* The trees u are t and a new item without a key and without children. *)
NewLeaf(t, u, r) ==
  /\ r \notin DOMAIN t /\ DOMAIN u = DOMAIN t \cup {r} /\ IsMap(t) /\ IsMap(u)
  /\ \A x \in DOMAIN t : u[x] = t[x]
  /\ u[r].kids = <<>> /\ u[r].key = NoKey

(* A new block with the fields of cJSON_New_Item is a new leaf. *)
LEMMA NewTrees ==
  ASSUME NEW m, NEW held, NEW loose, NEW refs, Ready(m, held, loose, refs),
         NEW g, NEW i, NewBlock(m.heap, g.heap, i), Fresh(g.heap[i])
  PROVE  NewLeaf(Trees(m.heap), Trees(g.heap), i)
<1> DEFINE h == m.heap
           k == g.heap
           n == k[i]
<1>1. PICK lists : MemoryIs(h, lists, held, loose)
  BY DEF Ready, Sound
<1>2. /\ i \in Blocks \ DOMAIN h /\ IsMap(k) /\ DOMAIN k = DOMAIN h \cup {i}
      /\ \A x \in DOMAIN h : k[x] = h[x]
  BY DEF NewBlock
<1>3. /\ n \in ItemRecord /\ n.next = NULL /\ n.prev = NULL /\ n.string = NULL
      /\ n.IsReference \/ (n.child = NULL /\ n.valuestring = NULL)
      /\ k[i] = n
  BY DEF Fresh
<1> HIDE DEF n, h, k
<1>4. /\ \E longer : MemoryIs(k, longer, held \cup {i}, loose) /\ Prolonged(lists, longer, i)
      /\ ItemsOf(k) = ItemsOf(h) \cup {i}
  BY ONLY <1>1, <1>2, <1>3, NewItem
<1>5. PICK longer : MemoryIs(k, longer, held \cup {i}, loose) /\ Prolonged(lists, longer, i)
  BY <1>4
<1>6. DOMAIN lists \subseteq ItemsOf(h) /\ ItemsOf(h) \subseteq DOMAIN h /\ i \notin DOMAIN h
  BY <1>1, <1>2 DEF MemoryIs, Owners, ItemsOf
<1>7. (\A b \in ItemsOf(h) : ListOf(longer, b) = ListOf(lists, b)) /\ ListOf(longer, i) = <<>>
  BY <1>5, <1>6 DEF ListOf, Prolonged
<1>8. \A x \in ItemsOf(h) : SameItem(h, k, x)
  <2>1. \A x \in ItemsOf(h) : TextsOf(h, x) \subseteq DOMAIN h
    BY <1>1 DEF MemoryIs, TextsAre
  <2> QED BY <1>2, <1>6, <2>1 DEF SameItem
<1>9. \A x \in ItemsOf(h) : Trees(k)[x] = Trees(h)[x]
  <2> TAKE x \in ItemsOf(h)
  <2>1. x \in ItemsOf(k) /\ SameItem(h, k, x) /\ ListOf(longer, x) = ListOf(lists, x)
    BY <1>4, <1>7, <1>8
  <2> QED BY <1>1, <1>5, <2>1, NodeStays
<1>10. /\ DOMAIN Trees(k) = ItemsOf(k) /\ IsMap(Trees(k)) /\ DOMAIN Trees(h) = ItemsOf(h) /\ IsMap(Trees(h))
  BY <1>1, <1>5, TreesAre
<1>11. Trees(k)[i].kids = <<>> /\ Trees(k)[i].key = NoKey
  <2>1. KeyOf(k, i) = NoKey
    BY <1>3 DEF KeyOf
  <2>2. i \in ItemsOf(k)
    BY <1>4
  <2>3. Trees(k)[i] = Node(k[i].type, KeyOf(k, i), ValueOf(k, i), ListOf(longer, i))
    BY <1>5, <2>2, TreesAre
  <2> QED BY <1>7, <2>1, <2>3 DEF Node
<1> QED BY <1>4, <1>6, <1>9, <1>10, <1>11 DEF NewLeaf, h, k

(* A new leaf that is deleted leaves the trees that were there before. *)
LEMMA LeafGone ==
  ASSUME NEW t, NEW u, NEW r, NewLeaf(t, u, r)
  PROVE  Under(u, r) = {r} /\ Forest!Without(u, Under(u, r)) = t
<1>1. Under(u, r) = {r}
  <2>1. Forest!Kids(u, r) = {}
    BY DEF NewLeaf, Forest!Kids
  <2>2. {r} \in SUBSET DOMAIN u /\ KidsIn(u, {r})
    BY <2>1 DEF NewLeaf, KidsIn
  <2> QED BY <2>2 DEF Under
<1>2. Forest!Without(u, {r}) = t
  <2>1. DOMAIN u \ {r} = DOMAIN t
    BY DEF NewLeaf
  <2>2. Forest!Without(u, {r}) = [x \in DOMAIN t |-> t[x]]
    BY <2>1 DEF Forest!Without, NewLeaf
  <2> QED BY <2>2 DEF NewLeaf, IsMap
<1> QED BY <1>1, <1>2

(* A new leaf may have any value. *)
LEMMA LeafValue ==
  ASSUME NEW t, NEW u, NEW r, NewLeaf(t, u, r), NEW n, NEW a, NEW k, NEW v, NEW s, u[r] = Node(a, k, v, s), NEW v2
  PROVE  NewLeaf(t, PutValue(u, r, v2), r)
<1>1. [u[r] EXCEPT !.value = v2] = Node(a, k, v2, s) /\ s = <<>> /\ k = NoKey
  <2>1. s = u[r].kids /\ k = u[r].key
    BY DEF Node
  <2> QED BY <2>1 DEF Node, NewLeaf
<1> DEFINE w == PutValue(u, r, v2)
<1>2. DOMAIN w = DOMAIN u /\ IsMap(w) /\ w[r] = Node(a, k, v2, s) /\ \A x \in DOMAIN u : x # r => w[x] = u[x]
  BY <1>1 DEF PutValue, NewLeaf, IsMap
<1> HIDE DEF w
<1>3. w[r].kids = <<>> /\ w[r].key = NoKey
  BY <1>1, <1>2 DEF Node
<1>4. NewLeaf(t, w, r)
  BY <1>2, <1>3 DEF NewLeaf
<1> QED BY <1>4 DEF w

(* Another text of one item, in place of the old one, is another value in its node. *)
LEMMA ValueTrees ==
  ASSUME NEW h, NEW held, NEW loose, NEW refs, Sound(h, held, loose, refs),
         NEW g, NEW held2, NEW loose2, NEW refs2, Sound(g, held2, loose2, refs2),
         ItemsOf(g) = ItemsOf(h), NEW b \in ItemsOf(h), ~h[b].IsReference,
         NEW p \in loose, ValueChanged(h, g, b, p), g[b].type = h[b].type
  PROVE  Trees(g) = PutValue(Trees(h), b, h[p].chars)
<1>1. PICK lists : MemoryIs(h, lists, held, loose)
  BY DEF Sound
<1>2. TextsAre(h, loose)
  BY <1>1 DEF MemoryIs
<1>3. OldValue(h, b) \subseteq TextsOf(h, b) /\ TextsOf(h, b) \subseteq DOMAIN h \ (ItemsOf(h) \cup loose)
  BY <1>2 DEF OldValue, TextsOf, TextsAre
<1>4. /\ DOMAIN g = DOMAIN h \ OldValue(h, b) /\ \A x \in DOMAIN g : x # b => g[x] = h[x]
      /\ g[b].valuestring = p
      /\ g[b].next = h[b].next /\ g[b].prev = h[b].prev /\ g[b].child = h[b].child
      /\ g[b].string = h[b].string /\ g[b].StringIsConst = h[b].StringIsConst
      /\ g[b].IsReference = h[b].IsReference
  BY DEF ValueChanged
<1>5. ASSUME NEW x \in ItemsOf(h), x # b PROVE g[x] = h[x] /\ SameItem(h, g, x)
  <2>1. TextsOf(h, x) \cap OldValue(h, b) = {} /\ TextsOf(h, x) \subseteq DOMAIN h \ ItemsOf(h)
    BY <1>2, <1>3, <1>5 DEF TextsAre
  <2>2. x \in DOMAIN g
    BY <1>3, <1>4 DEF ItemsOf
  <2>3. g[x] = h[x]
    BY <1>4, <1>5, <2>2
  <2>4. \A y \in TextsOf(h, x) : y \in DOMAIN g /\ g[y] = h[y]
    BY <1>4, <2>1
  <2> QED BY <2>3, <2>4 DEF SameItem
<1>6. OnlyItem(h, g, b)
  BY <1>4, <1>5 DEF OnlyItem
<1>7. KeyOf(g, b) = KeyOf(h, b)
  <2>1. CASE h[b].string = NULL \/ h[b].string = StaticKey
    BY <1>4, <2>1 DEF KeyOf, Chars
  <2>2. CASE h[b].string # NULL /\ h[b].string # StaticKey
    <3> DEFINE s == h[b].string
    <3>1. ~h[b].StringIsConst /\ s \in TextsOf(h, b)
      <4>1. h[b].StringIsConst \in BOOLEAN
        BY <1>1, ItemFields DEF MemoryIs
      <4> QED BY <1>2, <2>2, <4>1 DEF TextsAre, TextsOf
    <3>2. s \in DOMAIN h \ ItemsOf(h) /\ s \notin OldValue(h, b)
      BY <1>2, <1>3, <3>1 DEF TextsAre, OldValue
    <3>3. s \in DOMAIN g /\ s # b
      BY <1>4, <3>2
    <3>4. g[s] = h[s]
      BY <1>4, <3>3
    <3> QED BY <1>4, <2>2, <3>4 DEF KeyOf, Chars
  <2> QED BY <2>1, <2>2
<1>8. ValueOf(g, b) = h[p].chars
  <2>1. p \in DOMAIN h \ ItemsOf(h) /\ p # NULL /\ p # StaticKey
    BY SoundType
  <2>2. p \in DOMAIN g /\ p # b
    BY <1>3, <1>4, <2>1
  <2>3. g[p] = h[p]
    BY <1>4, <2>2
  <2> QED BY <1>4, <2>1, <2>3 DEF ValueOf, Chars
<1>9. KeyOf(g, b) = KeyOf(h, b) => Trees(g) = PutValue(Trees(h), b, ValueOf(g, b))
  BY <1>6, OneFieldTrees
<1> QED BY <1>7, <1>8, <1>9

(* A function that makes an item makes a new leaf, or nothing. *)
MakesLeaf(m, g) ==
  \/ g.ret = NULL /\ ~g.ok /\ Trees(g.heap) = Trees(m.heap)
  \/ g.ret # NULL /\ g.ok /\ NewLeaf(Trees(m.heap), Trees(g.heap), g.ret)

(* create_reference adds a leaf or, if it fails, nothing. *)
LEMMA CreateReferenceTrees ==
  ASSUME NEW m, NEW held, NEW loose, NEW refs, Ready(m, held, loose, refs),
         NEW item \in ItemsOf(m.heap), NEW g, g = create_reference(m, item)
  PROVE  MakesLeaf(m, g)
<1> DEFINE block == [m.heap[item] EXCEPT !.string = NULL, !.next = NULL, !.prev = NULL,
                                         !.IsReference = TRUE]
           i == g.ret
<1>1. g = Allocate(m, block)
  BY Zenon DEF create_reference
<1>2. IsMachine(m)
  BY DEF Ready, IsMachine
<1>3. Fresh(block)
  <2>1. m.heap[item] \in ItemRecord
    <3> DEFINE h == m.heap
    <3>1. PICK lists : MemoryIs(h, lists, held, loose)
      BY DEF Ready, Sound
    <3>2. item \in ItemsOf(h)
      OBVIOUS
    <3> HIDE DEF h
    <3>3. h[item] \in ItemRecord
      BY <3>1, <3>2, OldKeyIs
    <3> QED BY <3>3 DEF h
  <2> QED BY <2>1, FreshItems
<1> HIDE DEF block
<1>4. /\ g.ok = (i # NULL)
      /\ \/ i = NULL /\ g.heap = m.heap
         \/ /\ i \in Blocks \ DOMAIN m.heap /\ i # NULL
            /\ IsMap(g.heap) /\ DOMAIN g.heap = DOMAIN m.heap \cup {i} /\ g.heap[i] = block
            /\ \A x \in DOMAIN m.heap : g.heap[x] = m.heap[x]
  BY <1>1, <1>2, AllocateIs
<1>5. CASE i = NULL
  BY <1>4, <1>5 DEF MakesLeaf
<1>6. CASE i # NULL
  <2>1. NewBlock(m.heap, g.heap, i) /\ g.heap[i] = block
    BY <1>4, <1>6 DEF NewBlock
  <2>2. Fresh(g.heap[i])
    BY <1>3, <2>1
  <2>3. NewLeaf(Trees(m.heap), Trees(g.heap), i)
    BY <2>1, <2>2, NewTrees
  <2> QED BY <1>4, <1>6, <2>3 DEF MakesLeaf
<1> QED BY <1>5, <1>6

(* cJSON_SetValuestring *)
LEMMA SetValuestringTrees ==
  ASSUME NEW m, NEW held, NEW loose, NEW refs, Ready(m, held, loose, refs), m.ok,
         NEW b \in ItemsOf(m.heap), ~m.heap[b].IsReference,
         NEW chars \in Seq(Byte), NEW g, g = cJSON_SetValuestring(m, b, chars)
  PROVE  \/ ~g.ok /\ Trees(g.heap) = Trees(m.heap)
         \/ g.ok /\ Trees(g.heap) = PutValue(Trees(m.heap), b, chars)
<1> DEFINE h == m.heap
           old == h[b].valuestring
           copy == cJSON_strdup(m, chars)
           m1 == Deallocate(copy, old)
           t == copy.ret
           put == [m1 EXCEPT !.heap[b].valuestring = t]
           over == [m EXCEPT !.heap[old].chars = chars]
           Fields == {"heap", "room", "fuel", "ret", "ok", "bad", "oom", "off", "depth"}
<1>1. DOMAIN m = Fields
  BY DEF Ready
<1>2. g = IF old = NULL THEN Fail(m)
          ELSE IF Len(chars) <= Len(Chars(h, old)) THEN over
          ELSE IF t = NULL THEN copy
          ELSE put
  BY Zenon DEF cJSON_SetValuestring
<1>3. PICK lists : MemoryIs(h, lists, held, loose)
  BY DEF Ready, Sound
<1>4. /\ TextsOf(h, b) \subseteq DOMAIN h \ ItemsOf(h) /\ TextsOf(h, b) \cap loose = {}
      /\ \A x \in ItemsOf(h) : x # b => TextsOf(h, x) \cap TextsOf(h, b) = {}
      /\ \A x \in ItemsOf(h) : TextsOf(h, x) \subseteq DOMAIN h
  BY <1>3 DEF MemoryIs, TextsAre
<1>5. IsMap(h) /\ b \in DOMAIN h /\ h[b] \in ItemRecord
  <2> HIDE DEF h
  <2>1. b \in ItemsOf(h)
    BY DEF h
  <2> QED BY <1>3, <2>1, OldKeyIs DEF MemoryIs, IsMap
<1>6. Ready(g, held, loose, refs)
  BY SetValuestringIs
<1> HIDE DEF over, put, copy
<1>7. CASE old = NULL
  <2>1. g = [m EXCEPT !.ok = FALSE]
    BY <1>2, <1>7 DEF Fail
  <2>2. g.heap = m.heap /\ ~g.ok
    BY <1>1, <2>1
  <2> QED BY <2>2
<1>8. CASE old # NULL /\ g = over
  <2> DEFINE k == g.heap
  <2>1. old \in TextsOf(h, b) /\ old \in DOMAIN h \ ItemsOf(h) /\ old # StaticKey
    <3>1. old \in TextsOf(h, b)
      BY <1>8 DEF TextsOf
    <3>2. StaticKey \notin DOMAIN h
      BY SoundType DEF Ready
    <3> QED BY <1>4, <3>1, <3>2
  <2>2. /\ k = [h EXCEPT ![old].chars = chars] /\ g.ok
    BY <1>1, <1>8 DEF over
  <2>3. b \in ItemsOf(h) /\ ~h[b].IsReference /\ h[b].valuestring = old /\ old # NULL
    BY <1>8
  <2>4. Sound(h, held, loose, refs) /\ Sound(k, held, loose, refs)
    BY <1>6 DEF Ready
  <2> HIDE DEF k, h, old
  <2>5. h[old] \in [chars : Seq(Byte)]
    BY <1>3, <2>1, ItemsAre DEF MemoryIs, ItemsOf
  <2>6. [h[old] EXCEPT !.chars = chars] \in [chars : Seq(Byte)] /\ [h[old] EXCEPT !.chars = chars].chars = chars
    BY <2>5
  <2>7. k[old] \in [chars : Seq(Byte)] /\ k[old].chars = chars
    BY <2>1, <2>2, <2>6
  <2>8. IsMap(k) /\ DOMAIN k = DOMAIN h /\ \A x \in DOMAIN h : x # old => k[x] = h[x]
    BY <1>5, <2>2 DEF IsMap
  <2>9. ItemsOf(k) = ItemsOf(h)
    BY ONLY <1>3, <2>1, <2>7, <2>8, TextWritten
  <2>10. \A x \in ItemsOf(h) : k[x] = h[x]
    BY <2>1, <2>8 DEF ItemsOf
  <2>11. \A x \in ItemsOf(h) : x # b => \A y \in TextsOf(h, x) : k[y] = h[y]
    BY <1>4, <2>1, <2>8
  <2>12. OnlyItem(h, k, b)
    BY <2>3, <2>9, <2>10, <2>11 DEF OnlyItem, SameItem
  <2>13. ValueOf(k, b) = chars
    BY <2>1, <2>3, <2>7, <2>10 DEF ValueOf, Chars
  <2>14. KeyOf(k, b) = KeyOf(h, b)
    <3> DEFINE s == h[b].string
    <3>1. s # NULL /\ s # StaticKey => s # old /\ s \in DOMAIN h
      <4>1. TextsAre(h, loose)
        BY <1>3 DEF MemoryIs
      <4>2. h[b].StringIsConst \in BOOLEAN
        BY <1>5 DEF ItemRecord
      <4> QED BY <1>4, <2>3, <4>1, <4>2 DEF TextsAre, TextsOf
    <3>2. k[b] = h[b]
      BY <2>3, <2>10
    <3>3. s # NULL /\ s # StaticKey => k[s] = h[s]
      BY <2>8, <3>1
    <3> QED BY <3>2, <3>3 DEF KeyOf, Chars
  <2>15. Trees(k) = PutValue(Trees(h), b, ValueOf(k, b))
    BY <2>3, <2>4, <2>12, <2>14, OneFieldTrees
  <2> QED BY <2>2, <2>13, <2>15 DEF h, k
<1>9. CASE old # NULL /\ g # over
  <2>1. /\ copy.ok = (t # NULL)
        /\ Owners(copy.heap) = Owners(m.heap) /\ ItemsOf(copy.heap) = ItemsOf(m.heap)
        /\ \/ t = NULL /\ copy.heap = m.heap /\ Ready(copy, held, loose, refs)
           \/ /\ t # NULL /\ Grown(m.heap, copy.heap, t)
              /\ Ready(copy, held, loose \cup {t}, refs)
    <3>1. copy = cJSON_strdup(m, chars) /\ chars \in Seq(Byte) /\ Ready(m, held, loose, refs)
      BY DEF copy
    <3> QED BY ONLY <3>1, StrdupIs
  <2>2. Trees(copy.heap) = Trees(m.heap) /\ (t # NULL => copy.heap[t].chars = chars)
    <3>1. copy = cJSON_strdup(m, chars) /\ chars \in Seq(Byte) /\ Ready(m, held, loose, refs)
      BY DEF copy
    <3> QED BY ONLY <3>1, StrdupTrees
  <2>3. CASE t = NULL
    BY <1>2, <1>9, <2>1, <2>2, <2>3
  <2>4. CASE t # NULL
    <3> DEFINE k == copy.heap
               l == g.heap
    <3>1. /\ Ready(copy, held, loose \cup {t}, refs) /\ g = put
          /\ t \notin DOMAIN h /\ DOMAIN k = DOMAIN h \cup {t} /\ \A x \in DOMAIN h : k[x] = h[x]
      BY <1>2, <1>9, <2>1, <2>4 DEF Grown
    <3>2. old \in DOMAIN h \ ItemsOf(h) /\ old \in DOMAIN k /\ b # old
      <4>1. old \in DOMAIN h \ ItemsOf(h)
        BY <1>4, <1>9 DEF TextsOf
      <4> QED BY <3>1, <4>1
    <3>3. DOMAIN copy = Fields /\ IsMap(k)
      <4>1. copy.heap = [x \in DOMAIN copy.heap |-> copy.heap[x]]
        <5> HIDE DEF k, l
        <5> QED BY <3>1, SoundType DEF Ready
      <4> QED BY <3>1, <4>1 DEF Ready, IsMap
    <3> DEFINE less == [x \in DOMAIN k \ {old} |-> k[x]]
    <3>4. m1 = [copy EXCEPT !.heap = less]
      BY <3>2 DEF Deallocate
    <3> HIDE DEF less
    <3>5. m1.heap = less /\ DOMAIN m1 = Fields /\ m1.ok = copy.ok
      BY <3>3, <3>4
    <3> HIDE DEF m1
    <3>6. l = [less EXCEPT ![b].valuestring = t] /\ g.ok
      BY <2>1, <2>4, <3>1, <3>5 DEF put
    <3>7. k[b] = h[b] /\ b \in DOMAIN less /\ less[b] = h[b] /\ DOMAIN less = DOMAIN k \ {old}
          /\ \A x \in DOMAIN less : less[x] = k[x]
      BY <1>5, <3>1, <3>2 DEF less
    <3>8. ValueChanged(k, l, b, t) /\ l[b].type = k[b].type /\ IsItem(l, b)
      <4>1. t \in Int
        <5>1. t \in DOMAIN copy.heap
          BY <3>1
        <5> QED BY <3>1, <5>1, SoundType DEF Ready
      <4>2. OldValue(k, b) = {old}
        BY <1>9, <3>7 DEF OldValue
      <4> DEFINE n == [h[b] EXCEPT !.valuestring = t]
      <4>3. /\ n \in ItemRecord /\ n.valuestring = t /\ n.type = h[b].type
            /\ n.next = h[b].next /\ n.prev = h[b].prev /\ n.child = h[b].child
            /\ n.string = h[b].string /\ n.StringIsConst = h[b].StringIsConst
            /\ n.IsReference = h[b].IsReference
        BY <1>5, <4>1 DEF ItemRecord
      <4>4. l[b] = n /\ DOMAIN l = DOMAIN less /\ IsMap(l) /\ \A x \in DOMAIN less : x # b => l[x] = less[x]
        <5>1. IsMap(less)
          BY DEF less, IsMap
        <5>2. l = [less EXCEPT ![b] = n]
          BY <3>6, <3>7
        <5> HIDE DEF l, n
        <5> QED BY <3>7, <5>1, <5>2 DEF IsMap
      <4>5. IsItem(l, b)
        <5>1. b \in DOMAIN l /\ l[b] \in ItemRecord
          BY <3>7, <4>3, <4>4
        <5> QED BY <5>1, ItemsAre
      <4> HIDE DEF k, l, n, h
      <4> QED BY <3>7, <4>2, <4>3, <4>4, <4>5 DEF ValueChanged
    <3>9. ItemsOf(l) = ItemsOf(k)
      <4>1. ItemsOf(k) = ItemsOf(h) /\ old \notin ItemsOf(h) /\ b \in ItemsOf(h)
        BY <2>1, <3>2
      <4>2. DOMAIN l = DOMAIN k \ {old} /\ \A x \in DOMAIN l : x # b => l[x] = k[x]
        BY <1>9, <3>7, <3>8 DEF ValueChanged, OldValue
      <4> HIDE DEF k, l, h, old
      <4>3. \A x \in DOMAIN l : x # b => (IsItem(l, x) <=> IsItem(k, x))
        BY <4>2 DEF IsItem
      <4> QED BY <3>8, <4>1, <4>2, <4>3 DEF ItemsOf
    <3> DEFINE left == loose \cup {t}
    <3>10. /\ Sound(k, held, left, refs) /\ Sound(l, held, loose, refs) /\ t \in left
           /\ b \in ItemsOf(k) /\ ~k[b].IsReference
      BY <1>6, <2>1, <3>1, <3>7 DEF Ready
    <3>11. k[t].chars = chars /\ Trees(k) = Trees(m.heap)
      BY <2>2, <2>4
    <3> HIDE DEF left, k, l
    <3>12. Trees(l) = PutValue(Trees(k), b, k[t].chars)
      BY ONLY <3>8, <3>9, <3>10, ValueTrees
    <3> QED BY <3>6, <3>11, <3>12 DEF l
  <2> QED BY <2>3, <2>4
<1> QED BY <1>7, <1>8, <1>9

(* The cJSON_Create... functions. *)
LEMMA CreateTrees ==
  ASSUME NEW m, NEW held, NEW loose, NEW refs, Ready(m, held, loose, refs),
         NEW type \in Types, NEW chars \in Seq(Byte), NEW g, g = Create(m, type, chars)
  PROVE  MakesLeaf(m, g)
<1> DEFINE new == Allocate(m, Blank0)
           i == new.ret
           typed == [new EXCEPT !.heap[i].type = type]
           text == cJSON_strdup(typed, chars)
           deleted == cJSON_Delete(text, i)
           t == text.ret
           full == [text EXCEPT !.heap[i].valuestring = t]
           Fields == {"heap", "room", "fuel", "ret", "ok", "bad", "oom", "off", "depth"}
<1>1. DOMAIN m = Fields /\ IsMachine(m) /\ Makes(m, g, held, loose, refs)
  BY CreateIs DEF Ready, IsMachine
<1>2. g = IF i = NULL THEN new
          ELSE IF type \notin {"String", "Raw"} THEN typed
          ELSE IF t = NULL THEN Return(deleted, NULL)
          ELSE Return(full, i)
  BY Zenon DEF Create, cJSON_New_Item
<1>3. /\ DOMAIN new = DOMAIN m /\ new.room = m.room /\ new.bad = m.bad /\ new.ok = (i # NULL)
      /\ \/ i = NULL /\ new.heap = m.heap
         \/ /\ i \in Blocks \ DOMAIN m.heap /\ i # NULL
            /\ IsMap(new.heap) /\ DOMAIN new.heap = DOMAIN m.heap \cup {i} /\ new.heap[i] = Blank0
            /\ \A x \in DOMAIN m.heap : new.heap[x] = m.heap[x]
  <2> HIDE DEF Fields
  <2>1. new = Allocate(m, Blank0)
    OBVIOUS
  <2> HIDE DEF new
  <2> QED BY <1>1, <2>1, AllocateIs
<1> HIDE DEF new, deleted, full, text
<1>4. CASE i = NULL
  <2>1. new.heap = m.heap /\ g = new
    BY <1>2, <1>3, <1>4, BlocksAssumption
  <2> QED BY <1>3, <1>4, <2>1 DEF MakesLeaf
<1>5. CASE i # NULL
  <2> DEFINE n == [Blank0 EXCEPT !.type = type]
             k == typed.heap
  <2>1. /\ k = [new.heap EXCEPT ![i] = n] /\ DOMAIN typed = DOMAIN new /\ typed.room = new.room
        /\ typed.bad = new.bad /\ typed.ret = i /\ typed.ok
    <3>1. [new.heap EXCEPT ![i].type = type] = [new.heap EXCEPT ![i] = n]
      BY <1>3, <1>5 DEF IsMap
    <3> QED BY <1>1, <1>3, <1>5, <3>1
  <2>2. Fresh(n) /\ ~n.IsReference /\ n.valuestring = NULL /\ n \in ItemRecord
    BY FreshItems
  <2> HIDE DEF n
  <2>3. NewBlock(m.heap, k, i) /\ k[i] = n
    <3>1. IsMap(k) /\ DOMAIN k = DOMAIN new.heap /\ k[i] = n /\ \A x \in DOMAIN new.heap : x # i => k[x] = new.heap[x]
      <4> HIDE DEF k
      <4> QED BY <1>3, <1>5, <2>1 DEF IsMap
    <3> HIDE DEF k
    <3> QED BY <1>3, <1>5, <3>1 DEF NewBlock
  <2>4. DOMAIN typed = DOMAIN m /\ typed.room = m.room /\ typed.bad = m.bad
    BY <1>3, <2>1
  <2> HIDE DEF typed
  <2> DEFINE more == held \cup {i}
  <2>5. /\ Ready(typed, more, loose, refs) /\ i \notin held
        /\ NewLeaf(Trees(m.heap), Trees(typed.heap), i)
    <3>1. Fresh(typed.heap[i]) /\ NewBlock(m.heap, typed.heap, i) /\ Ready(m, held, loose, refs)
      BY <2>2, <2>3
    <3>2. NewLeaf(Trees(m.heap), Trees(typed.heap), i)
      BY ONLY <3>1, NewTrees
    <3>3. Ready(typed, held \cup {i}, loose, refs) /\ i \notin held
      BY ONLY <2>4, <3>1, NewItemIs
    <3> QED BY <3>2, <3>3
  <2>6. CASE type \notin {"String", "Raw"}
    <3>1. g = typed
      BY <1>2, <1>5, <2>6
    <3> QED BY <1>5, <2>1, <2>5, <3>1 DEF MakesLeaf
  <2>7. CASE type \in {"String", "Raw"}
    <3>1. text = cJSON_strdup(typed, chars) /\ chars \in Seq(Byte) /\ Ready(typed, more, loose, refs)
          /\ i \in more
      BY <2>5 DEF text
    <3> HIDE DEF more
    <3>2. /\ ItemsOf(text.heap) = ItemsOf(typed.heap)
          /\ \/ t = NULL /\ text.heap = typed.heap /\ Ready(text, more, loose, refs)
             \/ /\ t # NULL /\ Grown(typed.heap, text.heap, t)
                /\ Ready(text, more, loose \cup {t}, refs)
      BY ONLY <3>1, StrdupIs
    <3>3. Trees(text.heap) = Trees(typed.heap) /\ (t # NULL => text.heap[t].chars = chars)
      BY ONLY <3>1, StrdupTrees
    <3>4. NewLeaf(Trees(m.heap), Trees(text.heap), i)
      BY <2>5, <3>3
    <3>5. CASE t = NULL
      <4>1. g = Return(deleted, NULL) /\ Ready(text, more, loose, refs) /\ deleted = cJSON_Delete(text, i)
        BY <1>2, <1>5, <2>7, <3>2, <3>5 DEF deleted
      <4>2. Trees(deleted.heap) = Forest!Without(Trees(text.heap), Under(Trees(text.heap), i))
        BY ONLY <3>1, <4>1, DeleteTrees
      <4>3. Trees(deleted.heap) = Trees(m.heap)
        BY <3>4, <4>2, LeafGone
      <4>4. Ready(deleted, more \ {i}, loose, refs \ {i})
        BY ONLY <3>1, <4>1, DeleteHeld
      <4>5. g.heap = deleted.heap /\ g.ret = NULL /\ ~g.ok
        BY <4>1, <4>4 DEF Return, Ready
      <4> QED BY <4>3, <4>5 DEF MakesLeaf
    <3>6. CASE t # NULL
      <4>1. g = Return(full, i) /\ Ready(text, more, loose \cup {t}, refs)
        BY <1>2, <1>5, <2>7, <3>2, <3>6
      <4> DEFINE left == loose \cup {t}
                 h == text.heap
                 l == g.heap
      <4>2. IsMap(h) /\ i \in ItemsOf(h) /\ i \in DOMAIN h /\ t \in DOMAIN h /\ t \in Int
        <5>1. IsMap(h) /\ i \in ItemsOf(h) /\ i \in DOMAIN h /\ t \in DOMAIN h /\ \A x \in DOMAIN h : x \in Nat
          BY <3>1, <4>1, SoundType DEF Ready, IsMap
        <5> QED BY <5>1
      <4>3. /\ l = [h EXCEPT ![i].valuestring = t] /\ g.ret = i /\ g.ok
        <5>1. DOMAIN text = Fields
          BY <4>1 DEF Ready
        <5>2. full.heap = [h EXCEPT ![i].valuestring = t] /\ DOMAIN full = Fields
          BY <5>1 DEF full
        <5> QED BY <1>5, <4>1, <5>2 DEF Return
      <4>4. h[i] = n
        <5>1. i \in DOMAIN k
          BY <2>3 DEF NewBlock
        <5> QED BY <2>3, <3>2, <3>6, <5>1 DEF Grown
      <4>5. Ready(g, more, loose, refs)
        BY <1>1, <1>5, <4>3 DEF Makes, more
      <4>6. Sound(h, more, left, refs) /\ Sound(l, more, loose, refs) /\ t \in left
        BY <4>1, <4>5 DEF Ready
      <4> HIDE DEF h, l, left
      <4>7. IsMap(l) /\ DOMAIN l = DOMAIN h /\ l[i] = [n EXCEPT !.valuestring = t]
            /\ \A x \in DOMAIN h : x # i => l[x] = h[x]
        BY <4>2, <4>3, <4>4 DEF IsMap
      <4>8. OldValue(h, i) = {}
        BY <2>2, <4>4 DEF OldValue
      <4>9. l[i] \in ItemRecord /\ l[i].valuestring = t
            /\ l[i].next = n.next /\ l[i].prev = n.prev /\ l[i].child = n.child
            /\ l[i].string = n.string /\ l[i].StringIsConst = n.StringIsConst
            /\ l[i].IsReference = n.IsReference /\ l[i].type = n.type
        BY <2>2, <4>2, <4>7 DEF ItemRecord
      <4>10. ValueChanged(h, l, i, t) /\ l[i].type = h[i].type /\ ~h[i].IsReference
        BY <2>2, <4>4, <4>7, <4>8, <4>9 DEF ValueChanged
      <4>11. ItemsOf(l) = ItemsOf(h)
        <5>1. \A x \in DOMAIN h : IsItem(l, x) <=> IsItem(h, x)
          <6>1. IsItem(l, i) /\ IsItem(h, i)
            <7>1. l[i] \in ItemRecord /\ h[i] \in ItemRecord /\ i \in DOMAIN l
              BY <2>2, <4>2, <4>4, <4>7, <4>9
            <7> QED BY <4>2, <7>1, ItemsAre
          <6>2. ASSUME NEW x \in DOMAIN h, x # i PROVE IsItem(l, x) <=> IsItem(h, x)
            BY <4>7, <6>2 DEF IsItem
          <6> QED BY <6>1, <6>2
        <5> QED BY <4>7, <5>1 DEF ItemsOf
      <4>12. Trees(l) = PutValue(Trees(h), i, h[t].chars)
        BY ONLY <4>2, <4>6, <4>10, <4>11, ValueTrees
      <4>13. \E a, ky, v, s : Trees(h)[i] = Node(a, ky, v, s)
        <5>1. PICK lists : MemoryIs(h, lists, more, left)
          BY <4>6 DEF Sound
        <5>2. Trees(h)[i] = Node(h[i].type, KeyOf(h, i), ValueOf(h, i), ListOf(lists, i))
          BY <4>2, <5>1, TreesAre
        <5> QED BY <5>2
      <4>14. NewLeaf(Trees(m.heap), Trees(h), i)
        BY <3>4 DEF h
      <4>15. NewLeaf(Trees(m.heap), PutValue(Trees(h), i, h[t].chars), i)
        BY <4>13, <4>14, LeafValue
      <4> QED BY <1>5, <4>3, <4>12, <4>15 DEF MakesLeaf, l
    <3> QED BY <3>5, <3>6
  <2> QED BY <2>6, <2>7
<1> QED BY <1>4, <1>5

-----------------------------------------------------------------------------
(* Adding to an object and replacing in it. *)

(* What adding to an object does to the forest: all, or nothing. *)
AddsToObject(m, g, c, item, key) ==
  \/ ~g.ok /\ g.ret \in {m.ret, NULL} /\ Trees(g.heap) = Trees(m.heap)
  \/ g.ok /\ item # NULL /\ g.ret = NULL
     /\ Trees(g.heap) = AppendKid(PutKey(Trees(m.heap), item, key), c, item)

(* add_item_to_object gives the item its key and appends it, or fails and    *)
(* changes nothing.                                                        *)
LEMMA AddToObjectTrees ==
  ASSUME NEW m, NEW held, NEW loose, NEW refs, Ready(m, held, loose, refs),
         NEW c \in Owners(m.heap), NEW item, item = NULL \/ item \in held,
         NEW key \in Seq(Byte), NEW const, IsFlag(const), const => key = StaticText,
         NEW g, g = add_item_to_object(m, c, key, item, const)
  PROVE  AddsToObject(m, g, c, item, key)
<1> DEFINE m1 == IF const THEN Return(m, StaticKey) ELSE cJSON_strdup(m, key)
           m2 == WithoutKey(m1, item)
           m3 == [m2 EXCEPT !.heap[item].string = m1.ret, !.heap[item].StringIsConst = const]
           m4 == add_item_to_array(m3, c, item)
           p == m1.ret
           left == IF const THEN loose ELSE loose \cup {p}
<1>0. const \in BOOLEAN
  BY DEF IsFlag
<1>1. /\ DOMAIN m = {"heap", "room", "fuel", "ret", "ok", "bad", "oom", "off", "depth"}
      /\ m.room = Blocks
  BY DEF Ready
<1>2. g = IF item = NULL \/ c = item THEN Fail(m)
          ELSE IF m1.ret = NULL THEN Fail(m1)
          ELSE [m4 EXCEPT !.ret = NULL]
  BY Zenon DEF add_item_to_object, WithoutKey
<1>3. /\ StaticKey \notin DOMAIN m.heap /\ loose \subseteq DOMAIN m.heap /\ StaticKey # NULL
      /\ held \subseteq ItemsOf(m.heap)
  BY SoundType DEF Ready, StaticKey, NULL
<1>4. CASE item = NULL \/ c = item
  <2>1. g = [m EXCEPT !.ok = FALSE]
    BY <1>2, <1>4 DEF Fail
  <2>2. g.ret = m.ret /\ g.heap = m.heap /\ ~g.ok
    BY <1>1, <2>1
  <2> QED BY <2>2 DEF AddsToObject
<1>5. /\ p # NULL => /\ Ready(m1, held, left, refs)
                     /\ (const /\ p = StaticKey) \/ (~const /\ p \in left)
                     /\ left \ {p} = loose /\ Chars(m1.heap, p) = key
      /\ p = NULL => Ready(m1, held, loose, refs)
      /\ ItemsOf(m1.heap) = ItemsOf(m.heap) /\ Owners(m1.heap) = Owners(m.heap)
      /\ Trees(m1.heap) = Trees(m.heap)
  <2>1. CASE const
    <3>1. m1 = [m EXCEPT !.ret = StaticKey, !.ok = StaticKey # NULL]
      BY <2>1 DEF Return
    <3> HIDE DEF m1
    <3>2. DOMAIN m1 = DOMAIN m /\ m1.heap = m.heap /\ m1.room = m.room /\ m1.bad = m.bad /\ m1.ret = StaticKey
      BY <1>1, <3>1
    <3>3. Ready(m1, held, loose, refs)
      BY <3>2, ReadyAgain
    <3>4. loose \ {StaticKey} = loose
      BY <1>3
    <3>5. Chars(m1.heap, p) = key
      BY <2>1, <3>2 DEF Chars
    <3> QED BY <1>3, <2>1, <3>2, <3>3, <3>4, <3>5
  <2>2. CASE ~const
    <3>1. m1 = cJSON_strdup(m, key)
      BY <2>2
    <3> HIDE DEF m1
    <3>2. /\ ItemsOf(m1.heap) = ItemsOf(m.heap) /\ Owners(m1.heap) = Owners(m.heap)
          /\ \/ m1.ret = NULL /\ m1.heap = m.heap /\ Ready(m1, held, loose, refs)
             \/ /\ m1.ret # NULL /\ Grown(m.heap, m1.heap, m1.ret)
                /\ Ready(m1, held, loose \cup {m1.ret}, refs)
      BY ONLY <3>1, StrdupIs, Ready(m, held, loose, refs), key \in Seq(Byte)
    <3>3. m1.ret # NULL => (loose \cup {m1.ret}) \ {m1.ret} = loose
      BY <1>3, <3>2 DEF Grown
    <3>4. Trees(m1.heap) = Trees(m.heap) /\ (m1.ret # NULL => m1.heap[m1.ret].chars = key)
      BY ONLY <3>1, StrdupTrees, Ready(m, held, loose, refs), key \in Seq(Byte)
    <3>5. ASSUME m1.ret # NULL PROVE Chars(m1.heap, m1.ret) = key
      <4>1. Ready(m1, held, loose \cup {m1.ret}, refs)
        BY <3>2, <3>5
      <4>2. m1.ret # StaticKey
        BY <4>1, SoundType DEF Ready
      <4> QED BY <3>4, <3>5, <4>2 DEF Chars
    <3> QED BY <2>2, <3>2, <3>3, <3>4, <3>5
  <2> QED BY <1>0, <2>1, <2>2
<1> HIDE DEF m1, left
<1>6. CASE ~(item = NULL \/ c = item) /\ p = NULL
  <2>1. g = [m1 EXCEPT !.ok = FALSE] /\ Ready(m1, held, loose, refs)
    BY <1>2, <1>5, <1>6 DEF Fail
  <2>2. DOMAIN m1 = DOMAIN m
    BY <1>1, <2>1 DEF Ready
  <2>3. g.heap = m1.heap /\ g.ret = NULL /\ ~g.ok
    BY <1>1, <1>6, <2>1, <2>2
  <2> QED BY <1>5, <2>3 DEF AddsToObject
<1>7. CASE ~(item = NULL \/ c = item) /\ p # NULL
  <2>1. /\ Ready(m1, held, left, refs) /\ left \ {p} = loose /\ item \in held /\ item # NULL /\ c # item
        /\ item \in ItemsOf(m1.heap) /\ c \in Owners(m1.heap)
        /\ (const /\ p = StaticKey) \/ (~const /\ p \in left)
        /\ Chars(m1.heap, p) = key
    BY <1>3, <1>5, <1>7
  <2> HIDE DEF p, m2, m3
  <2>2. Ready(m3, held, left \ {p}, refs) /\ Owners(m3.heap) = Owners(m1.heap)
        /\ Trees(m3.heap) = PutKey(Trees(m1.heap), item, Chars(m1.heap, p))
    <3>1. m2 = WithoutKey(m1, item)
      BY DEF m2
    <3>2. m3 = WithKey(m2, item, p, const)
      BY DEF m3, p, WithKey
    <3>3. KeyFits(const, p, left)
      BY <1>0, <2>1 DEF KeyFits
    <3>4. Ready(m3, held, left \ {p}, refs) /\ Owners(m3.heap) = Owners(m1.heap)
      BY ONLY <2>1, <3>1, <3>2, <3>3, KeySet
    <3>5. Trees(m3.heap) = PutKey(Trees(m1.heap), item, Chars(m1.heap, p))
      BY ONLY <2>1, <3>1, <3>2, <3>3, KeySetTrees
    <3> QED BY <3>4, <3>5
  <2>3. c \in Owners(m3.heap) /\ Ready(m3, held, loose, refs)
        /\ Trees(m3.heap) = PutKey(Trees(m.heap), item, key)
    BY <1>5, <2>1, <2>2
  <2> HIDE DEF m4
  <2>4. m4.ok /\ Ready(m4, held \ {item}, loose, refs \ {item})
        /\ Trees(m4.heap) = AppendKid(Trees(m3.heap), c, item)
    <3>1. m4 = add_item_to_array(m3, c, item)
      BY DEF m4
    <3>2. \/ ~m4.ok /\ (item = NULL \/ c = item) /\ Ready(m4, held, loose, refs)
          \/ m4.ok /\ item \in held /\ Ready(m4, held \ {item}, loose, refs \ {item})
      BY ONLY <2>1, <2>3, <3>1, AddToArrayIs
    <3>3. Trees(m4.heap) = AppendKid(Trees(m3.heap), c, item)
      BY ONLY <2>1, <2>3, <3>1, AddToArrayTrees
    <3> QED BY <2>1, <3>2, <3>3
  <2>5. g = [m4 EXCEPT !.ret = NULL]
    BY <1>2, <1>7 DEF p
  <2>6. DOMAIN m4 = {"heap", "room", "fuel", "ret", "ok", "bad", "oom", "off", "depth"}
    BY <2>4 DEF Ready
  <2>7. g.heap = m4.heap /\ g.ret = NULL /\ g.ok = m4.ok
    BY <2>5, <2>6
  <2> QED BY <2>1, <2>3, <2>4, <2>7 DEF AddsToObject
<1> QED BY <1>4, <1>6, <1>7

(* Whether u has the nodes and the children of t. *)
SameKids(t, u) == DOMAIN u = DOMAIN t /\ \A p \in DOMAIN t : Forest!Kids(u, p) = Forest!Kids(t, p)

(* What is under a node, and whether there are loops, is a matter of the   *)
(* children only.                                                          *)
LEMMA SameKidsSame ==
  ASSUME NEW t, NEW u, SameKids(t, u)
  PROVE  /\ \A x : Under(u, x) = Under(t, x)
         /\ NoLoops(t) => NoLoops(u)
         /\ Whole(t) => Whole(u)
<1>1. \A S \in SUBSET DOMAIN t : KidsIn(u, S) <=> KidsIn(t, S)
  BY DEF SameKids, KidsIn
<1>2. \A x : Under(u, x) = Under(t, x)
  BY <1>1 DEF SameKids, Under
<1>3. NoLoops(t) => NoLoops(u)
  BY DEF SameKids, NoLoops
<1> QED BY <1>2, <1>3 DEF SameKids, Whole

(* A node with another key has the same children. *)
LEMMA PutKeyKids ==
  ASSUME NEW h, NEW lists, NEW held, NEW loose, MemoryIs(h, lists, held, loose),
         NEW r \in ItemsOf(h), NEW key, NEW u, u = PutKey(Trees(h), r, key)
  PROVE  /\ SameKids(Trees(h), u)
         /\ \A p \in ItemsOf(h) : u[p].kids = Trees(h)[p].kids
<1> DEFINE t == Trees(h)
           n == t[r]
<1>1. /\ DOMAIN t = ItemsOf(h) /\ IsMap(t)
      /\ n = Node(h[r].type, KeyOf(h, r), ValueOf(h, r), ListOf(lists, r))
  BY TreesAre
<1>2. [n EXCEPT !.key = key].kids = n.kids
  <2> HIDE DEF n
  <2>1. [n EXCEPT !.key = key] = Node(h[r].type, key, ValueOf(h, r), ListOf(lists, r))
    BY <1>1, NodeKids
  <2> QED BY <1>1, <2>1 DEF Node
<1> HIDE DEF t
<1>3. u = [t EXCEPT ![r] = [n EXCEPT !.key = key]]
  BY DEF PutKey, t
<1>4. DOMAIN u = DOMAIN t /\ \A p \in DOMAIN t : u[p].kids = t[p].kids
  BY <1>1, <1>2, <1>3
<1>5. SameKids(t, u)
  BY <1>4 DEF SameKids, Forest!Kids
<1> QED BY <1>1, <1>4, <1>5 DEF t

(* A search by name looks at the keys of the children only. *)
LEMMA FoundSame ==
  ASSUME NEW m, NEW g, NEW c, NEW s, Children(m.heap, c) = s, Children(g.heap, c) = s,
         \A k \in DOMAIN s : KeyOf(g.heap, s[k]) = KeyOf(m.heap, s[k])
                             /\ g.heap[s[k]].string = m.heap[s[k]].string,
         NEW name, NEW case_sensitive
  PROVE  get_object_item(g, c, name, case_sensitive) = get_object_item(m, c, name, case_sensitive)
<1> DEFINE matches(h) == {k \in DOMAIN s : h[s[k]].string # NULL /\
                            SameName(name, Chars(h, h[s[k]].string), case_sensitive)}
           nameless(h) == {k \in DOMAIN s : h[s[k]].string = NULL}
           first(h) == IF matches(h) = {} \/ (case_sensitive /\ \E k \in nameless(h) : k < Min(matches(h)))
                       THEN NULL ELSE s[Min(matches(h))]
<1>1. /\ get_object_item(m, c, name, case_sensitive) = first(m.heap)
      /\ get_object_item(g, c, name, case_sensitive) = first(g.heap)
  BY Zenon DEF get_object_item
<1>2. matches(g.heap) = matches(m.heap)
  <2>1. ASSUME NEW k \in DOMAIN s, g.heap[s[k]].string # NULL
        PROVE  Chars(g.heap, g.heap[s[k]].string) = Chars(m.heap, m.heap[s[k]].string)
    BY <2>1 DEF KeyOf
  <2> QED BY <2>1
<1>3. nameless(g.heap) = nameless(m.heap)
  OBVIOUS
<1> HIDE DEF matches, nameless
<1> QED BY <1>1, <1>2, <1>3

(* What a replacement in an object does to the forest: all, or nothing but *)
(* that it may have changed the key of the replacement.                    *)
ReplacesInObject(m, g, c, r, key, old) ==
  \/ /\ ~g.ok /\ g.ret = NULL
     /\ \E k \in {key, NoKey} : Trees(g.heap) = PutKey(Trees(m.heap), r, k)
  \/ /\ g.ok /\ g.ret = NULL
     /\ \E k : /\ IsKid(Trees(m.heap), c, k, old)
               /\ Trees(g.heap) = Forest!Without(ReplaceKid(PutKey(Trees(m.heap), r, key), c, k, r),
                                                 Under(Trees(m.heap), old))

(* replace_item_in_object puts the new item, with the key, where the old one   *)
(* was, and frees all that was below the old one; or fails and changes nothing. *)
LEMMA ReplaceInObjectTrees ==
  ASSUME NEW m, NEW held, NEW loose, NEW refs, Ready(m, held, loose, refs), NoLoops(Trees(m.heap)),
         NEW c \in Owners(m.heap), NEW key \in Seq(Byte), NEW r \in held, NEW case_sensitive,
         NEW m0, m0.heap = m.heap, NEW old, old = get_object_item(m0, c, key, case_sensitive),
         NEW g, g = replace_item_in_object(m, c, key, r, case_sensitive)
  PROVE  ReplacesInObject(m, g, c, r, key, old)
<1> DEFINE block == [chars |-> key]
           m1 == WithoutKey(m, r)
           m2 == Allocate(m1, block)
           m3 == [m2 EXCEPT !.heap[r].string = m2.ret]
           m4 == [m3 EXCEPT !.heap[r].StringIsConst = FALSE, !.ret = NULL]
           found == get_object_item(m4, c, key, case_sensitive)
           last == ReplaceItem(m4, c, found, r)
           h == m.heap
           t == m2.ret
<1>1. /\ DOMAIN m = {"heap", "room", "fuel", "ret", "ok", "bad", "oom", "off", "depth"}
      /\ IsMachine(m)
  BY DEF Ready, IsMachine
<1>2. g = IF t = NULL THEN Fail(m3) ELSE last
  BY Zenon DEF replace_item_in_object, WithoutKey, cJSON_strdup
<1>3. PICK lists : MemoryIs(h, lists, held, loose)
  BY DEF Ready, Sound
<1>4. r \in ItemsOf(h) /\ r \in DOMAIN h /\ Sound(h, held, loose, refs)
  BY <1>3 DEF MemoryIs, ListsAre, ItemsOf, Ready
<1> HIDE DEF last, found
<1>5. /\ DOMAIN m1 = DOMAIN m /\ m1.room = m.room /\ m1.bad = m.bad
      /\ KeyGone(h, m1.heap, r)
  <2>1. r \in ItemsOf(m.heap) /\ m1 = WithoutKey(m, r) /\ MemoryIs(m.heap, lists, held, loose)
    BY <1>3, <1>4
  <2> HIDE DEF m1, h
  <2>2. DOMAIN m1 = DOMAIN m /\ m1.room = m.room /\ m1.bad = m.bad /\ KeyGone(m.heap, m1.heap, r)
    BY ONLY <1>1, <2>1, FreeKeyIs
  <2> QED BY <2>2 DEF h
<1>6. block \in [chars : Seq(Byte)] /\ block.chars = key
  OBVIOUS
<1> HIDE DEF m1, block
<1>7. /\ DOMAIN m2 = DOMAIN m1 /\ m2.room = m1.room /\ m2.bad = m1.bad
      /\ \/ t = NULL /\ m2.heap = m1.heap
         \/ /\ t \in Blocks \ DOMAIN m1.heap /\ t # NULL
            /\ IsMap(m2.heap) /\ DOMAIN m2.heap = DOMAIN m1.heap \cup {t} /\ m2.heap[t] = block
            /\ \A x \in DOMAIN m1.heap : m2.heap[x] = m1.heap[x]
  <2>1. IsMachine(m1) /\ m2 = Allocate(m1, block)
    BY <1>1, <1>5 DEF IsMachine
  <2> HIDE DEF m2
  <2> QED BY <2>1, AllocateIs
<1> HIDE DEF m2, t
<1>8. /\ DOMAIN m1.heap = DOMAIN h \ OldKey(h, r) /\ IsMap(m1.heap)
      /\ \A x \in DOMAIN m1.heap : m1.heap[x] = h[x]
  BY <1>5 DEF KeyGone
<1>9. /\ OldKey(h, r) \subseteq DOMAIN h \ (ItemsOf(h) \cup loose) /\ h[r] \in ItemRecord
  BY <1>3, <1>4, OldKeyIs
<1>10. r \in DOMAIN m1.heap /\ m1.heap[r] = h[r] /\ r \in DOMAIN m2.heap /\ m2.heap[r] = h[r]
  BY <1>4, <1>7, <1>8, <1>9
<1>11. CASE t = NULL
  <2> DEFINE k == m3.heap
  <2>1. m2.heap = m1.heap /\ m2.ret = NULL
    BY <1>7, <1>11, <1>8 DEF t
  <2>2. DOMAIN m2 = {"heap", "room", "fuel", "ret", "ok", "bad", "oom", "off", "depth"}
    BY <1>1, <1>5, <1>7
  <2>3. g = [m3 EXCEPT !.ok = FALSE]
    BY <1>2, <1>11 DEF Fail
  <2>4. /\ k = [m1.heap EXCEPT ![r].string = NULL]
        /\ DOMAIN m3 = DOMAIN m2 /\ m3.room = m2.room /\ m3.bad = m2.bad /\ m3.ret = NULL
    BY <2>1, <2>2
  <2> HIDE DEF m3
  <2>5. DOMAIN g = DOMAIN m /\ g.heap = k /\ g.room = m.room /\ g.bad = m.bad /\ ~g.ok /\ g.ret = NULL
    BY <1>1, <1>5, <1>7, <2>2, <2>3, <2>4
  <2>6. IsMap(k) /\ DOMAIN k = DOMAIN h \ OldKey(h, r) /\ k[r] = [h[r] EXCEPT !.string = NULL]
        /\ \A x \in DOMAIN k : x # r => k[x] = h[x]
    <3> HIDE DEF k, h
    <3> QED BY <1>8, <1>10, <2>4 DEF IsMap
  <2>7. Rekeyed(k[r], h[r], NULL) /\ ButKey(k[r], h[r]) /\ k[r].string = NULL
    <3>1. Rekeyed(k[r], h[r], NULL)
      BY <1>9, <2>6 DEF Rekeyed, ItemRecord, NULL
    <3>2. ButKey(k[r], h[r]) /\ k[r].string = NULL
      BY <1>9, <2>6 DEF ButKey, ItemRecord
    <3> QED BY <3>1, <3>2
  <2> HIDE DEF k, h
  <2>8. MemoryIs(k, lists, held, loose) /\ ItemsOf(k) = ItemsOf(h)
    <3>1. Rekeyed(k[r], h[r], NULL) /\ MemoryIs(h, lists, held, loose) /\ r \in ItemsOf(h)
      BY <1>3, <1>4, <2>7
    <3>2. KeyChanged(h, k, r)
      BY <2>6 DEF KeyChanged
    <3> QED BY ONLY <3>1, <3>2, KeyDropped
  <2> DEFINE none == {}
  <2>9. Sound(k, held, loose, none) /\ \A x \in DOMAIN h \ OldKey(h, r) : x # r => k[x] = h[x]
    BY <2>6, <2>8 DEF Sound
  <2> HIDE DEF none
  <2>10. Trees(k) = PutKey(Trees(h), r, KeyOf(k, r))
    BY ONLY <1>4, <2>7, <2>8, <2>9, KeyTrees
  <2>11. KeyOf(k, r) = NoKey
    BY <2>7 DEF KeyOf
  <2> QED BY <2>5, <2>10, <2>11 DEF ReplacesInObject, h
<1>12. CASE t # NULL
  <2> DEFINE k == m4.heap
             n == [h[r] EXCEPT !.string = t, !.StringIsConst = FALSE]
  <2>1. /\ t \in Blocks \ DOMAIN m1.heap /\ IsMap(m2.heap) /\ DOMAIN m2.heap = DOMAIN m1.heap \cup {t}
        /\ m2.heap[t] = block /\ \A x \in DOMAIN m1.heap : m2.heap[x] = m1.heap[x]
    BY <1>7, <1>12
  <2>2. DOMAIN m2 = {"heap", "room", "fuel", "ret", "ok", "bad", "oom", "off", "depth"}
    BY <1>1, <1>5, <1>7
  <2>3. /\ m3.heap = [m2.heap EXCEPT ![r].string = t]
        /\ DOMAIN m3 = DOMAIN m2 /\ m3.room = m2.room /\ m3.bad = m2.bad
    BY <2>2 DEF t
  <2> HIDE DEF m3
  <2>4. /\ k = [m3.heap EXCEPT ![r].StringIsConst = FALSE] /\ m4.ret = NULL
        /\ DOMAIN m4 = DOMAIN m3 /\ m4.room = m3.room /\ m4.bad = m3.bad
    BY <2>2, <2>3
  <2>5. g = last
    BY <1>2, <1>12
  <2> HIDE DEF m4, k, h
  <2>6. k = [m2.heap EXCEPT ![r] = n]
    BY <1>10, <2>1, <2>3, <2>4 DEF IsMap
  <2>7. Rekeyed(n, h[r], t) /\ ~n.StringIsConst /\ ButKey(n, h[r]) /\ n.string = t
    <3>1. t \in Int
      BY <2>1, BlocksAssumption
    <3>2. ButKey(n, h[r]) /\ n.string = t
      BY <1>9 DEF ButKey, ItemRecord
    <3> QED BY <1>9, <3>1, <3>2 DEF Rekeyed, ItemRecord
  <2> HIDE DEF n
  <2>8. /\ t \in Blocks \ (DOMAIN h \ OldKey(h, r))
        /\ DOMAIN k = (DOMAIN h \ OldKey(h, r)) \cup {t}
        /\ \A x \in DOMAIN k \ {t} : x # r => k[x] = h[x]
    BY <1>8, <2>1, <2>6
  <2>9. IsMap(k) /\ k[t] \in [chars : Seq(Byte)] /\ Rekeyed(k[r], h[r], t) /\ ~k[r].StringIsConst
        /\ ButKey(k[r], h[r]) /\ k[r].string = t /\ k[t].chars = key
    <3>1. k[r] = n /\ t # r /\ k[t] = block
      BY <1>10, <2>1, <2>6
    <3>2. IsMap(k)
      BY <2>6 DEF IsMap
    <3> QED BY <1>6, <2>7, <3>1, <3>2
  <2>10. MemoryIs(k, lists, held, loose) /\ ItemsOf(k) = ItemsOf(h)
    BY ONLY <1>3, <1>4, <2>8, <2>9, KeyMoved
  <2>11. DOMAIN m4 = DOMAIN m /\ m4.room = m.room /\ m4.bad = m.bad
    BY <1>5, <1>7, <2>3, <2>4
  <2>12. Ready(m4, held, loose, refs) /\ Owners(m4.heap) = Owners(m.heap)
    <3>1. refs \subseteq refs \cap held
      BY DEF Ready, Sound
    <3>2. MemoryIs(m.heap, lists, held, loose) /\ MemoryIs(m4.heap, lists, held, loose)
          /\ ItemsOf(m4.heap) = ItemsOf(m.heap)
      BY <1>3, <2>10 DEF h, k
    <3>3. Ready(m, held, loose, refs) /\ DOMAIN lists = DOMAIN lists
      OBVIOUS
    <3> QED BY ONLY <2>11, <3>1, <3>2, <3>3, ReadyStep
  <2>13. c \in Owners(m4.heap) /\ c \in DOMAIN lists /\ c \in ItemsOf(h)
    BY <1>3, <2>12 DEF MemoryIs, Owners, h
  <2>14. NullOrChild(m4.heap, c, found)
    BY <2>12, <2>13, LookUpsAre DEF found
  <2>15. g = ReplaceItem(m4, c, found, r) /\ Ready(m4, held, loose, refs) /\ r \in held
    BY <2>5, <2>12 DEF last
  <2>16. Trees(k) = PutKey(Trees(h), r, key)
    <3>1. Sound(k, held, loose, refs) /\ \A x \in DOMAIN h \ OldKey(h, r) : x # r => k[x] = h[x]
      BY <2>8, <2>12 DEF Ready, k
    <3>2. Trees(k) = PutKey(Trees(h), r, KeyOf(k, r))
      BY ONLY <1>4, <2>9, <2>10, <3>1, KeyTrees
    <3>3. KeyOf(k, r) = key
      <4>1. t # StaticKey
        BY <2>1, BlocksAssumption DEF StaticKey
      <4> QED BY <1>12, <2>9, <4>1 DEF KeyOf, Chars
    <3> QED BY <3>2, <3>3
  <2>17. found = old
    <3>1. Children(h, c) = lists[c] /\ Children(k, c) = lists[c]
      BY <1>3, <2>10, <2>13, ChildrenAre
    <3>2. ASSUME NEW j \in DOMAIN lists[c]
          PROVE  KeyOf(k, lists[c][j]) = KeyOf(h, lists[c][j]) /\ k[lists[c][j]].string = h[lists[c][j]].string
      <4> DEFINE x == lists[c][j]
      <4>1. x \in ItemsOf(h) \ held
        BY <1>3, <2>13, Placed
      <4>2. x \in DOMAIN h \ OldKey(h, r) /\ x # r
        BY <1>9, <4>1 DEF ItemsOf
      <4>3. k[x] = h[x]
        BY <2>8, <4>2
      <4> HIDE DEF x
      <4>4. CASE h[x].string = NULL \/ h[x].string = StaticKey
        BY <4>3, <4>4 DEF KeyOf, Chars, x
      <4>5. CASE h[x].string # NULL /\ h[x].string # StaticKey
        <5> DEFINE y == h[x].string
        <5>1. TextsAre(h, loose)
          BY <1>3 DEF MemoryIs
        <5>2. h[x].StringIsConst \in BOOLEAN
          BY <1>3, <4>1, ItemFields DEF MemoryIs
        <5>3. y \in TextsOf(h, x) /\ OldKey(h, r) \subseteq TextsOf(h, r)
          BY <4>1, <4>5, <5>1, <5>2 DEF TextsAre, TextsOf, OldKey
        <5>4. y \in DOMAIN h \ ItemsOf(h) /\ y \notin TextsOf(h, r)
          BY <1>4, <4>1, <4>2, <5>1, <5>3 DEF TextsAre
        <5>5. y \in DOMAIN h \ OldKey(h, r) /\ y # r
          BY <1>4, <5>3, <5>4
        <5>6. k[y] = h[y]
          BY <2>8, <5>5
        <5> QED BY <4>3, <4>5, <5>6 DEF KeyOf, Chars, x
      <4> QED BY <4>4, <4>5
    <3>3. /\ Children(m0.heap, c) = lists[c] /\ Children(m4.heap, c) = lists[c]
          /\ \A j \in DOMAIN lists[c] : KeyOf(m4.heap, lists[c][j]) = KeyOf(m0.heap, lists[c][j])
               /\ m4.heap[lists[c][j]].string = m0.heap[lists[c][j]].string
      BY <3>1, <3>2 DEF h, k
    <3> DEFINE s == lists[c]
    <3>4. Children(m0.heap, c) = s /\ Children(m4.heap, c) = s
          /\ \A j \in DOMAIN s : KeyOf(m4.heap, s[j]) = KeyOf(m0.heap, s[j])
               /\ m4.heap[s[j]].string = m0.heap[s[j]].string
      BY <3>3
    <3> HIDE DEF s
    <3> QED BY <3>4, FoundSame DEF found
  <2>18. SameKids(Trees(h), Trees(k)) /\ \A p \in ItemsOf(h) : Trees(k)[p].kids = Trees(h)[p].kids
    BY <1>3, <1>4, <2>16, PutKeyKids
  <2>19. CASE found = NULL
    <3>1. g = [m4 EXCEPT !.ok = FALSE]
      BY <2>15, <2>19 DEF ReplaceItem, Fail
    <3>2. ~g.ok /\ g.heap = k /\ g.ret = NULL
      BY <2>4, <2>12, <3>1 DEF Ready, k
    <3> QED BY <2>16, <3>2 DEF ReplacesInObject, h
  <2>20. CASE found # NULL
    <3>1. PICK j \in DOMAIN Children(m4.heap, c) : found = Children(m4.heap, c)[j]
      BY <2>14, <2>20 DEF NullOrChild
    <3>2. /\ Trees(k)[c].kids = lists[c] /\ c \in DOMAIN Trees(k) /\ Children(k, c) = lists[c]
          /\ DOMAIN Trees(h) = ItemsOf(h)
      BY <1>3, <2>10, <2>13, KidsOfOwner, TreesAre
    <3>3. IsKid(Trees(k), c, j, found) /\ IsKid(Trees(h), c, j, found)
      BY <2>13, <2>18, <3>1, <3>2 DEF IsKid, k
    <3>4. NoLoops(Trees(k)) /\ Under(Trees(k), found) = Under(Trees(h), found)
      BY <2>18, SameKidsSame DEF h
    <3>5. IsKid(Trees(m4.heap), c, j, found) /\ NoLoops(Trees(m4.heap))
      BY <3>3, <3>4 DEF k
    <3>6. /\ g.ok /\ g.ret = m4.ret
          /\ Trees(g.heap) = Forest!Without(ReplaceKid(Trees(m4.heap), c, j, r), Under(Trees(m4.heap), found))
      <4> HIDE DEF k, h
      <4>1. /\ Ready(m4, held, loose, refs) /\ NoLoops(Trees(m4.heap)) /\ c \in Owners(m4.heap)
            /\ IsKid(Trees(m4.heap), c, j, found) /\ r \in held /\ g = ReplaceItem(m4, c, found, r)
        BY <2>13, <2>15, <3>5
      <4>2. ReplacedIn(m4, g, c, j, r, found)
        BY ONLY <4>1, ReplaceTrees
      <4> QED BY <4>2 DEF ReplacedIn
    <3>7. Trees(g.heap) = Forest!Without(ReplaceKid(PutKey(Trees(h), r, key), c, j, r), Under(Trees(h), found))
      BY <2>16, <3>4, <3>6 DEF k
    <3> QED BY <2>4, <2>17, <3>3, <3>6, <3>7 DEF ReplacesInObject, h
  <2> QED BY <2>19, <2>20
<1> QED BY <1>11, <1>12

-----------------------------------------------------------------------------
(* Where an item is, and which items are free. *)

(* The containers and their children, as the forest has them.              *)
LEMMA OwnerKids ==
  ASSUME NEW h, NEW held, NEW loose, NEW refs, Sound(h, held, loose, refs), NEW c \in Owners(h)
  PROVE  /\ c \in DOMAIN Trees(h) /\ Children(h, c) = Trees(h)[c].kids
         /\ Trees(h)[c].kids \in Seq(DOMAIN Trees(h))
         /\ Len(Trees(h)[c].kids) \in Nat /\ DOMAIN Trees(h)[c].kids = 1 .. Len(Trees(h)[c].kids)
         /\ \A k, l \in DOMAIN Trees(h)[c].kids : Trees(h)[c].kids[k] = Trees(h)[c].kids[l] => k = l
         /\ \A k \in DOMAIN Trees(h)[c].kids : Trees(h)[c].kids[k] # NULL
<1>1. PICK lists : MemoryIs(h, lists, held, loose)
  BY DEF Sound
<1>2. c \in DOMAIN lists
  BY <1>1 DEF MemoryIs
<1>3. Trees(h)[c].kids = lists[c] /\ c \in DOMAIN Trees(h) /\ Children(h, c) = lists[c]
      /\ DOMAIN Trees(h) = ItemsOf(h)
  BY <1>1, <1>2, KidsOfOwner, TreesAre
<1>4. lists[c] \in Seq(ItemsOf(h))
  BY <1>1, <1>2 DEF MemoryIs, ListsAre, ItemsOf
<1>5. \A k, l \in DOMAIN lists[c] : lists[c][k] = lists[c][l] => k = l
  BY <1>1, <1>2, PlacedOnce
<1>6. \A k \in DOMAIN lists[c] : lists[c][k] # NULL
  <2>1. NULL \notin ItemsOf(h)
    BY SoundType
  <2>2. \A k \in DOMAIN lists[c] : lists[c][k] \in ItemsOf(h)
    BY <1>4
  <2> QED BY <2>1, <2>2
<1> DEFINE s == lists[c]
           S == ItemsOf(h)
<1>7. Len(s) \in Nat /\ DOMAIN s = 1 .. Len(s)
  <2>1. s \in Seq(S)
    BY <1>4
  <2> HIDE DEF s, S
  <2> QED BY <2>1
<1> QED BY <1>3, <1>4, <1>5, <1>6, <1>7

(* Where a look-up found an item. *)
LEMMA IndexOfIs ==
  ASSUME IInv, NEW c \in Owners(heap), NEW item
  PROVE  /\ item = NULL => IndexOf(c, item) = Len(Trees(heap)[c].kids)
         /\ \A k : IsKid(Trees(heap), c, k, item) => IndexOf(c, item) = k - 1
<1> DEFINE s == Trees(heap)[c].kids
<1>1. Sound(heap, roots \cup lost, {}, lost)
  BY DEF IInv
<1>2. /\ Children(heap, c) = s /\ Len(s) \in Nat /\ DOMAIN s = 1 .. Len(s)
      /\ \A k, l \in DOMAIN s : s[k] = s[l] => k = l
      /\ \A k \in DOMAIN s : s[k] # NULL
  BY <1>1, OwnerKids
<1>3. ASSUME NEW k, IsKid(Trees(heap), c, k, item) PROVE k \in DOMAIN s /\ item = s[k]
  BY <1>3 DEF IsKid
<1> HIDE DEF s
<1>4. ASSUME NEW k \in DOMAIN s, item = s[k] PROVE IndexOf(c, item) = k - 1
  <2> DEFINE places == {l \in DOMAIN s : s[l] = item}
  <2>1. places \in SUBSET Int /\ k \in places /\ \A x \in places : k <= x
    BY <1>2, <1>4
  <2>2. IndexOf(c, item) = Min(places) - 1
    BY <1>2, <1>4 DEF IndexOf
  <2> HIDE DEF places
  <2>3. Min(places) = k
    BY <2>1, MinIs
  <2> QED BY <2>2, <2>3
<1>5. item = NULL => IndexOf(c, item) = Len(s)
  BY <1>2 DEF IndexOf
<1> QED BY <1>3, <1>4, <1>5 DEF s

(* What an index finds. *)
LEMMA IndexFinds ==
  ASSUME IInv, NEW c \in Owners(heap), NEW which \in 0 .. cJSON_GetArraySize(c), NEW m, m.heap = heap,
         NEW item, item = get_array_item(m, c, which)
  PROVE  /\ cJSON_GetArraySize(c) = Len(Trees(heap)[c].kids) /\ which \in 0 .. Len(Trees(heap)[c].kids)
         /\ which < Len(Trees(heap)[c].kids) => IsKid(Trees(heap), c, which + 1, item)
         /\ which = Len(Trees(heap)[c].kids) => item = NULL
<1> DEFINE s == Trees(heap)[c].kids
<1>1. Sound(heap, roots \cup lost, {}, lost)
  BY DEF IInv
<1>2. /\ Children(heap, c) = s /\ Len(s) \in Nat /\ DOMAIN s = 1 .. Len(s) /\ c \in DOMAIN Trees(heap)
  BY <1>1, OwnerKids
<1>3. cJSON_GetArraySize(c) = Len(s)
  BY <1>2 DEF cJSON_GetArraySize
<1>4. item = IF which < Len(s) THEN s[which + 1] ELSE NULL
  BY <1>2 DEF get_array_item
<1> HIDE DEF s
<1>5. which < Len(s) => which + 1 \in DOMAIN s
  BY <1>2, <1>3
<1> QED BY <1>2, <1>3, <1>4, <1>5 DEF s, IsKid

(* What a look-up found is nothing, or a child in the forest. *)
LEMMA KidFound ==
  ASSUME IInv, NEW c \in Owners(heap), NEW item, NullOrChild(heap, c, item)
  PROVE  item = NULL \/ \E k : IsKid(Trees(heap), c, k, item)
<1>1. Sound(heap, roots \cup lost, {}, lost)
  BY DEF IInv
<1>2. Children(heap, c) = Trees(heap)[c].kids /\ c \in DOMAIN Trees(heap)
  BY <1>1, OwnerKids
<1> QED BY <1>2 DEF NullOrChild, IsKid

(* What is under a node besides itself is under one of its children.       *)
LEMMA UnderSplit ==
  ASSUME NEW t, Whole(t), NEW b \in DOMAIN t, NEW q \in Under(t, b), q # b
  PROVE  \E x \in Forest!Kids(t, b) : x \in DOMAIN t /\ q \in Under(t, x)
<1> DEFINE S == {b} \cup {y \in DOMAIN t : \E x \in Forest!Kids(t, b) : x \in DOMAIN t /\ y \in Under(t, x)}
<1>1. Forest!Kids(t, b) \subseteq DOMAIN t
  BY DEF Whole
<1>2. \A x \in Forest!Kids(t, b) : x \in S /\ Under(t, x) \subseteq DOMAIN t /\ KidsIn(t, Under(t, x))
  BY <1>1, UnderIsLeast
<1>3. KidsIn(t, S)
  <2> SUFFICES ASSUME NEW p \in S, NEW y \in Forest!Kids(t, p) PROVE y \in S
    BY DEF KidsIn
  <2>1. CASE p = b
    BY <1>2, <2>1
  <2>2. CASE p # b
    <3>1. PICK x \in Forest!Kids(t, b) : x \in DOMAIN t /\ p \in Under(t, x)
      BY <2>2
    <3>2. y \in Under(t, x)
      BY <1>2, <3>1 DEF KidsIn
    <3> QED BY <1>2, <3>1, <3>2
  <2> QED BY <2>1, <2>2
<1>4. q \in S
  BY <1>3 DEF Under
<1> QED BY <1>4

(* Without loops, less is under a child than under the node. *)
LEMMA UnderLess ==
  ASSUME NEW t, Whole(t), NoLoops(t), IsFiniteSet(DOMAIN t), NEW b \in DOMAIN t,
         NEW x \in Forest!Kids(t, b)
  PROVE  /\ Cardinality(Under(t, b)) \in Nat /\ Cardinality(Under(t, x)) \in Nat
         /\ Cardinality(Under(t, x)) < Cardinality(Under(t, b))
<1>1. b \in Under(t, b) /\ Under(t, b) \subseteq DOMAIN t /\ KidsIn(t, Under(t, b))
  BY UnderIsLeast
<1>2. x \in Under(t, b) /\ x \in DOMAIN t
  BY <1>1 DEF KidsIn
<1>3. Under(t, x) \subseteq Under(t, b)
  BY <1>2, UnderKid
<1>4. b \notin Under(t, x)
  BY NotUnderKid
<1>5. IsFiniteSet(Under(t, b))
  BY <1>1, FS_Subset
<1>6. IsFiniteSet(Under(t, b) \ {b}) /\ Cardinality(Under(t, b) \ {b}) = Cardinality(Under(t, b)) - 1
  BY <1>1, <1>5, FS_RemoveElement
<1>7. Under(t, x) \subseteq Under(t, b) \ {b}
  BY <1>3, <1>4
<1>8. IsFiniteSet(Under(t, x)) /\ Cardinality(Under(t, x)) <= Cardinality(Under(t, b) \ {b})
  BY <1>6, <1>7, FS_Subset
<1>9. Cardinality(Under(t, b)) \in Nat /\ Cardinality(Under(t, x)) \in Nat
  BY <1>5, <1>8, FS_CardinalityType
<1> QED BY <1>6, <1>8, <1>9

(* A walk of as many levels as there are blocks finds all that is under    *)
(* an item.                                                                *)
LEMMA BelowFinds ==
  ASSUME NEW h, NEW held, NEW loose, NEW refs, Sound(h, held, loose, refs), NoLoops(Trees(h)),
         NEW n \in Nat, NEW i \in ItemsOf(h), Cardinality(Under(Trees(h), i)) <= n + 1
  PROVE  Under(Trees(h), i) \subseteq BelowUpTo(h, n)[n][i]
<1> DEFINE t == Trees(h)
           g == BelowUpTo(h, n)
           T == {k \in 0 .. n : \A b \in ItemsOf(h) :
                   Cardinality(Under(t, b)) <= k + 1 => Under(t, b) \subseteq g[k][b]}
<1>1. PICK lists : MemoryIs(h, lists, held, loose)
  BY DEF Sound
<1>2. /\ \A b \in DOMAIN lists : b \in ItemsOf(h) /\ Forest!Kids(t, b) = {lists[b][k] : k \in DOMAIN lists[b]}
      /\ \A b \in ItemsOf(h) : b \notin DOMAIN lists => Forest!Kids(t, b) = {}
      /\ Whole(t) /\ DOMAIN t = ItemsOf(h)
  BY <1>1, KidsAre
<1>3. /\ \A b \in ItemsOf(h) : b \in DOMAIN lists <=> ~h[b].IsReference
      /\ \A b \in DOMAIN lists : Children(h, b) = lists[b]
  <2>1. DOMAIN lists = Owners(h)
    BY <1>1 DEF MemoryIs
  <2>2. \A b \in DOMAIN lists : Children(h, b) = lists[b]
    BY <1>1, ChildrenAre
  <2> QED BY <2>1, <2>2 DEF Owners
<1>4. IsFiniteSet(DOMAIN t) /\ \A b \in ItemsOf(h) : b \in Int
  <2> HIDE DEF T, t, g
  <2>1. DOMAIN h \subseteq Blocks /\ ItemsOf(h) \subseteq DOMAIN h /\ \A x \in DOMAIN h : x \in Nat
    BY SoundType
  <2>2. \A b \in ItemsOf(h) : b \in Int
    BY <2>1
  <2>3. IsFiniteSet(DOMAIN t)
    <3>1. DOMAIN t \subseteq Blocks
      BY <1>2, <2>1
    <3> QED BY <3>1, BlocksAssumption, FS_Subset
  <2> QED BY <2>2, <2>3
<1>5. \A k \in 0 .. n : g[k] = BelowLevel(h, k, g[k - 1])
  BY BelowUpToIs
<1>6. NoLoops(t)
  OBVIOUS
<1> HIDE DEF t, g
<1>7. ASSUME NEW k \in 0 .. n, NEW b \in ItemsOf(h),
             \A x \in Forest!Kids(t, b) : k # 0 /\ Under(t, x) \subseteq g[k - 1][x]
      PROVE  Under(t, b) \subseteq g[k][b]
  <2>1. g[k][b] = {b} \union (IF k = 0 \/ h[b].IsReference THEN {}
                              ELSE UNION {g[k - 1][c] : c \in ToSet(Children(h, b))})
    <3> DEFINE prev == g[k - 1]
    <3>1. g[k] = BelowLevel(h, k, prev) /\ b \in Int
      BY <1>4, <1>5
    <3> HIDE DEF prev
    <3>2. BelowLevel(h, k, prev)[b] = {b} \union (IF k = 0 \/ h[b].IsReference THEN {}
                                                  ELSE UNION {prev[c] : c \in ToSet(Children(h, b))})
      BY <3>1 DEF BelowLevel
    <3> QED BY <3>1, <3>2 DEF prev
  <2> SUFFICES ASSUME NEW q \in Under(t, b), q # b PROVE q \in g[k][b]
    BY <2>1
  <2>2. PICK x \in Forest!Kids(t, b) : x \in DOMAIN t /\ q \in Under(t, x)
    BY <1>2, UnderSplit
  <2>3. b \in DOMAIN lists /\ x \in ToSet(Children(h, b)) /\ ~h[b].IsReference
    BY <1>2, <1>3, <2>2 DEF ToSet
  <2>4. q \in g[k - 1][x] /\ k # 0
    BY <1>7, <2>2
  <2> QED BY <2>1, <2>3, <2>4
<1>8. 0 \in T
  <2> SUFFICES ASSUME NEW b \in ItemsOf(h), Cardinality(Under(t, b)) <= 1 PROVE Under(t, b) \subseteq g[0][b]
    OBVIOUS
  <2>1. ASSUME NEW x \in Forest!Kids(t, b) PROVE FALSE
    <3>1. /\ Cardinality(Under(t, b)) \in Nat /\ Cardinality(Under(t, x)) \in Nat
          /\ Cardinality(Under(t, x)) < Cardinality(Under(t, b))
      BY <1>2, <1>4, <1>6, UnderLess
    <3>2. Cardinality(Under(t, x)) = 0
      BY <3>1
    <3>3. x \in DOMAIN t
      BY <1>2 DEF Whole
    <3>4. x \in Under(t, x) /\ Under(t, x) \subseteq DOMAIN t
      BY <1>2, <3>3, UnderIsLeast
    <3>5. IsFiniteSet(Under(t, x))
      BY <1>4, <3>4, FS_Subset
    <3> QED BY <3>2, <3>4, <3>5, FS_EmptySet
  <2>2. 0 \in 0 .. n
    OBVIOUS
  <2> QED BY <1>7, <2>1, <2>2
<1>9. \A k \in 0 .. n - 1 : k \in T => k + 1 \in T
  <2> SUFFICES ASSUME NEW k \in 0 .. n - 1, k \in T, NEW b \in ItemsOf(h), Cardinality(Under(t, b)) <= k + 2
               PROVE  Under(t, b) \subseteq g[k + 1][b]
    OBVIOUS
  <2>1. ASSUME NEW x \in Forest!Kids(t, b) PROVE Under(t, x) \subseteq g[k][x]
    <3>1. /\ Cardinality(Under(t, b)) \in Nat /\ Cardinality(Under(t, x)) \in Nat
          /\ Cardinality(Under(t, x)) < Cardinality(Under(t, b))
      BY <1>2, <1>4, <1>6, UnderLess
    <3>2. Cardinality(Under(t, x)) <= k + 1
      BY <3>1
    <3>3. x \in ItemsOf(h)
      BY <1>2 DEF Whole
    <3> QED BY <3>2, <3>3
  <2> DEFINE l == k + 1
  <2>2. l \in 0 .. n /\ l # 0 /\ l - 1 = k
    OBVIOUS
  <2>3. \A x \in Forest!Kids(t, b) : l # 0 /\ Under(t, x) \subseteq g[l - 1][x]
    BY <2>1, <2>2
  <2> HIDE DEF l, T
  <2>4. Under(t, b) \subseteq g[l][b]
    BY <1>7, <2>2, <2>3
  <2> QED BY <2>4 DEF l
<1>10. n \in T
  <2> HIDE DEF T
  <2>1. \A k \in 0 .. n : k \in T
    BY ONLY n \in Nat, <1>8, <1>9, UpTo
  <2> QED BY <2>1
<1>11. Cardinality(Under(t, i)) <= n + 1
  BY DEF t
<1> QED BY <1>10, <1>11 DEF t, g

(* An item that may be added to a container is not above it. *)
LEMMA FreeIs ==
  ASSUME IInv, NoLoops(Trees(heap)), NEW i \in ItemsOf(heap), NEW c, Free(i, c)
  PROVE  c \notin Under(Trees(heap), i) /\ c # i
<1> DEFINE n == Cardinality(DOMAIN heap)
<1>1. Sound(heap, roots \cup lost, {}, lost)
  BY DEF IInv
<1>2. /\ DOMAIN heap \subseteq Blocks /\ ItemsOf(heap) \subseteq DOMAIN heap /\ DOMAIN Trees(heap) = ItemsOf(heap)
      /\ Whole(Trees(heap))
  BY <1>1, SoundType, KidsAre DEF Sound
<1>3. IsFiniteSet(DOMAIN heap) /\ n \in Nat
  BY <1>2, BlocksAssumption, FS_Subset, FS_CardinalityType
<1>4. i \in Under(Trees(heap), i) /\ Under(Trees(heap), i) \subseteq DOMAIN heap
  BY <1>2, UnderIsLeast
<1>5. Cardinality(Under(Trees(heap), i)) <= n /\ IsFiniteSet(Under(Trees(heap), i))
  BY <1>3, <1>4, FS_Subset
<1>6. Cardinality(Under(Trees(heap), i)) <= n + 1
  BY <1>3, <1>5, FS_CardinalityType
<1>7. Below(i) = BelowUpTo(heap, n)[n][i]
  BY Zenon DEF Below, BelowUpTo, BelowLevel
<1> HIDE DEF n
<1>8. Under(Trees(heap), i) \subseteq BelowUpTo(heap, n)[n][i]
  BY <1>1, <1>3, <1>6, BelowFinds
<1> QED BY <1>4, <1>7, <1>8 DEF Free

(* The steps of Forest!Below: a node, then its children too, and so on.    *)
WithinLevel(t, b, k, prev) ==
  IF k = 0 THEN {b} ELSE prev \union UNION {Forest!Kids(t, p) : p \in prev}

(* The first n steps from b. *)
WithinUpTo(t, b, n) == CHOOSE f : f = [k \in 0 .. n |-> WithinLevel(t, b, k, f[k - 1])]

(* There is such a function: its values are sets of nodes. *)
LEMMA WithinUpToIs ==
  ASSUME NEW t, Whole(t), NEW b \in DOMAIN t, NEW n \in Nat
  PROVE  LET g == WithinUpTo(t, b, n)
         IN /\ \A k \in 0 .. n : g[k] \in SUBSET DOMAIN t
            /\ \A k \in 0 .. n : g[k] = WithinLevel(t, b, k, g[k - 1])
<1> DEFINE F(f) == [k \in 0 .. n |-> WithinLevel(t, b, k, f[k - 1])]
           A == SUBSET DOMAIN t
           step == [k \in 1 .. n |-> [S \in A |-> S \union UNION {Forest!Kids(t, p) : p \in S}]]
           a == {b}
<1>1. a \in A
  OBVIOUS
<1>2. step \in [1 .. n -> [A -> A]]
  <2>1. \A S \in A : S \union UNION {Forest!Kids(t, p) : p \in S} \in A
    BY DEF Whole
  <2> QED BY <2>1
<1>3. \E f \in [0 .. n -> A] : f[0] = a /\ \A k \in 1 .. n : f[k] = step[k][f[k - 1]]
  <2> HIDE DEF A, a, step
  <2> QED BY <1>1, <1>2, Iterates
<1>4. PICK f \in [0 .. n -> A] : f[0] = a /\ \A k \in 1 .. n : f[k] = step[k][f[k - 1]]
  BY <1>3
<1>5. f = F(f)
  <2>1. \A k \in 0 .. n : f[k] = WithinLevel(t, b, k, f[k - 1])
    <3> SUFFICES ASSUME NEW k \in 0 .. n PROVE f[k] = WithinLevel(t, b, k, f[k - 1])
      OBVIOUS
    <3>1. CASE k = 0
      BY <1>4, <3>1 DEF WithinLevel
    <3>2. CASE k # 0
      <4>1. k \in 1 .. n /\ k - 1 \in 0 .. n
        BY <3>2
      <4>2. f[k - 1] \in A
        BY <4>1
      <4> DEFINE S == f[k - 1]
      <4>3. f[k] = step[k][S] /\ S \in A
        BY <1>4, <4>1, <4>2
      <4> HIDE DEF S, A
      <4>4. step[k][S] = S \union UNION {Forest!Kids(t, p) : p \in S}
        BY <4>1, <4>3
      <4> QED BY <3>2, <4>3, <4>4 DEF WithinLevel, S
    <3> QED BY <3>1, <3>2
  <2> QED BY <2>1
<1> DEFINE g == CHOOSE e : e = F(e)
<1>6. g = F(g)
  <2> HIDE DEF F
  <2> QED BY <1>5, Zenon
<1>7. g = WithinUpTo(t, b, n)
  BY Zenon DEF WithinUpTo
<1> HIDE DEF g
<1>8. \A k \in 0 .. n : g[k] = WithinLevel(t, b, k, g[k - 1])
  BY <1>6
<1> DEFINE T == {k \in 0 .. n : g[k] \in A}
<1>9. 0 \in T
  <2>1. 0 \in 0 .. n
    OBVIOUS
  <2> QED BY <1>1, <1>8, <2>1 DEF WithinLevel
<1>10. \A k \in 0 .. n - 1 : k \in T => k + 1 \in T
  <2> SUFFICES ASSUME NEW k \in 0 .. n - 1, g[k] \in A PROVE g[k + 1] \in A
    OBVIOUS
  <2> DEFINE l == k + 1
  <2>1. l \in 0 .. n /\ l # 0 /\ l - 1 = k
    OBVIOUS
  <2> HIDE DEF l
  <2>2. g[l] = g[k] \union UNION {Forest!Kids(t, p) : p \in g[k]}
    BY <1>8, <2>1 DEF WithinLevel
  <2> QED BY <2>2 DEF Whole, l
<1> HIDE DEF T
<1>11. \A k \in 0 .. n : k \in T
  BY <1>9, <1>10, UpTo
<1> QED BY <1>7, <1>8, <1>11, Zenon DEF T

(* So many steps find all that is under the node. *)
LEMMA WithinIs ==
  ASSUME NEW t, Whole(t), NEW b \in DOMAIN t, IsFiniteSet(DOMAIN t),
         NEW n, n = Cardinality(DOMAIN t)
  PROVE  WithinUpTo(t, b, n)[n] = Under(t, b)
<1> DEFINE g == WithinUpTo(t, b, n)
           U == Under(t, b)
           T == {k \in 0 .. n : g[k] \subseteq U /\ b \in g[k]
                                 /\ (KidsIn(t, g[k]) \/ Cardinality(g[k]) >= k + 1)}
<1>1. n \in Nat
  BY FS_CardinalityType
<1>2. /\ \A k \in 0 .. n : g[k] \in SUBSET DOMAIN t
      /\ \A k \in 0 .. n : g[k] = WithinLevel(t, b, k, g[k - 1])
  BY <1>1, WithinUpToIs
<1>3. /\ b \in U /\ U \subseteq DOMAIN t /\ KidsIn(t, U)
      /\ \A S \in SUBSET DOMAIN t : b \in S /\ KidsIn(t, S) => U \subseteq S
  BY UnderIsLeast
<1> HIDE DEF g, U
<1>4. 0 \in T
  <2>0. 0 \in 0 .. n
    BY <1>1
  <2>1. 0 \in 0 .. n /\ g[0] = {b}
    BY <1>2, <2>0 DEF WithinLevel
  <2>2. Cardinality({b}) = 1
    BY FS_Singleton
  <2> QED BY <1>3, <2>1, <2>2
<1>5. \A k \in 0 .. n - 1 : k \in T => k + 1 \in T
  <2> SUFFICES ASSUME NEW k \in 0 .. n - 1, k \in T PROVE k + 1 \in T
    OBVIOUS
  <2> DEFINE l == k + 1
             S == g[k]
             R == g[l]
  <2>1. l \in 0 .. n /\ l # 0 /\ l - 1 = k /\ k \in 0 .. n
    BY <1>1
  <2>2. R = S \union UNION {Forest!Kids(t, p) : p \in S} /\ S \in SUBSET DOMAIN t /\ R \in SUBSET DOMAIN t
    BY <1>2, <2>1 DEF WithinLevel
  <2>3. S \subseteq U /\ b \in S /\ (KidsIn(t, S) \/ Cardinality(S) >= k + 1)
    OBVIOUS
  <2> HIDE DEF S, R
  <2>4. R \subseteq U /\ b \in R
    BY <1>3, <2>2, <2>3 DEF KidsIn
  <2>5. KidsIn(t, R) \/ Cardinality(R) >= l + 1
    <3>1. CASE KidsIn(t, S)
      <4>1. R = S
        BY <2>2, <3>1 DEF KidsIn
      <4> QED BY <3>1, <4>1
    <3>2. CASE ~KidsIn(t, S)
      <4>1. PICK x \in R : x \notin S
        BY <2>2, <3>2 DEF KidsIn
      <4>2. IsFiniteSet(S) /\ IsFiniteSet(R)
        BY <2>2, FS_Subset
      <4>3. IsFiniteSet(S \cup {x}) /\ Cardinality(S \cup {x}) = Cardinality(S) + 1
        BY <4>1, <4>2, FS_AddElement
      <4>4. S \cup {x} \subseteq R
        BY <2>2, <4>1
      <4>5. Cardinality(S \cup {x}) <= Cardinality(R)
        BY <4>2, <4>4, FS_Subset
      <4>6. Cardinality(S) \in Nat /\ Cardinality(R) \in Nat /\ Cardinality(S) >= k + 1
        BY <2>3, <3>2, <4>2, FS_CardinalityType
      <4> QED BY <2>1, <4>3, <4>5, <4>6
    <3> QED BY <3>1, <3>2
  <2>6. l \in T
    BY <2>1, <2>4, <2>5 DEF R
  <2> QED BY <2>6
<1> DEFINE S == g[n]
<1>6. S \subseteq U /\ b \in S /\ (KidsIn(t, S) \/ Cardinality(S) >= n + 1) /\ S \in SUBSET DOMAIN t
  <2>0. n \in 0 .. n
    BY <1>1
  <2>1. n \in T
    <3> HIDE DEF T
    <3>1. \A k \in 0 .. n : k \in T
      BY <1>1, <1>4, <1>5, UpTo
    <3> QED BY <2>0, <3>1
  <2> QED BY <1>2, <2>0, <2>1
<1> HIDE DEF S
<1>7. KidsIn(t, S)
  <2>1. Cardinality(S) <= n
    BY <1>6, FS_Subset
  <2>2. Cardinality(S) \in Nat
    <3>1. IsFiniteSet(S)
      BY <1>6, FS_Subset
    <3> QED BY <3>1, FS_CardinalityType
  <2> QED BY <1>1, <1>6, <2>1, <2>2
<1>8. U \subseteq S
  BY <1>3, <1>6, <1>7
<1> QED BY <1>6, <1>8 DEF S, g, U

(* What the forest deletes with an item is what is under it. *)
LEMMA ForestBelow ==
  ASSUME NEW held, NEW loose, NEW refs, Sound(heap, held, loose, refs), NEW b \in ItemsOf(heap)
  PROVE  Forest!Below(b) = Under(Trees(heap), b)
<1> DEFINE t == Trees(heap)
           n == Cardinality(DOMAIN t)
<1>1. DOMAIN t = ItemsOf(heap) /\ Whole(t)
  BY KidsAre DEF Sound
<1>2. IsFiniteSet(DOMAIN t)
  <2> HIDE DEF t
  <2>1. DOMAIN t \subseteq Blocks
    BY <1>1, SoundType
  <2> QED BY <2>1, BlocksAssumption, FS_Subset
<1>3. Forest!Below(b) = WithinUpTo(t, b, n)[n]
  BY Zenon DEF Forest!Below, WithinUpTo, WithinLevel, Forest!Cardinality, Cardinality
<1> HIDE DEF t
<1>4. b \in DOMAIN t /\ n = Cardinality(DOMAIN t)
  BY <1>1
<1> HIDE DEF n
<1>5. WithinUpTo(t, b, n)[n] = Under(t, b)
  BY <1>1, <1>2, <1>4, WithinIs
<1> QED BY <1>3, <1>5 DEF t

-----------------------------------------------------------------------------
(* What the calls of the program do, as the actions of JsonForest. *)

(* What a call leaves behind, and what it answers. *)
LEMMA FinishIs ==
  ASSUME NEW op, NEW c, NEW at, NEW i, NEW key, NEW m, Finish(op, c, at, i, key, m)
  PROVE  /\ heap' = m.heap /\ Trees(heap)' = Trees(m.heap)
         /\ m.ok => Forest!Result(op, c, at, i, key, TRUE, m.ret)
         /\ ~m.ok => Forest!Result(op, c, at, i, key, FALSE, m.ret)
<1>1. heap' = m.heap
  BY DEF Finish
<1>2. call' = [op |-> op, c |-> c, at |-> at, i |-> i, key |-> key, ok |-> m.ok, ret |-> m.ret]
  BY DEF Finish
<1>3. ASSUME m.ok PROVE Forest!Result(op, c, at, i, key, TRUE, m.ret)
  <2>1. m.ok = TRUE
    BY <1>3
  <2> QED BY <1>2, <2>1 DEF Forest!Result
<1>4. ASSUME ~m.ok PROVE Forest!Result(op, c, at, i, key, FALSE, m.ret)
  <2>1. m.ok = FALSE
    BY <1>4
  <2> QED BY <1>2, <2>1, Zenon DEF Forest!Result
<1>5. Trees(heap)' = Trees(m.heap)
  BY <1>1
<1> QED BY <1>1, <1>3, <1>4, <1>5

(* The children of one node and the key of another. *)
LEMMA KidsAndKey ==
  ASSUME NEW t, IsMap(t), NEW c \in DOMAIN t, NEW i \in DOMAIN t, c # i, NEW s, NEW key
  PROVE  [t EXCEPT ![c].kids = s, ![i].key = key] = PutKids(PutKey(t, i, key), c, s)
BY DEF PutKids, PutKey, IsMap

(* The key and the children that a node has. *)
LEMMA NodeHas ==
  ASSUME NEW h, NEW held, NEW loose, NEW refs, Sound(h, held, loose, refs), NEW b \in ItemsOf(h)
  PROVE  /\ b \in DOMAIN Trees(h) /\ IsMap(Trees(h)) /\ Whole(Trees(h)) /\ DOMAIN Trees(h) = ItemsOf(h)
         /\ PutKey(Trees(h), b, Trees(h)[b].key) = Trees(h)
         /\ \A key, p : p \in ItemsOf(h) => PutKey(Trees(h), b, key)[p].kids = Trees(h)[p].kids
<1>1. PICK lists : MemoryIs(h, lists, held, loose)
  BY DEF Sound
<1>2. /\ DOMAIN Trees(h) = ItemsOf(h) /\ IsMap(Trees(h)) /\ Whole(Trees(h))
      /\ Trees(h)[b] = Node(h[b].type, KeyOf(h, b), ValueOf(h, b), ListOf(lists, b))
  BY <1>1, TreesAre, KidsAre
<1>3. Trees(h)[b].key = KeyOf(h, b)
  BY <1>2, NodeKids
<1>4. PutKey(Trees(h), b, KeyOf(h, b)) = Trees(h)
  BY <1>1, NoChange
<1>5. \A key, p : p \in ItemsOf(h) => PutKey(Trees(h), b, key)[p].kids = Trees(h)[p].kids
  BY <1>1, PutKeyKids
<1> QED BY <1>2, <1>3, <1>4, <1>5

-----------------------------------------------------------------------------
(* A call that inserts a free item, or fails and changes nothing, is Attach. *)
LEMMA AttachStep ==
  ASSUME IInv, NEW c \in ItemsOf(heap), NEW i \in ItemsOf(heap), c # i, NEW at,
         NEW m, Finish("insert", c, at, i, NoKey, m), m.ret = NULL,
         \/ ~m.ok /\ Trees(m.heap) = Trees(heap)
         \/ m.ok /\ Trees(m.heap) = InsertKid(Trees(heap), c, at + 1, i)
  PROVE  Forest!Attach(c, at, i, NoKey, FALSE)
<1> DEFINE t == Trees(heap)
           s == InsertAt(t[c].kids, at + 1, i)
<1>1. /\ Trees(heap)' = Trees(m.heap)
      /\ m.ok => Forest!Result("insert", c, at, i, NoKey, TRUE, NULL)
      /\ ~m.ok => Forest!Result("insert", c, at, i, NoKey, FALSE, NULL)
  BY FinishIs
<1>2. c \in DOMAIN t /\ i \in DOMAIN t /\ IsMap(t) /\ PutKey(t, i, t[i].key) = t
  BY NodeHas DEF IInv
<1>3. CASE ~m.ok /\ Trees(m.heap) = Trees(heap)
  <2>1. Trees(heap)' = Trees(heap)
    BY <1>1, <1>3
  <2>2. Forest!Result("insert", c, at, i, NoKey, FALSE, Forest!NULL)
    BY <1>1, <1>3 DEF Forest!NULL, NULL
  <2> QED BY ONLY <2>1, <2>2, Zenon DEF Forest!Attach
<1>4. CASE m.ok /\ Trees(m.heap) = InsertKid(Trees(heap), c, at + 1, i)
  <2> HIDE DEF t
  <2>1. [t EXCEPT ![c].kids = s, ![i].key = t[i].key] = PutKids(PutKey(t, i, t[i].key), c, s)
    <3> DEFINE key == t[i].key
    <3> HIDE DEF s, key
    <3> QED BY ONLY <1>2, c # i, KidsAndKey
  <2>2. [t EXCEPT ![c].kids = s, ![i].key = @] = [t EXCEPT ![c].kids = s, ![i].key = t[i].key]
    BY <1>2 DEF IsMap
  <2>3. Trees(m.heap) = [t EXCEPT ![c].kids = s, ![i].key = @]
    BY <1>2, <1>4, <2>1, <2>2 DEF InsertKid, t
  <2>4. Trees(heap)' = [Trees(heap) EXCEPT ![c].kids = Forest!InsertAt(@, at + 1, i),
                                           ![i].key = IF FALSE THEN NoKey ELSE @]
    BY <1>1, <2>3 DEF t, s, Forest!InsertAt, InsertAt
  <2>5. Forest!Result("insert", c, at, i, NoKey, TRUE, Forest!NULL)
    BY <1>1, <1>4 DEF Forest!NULL, NULL
  <2> QED BY ONLY <2>4, <2>5, Zenon DEF Forest!Attach
<1> QED BY <1>3, <1>4

(* The entries of a sequence. *)
Entries(s) == {s[k] : k \in DOMAIN s}

(* What the operations on the list of a node put into it. *)
LEMMA EntriesAre ==
  ASSUME NEW S, NEW s \in Seq(S), NEW e
  PROVE  /\ Entries(Append(s, e)) \subseteq Entries(s) \cup {e}
         /\ \A k \in 1 .. Len(s) + 1 : Entries(InsertAt(s, k, e)) \subseteq Entries(s) \cup {e}
         /\ \A k \in 1 .. Len(s) : /\ Entries(ReplaceAt(s, k, e)) \subseteq Entries(s) \cup {e}
                                   /\ Entries(RemoveAt(s, k)) \subseteq Entries(s)
<1> DEFINE E == Entries(s)
           F == E \cup {e}
<1>1. s \in Seq(E)
  BY SequenceIn DEF Entries
<1>2. s \in Seq(F)
  BY SequenceIn DEF Entries
<1>3. \A T : \A t \in Seq(T) : Entries(t) \subseteq T
  BY DEF Entries
<1> HIDE DEF E, F
<1>4. e \in F /\ Len(s) \in Nat /\ DOMAIN s = 1 .. Len(s)
  BY <1>2 DEF F
<1>5. Append(s, e) \in Seq(F)
  BY <1>2, <1>4
<1>6. ASSUME NEW k \in 1 .. Len(s) + 1 PROVE InsertAt(s, k, e) \in Seq(F)
  <2>1. SubSeq(s, 1, k - 1) \in Seq(F) /\ SubSeq(s, k, Len(s)) \in Seq(F) /\ <<e>> \in Seq(F)
    BY <1>2, <1>4
  <2> QED BY <2>1 DEF InsertAt
<1>7. ASSUME NEW k \in 1 .. Len(s) PROVE ReplaceAt(s, k, e) \in Seq(F) /\ RemoveAt(s, k) \in Seq(E)
  <2>1. SubSeq(s, 1, k - 1) \in Seq(E) /\ SubSeq(s, k + 1, Len(s)) \in Seq(E)
    BY <1>1, <1>4
  <2>2. ReplaceAt(s, k, e) \in [1 .. Len(s) -> F]
    BY <1>2, <1>4 DEF ReplaceAt
  <2>3. ReplaceAt(s, k, e) \in Seq(F)
    BY <1>4, <2>2
  <2> QED BY <2>1, <2>3 DEF RemoveAt
<1>8. E = Entries(s) /\ F = Entries(s) \cup {e}
  BY DEF E, F
<1> QED BY <1>3, <1>5, <1>6, <1>7, <1>8

(* A map whose members have a list. *)
HaveKids(t) == IsMap(t) /\ \A p \in DOMAIN t : "kids" \in DOMAIN t[p]

(* The trees of a memory in order lead to nodes, finitely many of them. *)
LEMMA TreesHaveKids ==
  ASSUME NEW h, NEW held, NEW loose, NEW refs, Sound(h, held, loose, refs)
  PROVE  HaveKids(Trees(h)) /\ Whole(Trees(h)) /\ DOMAIN Trees(h) = ItemsOf(h)
         /\ IsFiniteSet(DOMAIN Trees(h))
<1>1. PICK lists : MemoryIs(h, lists, held, loose)
  BY DEF Sound
<1>2. /\ DOMAIN Trees(h) = ItemsOf(h) /\ IsMap(Trees(h)) /\ Whole(Trees(h))
      /\ \A b \in ItemsOf(h) : Trees(h)[b] = Node(h[b].type, KeyOf(h, b), ValueOf(h, b), ListOf(lists, b))
  BY <1>1, TreesAre, KidsAre
<1>3. \A b \in ItemsOf(h) : "kids" \in DOMAIN Trees(h)[b]
  BY <1>2 DEF Node
<1>4. DOMAIN h \subseteq Blocks /\ ItemsOf(h) \subseteq DOMAIN h
  BY <1>1 DEF MemoryIs, ItemsOf
<1>5. IsFiniteSet(ItemsOf(h))
  BY <1>4, BlocksAssumption, FS_Subset
<1> QED BY <1>2, <1>3, <1>5 DEF HaveKids

(* Putting a list of children at a node changes the children of no other. *)
LEMMA KidsPut ==
  ASSUME NEW t, HaveKids(t), NEW c \in DOMAIN t, NEW s, NEW u, u = PutKids(t, c, s)
  PROVE  /\ DOMAIN u = DOMAIN t /\ HaveKids(u)
         /\ Forest!Kids(u, c) = Entries(s) /\ u[c].kids = s /\ u[c].key = t[c].key
         /\ \A x \in DOMAIN t : x # c => u[x] = t[x] /\ Forest!Kids(u, x) = Forest!Kids(t, x)
<1>1. DOMAIN u = DOMAIN t /\ IsMap(u) /\ u[c] = [t[c] EXCEPT !.kids = s]
      /\ \A x \in DOMAIN t : x # c => u[x] = t[x]
  BY DEF PutKids, HaveKids, IsMap
<1>2. u[c].kids = s /\ u[c].key = t[c].key /\ DOMAIN u[c] = DOMAIN t[c]
  BY <1>1 DEF HaveKids
<1>3. HaveKids(u)
  BY <1>1, <1>2 DEF HaveKids
<1> QED BY <1>1, <1>2, <1>3 DEF Forest!Kids, Entries

(* A new child that has not c below it. *)
LEMMA NoLoopsPut ==
  ASSUME NEW t, HaveKids(t), Whole(t), NoLoops(t), NEW c \in DOMAIN t, NEW i \in DOMAIN t, c \notin Under(t, i),
         NEW s, Entries(s) \subseteq Forest!Kids(t, c) \cup {i}
  PROVE  NoLoops(PutKids(t, c, s))
<1> DEFINE u == PutKids(t, c, s)
<1>1. u = PutKids(t, c, s)
  OBVIOUS
<1> HIDE DEF u
<1>2. /\ DOMAIN u = DOMAIN t /\ Forest!Kids(u, c) = Entries(s)
      /\ \A x \in DOMAIN t : x # c => Forest!Kids(u, x) = Forest!Kids(t, x)
  BY <1>1, KidsPut
<1>3. Forest!Kids(u, c) \subseteq Forest!Kids(t, c) \cup {i}
  BY <1>2
<1>4. NoLoops(u)
  BY ONLY <1>2, <1>3, NoLoopsAdded, Whole(t), NoLoops(t), c \in DOMAIN t, i \in DOMAIN t, c \notin Under(t, i)
<1> QED BY <1>1, <1>4

(* Fewer children. *)
LEMMA NoLoopsDropped ==
  ASSUME NEW t, HaveKids(t), NoLoops(t), NEW c \in DOMAIN t, NEW s, Entries(s) \subseteq Forest!Kids(t, c)
  PROVE  NoLoops(PutKids(t, c, s))
<1> DEFINE u == PutKids(t, c, s)
<1>1. u = PutKids(t, c, s)
  OBVIOUS
<1> HIDE DEF u
<1>2. /\ DOMAIN u = DOMAIN t /\ Forest!Kids(u, c) = Entries(s)
      /\ \A x \in DOMAIN t : x # c => Forest!Kids(u, x) = Forest!Kids(t, x)
  BY <1>1, KidsPut
<1>3. \A x \in DOMAIN u : x \in DOMAIN t /\ Forest!Kids(u, x) \subseteq Forest!Kids(t, x)
  BY <1>2
<1>4. NoLoops(u)
  BY <1>3, NoLoopsLess
<1> QED BY <1>1, <1>4

(* Fewer members. *)
LEMMA NoLoopsWithout ==
  ASSUME NEW t, NoLoops(t), NEW S
  PROVE  NoLoops(Forest!Without(t, S))
<1> DEFINE u == Forest!Without(t, S)
<1>1. DOMAIN u \subseteq DOMAIN t /\ \A x \in DOMAIN u : u[x] = t[x]
  BY DEF Forest!Without
<1> HIDE DEF u
<1>2. \A x \in DOMAIN u : x \in DOMAIN t /\ Forest!Kids(u, x) \subseteq Forest!Kids(t, x)
  BY <1>1 DEF Forest!Kids
<1>3. NoLoops(u)
  BY <1>2, NoLoopsLess
<1> QED BY <1>3 DEF u

(* A member more, without children. *)
LEMMA NoLoopsLeaf ==
  ASSUME NEW t, NEW u, NEW r, NewLeaf(t, u, r), NoLoops(t)
  PROVE  NoLoops(u)
<1>1. \A x \in DOMAIN u : IF x \in DOMAIN t THEN Forest!Kids(u, x) \subseteq Forest!Kids(t, x)
                              ELSE Forest!Kids(u, x) = {}
  BY DEF NewLeaf, Forest!Kids
<1> QED BY <1>1, NoLoopsLess

(* Memory is in order, and its items are trees. *)
RInv == IInv /\ NoLoops(Trees(heap))

(* A new leaf is a new tree. *)
LEMMA LeafGrows ==
  ASSUME NEW u, NEW r, NewLeaf(Trees(heap), u, r), Trees(heap)' = u
  PROVE  Forest!Grows(r)
<1> DEFINE t == Trees(heap)
           new == DOMAIN u \ DOMAIN t
<1> HIDE DEF t
<1>1. NewLeaf(t, u, r)
  BY DEF t
<1>2. new = {r} /\ u[r].kids = <<>>
  BY <1>1 DEF NewLeaf
<1>3. Forest!Without(u, new) = t
  <2>1. Under(u, r) = {r} /\ Forest!Without(u, Under(u, r)) = t
    BY <1>1, LeafGone
  <2>2. Under(u, r) = new
    BY <1>2, <2>1
  <2> HIDE DEF new
  <2> QED BY <2>1, <2>2
<1>4. Forest!Kids(u, r) = {}
  BY <1>2 DEF Forest!Kids
<1>5. Forest!IsTree(u, new, r)
  BY <1>2, <1>4 DEF Forest!IsTree
<1> HIDE DEF new
<1>6. Forest!Without(Trees(heap)', new) = Trees(heap) /\ Forest!IsTree(Trees(heap)', new, r)
      /\ new = DOMAIN Trees(heap)' \ DOMAIN Trees(heap)
  BY <1>3, <1>5 DEF t, new
<1> QED BY <1>6, Zenon DEF Forest!Grows

(* cJSON_Create... makes a new tree, or nothing. *)
LEMMA CreateItemStep ==
  ASSUME RInv, NEW type \in Kinds, NEW chars \in Values, NEW fuel, CreateItem(type, chars, fuel)
  PROVE  Forest!Make("create") /\ NoLoops(Trees(heap)')
<1> DEFINE m == Create(Memory(fuel), type, chars)
           u == Trees(m.heap)
<1>1. Ready(Memory(fuel), roots \cup lost, {}, lost) /\ Memory(fuel).heap = heap
  BY MemoryReady DEF RInv
<1>2. type \in Types /\ chars \in Seq(Byte)
  BY Passed DEF RInv
<1>3. MakesLeaf(Memory(fuel), m)
  BY <1>1, <1>2, CreateTrees
<1>4. Finish("create", NULL, 0, NULL, NoKey, m)
  BY DEF CreateItem, Made
<1> HIDE DEF m
<1>5. /\ Trees(heap)' = u
      /\ m.ok => Forest!Result("create", NULL, 0, NULL, NoKey, TRUE, m.ret)
      /\ ~m.ok => Forest!Result("create", NULL, 0, NULL, NoKey, FALSE, m.ret)
  BY <1>4, FinishIs
<1>6. NULL = Forest!NULL /\ NoKey = Forest!NoKey
  BY DEF NULL, Forest!NULL, NoKey, Forest!NoKey
<1>7. CASE m.ret = NULL /\ ~m.ok /\ u = Trees(heap)
  <2>1. Forest!Result("create", Forest!NULL, 0, Forest!NULL, Forest!NoKey, FALSE, Forest!NULL)
    BY <1>5, <1>6, <1>7
  <2>2. Trees(heap)' = Trees(heap)
    BY <1>5, <1>7
  <2>3. Forest!Make("create")
    BY ONLY <2>1, <2>2, Zenon DEF Forest!Make
  <2> QED BY <2>2, <2>3 DEF RInv
<1>8. CASE m.ret # NULL /\ m.ok /\ NewLeaf(Trees(heap), u, m.ret)
  <2> DEFINE r == m.ret
  <2>1. Forest!Result("create", Forest!NULL, 0, Forest!NULL, Forest!NoKey, TRUE, r)
    BY <1>5, <1>6, <1>8
  <2>2. NewLeaf(Trees(heap), u, r)
    BY <1>8
  <2> HIDE DEF r, u
  <2>3. r \in DOMAIN Trees(heap)'
    BY <1>5, <2>2 DEF NewLeaf
  <2>4. Forest!Grows(r)
    BY <1>5, <2>2, LeafGrows
  <2>5. NoLoops(u)
    BY <2>2, NoLoopsLeaf DEF RInv
  <2>6. Forest!Make("create")
    BY ONLY <2>1, <2>3, <2>4, Zenon DEF Forest!Make
  <2> QED BY <1>5, <2>5, <2>6
<1> QED BY <1>1, <1>3, <1>7, <1>8 DEF MakesLeaf

(* cJSON_SetValuestring sets the value, or nothing. *)
LEMMA SetValuestringStep ==
  ASSUME RInv, NEW i \in Items \ lost, NEW chars \in Values, NEW fuel, SetValuestring(i, chars, fuel)
  PROVE  Forest!SetValue(i, chars) /\ NoLoops(Trees(heap)')
<1> DEFINE m == cJSON_SetValuestring(Memory(fuel), i, chars)
           n == [m EXCEPT !.ret = NULL]
           t == Trees(heap)
           u == Trees(n.heap)
<1>1. Ready(Memory(fuel), roots \cup lost, {}, lost) /\ Memory(fuel).heap = heap /\ Memory(fuel).ok
  BY MemoryReady DEF RInv, Memory, Machine
<1>2. i \in ItemsOf(Memory(fuel).heap) /\ chars \in Seq(Byte) /\ i \in ItemsOf(heap)
  BY <1>1, Passed DEF RInv
<1>3. ~Memory(fuel).heap[i].IsReference
  BY <1>1 DEF SetValuestring
<1>4. \/ ~m.ok /\ Trees(m.heap) = t
      \/ m.ok /\ Trees(m.heap) = PutValue(t, i, chars)
  BY <1>1, <1>2, <1>3, SetValuestringTrees
<1>5. Finish("set", NULL, 0, i, chars, n)
  BY DEF SetValuestring
<1>6. DOMAIN m = {"heap", "room", "fuel", "ret", "ok", "bad", "oom", "off", "depth"}
  <2>1. Ready(m, roots \cup lost, {}, lost)
    BY <1>1, <1>2, <1>3, SetValuestringIs
  <2> QED BY <2>1 DEF Ready
<1> HIDE DEF m
<1>7. n.heap = m.heap /\ n.ok = m.ok /\ n.ret = NULL
  BY <1>6
<1> HIDE DEF n
<1>8. /\ Trees(heap)' = u
      /\ n.ok => Forest!Result("set", NULL, 0, i, chars, TRUE, n.ret)
      /\ ~n.ok => Forest!Result("set", NULL, 0, i, chars, FALSE, n.ret)
  BY <1>5, FinishIs
<1>9. NULL = Forest!NULL /\ Trees(m.heap) = u
  BY <1>7 DEF NULL, Forest!NULL
<1>10. Sound(heap, roots \cup lost, {}, lost)
  BY DEF RInv, IInv
<1>11. CASE ~m.ok /\ Trees(m.heap) = t
  <2>1. Forest!Result("set", Forest!NULL, 0, i, chars, FALSE, Forest!NULL) /\ Trees(heap)' = Trees(heap)
    BY <1>7, <1>8, <1>9, <1>11
  <2>2. Forest!SetValue(i, chars)
    BY ONLY <2>1, Zenon DEF Forest!SetValue
  <2> QED BY <2>1, <2>2 DEF RInv
<1>12. CASE m.ok /\ Trees(m.heap) = PutValue(t, i, chars)
  <2>1. Forest!Result("set", Forest!NULL, 0, i, chars, TRUE, Forest!NULL)
    BY <1>7, <1>8, <1>9, <1>12
  <2>2. u = PutValue(t, i, chars)
    BY <1>9, <1>12
  <2>3. Trees(heap)' = [Trees(heap) EXCEPT ![i].value = chars]
    BY <1>8, <2>2 DEF PutValue
  <2>4. Forest!SetValue(i, chars)
    BY ONLY <2>1, <2>3, Zenon DEF Forest!SetValue
  <2>5. HaveKids(t) /\ DOMAIN t = ItemsOf(heap) /\ NoLoops(t)
    BY <1>10, TreesHaveKids DEF RInv
  <2> HIDE DEF t, u
  <2>6. SameKids(t, u)
    BY <1>2, <2>2, <2>5 DEF SameKids, PutValue, HaveKids, IsMap, Forest!Kids
  <2>7. NoLoops(u)
    BY <2>5, <2>6, SameKidsSame
  <2> QED BY <1>8, <2>4, <2>7
<1> QED BY <1>4, <1>11, <1>12

(* What a call finds of the trees that it begins with. *)
LEMMA Begins ==
  ASSUME RInv, NEW fuel
  PROVE  /\ Ready(Memory(fuel), roots \cup lost, {}, lost)
         /\ Memory(fuel).heap = heap /\ Memory(fuel).ret = NULL /\ Memory(fuel).ok
         /\ HaveKids(Trees(heap)) /\ Whole(Trees(heap)) /\ NoLoops(Trees(heap))
         /\ DOMAIN Trees(heap) = ItemsOf(heap)
         /\ \A i \in roots : i \in ItemsOf(heap) /\ i # NULL
<1>1. Sound(heap, roots \cup lost, {}, lost) /\ IInv
  BY DEF RInv, IInv
<1>2. Ready(Memory(fuel), roots \cup lost, {}, lost)
  BY <1>1, MemoryReady
<1>3. Memory(fuel).heap = heap /\ Memory(fuel).ret = NULL /\ Memory(fuel).ok
  BY DEF Memory, Machine
<1>4. HaveKids(Trees(heap)) /\ Whole(Trees(heap)) /\ DOMAIN Trees(heap) = ItemsOf(heap)
  BY <1>1, TreesHaveKids
<1>5. roots \subseteq ItemsOf(heap)
  BY <1>1, Passed
<1>6. NULL \notin DOMAIN heap
  BY <1>1, BlocksAssumption DEF Sound, MemoryIs
<1> QED BY <1>2, <1>3, <1>4, <1>5, <1>6 DEF RInv, ItemsOf

(* The end of a list is the place with the number of its entries. *)
LEMMA AppendWhere ==
  ASSUME RInv, NEW c \in Owners(heap), NEW i \in ItemsOf(heap)
  PROVE  AppendKid(Trees(heap), c, i) = InsertKid(Trees(heap), c, cJSON_GetArraySize(c) + 1, i)
<1>1. Sound(heap, roots \cup lost, {}, lost)
  BY DEF RInv, IInv
<1>2. /\ Children(heap, c) = Trees(heap)[c].kids /\ Trees(heap)[c].kids \in Seq(DOMAIN Trees(heap))
      /\ DOMAIN Trees(heap) = ItemsOf(heap)
  BY <1>1, OwnerKids, TreesHaveKids
<1> DEFINE s == Trees(heap)[c].kids
<1>3. cJSON_GetArraySize(c) = Len(s)
  BY <1>2 DEF cJSON_GetArraySize
<1>4. InsertAt(s, Len(s) + 1, i) = Append(s, i)
  BY <1>2, AppendIsInsert
<1> QED BY <1>3, <1>4 DEF AppendKid, InsertKid

(* An item put among the children of another one that is not below it. *)
LEMMA NoLoopsInsert ==
  ASSUME RInv, NEW c \in Owners(heap), NEW i \in ItemsOf(heap), Free(i, c),
         NEW which \in 0 .. Len(Trees(heap)[c].kids)
  PROVE  NoLoops(InsertKid(Trees(heap), c, which + 1, i))
<1> DEFINE t == Trees(heap)
           s == InsertAt(t[c].kids, which + 1, i)
<1>1. Sound(heap, roots \cup lost, {}, lost)
  BY DEF RInv, IInv
<1>2. t[c].kids \in Seq(DOMAIN t) /\ c \in DOMAIN t /\ Len(t[c].kids) \in Nat
  BY <1>1, OwnerKids
<1>3. HaveKids(t) /\ Whole(t) /\ NoLoops(t) /\ DOMAIN t = ItemsOf(heap)
  BY Begins
<1>4. c \notin Under(t, i)
  BY <1>3, FreeIs DEF RInv
<1>5. Entries(t[c].kids) = Forest!Kids(t, c)
  BY DEF Entries, Forest!Kids
<1> HIDE DEF t
<1>6. Entries(s) \subseteq Forest!Kids(t, c) \cup {i}
  <2>1. which + 1 \in 1 .. Len(t[c].kids) + 1
    BY <1>2 DEF t
  <2> QED BY <1>2, <1>5, <2>1, EntriesAre
<1> HIDE DEF s
<1>7. i \in DOMAIN t
  BY <1>3
<1>8. NoLoops(PutKids(t, c, s))
  BY ONLY <1>2, <1>3, <1>4, <1>6, <1>7, NoLoopsPut
<1> QED BY <1>8 DEF InsertKid, t, s

(* cJSON_AddItemToArray *)
LEMMA AddToArrayStep ==
  ASSUME RInv, NEW c \in Owners(heap), NEW i \in roots, AddToArray(c, i)
  PROVE  /\ cJSON_GetArraySize(c) \in 0 .. Len(Trees(heap)[c].kids)
         /\ Forest!Attach(c, cJSON_GetArraySize(c), i, NoKey, FALSE)
         /\ NoLoops(Trees(heap)')
<1> DEFINE m0 == Memory(0)
           m == add_item_to_array(m0, c, i)
           at == cJSON_GetArraySize(c)
           t == Trees(heap)
<1>1. Ready(m0, roots \cup lost, {}, lost) /\ m0.heap = heap /\ m0.ret = NULL /\ i \in ItemsOf(heap)
      /\ i # NULL /\ i \in roots \cup lost
  BY Begins
<1>2. Free(i, c) /\ Finish("insert", c, at, i, NoKey, m)
  BY DEF AddToArray
<1>3. c # i
  BY <1>1, <1>2, FreeIs DEF RInv
<1> HIDE DEF m0
<1>4. c \in Owners(m0.heap) /\ c \in ItemsOf(heap)
  BY <1>1 DEF Owners
<1> HIDE DEF m
<1>5. m.ok /\ m.ret = m0.ret /\ Trees(m.heap) = AppendKid(Trees(m0.heap), c, i)
  BY <1>1, <1>3, <1>4, AddToArrayTrees DEF m
<1>6. AppendKid(t, c, i) = InsertKid(t, c, at + 1, i)
  BY <1>1, AppendWhere
<1>7. m.ok /\ m.ret = NULL /\ Trees(m.heap) = InsertKid(t, c, at + 1, i)
  BY <1>1, <1>5, <1>6
<1>8. at \in 0 .. Len(t[c].kids)
  <2>1. Sound(heap, roots \cup lost, {}, lost)
    BY DEF RInv, IInv
  <2>2. at = Len(t[c].kids) /\ Len(t[c].kids) \in Nat
    BY <2>1, OwnerKids DEF cJSON_GetArraySize
  <2> QED BY <2>2
<1>9. NoLoops(InsertKid(t, c, at + 1, i))
  BY <1>1, <1>2, <1>8, NoLoopsInsert
<1>10. Trees(heap)' = Trees(m.heap)
  BY <1>2, FinishIs
<1> HIDE DEF at
<1>11. Forest!Attach(c, at, i, NoKey, FALSE)
  BY <1>1, <1>2, <1>3, <1>4, <1>7, AttachStep DEF RInv
<1>12. NoLoops(Trees(heap)')
  BY <1>7, <1>9, <1>10
<1> QED BY <1>8, <1>11, <1>12 DEF at

(* cJSON_InsertItemInArray *)
LEMMA InsertInArrayStep ==
  ASSUME RInv, NEW c \in Owners(heap), NEW i \in roots, NEW which \in 0 .. cJSON_GetArraySize(c),
         InsertInArray(c, which, i)
  PROVE  /\ which \in 0 .. Len(Trees(heap)[c].kids)
         /\ Forest!Attach(c, which, i, NoKey, FALSE)
         /\ NoLoops(Trees(heap)')
<1> DEFINE m0 == Memory(0)
           m == Insert(m0, c, which, i)
           t == Trees(heap)
<1>1. Ready(m0, roots \cup lost, {}, lost) /\ m0.heap = heap /\ m0.ret = NULL /\ i \in ItemsOf(heap)
      /\ i # NULL /\ i \in roots \cup lost
  BY Begins
<1>2. Free(i, c) /\ Finish("insert", c, which, i, NoKey, m)
  BY DEF InsertInArray
<1>3. c # i
  BY <1>1, <1>2, FreeIs DEF RInv
<1> HIDE DEF m0
<1>4. c \in Owners(m0.heap) /\ c \in ItemsOf(heap)
  BY <1>1 DEF Owners
<1>5. which \in 0 .. Len(t[c].kids) /\ which \in 0 .. Len(Children(m0.heap, c))
  <2>1. Sound(heap, roots \cup lost, {}, lost)
    BY DEF RInv, IInv
  <2>2. Children(heap, c) = t[c].kids
    BY <2>1, OwnerKids
  <2> QED BY <1>1, <2>2 DEF cJSON_GetArraySize
<1> HIDE DEF m
<1>6. m.ok /\ m.ret = m0.ret /\ Trees(m.heap) = InsertKid(Trees(m0.heap), c, which + 1, i)
  BY <1>1, <1>3, <1>4, <1>5, InsertTrees DEF m
<1>7. m.ok /\ m.ret = NULL /\ Trees(m.heap) = InsertKid(t, c, which + 1, i)
  BY <1>1, <1>6
<1>9. NoLoops(InsertKid(t, c, which + 1, i))
  BY <1>1, <1>2, <1>5, NoLoopsInsert
<1>10. Trees(heap)' = Trees(m.heap)
  BY <1>2, FinishIs
<1>11. Forest!Attach(c, which, i, NoKey, FALSE)
  BY <1>1, <1>2, <1>3, <1>4, <1>7, AttachStep DEF RInv
<1>12. NoLoops(Trees(heap)')
  BY <1>7, <1>9, <1>10
<1> QED BY <1>5, <1>11, <1>12

(* Another key leaves the shape of the trees. *)
LEMMA RenamedTrees ==
  ASSUME RInv, NEW i \in ItemsOf(heap), NEW key, NEW v, v = PutKey(Trees(heap), i, key)
  PROVE  /\ SameKids(Trees(heap), v) /\ HaveKids(v) /\ Whole(v) /\ NoLoops(v)
         /\ \A p \in ItemsOf(heap) : v[p].kids = Trees(heap)[p].kids
         /\ \A x : Under(v, x) = Under(Trees(heap), x)
<1>1. PICK lists : MemoryIs(heap, lists, roots \cup lost, {})
  BY DEF RInv, IInv, Sound
<1>2. HaveKids(Trees(heap)) /\ Whole(Trees(heap)) /\ NoLoops(Trees(heap)) /\ DOMAIN Trees(heap) = ItemsOf(heap)
  BY Begins
<1>3. SameKids(Trees(heap), v) /\ \A p \in ItemsOf(heap) : v[p].kids = Trees(heap)[p].kids
  BY <1>1, PutKeyKids
<1>4. Whole(v) /\ NoLoops(v) /\ \A x : Under(v, x) = Under(Trees(heap), x)
  BY <1>2, <1>3, SameKidsSame
<1>5. HaveKids(v)
  BY <1>2 DEF HaveKids, PutKey, IsMap
<1> QED BY <1>3, <1>4, <1>5

(* What a call adds to an object, with its key. *)
LEMMA PutStep ==
  ASSUME RInv, NEW c \in Owners(heap), NEW i \in ItemsOf(heap), c # i, NEW key,
         NEW at, at = cJSON_GetArraySize(c),
         NEW m, Finish("put", c, at, i, key, m), m.ret = NULL,
         \/ ~m.ok /\ Trees(m.heap) = Trees(heap)
         \/ m.ok /\ Trees(m.heap) = AppendKid(PutKey(Trees(heap), i, key), c, i)
  PROVE  Forest!Attach(c, at, i, key, TRUE)
<1> DEFINE t == Trees(heap)
           v == PutKey(t, i, key)
           s == InsertAt(t[c].kids, at + 1, i)
<1>1. /\ Trees(heap)' = Trees(m.heap)
      /\ m.ok => Forest!Result("put", c, at, i, key, TRUE, NULL)
      /\ ~m.ok => Forest!Result("put", c, at, i, key, FALSE, NULL)
  BY FinishIs
<1>2. c \in DOMAIN t /\ i \in DOMAIN t /\ IsMap(t) /\ c \in ItemsOf(heap)
  BY Begins DEF HaveKids, Owners
<1>3. CASE ~m.ok /\ Trees(m.heap) = Trees(heap)
  <2>1. Trees(heap)' = Trees(heap)
    BY <1>1, <1>3
  <2>2. Forest!Result("put", c, at, i, key, FALSE, Forest!NULL)
    BY <1>1, <1>3 DEF Forest!NULL, NULL
  <2> QED BY ONLY <2>1, <2>2, Zenon DEF Forest!Attach
<1>4. CASE m.ok /\ Trees(m.heap) = AppendKid(v, c, i)
  <2>1. v[c].kids = t[c].kids
    <3>1. v = PutKey(Trees(heap), i, key)
      OBVIOUS
    <3> HIDE DEF v
    <3> QED BY <1>2, <3>1, RenamedTrees
  <2>2. Append(t[c].kids, i) = s
    <3>1. Sound(heap, roots \cup lost, {}, lost)
      BY DEF RInv, IInv
    <3>2. Children(heap, c) = t[c].kids /\ t[c].kids \in Seq(DOMAIN t)
      BY <3>1, OwnerKids
    <3>3. at = Len(t[c].kids)
      BY <3>2 DEF cJSON_GetArraySize
    <3>4. InsertAt(t[c].kids, Len(t[c].kids) + 1, i) = Append(t[c].kids, i)
      BY <1>2, <3>2, AppendIsInsert
    <3> QED BY <3>3, <3>4
  <2>3. AppendKid(v, c, i) = PutKids(v, c, s)
    BY <2>1, <2>2 DEF AppendKid
  <2>4. [t EXCEPT ![c].kids = s, ![i].key = key] = PutKids(v, c, s)
    <3> HIDE DEF s, t
    <3> QED BY ONLY <1>2, c # i, KidsAndKey DEF v
  <2>5. Trees(heap)' = [t EXCEPT ![c].kids = s, ![i].key = key]
    BY <1>1, <1>4, <2>3, <2>4
  <2>6. Trees(heap)' = [Trees(heap) EXCEPT ![c].kids = Forest!InsertAt(@, at + 1, i),
                                           ![i].key = IF TRUE THEN key ELSE @]
    BY <2>5 DEF t, s, Forest!InsertAt, InsertAt
  <2>7. Forest!Result("put", c, at, i, key, TRUE, Forest!NULL)
    BY <1>1, <1>4 DEF Forest!NULL, NULL
  <2> QED BY ONLY <2>6, <2>7, Zenon DEF Forest!Attach
<1> QED BY <1>3, <1>4

(* cJSON_AddItemToObject and ...ToObjectCS *)
LEMMA AddToObjectStep ==
  ASSUME RInv, NEW c \in Owners(heap), NEW i \in roots, NEW key \in Keys,
         NEW constant_key, IsFlag(constant_key), NEW fuel, AddToObject(c, i, key, constant_key, fuel)
  PROVE  /\ cJSON_GetArraySize(c) \in 0 .. Len(Trees(heap)[c].kids)
         /\ Forest!Attach(c, cJSON_GetArraySize(c), i, key, TRUE)
         /\ NoLoops(Trees(heap)')
<1> DEFINE m0 == Memory(fuel)
           m == add_item_to_object(m0, c, key, i, constant_key)
           at == cJSON_GetArraySize(c)
           t == Trees(heap)
           v == PutKey(t, i, key)
<1>1. /\ Ready(m0, roots \cup lost, {}, lost) /\ m0.heap = heap /\ m0.ret = NULL /\ i \in ItemsOf(heap)
      /\ i # NULL /\ i \in roots \cup lost /\ NoLoops(t) /\ DOMAIN t = ItemsOf(heap)
  BY Begins
<1>2. /\ Free(i, c) /\ (constant_key => key = StaticText) /\ Finish("put", c, at, i, key, m)
      /\ key \in Seq(Byte)
  BY Passed DEF AddToObject, RInv
<1>3. c # i /\ c \notin Under(t, i)
  BY <1>1, <1>2, FreeIs DEF RInv
<1> HIDE DEF m0
<1>4. c \in Owners(m0.heap) /\ c \in ItemsOf(heap) /\ (i = NULL \/ i \in roots \cup lost)
  BY <1>1 DEF Owners
<1> HIDE DEF m
<1>5. AddsToObject(m0, m, c, i, key)
  BY <1>1, <1>2, <1>4, AddToObjectTrees DEF m
<1>6. m.ret = NULL /\ \/ ~m.ok /\ Trees(m.heap) = Trees(heap)
                      \/ m.ok /\ Trees(m.heap) = AppendKid(PutKey(Trees(heap), i, key), c, i)
  BY <1>1, <1>5 DEF AddsToObject
<1>7. at \in 0 .. Len(t[c].kids) /\ t[c].kids \in Seq(DOMAIN t)
  <2>1. Sound(heap, roots \cup lost, {}, lost)
    BY DEF RInv, IInv
  <2>2. at = Len(t[c].kids) /\ Len(t[c].kids) \in Nat /\ t[c].kids \in Seq(DOMAIN t)
    BY <2>1, OwnerKids DEF cJSON_GetArraySize
  <2> QED BY <2>2
<1>8. Trees(heap)' = Trees(m.heap)
  BY <1>2, FinishIs
<1>9. NoLoops(AppendKid(v, c, i))
  <2>1. /\ SameKids(t, v) /\ HaveKids(v) /\ Whole(v) /\ NoLoops(v)
        /\ v[c].kids = t[c].kids /\ Under(v, i) = Under(t, i)
    <3>1. v = PutKey(Trees(heap), i, key)
      OBVIOUS
    <3> HIDE DEF v
    <3> QED BY <1>1, <1>4, <3>1, RenamedTrees
  <2> DEFINE s == Append(v[c].kids, i)
  <2> HIDE DEF v
  <2>2. Entries(s) \subseteq Entries(v[c].kids) \cup {i}
    BY <1>7, <2>1, EntriesAre
  <2>3. Entries(v[c].kids) = Forest!Kids(v, c)
    BY DEF Entries, Forest!Kids
  <2>4. c \in DOMAIN v /\ i \in DOMAIN v /\ c \notin Under(v, i)
    BY <1>1, <1>3, <1>4, <2>1 DEF SameKids
  <2> HIDE DEF s
  <2>5. NoLoops(PutKids(v, c, s))
    BY <2>1, <2>2, <2>3, <2>4, NoLoopsPut
  <2> QED BY <2>5 DEF AppendKid, s
<1>10. NoLoops(Trees(heap)')
  <2>1. CASE Trees(m.heap) = Trees(heap)
    BY <1>1, <1>8, <2>1
  <2>2. CASE Trees(m.heap) = AppendKid(v, c, i)
    BY <1>8, <1>9, <2>2
  <2> QED BY <1>6, <2>1, <2>2
<1>11. at = cJSON_GetArraySize(c)
  OBVIOUS
<1> HIDE DEF at
<1>12. Forest!Attach(c, at, i, key, TRUE)
  BY <1>1, <1>2, <1>3, <1>6, <1>11, PutStep
<1> QED BY <1>7, <1>10, <1>11, <1>12

(* The trees after a replacement, of which key says whether i gets a key. *)
Named(t, i, key) == IF key = NoKey THEN t ELSE PutKey(t, i, key)

(* An item takes the place of another one. *)
LEMMA ReplaceStep ==
  ASSUME RInv, NEW c \in Owners(heap), NEW i \in ItemsOf(heap), Free(i, c), NEW key,
         NEW at, NEW item, IsKid(Trees(heap), c, at + 1, item), at \in Nat,
         NEW m, Finish("replace", c, at, i, key, m), m.ret = NULL, m.ok,
         Trees(m.heap) = Forest!Without(ReplaceKid(Named(Trees(heap), i, key), c, at + 1, i),
                                        Under(Trees(heap), item))
  PROVE  Forest!Replace(c, at, i, key) /\ NoLoops(Trees(heap)') /\ at \in 0 .. Len(Trees(heap)[c].kids)
<1> DEFINE t == Trees(heap)
           v == Named(t, i, key)
           newkey == IF key = NoKey THEN t[i].key ELSE key
           s == ReplaceAt(t[c].kids, at + 1, i)
           w == [t EXCEPT ![c].kids = s, ![i].key = newkey]
<1>1. /\ Trees(heap)' = Trees(m.heap) /\ Forest!Result("replace", c, at, i, key, TRUE, NULL)
  BY FinishIs
<1>2. /\ c \in DOMAIN t /\ i \in DOMAIN t /\ IsMap(t) /\ c \in ItemsOf(heap)
      /\ HaveKids(t) /\ Whole(t) /\ NoLoops(t) /\ DOMAIN t = ItemsOf(heap)
  BY Begins DEF HaveKids, Owners
<1>3. c \notin Under(t, i) /\ c # i
  BY FreeIs DEF RInv
<1>4. Sound(heap, roots \cup lost, {}, lost)
  BY DEF RInv, IInv
<1>5. t[c].kids \in Seq(DOMAIN t) /\ Len(t[c].kids) \in Nat /\ DOMAIN t[c].kids = 1 .. Len(t[c].kids)
  BY <1>4, OwnerKids
<1>6. /\ at < Len(t[c].kids) /\ at + 1 \in 1 .. Len(t[c].kids) /\ item = t[c].kids[at + 1]
      /\ at \in 0 .. Len(t[c].kids)
  BY <1>5 DEF IsKid
<1>7. item \in ItemsOf(heap)
  BY <1>2, <1>5, <1>6
<1>8. Forest!Below(t[c].kids[at + 1]) = Under(t, item)
  BY <1>4, <1>6, <1>7, ForestBelow
<1>9. v = PutKey(t, i, newkey)
  <2>1. PutKey(t, i, t[i].key) = t
    BY <1>4, NodeHas
  <2> QED BY <2>1 DEF Named
<1>10. /\ v[c].kids = t[c].kids /\ HaveKids(v) /\ Whole(v) /\ NoLoops(v) /\ Under(v, i) = Under(t, i)
       /\ DOMAIN v = DOMAIN t
  <2> HIDE DEF v, newkey
  <2>1. v = PutKey(Trees(heap), i, newkey)
    BY <1>9
  <2>2. /\ SameKids(Trees(heap), v) /\ HaveKids(v) /\ Whole(v) /\ NoLoops(v)
        /\ \A p \in ItemsOf(heap) : v[p].kids = Trees(heap)[p].kids
        /\ \A x : Under(v, x) = Under(Trees(heap), x)
    BY <2>1, RenamedTrees
  <2> QED BY <1>2, <2>2 DEF SameKids
<1>11. w = PutKids(v, c, s)
  <2> HIDE DEF s, t, newkey, v
  <2>1. [t EXCEPT ![c].kids = s, ![i].key = newkey] = PutKids(PutKey(t, i, newkey), c, s)
    BY ONLY <1>2, <1>3, KidsAndKey
  <2> QED BY <1>9, <2>1
<1>12. ReplaceKid(v, c, at + 1, i) = w
  BY <1>10, <1>11 DEF ReplaceKid
<1>13. Trees(heap)' = Forest!Without(w, Under(t, item))
  BY <1>1, <1>12
<1>14. w = [Trees(heap) EXCEPT ![c].kids = Forest!ReplaceAt(@, at + 1, i),
                               ![i].key = IF key = Forest!NoKey THEN @ ELSE key]
  BY DEF Forest!ReplaceAt, ReplaceAt, NoKey, Forest!NoKey
<1>15. NoLoops(w)
  <2> HIDE DEF w, v
  <2>1. Entries(s) \subseteq Entries(t[c].kids) \cup {i}
    <3>1. PICK k : k = at + 1
      OBVIOUS
    <3>2. Entries(ReplaceAt(t[c].kids, k, i)) \subseteq Entries(t[c].kids) \cup {i}
      <4> DEFINE ks == t[c].kids
      <4>1. ks \in Seq(DOMAIN t) /\ k \in 1 .. Len(ks)
        BY <1>5, <1>6, <3>1
      <4> HIDE DEF ks
      <4>2. Entries(ReplaceAt(ks, k, i)) \subseteq Entries(ks) \cup {i}
        BY <4>1, EntriesAre
      <4> QED BY <4>2 DEF ks
    <3> QED BY <3>1, <3>2
  <2>2. Entries(t[c].kids) = Forest!Kids(v, c)
    BY <1>10 DEF Entries, Forest!Kids
  <2> HIDE DEF s, t
  <2>3. NoLoops(PutKids(v, c, s))
    BY <1>2, <1>3, <1>10, <2>1, <2>2, NoLoopsPut
  <2> QED BY <1>11, <2>3
<1> HIDE DEF w
<1>16. NoLoops(Trees(heap)')
  BY <1>13, <1>15, NoLoopsWithout
<1>17. Forest!Result("replace", c, at, i, key, TRUE, Forest!NULL)
  BY <1>1 DEF NULL, Forest!NULL
<1>18. Trees(heap)' = Forest!Without([Trees(heap) EXCEPT ![c].kids = Forest!ReplaceAt(@, at + 1, i),
                                             ![i].key = IF key = Forest!NoKey THEN @ ELSE key],
                                     Forest!Below(Trees(heap)[c].kids[at + 1]))
  BY <1>8, <1>13, <1>14
<1>19. at < Len(Trees(heap)[c].kids)
  BY <1>6
<1>20. Forest!Replace(c, at, i, key)
  BY ONLY <1>17, <1>18, <1>19, Zenon DEF Forest!Replace
<1> QED BY <1>6, <1>16, <1>20

(* cJSON_ReplaceItemInArray *)
LEMMA ReplaceInArrayStep ==
  ASSUME RInv, NEW c \in Owners(heap), NEW i \in roots, NEW which \in 0 .. cJSON_GetArraySize(c),
         ReplaceInArray(c, which, i)
  PROVE  /\ which \in 0 .. Len(Trees(heap)[c].kids)
         /\ Forest!Replace(c, which, i, NoKey)
         /\ NoLoops(Trees(heap)')
<1> DEFINE m0 == Memory(0)
           item == get_array_item(m0, c, which)
           m == ReplaceItem(m0, c, item, i)
           t == Trees(heap)
<1>1. Ready(m0, roots \cup lost, {}, lost) /\ m0.heap = heap /\ m0.ret = NULL /\ i \in ItemsOf(heap)
      /\ i \in roots \cup lost /\ NoLoops(t)
  BY Begins
<1>2. Free(i, c) /\ Finish("replace", c, which, i, NoKey, m)
  BY DEF ReplaceInArray
<1> HIDE DEF m0
<1>3. /\ which \in 0 .. Len(t[c].kids)
      /\ which < Len(t[c].kids) => IsKid(t, c, which + 1, item)
      /\ which = Len(t[c].kids) => item = NULL
  <2> HIDE DEF item
  <2>1. item = get_array_item(m0, c, which)
    BY DEF item
  <2> QED BY <1>1, <2>1, IndexFinds DEF RInv
<1>4. /\ Trees(heap)' = Trees(m.heap) /\ (~m.ok => Forest!Result("replace", c, which, i, NoKey, FALSE, m.ret))
  <2> HIDE DEF m
  <2> QED BY <1>2, FinishIs
<1>5. CASE which < Len(t[c].kids)
  <2> DEFINE k == which + 1
  <2>1. IsKid(t, c, k, item) /\ c \in Owners(m0.heap) /\ NoLoops(Trees(m0.heap)) /\ IsKid(Trees(m0.heap), c, k, item)
    BY <1>1, <1>3, <1>5
  <2> HIDE DEF item, k
  <2>2. m = ReplaceItem(m0, c, item, i)
    OBVIOUS
  <2> HIDE DEF m
  <2>3. ReplacedIn(m0, m, c, k, i, item)
    BY ONLY <1>1, <2>1, <2>2, ReplaceTrees
  <2>4. m.ok /\ m.ret = NULL /\ Trees(m.heap) = Forest!Without(ReplaceKid(t, c, k, i), Under(t, item))
    BY <1>1, <2>3 DEF ReplacedIn
  <2>5. Named(t, i, NoKey) = t /\ which \in Nat
    BY <1>3 DEF Named
  <2>6. Trees(m.heap) = Forest!Without(ReplaceKid(Named(Trees(heap), i, NoKey), c, which + 1, i),
                                       Under(Trees(heap), item))
        /\ IsKid(Trees(heap), c, which + 1, item)
    BY <2>1, <2>4, <2>5 DEF k
  <2>7. Forest!Replace(c, which, i, NoKey) /\ NoLoops(Trees(heap)')
    BY <1>1, <1>2, <2>4, <2>5, <2>6, ReplaceStep
  <2> QED BY <1>3, <2>7
<1>6. CASE which = Len(t[c].kids)
  <2>1. m = Fail(m0)
    BY <1>3, <1>6 DEF ReplaceItem
  <2>2. m.heap = heap /\ m.ret = NULL /\ ~m.ok
    BY <1>1, <2>1 DEF Fail, Ready
  <2>3. Trees(heap)' = Trees(heap) /\ Forest!Result("replace", c, which, i, NoKey, FALSE, Forest!NULL)
    BY <1>4, <2>2 DEF NULL, Forest!NULL
  <2>4. Forest!Replace(c, which, i, NoKey)
    BY ONLY <2>3, Zenon DEF Forest!Replace
  <2> QED BY <1>1, <1>3, <2>3, <2>4
<1>7. which < Len(t[c].kids) \/ which = Len(t[c].kids)
  <2>1. Sound(heap, roots \cup lost, {}, lost)
    BY DEF RInv, IInv
  <2>2. Len(t[c].kids) \in Nat
    BY <2>1, OwnerKids
  <2> QED BY <1>3, <2>2
<1> QED BY <1>5, <1>6, <1>7

(* No name that is passed is the one that stands for none. *)
LEMMA KeyIsName ==
  ASSUME NEW key \in Seq(Byte)
  PROVE  key # NoKey
<1>1. SUFFICES ASSUME key = NoKey PROVE FALSE
  OBVIOUS
<1>2. Len(key) = 1 /\ key[1] = -1
  BY <1>1 DEF NoKey
<1>3. key[1] \in Byte
  BY <1>2
<1> QED BY <1>2, <1>3 DEF Byte

(* The place of what a look-up found. *)
LEMMA PlaceFound ==
  ASSUME RInv, NEW c \in Owners(heap), NEW item, NullOrChild(heap, c, item)
  PROVE  /\ IndexOf(c, item) \in 0 .. Len(Trees(heap)[c].kids)
         /\ item = NULL => IndexOf(c, item) = Len(Trees(heap)[c].kids)
         /\ item # NULL => \E k : /\ IsKid(Trees(heap), c, k, item) /\ IndexOf(c, item) = k - 1
                                  /\ k \in 1 .. Len(Trees(heap)[c].kids)
<1> DEFINE n == Len(Trees(heap)[c].kids)
<1>1. IInv /\ Sound(heap, roots \cup lost, {}, lost)
  BY DEF RInv, IInv
<1>2. n \in Nat /\ DOMAIN Trees(heap)[c].kids = 1 .. n
  BY <1>1, OwnerKids
<1>3. item = NULL \/ \E k : IsKid(Trees(heap), c, k, item)
  BY <1>1, KidFound
<1>4. /\ item = NULL => IndexOf(c, item) = n
      /\ \A k : IsKid(Trees(heap), c, k, item) => IndexOf(c, item) = k - 1
  BY <1>1, IndexOfIs
<1>5. \A k : IsKid(Trees(heap), c, k, item) => k \in 1 .. n
  BY <1>2 DEF IsKid
<1>6. \A k \in 1 .. n : k - 1 \in 0 .. n
  BY <1>2
<1>7. n \in 0 .. n
  BY <1>2
<1>8. IndexOf(c, item) \in 0 .. n
  BY <1>3, <1>4, <1>5, <1>6, <1>7
<1> HIDE DEF n
<1> QED BY <1>3, <1>4, <1>5, <1>8 DEF n

(* cJSON_ReplaceItemInObject and ...InObjectCaseSensitive *)
LEMMA ReplaceInObjectStep ==
  ASSUME RInv, NEW c \in Owners(heap), NEW i \in roots, NEW key \in Keys,
         NEW case_sensitive \in BOOLEAN, NEW fuel, ReplaceInObject(c, i, key, case_sensitive, fuel)
  PROVE  /\ \E at \in 0 .. Len(Trees(heap)[c].kids) : Forest!Replace(c, at, i, key)
         /\ NoLoops(Trees(heap)')
<1> DEFINE m0 == Memory(fuel)
           m1 == Memory(0)
           m == replace_item_in_object(m0, c, key, i, case_sensitive)
           old == get_object_item(m1, c, key, case_sensitive)
           at == IndexOf(c, old)
           t == Trees(heap)
<1>1. /\ Ready(m0, roots \cup lost, {}, lost) /\ m0.heap = heap /\ m1.heap = m0.heap /\ i \in ItemsOf(heap)
      /\ i \in roots \cup lost /\ NoLoops(Trees(m0.heap)) /\ NoLoops(t)
  BY Begins
<1>2. Free(i, c) /\ Finish("replace", c, at, i, key, m)
  BY DEF ReplaceInObject
<1>3. key \in Seq(Byte) /\ c \in Owners(m0.heap)
  BY <1>1, Passed DEF RInv
<1>4. key # NoKey
  BY <1>3, KeyIsName
<1>5. NullOrChild(heap, c, old)
  BY FoundIs DEF RInv, Found
<1> HIDE DEF m0, m1
<1>6. old = get_object_item(m1, c, key, case_sensitive) /\ m = replace_item_in_object(m0, c, key, i, case_sensitive)
  OBVIOUS
<1> HIDE DEF old, m
<1>7. ReplacesInObject(m0, m, c, i, key, old)
  BY ONLY <1>1, <1>3, <1>6, ReplaceInObjectTrees
<1>8. /\ at \in 0 .. Len(t[c].kids)
      /\ old # NULL => \E k : IsKid(t, c, k, old) /\ at = k - 1 /\ k \in 1 .. Len(t[c].kids)
  BY <1>5, PlaceFound
<1> HIDE DEF at
<1>9. /\ Trees(heap)' = Trees(m.heap)
      /\ ~m.ok => Forest!Result("replace", c, at, i, key, FALSE, m.ret)
  BY <1>2, FinishIs
<1>10. CASE /\ ~m.ok /\ m.ret = NULL
            /\ \E k \in {key, NoKey} : Trees(m.heap) = PutKey(t, i, k)
  <2>1. PICK k \in {key, NoKey} : Trees(m.heap) = PutKey(t, i, k)
    BY <1>10
  <2>2. Forest!Result("replace", c, at, i, key, FALSE, Forest!NULL)
    BY <1>9, <1>10 DEF NULL, Forest!NULL
  <2>3. k \in {key, Forest!NoKey} /\ key # Forest!NoKey
    BY <1>4 DEF NoKey, Forest!NoKey
  <2>4. Trees(heap)' = [Trees(heap) EXCEPT ![i].key = k]
    BY <1>9, <2>1 DEF PutKey
  <2>5. Forest!Replace(c, at, i, key)
    BY ONLY <2>2, <2>3, <2>4, Zenon DEF Forest!Replace
  <2>6. NoLoops(PutKey(t, i, k))
    <3>1. PICK v : v = PutKey(Trees(heap), i, k)
      OBVIOUS
    <3>2. NoLoops(v)
      BY <1>1, <3>1, RenamedTrees
    <3> QED BY <3>1, <3>2
  <2>7. NoLoops(Trees(heap)')
    BY <1>9, <2>1, <2>6
  <2> QED BY <1>8, <2>5, <2>7
<1>11. CASE /\ m.ok /\ m.ret = NULL
            /\ \E k : /\ IsKid(t, c, k, old)
                      /\ Trees(m.heap) = Forest!Without(ReplaceKid(PutKey(t, i, key), c, k, i), Under(t, old))
  <2>1. PICK k : /\ IsKid(t, c, k, old)
                 /\ Trees(m.heap) = Forest!Without(ReplaceKid(PutKey(t, i, key), c, k, i), Under(t, old))
    BY <1>11
  <2>2. Sound(heap, roots \cup lost, {}, lost) /\ IInv
    BY DEF RInv, IInv
  <2>3. DOMAIN t[c].kids = 1 .. Len(t[c].kids)
    BY <2>2, OwnerKids
  <2>4. k \in 1 .. Len(t[c].kids)
    BY <2>1, <2>3 DEF IsKid
  <2>5. at = k - 1
    BY <2>1, <2>2, IndexOfIs DEF at
  <2>6. k = at + 1 /\ at \in Nat
    BY <2>4, <2>5
  <2>7. Named(t, i, key) = PutKey(t, i, key)
    BY <1>4 DEF Named
  <2>8. /\ IsKid(Trees(heap), c, at + 1, old)
        /\ Trees(m.heap) = Forest!Without(ReplaceKid(Named(Trees(heap), i, key), c, at + 1, i),
                                          Under(Trees(heap), old))
    BY <2>1, <2>6, <2>7
  <2>9. Forest!Replace(c, at, i, key) /\ NoLoops(Trees(heap)')
    BY <1>1, <1>2, <1>11, <2>6, <2>8, ReplaceStep
  <2> QED BY <1>8, <2>9
<1> QED BY <1>1, <1>7, <1>10, <1>11 DEF ReplacesInObject

(* A list without one of its entries. *)
LEMMA NoLoopsRemove ==
  ASSUME RInv, NEW c \in Owners(heap), NEW k, NEW item, IsKid(Trees(heap), c, k, item)
  PROVE  /\ NoLoops(RemoveKid(Trees(heap), c, k))
         /\ k \in 1 .. Len(Trees(heap)[c].kids)
         /\ item \in ItemsOf(heap) /\ c \notin Under(Trees(heap), item)
<1> DEFINE t == Trees(heap)
           s == RemoveAt(t[c].kids, k)
<1>1. Sound(heap, roots \cup lost, {}, lost)
  BY DEF RInv, IInv
<1>2. /\ t[c].kids \in Seq(DOMAIN t) /\ c \in DOMAIN t /\ Len(t[c].kids) \in Nat
      /\ DOMAIN t[c].kids = 1 .. Len(t[c].kids)
  BY <1>1, OwnerKids
<1>3. HaveKids(t) /\ Whole(t) /\ NoLoops(t) /\ DOMAIN t = ItemsOf(heap)
  BY Begins
<1>4. Entries(t[c].kids) = Forest!Kids(t, c)
  BY DEF Entries, Forest!Kids
<1> HIDE DEF t
<1>5. k \in 1 .. Len(t[c].kids) /\ item = t[c].kids[k]
  BY <1>2 DEF IsKid, t
<1>6. Entries(s) \subseteq Forest!Kids(t, c)
  BY <1>2, <1>4, <1>5, EntriesAre
<1> HIDE DEF s
<1>7. NoLoops(PutKids(t, c, s))
  BY ONLY <1>2, <1>3, <1>6, NoLoopsDropped
<1>8. item \in DOMAIN t /\ item \in Forest!Kids(t, c)
  BY <1>2, <1>5 DEF Forest!Kids
<1>9. c \notin Under(t, item)
  BY <1>2, <1>3, <1>8, NotUnderKid
<1> QED BY <1>3, <1>5, <1>7, <1>8, <1>9 DEF RemoveKid, t, s

(* cJSON_DetachItemFrom..., of what a look-up found. *)
LEMMA TakeOutStep ==
  ASSUME RInv, NEW c \in Owners(heap), NEW item, NullOrChild(heap, c, item), TakeOut(c, item)
  PROVE  /\ \E at \in 0 .. Len(Trees(heap)[c].kids) : Forest!Detach(c, at)
         /\ NoLoops(Trees(heap)')
<1> DEFINE m0 == Memory(0)
           m == Detach(m0, c, item)
           at == IndexOf(c, item)
           t == Trees(heap)
<1>1. /\ Ready(m0, roots \cup lost, {}, lost) /\ m0.heap = heap /\ NoLoops(t) /\ c \in Owners(m0.heap)
  BY Begins
<1>2. Finish("detach", c, at, NULL, NoKey, m)
  BY DEF TakeOut
<1>3. /\ at \in 0 .. Len(t[c].kids)
      /\ item = NULL => at = Len(t[c].kids)
      /\ item # NULL => \E k : IsKid(t, c, k, item) /\ at = k - 1 /\ k \in 1 .. Len(t[c].kids)
  BY PlaceFound
<1>4. NULL = Forest!NULL /\ NoKey = Forest!NoKey
  BY DEF NULL, Forest!NULL, NoKey, Forest!NoKey
<1> HIDE DEF m0, at
<1>5. /\ Trees(heap)' = Trees(m.heap)
      /\ m.ok => Forest!Result("detach", c, at, NULL, NoKey, TRUE, m.ret)
      /\ ~m.ok => Forest!Result("detach", c, at, NULL, NoKey, FALSE, m.ret)
  <2> HIDE DEF m
  <2> QED BY <1>2, FinishIs
<1>6. CASE item = NULL
  <2>1. m = Return(m0, NULL)
    BY <1>6 DEF Detach
  <2>2. m.heap = heap /\ ~m.ok /\ m.ret = NULL
    BY <1>1, <2>1 DEF Return, Ready
  <2>3. Forest!Result("detach", c, at, Forest!NULL, Forest!NoKey, FALSE, Forest!NULL) /\ Trees(heap)' = Trees(heap)
    BY <1>4, <1>5, <2>2
  <2>4. at = Len(Trees(heap)[c].kids)
    BY <1>3, <1>6
  <2>5. Forest!Detach(c, at)
    BY ONLY <2>3, <2>4, Zenon DEF Forest!Detach
  <2> QED BY <1>1, <1>3, <2>3, <2>5
<1>7. CASE item # NULL
  <2>1. PICK k : IsKid(t, c, k, item) /\ at = k - 1 /\ k \in 1 .. Len(t[c].kids)
    BY <1>3, <1>7
  <2>2. m = Detach(m0, c, item) /\ IsKid(Trees(m0.heap), c, k, item)
    BY <1>1, <2>1
  <2> HIDE DEF m
  <2>3. m.ret = item /\ m.ok /\ Trees(m.heap) = RemoveKid(Trees(m0.heap), c, k)
    BY ONLY <1>1, <2>2, DetachTrees
  <2>4. NoLoops(RemoveKid(t, c, k))
    BY <2>1, NoLoopsRemove
  <2>5. k = at + 1 /\ at < Len(Trees(heap)[c].kids) /\ item = Trees(heap)[c].kids[at + 1]
    BY <2>1 DEF IsKid
  <2>6. Forest!Result("detach", c, at, Forest!NULL, Forest!NoKey, TRUE, Trees(heap)[c].kids[at + 1])
    BY <1>4, <1>5, <2>3, <2>5
  <2>7. Trees(heap)' = RemoveKid(t, c, at + 1)
    BY <1>1, <1>5, <2>3, <2>5
  <2>8. Trees(heap)' = [Trees(heap) EXCEPT ![c].kids = Forest!RemoveAt(@, at + 1)]
    BY <2>7 DEF RemoveKid, PutKids, Forest!RemoveAt, RemoveAt
  <2>9. at < Len(Trees(heap)[c].kids)
    BY <2>5
  <2>10. Forest!Detach(c, at)
    BY ONLY <2>6, <2>8, <2>9, Zenon DEF Forest!Detach
  <2>11. NoLoops(Trees(heap)')
    BY <2>4, <2>5, <2>7
  <2> QED BY <1>3, <2>10, <2>11
<1> QED BY <1>6, <1>7

(* cJSON_DeleteItemFrom..., of what a look-up found. *)
LEMMA DeleteFromStep ==
  ASSUME RInv, NEW c \in Owners(heap), NEW item, NullOrChild(heap, c, item), DeleteFrom(c, item)
  PROVE  /\ \E at \in 0 .. Len(Trees(heap)[c].kids) : Forest!DeleteAt(c, at)
         /\ NoLoops(Trees(heap)')
<1> DEFINE R == roots \cup lost
           m0 == Memory(0)
           m == Detach(m0, c, item)
           r == m.ret
           deleted == cJSON_Delete(m, r)
           done == Void(deleted)
           at == IndexOf(c, item)
           t == Trees(heap)
<1>1. /\ Ready(m0, R, {}, lost) /\ m0.heap = heap /\ NoLoops(t) /\ c \in Owners(m0.heap)
      /\ NullOrChild(m0.heap, c, item) /\ HaveKids(t) /\ Whole(t) /\ DOMAIN t = ItemsOf(heap)
      /\ c \in DOMAIN t
  BY Begins DEF Owners
<1>2. Finish("deleteAt", c, at, NULL, NoKey, done)
  BY DEF DeleteFrom
<1>3. /\ at \in 0 .. Len(t[c].kids)
      /\ item = NULL => at = Len(t[c].kids)
      /\ item # NULL => \E k : IsKid(t, c, k, item) /\ at = k - 1 /\ k \in 1 .. Len(t[c].kids)
  BY PlaceFound
<1>4. NULL = Forest!NULL /\ NoKey = Forest!NoKey
  BY DEF NULL, Forest!NULL, NoKey, Forest!NoKey
<1> HIDE DEF m0, at, R
<1>5. \/ r = NULL /\ Ready(m, R, {}, lost)
      \/ r # NULL /\ r \notin R /\ Ready(m, R \cup {r}, {}, lost)
  <2>1. m = Detach(m0, c, item)
    OBVIOUS
  <2> HIDE DEF m
  <2> QED BY <1>1, <2>1, DetachFrom
<1>6. Ready(m, R, {}, lost) \/ Ready(m, R \cup {r}, {}, lost)
  BY <1>5
<1>7. DOMAIN m = {"heap", "room", "fuel", "ret", "ok", "bad", "oom", "off", "depth"}
  BY <1>6 DEF Ready
<1>8. DOMAIN deleted = DOMAIN m
  <2> HIDE DEF m
  <2> QED BY DEF cJSON_Delete
<1>9. done.heap = deleted.heap /\ done.ok = TRUE /\ done.ret = NULL
  <2> HIDE DEF deleted
  <2> QED BY <1>7, <1>8 DEF Void
<1> HIDE DEF done, deleted
<1>10. /\ Trees(heap)' = Trees(done.heap)
       /\ done.ok => Forest!Result("deleteAt", c, at, NULL, NoKey, TRUE, done.ret)
  BY <1>2, FinishIs
<1>11. /\ Trees(heap)' = Trees(deleted.heap)
       /\ Forest!Result("deleteAt", c, at, Forest!NULL, Forest!NoKey, TRUE, Forest!NULL)
  BY <1>4, <1>9, <1>10
<1>12. CASE item = NULL
  <2>1. m = Return(m0, NULL)
    BY <1>12 DEF Detach
  <2>2. m.heap = heap /\ r = NULL
    BY <1>1, <2>1 DEF Return, Ready
  <2> HIDE DEF m
  <2>3. deleted = cJSON_Delete(m, NULL) /\ Ready(m, R, {}, lost)
    BY <1>5, <2>2 DEF deleted
  <2>4. deleted.heap = m.heap
    BY ONLY <2>3, DeleteNull
  <2>5. Trees(heap)' = Trees(heap)
    BY <1>11, <2>2, <2>4
  <2>6. at = Len(Trees(heap)[c].kids)
    BY <1>3, <1>12
  <2>7. Forest!DeleteAt(c, at)
    BY ONLY <1>11, <2>5, <2>6, Zenon DEF Forest!DeleteAt
  <2> QED BY <1>1, <1>3, <2>5, <2>7
<1>13. CASE item # NULL
  <2>1. PICK k : IsKid(t, c, k, item) /\ at = k - 1 /\ k \in 1 .. Len(t[c].kids)
    BY <1>3, <1>13
  <2>2. m = Detach(m0, c, item) /\ IsKid(Trees(m0.heap), c, k, item)
    BY <1>1, <2>1
  <2> HIDE DEF m
  <2>3. r = item /\ m.ok /\ Trees(m.heap) = RemoveKid(Trees(m0.heap), c, k)
    BY ONLY <1>1, <2>2, DetachTrees
  <2>4. NoLoops(RemoveKid(t, c, k)) /\ item \in ItemsOf(heap) /\ c \notin Under(t, item)
    BY <2>1, NoLoopsRemove
  <2> DEFINE u == RemoveKid(t, c, k)
             S == R \cup {item}
  <2>5. Trees(m.heap) = u
    BY <1>1, <2>3
  <2>6. Ready(m, S, {}, lost) /\ item \in S /\ deleted = cJSON_Delete(m, item)
    BY <1>5, <1>13, <2>3 DEF deleted
  <2> HIDE DEF S
  <2>7. Trees(deleted.heap) = Forest!Without(Trees(m.heap), Under(Trees(m.heap), item))
    BY ONLY <2>6, DeleteTrees
  <2>8. Whole(u)
    <3>1. Sound(m.heap, S, {}, lost)
      BY <2>6 DEF Ready
    <3> QED BY <2>5, <3>1, TreesHaveKids
  <2>9. Under(u, item) = Under(t, item)
    <3> DEFINE s == RemoveAt(t[c].kids, k)
    <3>1. u = PutKids(t, c, s) /\ item \in DOMAIN t
      BY <1>1, <2>4 DEF RemoveKid
    <3> HIDE DEF u, s, t
    <3> QED BY ONLY <1>1, <2>4, <2>8, <3>1, UnderPutKids
  <2>10. k = at + 1 /\ at < Len(Trees(heap)[c].kids) /\ item = Trees(heap)[c].kids[at + 1]
    BY <2>1 DEF IsKid
  <2>11. Forest!Below(item) = Under(t, item)
    <3>1. Sound(heap, roots \cup lost, {}, lost)
      BY DEF RInv, IInv
    <3> QED BY <2>4, <3>1, ForestBelow
  <2>12. u = [Trees(heap) EXCEPT ![c].kids = Forest!RemoveAt(@, at + 1)]
    BY <2>10 DEF RemoveKid, PutKids, Forest!RemoveAt, RemoveAt
  <2> HIDE DEF u
  <2>13. Trees(heap)' = Forest!Without(u, Under(t, item))
    BY <1>11, <2>5, <2>7, <2>9
  <2>14. Trees(heap)' = Forest!Without([Trees(heap) EXCEPT ![c].kids = Forest!RemoveAt(@, at + 1)],
                                       Forest!Below(Trees(heap)[c].kids[at + 1]))
    BY <2>10, <2>11, <2>12, <2>13
  <2>15. at < Len(Trees(heap)[c].kids)
    BY <2>10
  <2>16. Forest!DeleteAt(c, at)
    BY ONLY <1>11, <2>14, <2>15, Zenon DEF Forest!DeleteAt
  <2>17. NoLoops(Trees(heap)')
    BY <2>4, <2>13, NoLoopsWithout DEF u
  <2> QED BY <1>3, <2>16, <2>17
<1> QED BY <1>12, <1>13

(* cJSON_Delete of what the program holds. *)
LEMMA DeleteStep ==
  ASSUME RInv, NEW i \in roots, Delete(i)
  PROVE  Forest!Delete(i) /\ NoLoops(Trees(heap)')
<1> DEFINE R == roots \cup lost
           m0 == Memory(0)
           m == cJSON_Delete(m0, i)
           done == Void(m)
           t == Trees(heap)
<1>1. Ready(m0, R, {}, lost) /\ m0.heap = heap /\ i \in R /\ NoLoops(t) /\ i \in ItemsOf(heap)
  BY Begins
<1>2. Finish("delete", NULL, 0, i, NoKey, done)
  BY DEF Delete
<1>3. NULL = Forest!NULL /\ NoKey = Forest!NoKey
  BY DEF NULL, Forest!NULL, NoKey, Forest!NoKey
<1> HIDE DEF m0, R
<1>4. Trees(m.heap) = Forest!Without(Trees(m0.heap), Under(Trees(m0.heap), i))
  BY <1>1, DeleteTrees
<1>5. DOMAIN m = {"heap", "room", "fuel", "ret", "ok", "bad", "oom", "off", "depth"}
  BY <1>1 DEF Ready, cJSON_Delete
<1> HIDE DEF m
<1>6. done.heap = m.heap /\ done.ok = TRUE /\ done.ret = NULL
  BY <1>5 DEF Void
<1> HIDE DEF done
<1>7. /\ Trees(heap)' = Trees(done.heap)
      /\ done.ok => Forest!Result("delete", NULL, 0, i, NoKey, TRUE, done.ret)
  BY <1>2, FinishIs
<1>8. Forest!Below(i) = Under(t, i)
  <2>1. Sound(heap, roots \cup lost, {}, lost)
    BY DEF RInv, IInv
  <2> QED BY <1>1, <2>1, ForestBelow
<1>9. Trees(heap)' = Forest!Without(t, Under(t, i))
  BY <1>1, <1>4, <1>6, <1>7
<1>10. /\ Forest!Result("delete", Forest!NULL, 0, i, Forest!NoKey, TRUE, Forest!NULL)
       /\ Trees(heap)' = Forest!Without(Trees(heap), Forest!Below(i))
  BY <1>3, <1>6, <1>7, <1>8, <1>9
<1>11. Forest!Delete(i)
  BY ONLY <1>10, Zenon DEF Forest!Delete
<1>12. NoLoops(Trees(heap)')
  BY <1>1, <1>9, NoLoopsWithout
<1> QED BY <1>11, <1>12

(* cJSON_AddItemToObject with a key that is copied. *)
LEMMA PutNewTrees ==
  ASSUME NEW m, NEW held, NEW loose, NEW refs, Ready(m, held, loose, refs),
         NEW c \in Owners(m.heap), NEW item, item = NULL \/ item \in held,
         NEW key \in Seq(Byte), NEW g, g = add_item_to_object(m, c, key, item, FALSE)
  PROVE  AddsToObject(m, g, c, item, key)
<1>1. PICK flag : flag = FALSE
  OBVIOUS
<1>2. IsFlag(flag) /\ g = add_item_to_object(m, c, key, item, flag)
  BY <1>1, Zenon DEF IsFlag
<1>3. flag => key = StaticText
  BY <1>1
<1> QED BY <1>2, <1>3, AddToObjectTrees

(* The forest t with a new leaf r, of that key, at the end of a list. *)
LeafOf(t, w, c, r, key) ==
  /\ r \in DOMAIN w \ DOMAIN t /\ DOMAIN w = DOMAIN t \cup {r}
  /\ w[r].kids = <<>> /\ w[r].key = key
  /\ Forest!Without(w, {r}) = AppendKid(t, c, r)

(* A leaf that got a key and was added to a container. *)
LEMMA LeafAdded ==
  ASSUME RInv, NEW c \in Owners(heap), NEW h, NEW held, NEW loose, NEW refs, Sound(h, held, loose, refs),
         NEW r, NewLeaf(Trees(heap), Trees(h), r), NEW key,
         NEW w, w = AppendKid(PutKey(Trees(h), r, key), c, r)
  PROVE  LeafOf(Trees(heap), w, c, r, key) /\ NoLoops(w)
<1> DEFINE t == Trees(heap)
           u == Trees(h)
           v == PutKey(u, r, key)
           s == Append(t[c].kids, r)
<1>1. /\ HaveKids(t) /\ Whole(t) /\ NoLoops(t) /\ DOMAIN t = ItemsOf(heap) /\ c \in DOMAIN t
  BY Begins DEF Owners
<1>2. t[c].kids \in Seq(DOMAIN t)
  <2>1. Sound(heap, roots \cup lost, {}, lost)
    BY DEF RInv, IInv
  <2> QED BY <2>1, OwnerKids
<1>3. HaveKids(u) /\ Whole(u) /\ "key" \in DOMAIN u[r] /\ SameKids(u, v) /\ r \in DOMAIN u
  <2>1. PICK lists : MemoryIs(h, lists, held, loose)
    BY DEF Sound
  <2>2. HaveKids(u) /\ Whole(u) /\ DOMAIN u = ItemsOf(h)
    BY TreesHaveKids
  <2>3. r \in ItemsOf(h)
    BY <2>2 DEF NewLeaf
  <2>4. "key" \in DOMAIN u[r]
    <3>1. u[r] = Node(h[r].type, KeyOf(h, r), ValueOf(h, r), ListOf(lists, r))
      BY <2>1, <2>3, TreesAre
    <3> QED BY <3>1 DEF Node
  <2>5. SameKids(u, v)
    <3>1. v = PutKey(Trees(h), r, key)
      OBVIOUS
    <3> HIDE DEF v
    <3> QED BY <2>1, <2>3, <3>1, PutKeyKids
  <2> QED BY <2>2, <2>3, <2>4, <2>5
<1>4. /\ r \notin DOMAIN t /\ DOMAIN u = DOMAIN t \cup {r} /\ (\A x \in DOMAIN t : u[x] = t[x])
      /\ u[r].kids = <<>> /\ NewLeaf(t, u, r) /\ c # r /\ c \in DOMAIN u
  BY <1>1 DEF NewLeaf
<1> HIDE DEF t, u
<1>5. /\ DOMAIN v = DOMAIN u /\ IsMap(v) /\ v[r] = [u[r] EXCEPT !.key = key]
      /\ \A x \in DOMAIN u : x # r => v[x] = u[x]
  BY <1>3 DEF PutKey, HaveKids, IsMap
<1>6. v[r].kids = <<>> /\ v[r].key = key /\ DOMAIN v[r] = DOMAIN u[r]
  BY <1>3, <1>4, <1>5
<1>7. HaveKids(v) /\ v[c] = t[c]
  BY <1>1, <1>3, <1>4, <1>5, <1>6 DEF HaveKids
<1>8. Whole(v) /\ NoLoops(v) /\ Under(v, r) = {r}
  <2>1. NoLoops(u)
    BY <1>1, <1>4, NoLoopsLeaf
  <2>2. Under(u, r) = {r}
    BY <1>4, LeafGone
  <2> HIDE DEF v
  <2> QED BY <1>3, <2>1, <2>2, SameKidsSame
<1>9. w = PutKids(v, c, s)
  BY <1>7 DEF AppendKid, t, u
<1> HIDE DEF s, v
<1>10. /\ DOMAIN w = DOMAIN v /\ HaveKids(w) /\ \A x \in DOMAIN v : x # c => w[x] = v[x]
  BY <1>4, <1>5, <1>7, <1>9, KidsPut
<1>11. NoLoops(w)
  <2>1. Entries(s) \subseteq Forest!Kids(v, c) \cup {r}
    <3>1. Entries(t[c].kids) = Forest!Kids(v, c)
      BY <1>7 DEF Entries, Forest!Kids
    <3>2. Entries(Append(t[c].kids, r)) \subseteq Entries(t[c].kids) \cup {r}
      BY <1>2, EntriesAre
    <3> QED BY <3>1, <3>2 DEF s
  <2>2. c \in DOMAIN v /\ r \in DOMAIN v /\ c \notin Under(v, r)
    BY <1>3, <1>4, <1>5, <1>8
  <2>3. NoLoops(PutKids(v, c, s))
    BY ONLY <1>7, <1>8, <2>1, <2>2, NoLoopsPut
  <2> QED BY <1>9, <2>3
<1>12. w[r].kids = <<>> /\ w[r].key = key /\ DOMAIN w = DOMAIN t \cup {r}
  BY <1>4, <1>5, <1>6, <1>10
<1>13. Forest!Without(w, {r}) = AppendKid(t, c, r)
  <2> DEFINE a == Forest!Without(w, {r})
             b == AppendKid(t, c, r)
  <2>1. DOMAIN a = DOMAIN t /\ IsMap(a) /\ \A x \in DOMAIN t : a[x] = w[x]
    BY <1>4, <1>12 DEF Forest!Without, IsMap
  <2>2. DOMAIN b = DOMAIN t /\ IsMap(b) /\ b[c] = [t[c] EXCEPT !.kids = s] /\ \A x \in DOMAIN t : x # c => b[x] = t[x]
    BY <1>1 DEF AppendKid, PutKids, HaveKids, IsMap, s
  <2>3. w[c] = [v[c] EXCEPT !.kids = s]
    BY <1>4, <1>5, <1>7, <1>9 DEF PutKids, HaveKids, IsMap
  <2>4. \A x \in DOMAIN t : x # c => w[x] = t[x]
    BY <1>4, <1>5, <1>10
  <2>5. \A x \in DOMAIN t : a[x] = b[x]
    <3>1. b[c] = w[c]
      BY <1>7, <2>2, <2>3
    <3> HIDE DEF a, b
    <3> QED BY <2>1, <2>2, <2>4, <3>1, <1>1
  <2> HIDE DEF a, b
  <2>6. a = b
    BY <2>1, <2>2, <2>5, MapsEqual
  <2> QED BY <2>6 DEF a, b
<1>14. r \in DOMAIN w \ DOMAIN t
  BY <1>4, <1>12
<1> QED BY <1>11, <1>12, <1>13, <1>14 DEF t, LeafOf

(* The call that added it. *)
LEMMA AttachNewStep ==
  ASSUME RInv, NEW c \in Owners(heap), NEW h, NEW held, NEW loose, NEW refs, Sound(h, held, loose, refs),
         NEW r, NewLeaf(Trees(heap), Trees(h), r), NEW key, NEW op,
         Trees(heap)' = AppendKid(PutKey(Trees(h), r, key), c, r),
         Forest!Result(op, c, 0, NULL, key, TRUE, IF op = "new" THEN r ELSE NULL)
  PROVE  Forest!AttachNew(op, c, key) /\ NoLoops(Trees(heap)')
<1> DEFINE w == AppendKid(PutKey(Trees(h), r, key), c, r)
<1>1. w = AppendKid(PutKey(Trees(h), r, key), c, r) /\ Trees(heap)' = w
  OBVIOUS
<1> HIDE DEF w
<1>2. LeafOf(Trees(heap), w, c, r, key) /\ NoLoops(w)
  BY <1>1, LeafAdded
<1>3. AppendKid(Trees(heap), c, r) = [Trees(heap) EXCEPT ![c].kids = Append(@, r)]
  BY DEF AppendKid, PutKids
<1>4. Forest!Result(op, c, 0, Forest!NULL, key, TRUE, IF op = "new" THEN r ELSE Forest!NULL)
  BY DEF NULL, Forest!NULL
<1>5. /\ r \in DOMAIN Trees(heap)' \ DOMAIN Trees(heap) /\ DOMAIN Trees(heap)' = DOMAIN Trees(heap) \cup {r}
      /\ Trees(heap)'[r].kids = <<>> /\ Trees(heap)'[r].key = key
      /\ Forest!Without(Trees(heap)', {r}) = [Trees(heap) EXCEPT ![c].kids = Append(@, r)]
  BY <1>1, <1>2, <1>3 DEF LeafOf
<1>6. Forest!AttachNew(op, c, key)
  BY ONLY <1>4, <1>5, Zenon DEF Forest!AttachNew
<1> QED BY <1>1, <1>2, <1>6

(* A call that added nothing. *)
LEMMA AttachNewFails ==
  ASSUME RInv, NEW c, NEW key, NEW op, Trees(heap)' = Trees(heap),
         Forest!Result(op, c, 0, NULL, key, FALSE, NULL)
  PROVE  Forest!AttachNew(op, c, key) /\ NoLoops(Trees(heap)')
<1>1. Forest!Result(op, c, 0, Forest!NULL, key, FALSE, Forest!NULL)
  BY DEF NULL, Forest!NULL
<1>2. Trees(heap)' = Trees(heap) /\ NoLoops(Trees(heap)')
  BY DEF RInv
<1> QED BY <1>1, <1>2, Zenon DEF Forest!AttachNew

(* cJSON_AddNullToObject and the like: what could not be added is deleted. *)
LEMMA AddNewToObjectStep ==
  ASSUME RInv, NEW c \in Owners(heap), NEW type \in Kinds, NEW chars \in Values,
         NEW key \in Keys, NEW fuel, AddNewToObject(c, type, chars, key, fuel)
  PROVE  Forest!AttachNew("new", c, key) /\ NoLoops(Trees(heap)')
<1> DEFINE R == roots \cup lost
           m0 == Memory(fuel)
           new == Create(m0, type, chars)
           r == new.ret
           m == add_item_to_object(new, c, key, r, FALSE)
           deleted == cJSON_Delete(m, r)
           done == IF m.ok THEN Return(m, r) ELSE Return(deleted, NULL)
           t == Trees(heap)
<1>1. Ready(m0, R, {}, lost) /\ m0.heap = heap
  BY Begins
<1>2. /\ type \in Types /\ chars \in Seq(Byte) /\ key \in Seq(Byte) /\ c \in Owners(m0.heap) /\ lost \subseteq R
      /\ IInv
  BY <1>1, Passed DEF RInv
<1> HIDE DEF m0
<1>3. Makes(m0, new, R, {}, lost)
  BY <1>1, <1>2, CreateIs
<1>4. MakesLeaf(m0, new)
  BY <1>1, <1>2, CreateTrees
<1>5. Finish("new", c, 0, NULL, key, done)
  BY DEF AddNewToObject, m0
<1> HIDE DEF new, R
<1>6. \/ r = NULL /\ Ready(new, R, {}, lost) /\ Trees(new.heap) = t
      \/ r # NULL /\ r \notin R /\ Ready(new, R \cup {r}, {}, lost) /\ c \in Owners(new.heap)
         /\ NewLeaf(t, Trees(new.heap), r)
  BY <1>1, <1>2, <1>3, <1>4 DEF Makes, MakesLeaf
<1> HIDE DEF m, deleted
<1>7. /\ Trees(heap)' = Trees(done.heap)
      /\ done.ok => Forest!Result("new", c, 0, NULL, key, TRUE, done.ret)
      /\ ~done.ok => Forest!Result("new", c, 0, NULL, key, FALSE, done.ret)
  <2> HIDE DEF done
  <2> QED BY <1>5, FinishIs
<1>8. CASE r = NULL /\ Ready(new, R, {}, lost) /\ Trees(new.heap) = t
  <2>1. m = Fail(new)
    BY <1>8 DEF m, add_item_to_object
  <2>2. Ready(m, R, {}, lost) /\ ~m.ok
    BY <1>8, <2>1, ReadyFields
  <2>3. m.heap = new.heap
    BY <1>8, <2>1 DEF Fail, Ready
  <2>4. deleted = cJSON_Delete(m, NULL)
    BY <1>8 DEF deleted
  <2>5. deleted.heap = m.heap /\ Ready(deleted, R, {}, lost)
    BY ONLY <2>2, <2>4, DeleteNull
  <2>6. done = Return(deleted, NULL)
    BY <2>2 DEF done
  <2>7. done.heap = deleted.heap /\ ~done.ok /\ done.ret = NULL
    BY <2>5, <2>6 DEF Return, Ready
  <2> HIDE DEF done
  <2>8. Trees(heap)' = t /\ Forest!Result("new", c, 0, NULL, key, FALSE, NULL)
    BY <1>7, <1>8, <2>3, <2>5, <2>7
  <2> QED BY <2>8, AttachNewFails
<1>9. CASE /\ r # NULL /\ r \notin R /\ Ready(new, R \cup {r}, {}, lost) /\ c \in Owners(new.heap)
           /\ NewLeaf(t, Trees(new.heap), r)
  <2> DEFINE S == R \cup {r}
             u == Trees(new.heap)
  <2>1. Ready(new, S, {}, lost) /\ r \in S /\ m = add_item_to_object(new, c, key, r, FALSE)
        /\ (r = NULL \/ r \in S)
    BY <1>9 DEF m
  <2> HIDE DEF S
  <2>2. AddsToObject(new, m, c, r, key)
    <3>1. PICK x : x = r
      OBVIOUS
    <3>2. x = NULL \/ x \in S
      BY <2>1, <3>1
    <3>3. m = add_item_to_object(new, c, key, x, FALSE)
      BY <2>1, <3>1
    <3>4. AddsToObject(new, m, c, x, key)
      BY ONLY <1>2, <1>9, <2>1, <3>2, <3>3, PutNewTrees
    <3> QED BY <3>1, <3>4
  <2>3. Takes(m, r, S, lost)
    BY ONLY <1>2, <1>9, <2>1, PutNewIs
  <2>4. DOMAIN m = {"heap", "room", "fuel", "ret", "ok", "bad", "oom", "off", "depth"}
    BY <2>3 DEF Takes, Ready
  <2>5. CASE m.ok /\ Trees(m.heap) = AppendKid(PutKey(u, r, key), c, r)
    <3>1. done = Return(m, r)
      BY <2>5 DEF done
    <3>2. done.heap = m.heap /\ done.ok /\ done.ret = r
      <4> HIDE DEF done
      <4> QED BY <1>9, <2>4, <3>1 DEF Return
    <3> HIDE DEF done
    <3>3. Forest!Result("new", c, 0, NULL, key, TRUE, r)
      BY <1>7, <3>2
    <3>4. PICK op : op = "new"
      OBVIOUS
    <3>5. Forest!Result(op, c, 0, NULL, key, TRUE, IF op = "new" THEN r ELSE NULL)
      BY <3>3, <3>4
    <3>6. Trees(heap)' = AppendKid(PutKey(Trees(new.heap), r, key), c, r)
      BY <1>7, <2>5, <3>2
    <3>7. Sound(new.heap, S, {}, lost) /\ NewLeaf(Trees(heap), Trees(new.heap), r)
      BY <1>9, <2>1 DEF Ready
    <3>8. Forest!AttachNew(op, c, key) /\ NoLoops(Trees(heap)')
      <4> DEFINE h == new.heap
      <4>1. /\ Trees(heap)' = AppendKid(PutKey(Trees(h), r, key), c, r)
            /\ Sound(h, S, {}, lost) /\ NewLeaf(Trees(heap), Trees(h), r)
        BY <3>6, <3>7
      <4> HIDE DEF h, r
      <4> QED BY <3>5, <4>1, AttachNewStep DEF r
    <3> QED BY <3>4, <3>8
  <2>6. CASE ~m.ok /\ Trees(m.heap) = u
    <3>1. Ready(m, S, {}, lost)
      BY <2>3, <2>6 DEF Takes
    <3>2. deleted = cJSON_Delete(m, r)
      BY DEF deleted
    <3>3. Trees(deleted.heap) = Forest!Without(Trees(m.heap), Under(Trees(m.heap), r))
      BY ONLY <2>1, <3>1, <3>2, DeleteTrees
    <3>4. Forest!Without(u, Under(u, r)) = t
      BY <1>9, LeafGone
    <3>5. DOMAIN deleted = DOMAIN m
      BY <3>2, <2>4 DEF cJSON_Delete
    <3>6. done = Return(deleted, NULL)
      BY <2>6 DEF done
    <3>7. done.heap = deleted.heap /\ ~done.ok /\ done.ret = NULL
      BY <2>4, <3>5, <3>6 DEF Return
    <3> HIDE DEF done
    <3>8. Trees(heap)' = t /\ Forest!Result("new", c, 0, NULL, key, FALSE, NULL)
      BY <1>7, <2>6, <3>3, <3>4, <3>7
    <3> QED BY <3>8, AttachNewFails
  <2> QED BY <2>2, <2>5, <2>6 DEF AddsToObject
<1> QED BY <1>6, <1>8, <1>9

(* cJSON_AddItemReferenceToArray *)
LEMMA AddReferenceToArrayStep ==
  ASSUME RInv, NEW c \in Owners(heap), NEW i \in Items, NEW fuel, AddReferenceToArray(c, i, fuel)
  PROVE  Forest!AttachNew("refer", c, NoKey) /\ NoLoops(Trees(heap)')
<1> DEFINE R == roots \cup lost
           m0 == Memory(fuel)
           new == create_reference(m0, i)
           r == new.ret
           m == add_item_to_array(new, c, r)
           done == [m EXCEPT !.ret = NULL]
           t == Trees(heap)
<1>1. Ready(m0, R, {}, lost) /\ m0.heap = heap
  BY Begins
<1>2. i \in ItemsOf(m0.heap) /\ c \in Owners(m0.heap) /\ lost \subseteq R /\ c \in DOMAIN t
  BY <1>1, Passed, Begins DEF RInv, Owners
<1> HIDE DEF m0
<1>3. Makes(m0, new, R, {}, lost)
  BY <1>1, <1>2, CreateReferenceIs
<1>4. MakesLeaf(m0, new)
  BY <1>1, <1>2, CreateReferenceTrees
<1>5. Finish("refer", c, 0, NULL, NoKey, done)
  BY DEF AddReferenceToArray, m0
<1> HIDE DEF new, R
<1>6. \/ r = NULL /\ Ready(new, R, {}, lost) /\ Trees(new.heap) = t
      \/ r # NULL /\ r \notin R /\ Ready(new, R \cup {r}, {}, lost) /\ c \in Owners(new.heap)
         /\ NewLeaf(t, Trees(new.heap), r)
  BY <1>1, <1>2, <1>3, <1>4 DEF Makes, MakesLeaf
<1>7. DOMAIN new = {"heap", "room", "fuel", "ret", "ok", "bad", "oom", "off", "depth"}
  BY <1>6 DEF Ready
<1> HIDE DEF m
<1>8. DOMAIN m = DOMAIN new => done.heap = m.heap /\ done.ok = m.ok /\ done.ret = NULL
  BY <1>7
<1> HIDE DEF done
<1>9. /\ Trees(heap)' = Trees(done.heap)
      /\ done.ok => Forest!Result("refer", c, 0, NULL, NoKey, TRUE, done.ret)
      /\ ~done.ok => Forest!Result("refer", c, 0, NULL, NoKey, FALSE, done.ret)
  BY <1>5, FinishIs
<1>10. CASE r = NULL /\ Ready(new, R, {}, lost) /\ Trees(new.heap) = t
  <2>1. m = Fail(new)
    BY <1>10 DEF m, add_item_to_array
  <2>2. m.heap = new.heap /\ ~m.ok /\ DOMAIN m = DOMAIN new
    BY <1>7, <2>1 DEF Fail
  <2>3. Trees(heap)' = t /\ Forest!Result("refer", c, 0, NULL, NoKey, FALSE, NULL)
    BY <1>8, <1>9, <1>10, <2>2
  <2> QED BY <2>3, AttachNewFails
<1>11. CASE /\ r # NULL /\ r \notin R /\ Ready(new, R \cup {r}, {}, lost) /\ c \in Owners(new.heap)
            /\ NewLeaf(t, Trees(new.heap), r)
  <2> DEFINE S == R \cup {r}
             u == Trees(new.heap)
  <2>1. Ready(new, S, {}, lost) /\ r \in S /\ m = add_item_to_array(new, c, r)
    BY <1>11 DEF m
  <2>2. c # r
    BY <1>2, <1>11 DEF NewLeaf
  <2> HIDE DEF S
  <2>3. m.ok /\ m.ret = new.ret /\ Trees(m.heap) = AppendKid(u, c, r)
    <3>1. PICK x : x = r
      OBVIOUS
    <3>2. x \in S /\ x # NULL /\ c # x /\ m = add_item_to_array(new, c, x)
      BY <1>11, <2>1, <2>2, <3>1
    <3>3. m.ok /\ m.ret = new.ret /\ Trees(m.heap) = AppendKid(u, c, x)
      BY ONLY <1>11, <2>1, <3>2, AddToArrayTrees
    <3> QED BY <3>1, <3>3
  <2>4. DOMAIN m = DOMAIN new
    BY <1>7, <2>1 DEF add_item_to_array, Fail
  <2>5. Sound(new.heap, S, {}, lost) /\ NewLeaf(Trees(heap), Trees(new.heap), r)
    BY <1>11, <2>1 DEF Ready
  <2>6. PutKey(u, r, NoKey) = u
    <3>1. DOMAIN u = ItemsOf(new.heap)
      BY <2>5, TreesHaveKids
    <3>2. r \in ItemsOf(new.heap) /\ u[r].key = NoKey
      BY <2>5, <3>1 DEF NewLeaf
    <3>3. PutKey(u, r, u[r].key) = u
      <4> DEFINE h == new.heap
      <4>1. Sound(h, S, {}, lost) /\ r \in ItemsOf(h) /\ u = Trees(h)
        BY <2>5, <3>2
      <4> HIDE DEF h, u
      <4> QED BY <4>1, NodeHas
    <3> QED BY <3>2, <3>3
  <2>7. PICK op : op = "refer"
    OBVIOUS
  <2>8. Forest!Result(op, c, 0, NULL, NoKey, TRUE, IF op = "new" THEN r ELSE NULL)
    BY <1>8, <1>9, <2>3, <2>4, <2>7
  <2>9. Trees(heap)' = AppendKid(PutKey(Trees(new.heap), r, NoKey), c, r)
    BY <1>8, <1>9, <2>3, <2>4, <2>6
  <2>10. Forest!AttachNew(op, c, NoKey) /\ NoLoops(Trees(heap)')
    <3> DEFINE h == new.heap
    <3>1. /\ Trees(heap)' = AppendKid(PutKey(Trees(h), r, NoKey), c, r)
          /\ Sound(h, S, {}, lost) /\ NewLeaf(Trees(heap), Trees(h), r)
      BY <2>5, <2>9
    <3> HIDE DEF h
    <3> QED BY <2>8, <3>1, AttachNewStep
  <2> QED BY <2>7, <2>10
<1> QED BY <1>6, <1>10, <1>11

(* cJSON_AddItemReferenceToObject: a reference that gets no key stays.     *)
LEMMA AddReferenceToObjectStep ==
  ASSUME RInv, NEW c \in Owners(heap), NEW i \in Items, NEW key \in Keys, NEW fuel,
         AddReferenceToObject(c, i, key, fuel)
  PROVE  Forest!AttachNew("refer", c, key) /\ NoLoops(Trees(heap)')
<1> DEFINE R == roots \cup lost
           m0 == Memory(fuel)
           new == create_reference(m0, i)
           r == new.ret
           m == add_item_to_object(new, c, key, r, FALSE)
           done == [m EXCEPT !.ret = NULL]
           t == Trees(heap)
<1>1. Ready(m0, R, {}, lost) /\ m0.heap = heap /\ NoLoops(t)
  BY Begins
<1>2. i \in ItemsOf(m0.heap) /\ c \in Owners(m0.heap) /\ lost \subseteq R /\ key \in Seq(Byte)
  BY <1>1, Passed DEF RInv
<1> HIDE DEF m0
<1>3. Makes(m0, new, R, {}, lost)
  BY <1>1, <1>2, CreateReferenceIs
<1>4. MakesLeaf(m0, new)
  BY <1>1, <1>2, CreateReferenceTrees
<1>5. Finish("refer", c, 0, NULL, key, done)
  BY DEF AddReferenceToObject, m0
<1> HIDE DEF new, R
<1>6. \/ r = NULL /\ Ready(new, R, {}, lost) /\ Trees(new.heap) = t
      \/ r # NULL /\ r \notin R /\ Ready(new, R \cup {r}, {}, lost) /\ c \in Owners(new.heap)
         /\ NewLeaf(t, Trees(new.heap), r)
  BY <1>1, <1>2, <1>3, <1>4 DEF Makes, MakesLeaf
<1>7. DOMAIN new = {"heap", "room", "fuel", "ret", "ok", "bad", "oom", "off", "depth"}
  BY <1>6 DEF Ready
<1> HIDE DEF m
<1>8. DOMAIN m = DOMAIN new => done.heap = m.heap /\ done.ok = m.ok /\ done.ret = NULL
  BY <1>7
<1> HIDE DEF done
<1>9. /\ Trees(heap)' = Trees(done.heap)
      /\ done.ok => Forest!Result("refer", c, 0, NULL, key, TRUE, done.ret)
      /\ ~done.ok => Forest!Result("refer", c, 0, NULL, key, FALSE, done.ret)
  BY <1>5, FinishIs
<1>10. CASE r = NULL /\ Ready(new, R, {}, lost) /\ Trees(new.heap) = t
  <2>1. m = Fail(new)
    BY <1>10 DEF m, add_item_to_object
  <2>2. m.heap = new.heap /\ ~m.ok /\ DOMAIN m = DOMAIN new
    BY <1>7, <2>1 DEF Fail
  <2>3. Trees(heap)' = t /\ Forest!Result("refer", c, 0, NULL, key, FALSE, NULL)
    BY <1>8, <1>9, <1>10, <2>2
  <2> QED BY <2>3, AttachNewFails
<1>11. CASE /\ r # NULL /\ r \notin R /\ Ready(new, R \cup {r}, {}, lost) /\ c \in Owners(new.heap)
            /\ NewLeaf(t, Trees(new.heap), r)
  <2> DEFINE S == R \cup {r}
             u == Trees(new.heap)
  <2>1. Ready(new, S, {}, lost) /\ r \in S /\ m = add_item_to_object(new, c, key, r, FALSE)
    BY <1>11 DEF m
  <2> HIDE DEF S
  <2>2. AddsToObject(new, m, c, r, key)
    <3>1. PICK x : x = r
      OBVIOUS
    <3>2. (x = NULL \/ x \in S) /\ m = add_item_to_object(new, c, key, x, FALSE)
      BY <2>1, <3>1
    <3>3. AddsToObject(new, m, c, x, key)
      BY ONLY <1>2, <1>11, <2>1, <3>2, PutNewTrees
    <3> QED BY <3>1, <3>3
  <2>3. Takes(m, r, S, lost)
    BY ONLY <1>2, <1>11, <2>1, PutNewIs
  <2>4. DOMAIN m = DOMAIN new
    BY <1>7, <2>3 DEF Takes, Ready
  <2>5. CASE m.ok /\ Trees(m.heap) = AppendKid(PutKey(u, r, key), c, r)
    <3>1. PICK op : op = "refer"
      OBVIOUS
    <3>2. Forest!Result(op, c, 0, NULL, key, TRUE, IF op = "new" THEN r ELSE NULL)
      BY <1>8, <1>9, <2>4, <2>5, <3>1
    <3>3. Forest!AttachNew(op, c, key) /\ NoLoops(Trees(heap)')
      <4> DEFINE h == new.heap
      <4>1. /\ Trees(heap)' = AppendKid(PutKey(Trees(h), r, key), c, r)
            /\ Sound(h, S, {}, lost) /\ NewLeaf(Trees(heap), Trees(h), r)
        BY <1>8, <1>9, <1>11, <2>1, <2>4, <2>5 DEF Ready
      <4> HIDE DEF h
      <4> QED BY <3>2, <4>1, AttachNewStep
    <3> QED BY <3>1, <3>3
  <2>6. CASE ~m.ok /\ Trees(m.heap) = u
    <3>1. Trees(heap)' = u
      BY <1>8, <1>9, <2>4, <2>6
    <3>2. Forest!Result("refer", c, 0, Forest!NULL, key, FALSE, Forest!NULL)
      BY <1>8, <1>9, <2>4, <2>6 DEF NULL, Forest!NULL
    <3>3. key # Forest!NoKey
      BY <1>2, KeyIsName DEF NoKey, Forest!NoKey
    <3>4. NewLeaf(Trees(heap), u, r) /\ NoLoops(Trees(heap))
      BY <1>1, <1>11
    <3> HIDE DEF u
    <3>5. Forest!Grows(r)
      BY <3>1, <3>4, LeafGrows
    <3>6. r \in DOMAIN Trees(heap)'
      BY <3>1, <3>4 DEF NewLeaf
    <3>7. NoLoops(u)
      BY <3>4, NoLoopsLeaf
    <3>8. Forest!AttachNew("refer", c, key)
      BY ONLY <3>2, <3>3, <3>5, <3>6, Zenon DEF Forest!AttachNew
    <3> QED BY <3>1, <3>7, <3>8
  <2> QED BY <2>2, <2>5, <2>6 DEF AddsToObject
<1> QED BY <1>6, <1>10, <1>11

-----------------------------------------------------------------------------
(* The theorems. *)

(* The steps that a forest may take. *)
LEMMA ForestSteps ==
  /\ Forest!Make("create") => Forest!Next
  /\ \A i \in DOMAIN Trees(heap) : Forest!Delete(i) => Forest!Next
  /\ \A i \in DOMAIN Trees(heap), value \in Values : Forest!SetValue(i, value) => Forest!Next
  /\ \A c \in DOMAIN Trees(heap) :
       /\ \A key \in Keys \cup {NoKey} :
            (Forest!AttachNew("new", c, key) => Forest!Next) /\ (Forest!AttachNew("refer", c, key) => Forest!Next)
       /\ \A at \in 0 .. Len(Trees(heap)[c].kids) :
            /\ Forest!Detach(c, at) => Forest!Next
            /\ Forest!DeleteAt(c, at) => Forest!Next
            /\ \A i \in DOMAIN Trees(heap), key \in Keys \cup {NoKey} :
                 /\ Forest!Attach(c, at, i, key, TRUE) => Forest!Next
                 /\ Forest!Attach(c, at, i, key, FALSE) => Forest!Next
                 /\ Forest!Replace(c, at, i, key) => Forest!Next
<1>1. NoKey = Forest!NoKey
  BY DEF NoKey, Forest!NoKey
<1>2. Forest!Make("create") => Forest!Next
  BY DEF Forest!Next
<1>3. ASSUME NEW i \in DOMAIN Trees(heap)
      PROVE  /\ Forest!Delete(i) => Forest!Next
             /\ \A value \in Values : Forest!SetValue(i, value) => Forest!Next
  BY DEF Forest!Next
<1>4. ASSUME NEW c \in DOMAIN Trees(heap), NEW key \in Keys \cup {NoKey}
      PROVE  (Forest!AttachNew("new", c, key) => Forest!Next) /\ (Forest!AttachNew("refer", c, key) => Forest!Next)
  BY <1>1 DEF Forest!Next
<1>5. ASSUME NEW c \in DOMAIN Trees(heap), NEW at \in 0 .. Len(Trees(heap)[c].kids)
      PROVE  (Forest!Detach(c, at) => Forest!Next) /\ (Forest!DeleteAt(c, at) => Forest!Next)
  BY DEF Forest!Next
<1>6. ASSUME NEW c \in DOMAIN Trees(heap), NEW at \in 0 .. Len(Trees(heap)[c].kids),
             NEW i \in DOMAIN Trees(heap), NEW key \in Keys \cup {NoKey}
      PROVE  /\ Forest!Attach(c, at, i, key, TRUE) => Forest!Next
             /\ Forest!Attach(c, at, i, key, FALSE) => Forest!Next
             /\ Forest!Replace(c, at, i, key) => Forest!Next
  BY <1>1 DEF Forest!Next
<1> QED BY <1>2, <1>3, <1>4, <1>5, <1>6

(* Whatever the program calls is a step of the forest, and keeps it one.   *)
LEMMA RearrangeSteps ==
  ASSUME RInv, Rearrange
  PROVE  Forest!Next /\ NoLoops(Trees(heap)')
<1> DEFINE D == DOMAIN Trees(heap)
           K == Keys \cup {NoKey}
<1>1. IInv /\ D = ItemsOf(heap) /\ Items = ItemsOf(heap) /\ roots \subseteq D
  BY Begins, Passed DEF RInv
<1>2. \A type : Containers(type) \subseteq Owners(heap) /\ Containers(type) \subseteq D
  BY <1>1, Passed DEF Owners
<1>3. \A flag \in BOOLEAN : IsFlag(flag)
  BY DEF IsFlag
<1>4. \A c \in Owners(heap) :
        /\ \A which \in 0 .. cJSON_GetArraySize(c) :
             which \in Nat /\ NullOrChild(heap, c, get_array_item(Memory(0), c, which))
        /\ \A key, flag : NullOrChild(heap, c, Found(c, key, flag))
  BY <1>1, FoundIs
<1>5. ASSUME NEW fuel \in Fuels, NEW type \in Kinds, NEW chars \in Values, CreateItem(type, chars, fuel)
      PROVE  Forest!Next /\ NoLoops(Trees(heap)')
  BY <1>5, CreateItemStep, ForestSteps
<1>6. ASSUME NEW fuel \in Fuels, NEW i \in Items \ lost, NEW chars \in Values, SetValuestring(i, chars, fuel)
      PROVE  Forest!Next /\ NoLoops(Trees(heap)')
  BY <1>1, <1>6, SetValuestringStep, ForestSteps
<1>7. ASSUME NEW fuel \in Fuels, NEW i \in Items \ lost, NEW c \in Containers("Array"),
             AddReferenceToArray(c, i, fuel)
      PROVE  Forest!Next /\ NoLoops(Trees(heap)')
  <2>1. Forest!AttachNew("refer", c, NoKey) /\ NoLoops(Trees(heap)')
    BY <1>2, <1>7, AddReferenceToArrayStep
  <2>2. c \in D /\ NoKey \in K
    BY <1>2
  <2> QED BY <2>1, <2>2, ForestSteps
<1>8. ASSUME NEW fuel \in Fuels, NEW i \in Items \ lost, NEW c \in Containers("Object"), NEW key \in Keys,
             AddReferenceToObject(c, i, key, fuel)
      PROVE  Forest!Next /\ NoLoops(Trees(heap)')
  <2>1. Forest!AttachNew("refer", c, key) /\ NoLoops(Trees(heap)')
    BY <1>2, <1>8, AddReferenceToObjectStep
  <2>2. c \in D /\ key \in K
    BY <1>2
  <2> QED BY <2>1, <2>2, ForestSteps
<1>9. ASSUME NEW fuel \in Fuels, NEW c \in Containers("Object"), NEW key \in Keys,
             NEW type \in Kinds, NEW chars \in Values, AddNewToObject(c, type, chars, key, fuel)
      PROVE  Forest!Next /\ NoLoops(Trees(heap)')
  <2>1. Forest!AttachNew("new", c, key) /\ NoLoops(Trees(heap)')
    BY <1>2, <1>9, AddNewToObjectStep
  <2>2. c \in D /\ key \in K
    BY <1>2
  <2> QED BY <2>1, <2>2, ForestSteps
<1>10. ASSUME NEW fuel \in Fuels, NEW c \in Containers("Object"), NEW key \in Keys,
              NEW i \in roots, NEW flag \in BOOLEAN, AddToObject(c, i, key, flag, fuel)
       PROVE  Forest!Next /\ NoLoops(Trees(heap)')
  <2>1. PICK at \in 0 .. Len(Trees(heap)[c].kids) :
          Forest!Attach(c, at, i, key, TRUE) /\ NoLoops(Trees(heap)')
    BY <1>2, <1>3, <1>10, AddToObjectStep
  <2>2. c \in D /\ key \in K /\ i \in D
    BY <1>1, <1>2
  <2> QED BY <2>1, <2>2, ForestSteps
<1>11. ASSUME NEW fuel \in Fuels, NEW c \in Containers("Object"), NEW key \in Keys,
              NEW i \in roots, NEW flag \in BOOLEAN, ReplaceInObject(c, i, key, flag, fuel)
       PROVE  Forest!Next /\ NoLoops(Trees(heap)')
  <2>1. PICK at \in 0 .. Len(Trees(heap)[c].kids) : Forest!Replace(c, at, i, key) /\ NoLoops(Trees(heap)')
    BY <1>2, <1>11, ReplaceInObjectStep
  <2>2. c \in D /\ key \in K /\ i \in D
    BY <1>1, <1>2
  <2> QED BY <2>1, <2>2, ForestSteps
<1>12. ASSUME NEW c \in Containers("Array"), NEW i \in roots, AddToArray(c, i)
       PROVE  Forest!Next /\ NoLoops(Trees(heap)')
  <2>1. PICK at \in 0 .. Len(Trees(heap)[c].kids) :
          Forest!Attach(c, at, i, NoKey, FALSE) /\ NoLoops(Trees(heap)')
    BY <1>2, <1>12, AddToArrayStep
  <2>2. c \in D /\ NoKey \in K /\ i \in D
    BY <1>1, <1>2
  <2> QED BY <2>1, <2>2, ForestSteps
<1>13. ASSUME NEW c \in Containers("Array"), NEW i \in roots,
              NEW which \in 0 .. cJSON_GetArraySize(c), InsertInArray(c, which, i)
       PROVE  Forest!Next /\ NoLoops(Trees(heap)')
  <2>1. /\ which \in 0 .. Len(Trees(heap)[c].kids)
        /\ Forest!Attach(c, which, i, NoKey, FALSE) /\ NoLoops(Trees(heap)')
    BY <1>2, <1>13, InsertInArrayStep
  <2>2. c \in D /\ NoKey \in K /\ i \in D
    BY <1>1, <1>2
  <2> QED BY <2>1, <2>2, ForestSteps
<1>14. ASSUME NEW c \in Containers("Array"), NEW i \in roots,
              NEW which \in 0 .. cJSON_GetArraySize(c), ReplaceInArray(c, which, i)
       PROVE  Forest!Next /\ NoLoops(Trees(heap)')
  <2>1. /\ which \in 0 .. Len(Trees(heap)[c].kids)
        /\ Forest!Replace(c, which, i, NoKey) /\ NoLoops(Trees(heap)')
    BY <1>2, <1>14, ReplaceInArrayStep
  <2>2. c \in D /\ NoKey \in K /\ i \in D
    BY <1>1, <1>2
  <2> QED BY <2>1, <2>2, ForestSteps
<1>15. ASSUME NEW c \in Owners(heap), c \in D, NEW item, NullOrChild(heap, c, item),
              TakeOut(c, item) \/ DeleteFrom(c, item)
       PROVE  Forest!Next /\ NoLoops(Trees(heap)')
  <2>1. CASE TakeOut(c, item)
    <3>1. PICK at \in 0 .. Len(Trees(heap)[c].kids) : Forest!Detach(c, at) /\ NoLoops(Trees(heap)')
      BY <1>15, <2>1, TakeOutStep
    <3> QED BY <1>15, <3>1, ForestSteps
  <2>2. CASE DeleteFrom(c, item)
    <3>1. PICK at \in 0 .. Len(Trees(heap)[c].kids) : Forest!DeleteAt(c, at) /\ NoLoops(Trees(heap)')
      BY <1>15, <2>2, DeleteFromStep
    <3> QED BY <1>15, <3>1, ForestSteps
  <2> QED BY <1>15, <2>1, <2>2
<1>16. ASSUME NEW c \in Containers("Array") \union Containers("Object"),
              NEW which \in 0 .. cJSON_GetArraySize(c), NEW item,
              item = get_array_item(Memory(0), c, which), TakeOut(c, item) \/ DeleteFrom(c, item)
       PROVE  Forest!Next /\ NoLoops(Trees(heap)')
  <2>1. c \in Owners(heap) /\ c \in D
    BY <1>2
  <2>2. NullOrChild(heap, c, item)
    BY <1>4, <1>16, <2>1
  <2> QED BY <1>15, <1>16, <2>1, <2>2
<1>17. ASSUME NEW c \in Containers("Object"), NEW key \in Keys, NEW flag \in BOOLEAN,
              TakeOut(c, Found(c, key, flag)) \/ DeleteFrom(c, Found(c, key, flag))
       PROVE  Forest!Next /\ NoLoops(Trees(heap)')
  <2>1. c \in Owners(heap) /\ c \in D
    BY <1>2
  <2> DEFINE item == Found(c, key, flag)
  <2>2. NullOrChild(heap, c, item)
    BY <1>4, <2>1
  <2>3. TakeOut(c, item) \/ DeleteFrom(c, item)
    BY <1>17
  <2> HIDE DEF item
  <2> QED BY <1>15, <2>1, <2>2, <2>3
<1>18. ASSUME NEW i \in roots, Delete(i)
       PROVE  Forest!Next /\ NoLoops(Trees(heap)')
  BY <1>1, <1>18, DeleteStep, ForestSteps
<1> QED BY <1>5, <1>6, <1>7, <1>8, <1>9, <1>10, <1>11, <1>12, <1>13, <1>14, <1>16, <1>17, <1>18
        DEF Rearrange

(* What the steps keep, and that they are those of a forest. *)
LEMMA StepsKeep ==
  RInv /\ [calls < MaxCalls /\ Rearrange]_vars => RInv' /\ [Forest!Next]_(Forest!vars)
<1> SUFFICES ASSUME RInv, [calls < MaxCalls /\ Rearrange]_vars
             PROVE  RInv' /\ [Forest!Next]_(Forest!vars)
  OBVIOUS
<1>1. CASE calls < MaxCalls /\ Rearrange
  <2>1. IInv'
    BY <1>1, RearrangeKeeps DEF RInv
  <2>2. Forest!Next /\ NoLoops(Trees(heap)')
    BY <1>1, RearrangeSteps
  <2>3. NoLoops(Trees(heap))'
    BY <2>2
  <2> QED BY <2>1, <2>2, <2>3 DEF RInv
<1>2. CASE UNCHANGED vars
  <2>1. heap' = heap /\ call' = call
    BY <1>2 DEF vars
  <2>2. Trees(heap)' = Trees(heap)
    BY <2>1
  <2>3. IInv'
    BY <1>2 DEF vars, IInv, Sound, RInv
  <2>4. NoLoops(Trees(heap))'
    BY <2>2 DEF RInv
  <2>5. UNCHANGED Forest!vars
    BY <2>1, <2>2 DEF Forest!vars
  <2> QED BY <2>3, <2>4, <2>5 DEF RInv
<1> QED BY <1>1, <1>2

(* The program begins with no trees. *)
LEMMA InitIsForest ==
  ASSUME Init
  PROVE  RInv /\ Forest!Init
<1>1. IInv
  BY InitIsSound
<1>2. heap = <<>> /\ call = [op |-> "none"]
  BY DEF Init
<1>3. DOMAIN Trees(heap) = {} /\ Trees(heap) = [b \in {} |-> 0]
  BY <1>2 DEF Trees
<1>4. Trees(heap) = <<>>
  BY <1>3
<1>5. NoLoops(Trees(heap))
  BY <1>3 DEF NoLoops
<1> QED BY <1>1, <1>2, <1>4, <1>5 DEF RInv, Forest!Init

(* Memory stays in order and its items stay trees. *)
THEOREM TreesAreInOrder == CallsSpec => []RInv
<1>1. Init => RInv
  BY InitIsForest
<1>2. RInv /\ [calls < MaxCalls /\ Rearrange]_vars => RInv'
  BY StepsKeep
<1> QED BY <1>1, <1>2, PTL DEF CallsSpec

(* Every call does to the trees what its name says, or nothing. *)
THEOREM CallsImplementForest == CallsSpec => ImplementsForest
<1>1. Init => RInv /\ Forest!Init
  BY InitIsForest
<1>2. RInv /\ [calls < MaxCalls /\ Rearrange]_vars => RInv' /\ [Forest!Next]_(Forest!vars)
  BY StepsKeep
<1> QED BY <1>1, <1>2, PTL DEF CallsSpec, ImplementsForest, Forest!Spec

=============================================================================
