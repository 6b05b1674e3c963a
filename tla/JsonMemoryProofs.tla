-------------------------- MODULE JsonMemoryProofs --------------------------
(***************************************************************************)
(* Proofs about the memory of a program that uses cJSON.c, for lists of    *)
(* every length in every memory: each of the functions that change the     *)
(* links does to its list what is done to a sequence, and nothing to any   *)
(* other list.                                                             *)
(***************************************************************************)
EXTENDS JsonInvariants, WellFoundedInduction, FiniteSetTheorems, SequenceTheorems, TLAPS

-----------------------------------------------------------------------------
(***************************************************************************)
(* Induction on the natural numbers, stated of sets: to prove P(n) of all  *)
(* n, cite InductionStep for {n \in Nat : P(n)}.  The library states it of *)
(* an operator P; both come from the naturals being well-founded.          *)
(***************************************************************************)

(* The least element of a set of integers is what Min finds.               *)
LEMMA MinIs ==
  ASSUME NEW S \in SUBSET Int, NEW m \in S, \A x \in S : m <= x
  PROVE  Min(S) = m
<1>1. Min(S) \in S /\ \A x \in S : Min(S) <= x
  BY DEF Min
<1>2. \A x \in Int, y \in Int : x <= y /\ y <= x => x = y
  OBVIOUS
<1>3. m \in Int /\ Min(S) \in Int /\ m <= Min(S) /\ Min(S) <= m
  BY <1>1
<1> QED BY <1>2, <1>3

(* A set of naturals that is not empty has a least element. *)
LEMMA MinExists ==
  ASSUME NEW S \in SUBSET Nat, S # {}
  PROVE  Min(S) \in S /\ \A x \in S : Min(S) <= x
<1> DEFINE R == {ss \in Nat \X Nat : ss[1] < ss[2]}
<1>1. IsWellFoundedOn(R, Nat)
  BY NatLessThanWellFounded DEF OpToRel
<1> HIDE DEF R
<1>2. PICK m \in S : \A x \in S : <<x, m>> \notin R
  BY <1>1, WFMin
<1>3. \A x \in S : m <= x
  <2> SUFFICES ASSUME NEW x \in S, x < m PROVE FALSE
    OBVIOUS
  <2>1. <<x, m>> \in R
    BY DEF R
  <2> QED BY <1>2, <2>1
<1>4. Min(S) = m
  BY <1>3, MinIs
<1> QED BY <1>3, <1>4

(* A set of naturals that holds 0 and every number's successor holds all.  *)
LEMMA InductionStep ==
  ASSUME NEW T \in SUBSET Nat, 0 \in T, \A n \in T : n + 1 \in T
  PROVE  T = Nat
<1> SUFFICES ASSUME Nat \ T # {} PROVE FALSE
  OBVIOUS
<1> DEFINE m == Min(Nat \ T)
<1>1. m \in Nat /\ m \notin T /\ \A x \in Nat \ T : m <= x
  <2>1. Nat \ T \in SUBSET Nat
    OBVIOUS
  <2> QED BY <2>1, MinExists
<1> HIDE DEF m
<1>2. m - 1 \in Nat /\ m - 1 \notin Nat \ T
  BY <1>1
<1>3. m - 1 + 1 \in T
  BY <1>2
<1> QED BY <1>1, <1>3

(* What holds at 0, and at k + 1 if at k, holds at every k up to n.        *)
LEMMA UpTo ==
  ASSUME NEW n \in Nat, NEW T, 0 \in T, \A k \in 0 .. n - 1 : k \in T => k + 1 \in T
  PROVE  \A k \in 0 .. n : k \in T
<1> DEFINE U == {k \in Nat : k <= n => k \in T}
<1>1. U \in SUBSET Nat /\ 0 \in U
  OBVIOUS
<1>2. \A k \in U : k + 1 \in U
  <2> SUFFICES ASSUME NEW k \in Nat, k <= n => k \in T, k + 1 <= n PROVE k + 1 \in T
    OBVIOUS
  <2>1. k \in 0 .. n - 1 /\ k <= n
    OBVIOUS
  <2> QED BY <2>1
<1>3. U = Nat
  <2> HIDE DEF U
  <2> QED BY <1>1, <1>2, InductionStep
<1> SUFFICES ASSUME NEW k \in 0 .. n PROVE k \in T
  OBVIOUS
<1>4. k \in U /\ k <= n
  <2> HIDE DEF U
  <2> QED BY <1>3
<1> QED BY <1>4

(* A function that starts with a and takes a step from each value to the   *)
(* next exists, and has all its values in the set of the steps.            *)
LEMMA Iterates ==
  ASSUME NEW A, NEW a \in A, NEW n \in Nat, NEW step \in [1 .. n -> [A -> A]]
  PROVE  \E f \in [0 .. n -> A] : f[0] = a /\ \A k \in 1 .. n : f[k] = step[k][f[k - 1]]
<1> DEFINE F(f, m) == [k \in 0 .. m |-> IF k = 0 THEN a ELSE step[k][f[k - 1]]]
           T == {m \in Nat : m <= n => \E f \in [0 .. m -> A] : f = F(f, m)}
<1>1. T \in SUBSET Nat
  OBVIOUS
<1>2. 0 \in T
  <2> DEFINE f == [k \in 0 .. 0 |-> a]
  <2>1. f \in [0 .. 0 -> A] /\ f = F(f, 0)
    OBVIOUS
  <2> QED BY <2>1
<1>3. \A m \in T : m + 1 \in T
  <2> HIDE DEF F
  <2> SUFFICES ASSUME NEW m \in T, m + 1 <= n
               PROVE  \E g \in [0 .. m + 1 -> A] : g = F(g, m + 1)
    OBVIOUS
  <2> USE DEF F
  <2>0. PICK f \in [0 .. m -> A] : f = F(f, m)
    OBVIOUS
  <2> DEFINE g == F(f, m + 1)
  <2>1. \A k \in 0 .. m : g[k] = f[k]
    BY <2>0
  <2>2. \A k \in 0 .. m + 1 : k = 0 \/ (k - 1 \in 0 .. m /\ k \in 1 .. n)
    OBVIOUS
  <2>3. g \in [0 .. m + 1 -> A]
    BY <2>2
  <2> HIDE DEF g
  <2>4. g = F(g, m + 1)
    BY <2>1, <2>2 DEF g
  <2> QED BY <2>3, <2>4
<1>4. n \in T
  <2> HIDE DEF T
  <2>1. T = Nat
    BY <1>1, <1>2, <1>3, InductionStep
  <2> QED BY <2>1
<1>5. PICK f \in [0 .. n -> A] : f = F(f, n)
  BY <1>4
<1>6. 0 \in 0 .. n /\ \A k \in 1 .. n : k # 0 /\ k \in 0 .. n
  OBVIOUS
<1> QED BY <1>5, <1>6, Zenon

-----------------------------------------------------------------------------
(* One assignment to a link. *)

(* The same blocks, with the same fields. *)
SameBlocks(h, g) == DOMAIN g = DOMAIN h /\ \A y \in DOMAIN h : DOMAIN g[y] = DOMAIN h[y]

(* What is assigned to a next is found there, and no other link changes. *)
LEMMA PutNext ==
  ASSUME NEW h, NEW b, IsItem(h, b), NEW p
  PROVE  /\ SameBlocks(h, SetNext(h, b, p))
         /\ \A y \in DOMAIN h : /\ SetNext(h, b, p)[y].next = IF y = b THEN p ELSE h[y].next
                                /\ SetNext(h, b, p)[y].prev = h[y].prev
                                /\ SetNext(h, b, p)[y].child = h[y].child
  BY DEF IsItem, SameBlocks, SetNext

(* The same of a prev. *)
LEMMA PutPrev ==
  ASSUME NEW h, NEW b, IsItem(h, b), NEW p
  PROVE  /\ SameBlocks(h, SetPrev(h, b, p))
         /\ \A y \in DOMAIN h : /\ SetPrev(h, b, p)[y].prev = IF y = b THEN p ELSE h[y].prev
                                /\ SetPrev(h, b, p)[y].next = h[y].next
                                /\ SetPrev(h, b, p)[y].child = h[y].child
  BY DEF IsItem, SameBlocks, SetPrev

(* The same of a child. *)
LEMMA PutChild ==
  ASSUME NEW h, NEW b, IsItem(h, b), NEW p
  PROVE  /\ SameBlocks(h, SetChild(h, b, p))
         /\ \A y \in DOMAIN h : /\ SetChild(h, b, p)[y].child = IF y = b THEN p ELSE h[y].child
                                /\ SetChild(h, b, p)[y].next = h[y].next
                                /\ SetChild(h, b, p)[y].prev = h[y].prev
  BY DEF IsItem, SameBlocks, SetChild

(* An item stays one. *)
LEMMA ItemsStay ==
  ASSUME NEW h, NEW g, SameBlocks(h, g)
  PROVE  \A b : IsItem(g, b) <=> IsItem(h, b)
  BY DEF IsItem, SameBlocks

-----------------------------------------------------------------------------
(* One list. *)

ItemsOf(h) == {b \in DOMAIN h : IsItem(h, b)}

(* What the lists of a memory say of one of them. *)
LEMMA OneList ==
  ASSUME NEW h, NEW lists, NEW free, ListsAre(h, lists, free), NEW c \in DOMAIN lists
  PROVE  /\ NULL \notin DOMAIN h /\ IsItem(h, c) /\ c \in DOMAIN h
         /\ lists[c] \in Seq(ItemsOf(h)) /\ Len(lists[c]) \in Nat
         /\ DOMAIN lists[c] = 1 .. Len(lists[c])
         /\ IsListOf(h, c, lists[c])
         /\ \A k \in 1 .. Len(lists[c]) : IsItem(h, lists[c][k]) /\ lists[c][k] \in DOMAIN h
         /\ \A k, l \in 1 .. Len(lists[c]) : lists[c][k] = lists[c][l] => k = l
         /\ \A i \in free : /\ IsItem(h, i) /\ i \in DOMAIN h
                            /\ h[i].next = NULL /\ h[i].prev = NULL
                            /\ \A k \in 1 .. Len(lists[c]) : lists[c][k] # i
<1>1. lists[c] \in Seq(ItemsOf(h)) /\ IsListOf(h, c, lists[c]) /\ NULL \notin DOMAIN h
  BY DEF ListsAre, ItemsOf
<1>2. IsItem(h, c) /\ c \in DOMAIN h /\ \A i \in free : IsItem(h, i) /\ i \in DOMAIN h
  BY DEF ListsAre, ItemsOf
<1>3. Len(lists[c]) \in Nat /\ DOMAIN lists[c] = 1 .. Len(lists[c])
  BY <1>1, LenProperties
<1>4. \A k \in 1 .. Len(lists[c]) : IsItem(h, lists[c][k]) /\ lists[c][k] \in DOMAIN h
  <2>1. \A k \in 1 .. Len(lists[c]) : lists[c][k] \in ItemsOf(h)
    BY <1>1, ElementOfSeq
  <2> QED BY <2>1 DEF ItemsOf
<1>5. \A k, l \in 1 .. Len(lists[c]) : lists[c][k] = lists[c][l] => k = l
  BY <1>3 DEF ListsAre
<1>6. \A i \in free : /\ h[i].next = NULL /\ h[i].prev = NULL
                      /\ \A k \in 1 .. Len(lists[c]) : lists[c][k] # i
  BY <1>3 DEF ListsAre
<1> QED BY <1>1, <1>2, <1>3, <1>4, <1>5, <1>6

(* A list of which no link changed is the same list. *)
LEMMA SameList ==
  ASSUME NEW h, NEW g, NEW c, NEW s, IsListOf(h, c, s), g[c].child = h[c].child,
         \A k \in DOMAIN s : g[s[k]].next = h[s[k]].next /\ g[s[k]].prev = h[s[k]].prev
  PROVE  IsListOf(g, c, s)
  BY DEF IsListOf

(* When a function made s of the children of c, out of those it had and of *)
(* free items, and touched no other items, every other list is as it was.  *)
LEMMA OthersStay ==
  ASSUME NEW h, NEW g, NEW lists, NEW free, ListsAre(h, lists, free), NEW c \in DOMAIN lists,
         NEW s \in Seq(ItemsOf(h)), NEW stay,
         SameBlocks(h, g), IsListOf(g, c, s),
         \A k, l \in DOMAIN s : s[k] = s[l] => k = l,
         \A k \in DOMAIN s : s[k] \in free \/ \E l \in DOMAIN lists[c] : s[k] = lists[c][l],
         \A y \in DOMAIN h : y \in free \/ (\E l \in DOMAIN lists[c] : lists[c][l] = y)
                             \/ (g[y].next = h[y].next /\ g[y].prev = h[y].prev),
         \A y \in DOMAIN h : y # c => g[y].child = h[y].child,
         \A i \in stay : /\ IsItem(h, i) /\ g[i].next = NULL /\ g[i].prev = NULL
                         /\ i \in free \/ \E l \in DOMAIN lists[c] : lists[c][l] = i
                         /\ \A k \in DOMAIN s : s[k] # i
  PROVE  ListsAre(g, [lists EXCEPT ![c] = s], stay)
<1> DEFINE new == [lists EXCEPT ![c] = s]
<1>1. DOMAIN new = DOMAIN lists /\ new[c] = s /\ \A d \in DOMAIN lists \ {c} : new[d] = lists[d]
  OBVIOUS
<1>2. ItemsOf(g) = ItemsOf(h) /\ DOMAIN g = DOMAIN h
  BY ItemsStay, Zenon DEF ItemsOf, SameBlocks
<1> HIDE DEF new
<1>3. NULL \notin DOMAIN g /\ DOMAIN new \subseteq ItemsOf(g) /\ stay \subseteq ItemsOf(g)
  <2>1. NULL \notin DOMAIN h /\ DOMAIN lists \subseteq ItemsOf(h)
    BY Zenon DEF ListsAre, ItemsOf
  <2>2. stay \subseteq ItemsOf(h)
    BY DEF ItemsOf, IsItem
  <2> QED BY <1>1, <1>2, <2>1, <2>2
<1>4. \A d \in DOMAIN new : new[d] \in Seq(ItemsOf(g)) /\ IsListOf(g, d, new[d])
  <2> SUFFICES ASSUME NEW d \in DOMAIN lists, d # c
               PROVE  lists[d] \in Seq(ItemsOf(h)) /\ IsListOf(g, d, lists[d])
    BY <1>1, <1>2
  <2>1. /\ lists[d] \in Seq(ItemsOf(h)) /\ IsListOf(h, d, lists[d])
        /\ d \in DOMAIN h /\ DOMAIN lists[d] = 1 .. Len(lists[d])
        /\ \A k \in 1 .. Len(lists[d]) : lists[d][k] \in DOMAIN h
    <3>1. d \in DOMAIN lists /\ ListsAre(h, lists, free)
      OBVIOUS
    <3> QED BY <3>1, OneList, SMTT(40)
  <2>2. \A k \in DOMAIN lists[d] : /\ lists[d][k] \notin free
                                   /\ \A l \in DOMAIN lists[c] : lists[c][l] # lists[d][k]
    BY DEF ListsAre
  <2>3. \A k \in DOMAIN lists[d] : /\ g[lists[d][k]].next = h[lists[d][k]].next
                                   /\ g[lists[d][k]].prev = h[lists[d][k]].prev
    BY <2>1, <2>2
  <2>4. g[d].child = h[d].child
    BY <2>1
  <2> QED BY <2>1, <2>3, <2>4, SameList
<1>5. \A d, e \in DOMAIN new : \A k \in DOMAIN new[d], l \in DOMAIN new[e] :
        new[d][k] = new[e][l] => d = e /\ k = l
  <2>1. \A d, e \in DOMAIN lists : \A k \in DOMAIN lists[d], l \in DOMAIN lists[e] :
          lists[d][k] = lists[e][l] => d = e /\ k = l
    BY Zenon DEF ListsAre
  <2>2. \A i \in free, d \in DOMAIN lists : \A k \in DOMAIN lists[d] : lists[d][k] # i
    BY Zenon DEF ListsAre
  <2>3. \A d \in DOMAIN lists \ {c} : \A k \in DOMAIN s, l \in DOMAIN lists[d] : s[k] # lists[d][l]
    BY <2>1, <2>2
  <2> TAKE d, e \in DOMAIN new
  <2> TAKE k \in DOMAIN new[d], l \in DOMAIN new[e]
  <2> HAVE new[d][k] = new[e][l]
  <2>4. CASE d = c /\ e = c
    BY <1>1, <2>4
  <2>5. CASE d = c /\ e # c
    BY <1>1, <2>3, <2>5
  <2>6. CASE d # c /\ e = c
    BY <1>1, <2>3, <2>6
  <2>7. CASE d # c /\ e # c
    BY <1>1, <2>1, <2>7
  <2> QED BY <2>4, <2>5, <2>6, <2>7
<1>6. \A i \in stay : g[i].next = NULL /\ g[i].prev = NULL
  OBVIOUS
<1>7. \A i \in stay, d \in DOMAIN new : \A k \in DOMAIN new[d] : new[d][k] # i
  <2>1. \A d, e \in DOMAIN lists : \A k \in DOMAIN lists[d], l \in DOMAIN lists[e] :
          lists[d][k] = lists[e][l] => d = e /\ k = l
    BY Zenon DEF ListsAre
  <2>2. \A i \in free, d \in DOMAIN lists : \A k \in DOMAIN lists[d] : lists[d][k] # i
    BY Zenon DEF ListsAre
  <2> TAKE i \in stay, d \in DOMAIN new
  <2>3. CASE d = c
    BY <1>1, <2>3
  <2>4. CASE d # c
    BY <1>1, <2>1, <2>2, <2>4
  <2> QED BY <2>3, <2>4
<1>8. ListsAre(g, new, stay)
  BY <1>3, <1>4, <1>5, <1>6, <1>7, Zenon DEF ListsAre, ItemsOf
<1> QED BY <1>8 DEF new

-----------------------------------------------------------------------------
(* What the operators on sequences do, entry by entry.                     *)

(* RemoveAt *)
LEMMA Removed ==
  ASSUME NEW S, NEW s \in Seq(S), NEW k \in 1 .. Len(s), NEW t, t = RemoveAt(s, k)
  PROVE  /\ t \in Seq(S) /\ Len(t) = Len(s) - 1 /\ DOMAIN t = 1 .. Len(s) - 1
         /\ \A j \in 1 .. Len(s) - 1 : t[j] = IF j < k THEN s[j] ELSE s[j + 1]
<1> DEFINE n == Len(s)
           a == SubSeq(s, 1, k - 1)
           b == SubSeq(s, k + 1, n)
<1>1. n \in Nat /\ k \in 1 .. n /\ \A j \in 1 .. n : s[j] \in S
  BY LenProperties, ElementOfSeq
<1>2. /\ a \in Seq(S) /\ Len(a) = k - 1
      /\ \A j \in 1 .. k - 1 : a[j] = s[j]
  <2>1. \A j \in 1 .. k - 1 : s[j] \in S
    BY <1>1
  <2>2. /\ a \in Seq(S) /\ Len(a) = IF 1 <= k - 1 THEN k - 1 - 1 + 1 ELSE 0
        /\ \A j \in 1 .. k - 1 - 1 + 1 : a[j] = s[1 + j - 1]
    BY <1>1, <2>1, SubSeqProperties
  <2> HIDE DEF a, n
  <2> QED BY <1>1, <2>2
<1>3. /\ b \in Seq(S) /\ Len(b) = n - k
      /\ \A j \in 1 .. n - k : b[j] = s[k + j]
  <2>1. \A j \in k + 1 .. n : s[j] \in S
    BY <1>1
  <2>2. /\ b \in Seq(S) /\ Len(b) = IF k + 1 <= n THEN n - (k + 1) + 1 ELSE 0
        /\ \A j \in 1 .. n - (k + 1) + 1 : b[j] = s[k + 1 + j - 1]
    BY <1>1, <2>1, SubSeqProperties
  <2> HIDE DEF b, n
  <2> QED BY <1>1, <2>2
<1>4. t = a \o b
  BY DEF RemoveAt
<1> HIDE DEF a, b, n
<1>5. /\ t \in Seq(S) /\ Len(t) = n - 1
      /\ \A j \in 1 .. n - 1 : t[j] = IF j <= k - 1 THEN a[j] ELSE b[j - (k - 1)]
  <2>1. /\ a \o b \in Seq(S) /\ Len(a \o b) = Len(a) + Len(b)
        /\ \A j \in 1 .. Len(a) + Len(b) :
             (a \o b)[j] = IF j <= Len(a) THEN a[j] ELSE b[j - Len(a)]
    BY <1>2, <1>3, ConcatProperties
  <2>2. Len(a) + Len(b) = n - 1
    BY <1>1, <1>2, <1>3 DEF n
  <2> QED BY <1>2, <1>4, <2>1, <2>2
<1>6. \A j \in 1 .. n - 1 : t[j] = IF j < k THEN s[j] ELSE s[j + 1]
  <2> TAKE j \in 1 .. n - 1
  <2>1. CASE j < k
    BY <1>1, <1>2, <1>5, <2>1
  <2>2. CASE ~(j < k)
    <3>1. j - (k - 1) \in 1 .. n - k /\ k + (j - (k - 1)) = j + 1
      BY <1>1, <2>2
    <3> QED BY <1>1, <1>3, <1>5, <2>2, <3>1
  <2> QED BY <2>1, <2>2
<1>7. DOMAIN t = 1 .. n - 1
  BY <1>5, LenProperties
<1> QED BY <1>5, <1>6, <1>7 DEF n

(* InsertAt *)
LEMMA Inserted ==
  ASSUME NEW S, NEW s \in Seq(S), NEW k \in 1 .. Len(s), NEW e \in S, NEW t, t = InsertAt(s, k, e)
  PROVE  /\ t \in Seq(S) /\ Len(t) = Len(s) + 1 /\ DOMAIN t = 1 .. Len(s) + 1
         /\ \A j \in 1 .. Len(s) + 1 : t[j] = IF j < k THEN s[j] ELSE IF j = k THEN e ELSE s[j - 1]
<1> DEFINE n == Len(s)
           a == SubSeq(s, 1, k - 1)
           m == <<e>>
           b == SubSeq(s, k, n)
<1>1. n \in Nat /\ k \in 1 .. n /\ \A j \in 1 .. n : s[j] \in S
  BY LenProperties, ElementOfSeq
<1>2. /\ a \in Seq(S) /\ Len(a) = k - 1
      /\ \A j \in 1 .. k - 1 : a[j] = s[j]
  <2>1. \A j \in 1 .. k - 1 : s[j] \in S
    BY <1>1
  <2>2. /\ a \in Seq(S) /\ Len(a) = IF 1 <= k - 1 THEN k - 1 - 1 + 1 ELSE 0
        /\ \A j \in 1 .. k - 1 - 1 + 1 : a[j] = s[1 + j - 1]
    BY <1>1, <2>1, SubSeqProperties
  <2> HIDE DEF a, n
  <2> QED BY <1>1, <2>2
<1>3. /\ b \in Seq(S) /\ Len(b) = n - k + 1
      /\ \A j \in 1 .. n - k + 1 : b[j] = s[k + j - 1]
  <2>1. \A j \in k .. n : s[j] \in S
    BY <1>1
  <2>2. /\ b \in Seq(S) /\ Len(b) = IF k <= n THEN n - k + 1 ELSE 0
        /\ \A j \in 1 .. n - k + 1 : b[j] = s[k + j - 1]
    BY <1>1, <2>1, SubSeqProperties
  <2> HIDE DEF b, n
  <2> QED BY <1>1, <2>2
<1>4. m \in Seq(S) /\ Len(m) = 1 /\ m[1] = e
  OBVIOUS
<1>5. t = (a \o m) \o b
  BY DEF InsertAt
<1> HIDE DEF a, m, b, n
<1>6. /\ a \o m \in Seq(S) /\ Len(a \o m) = k
      /\ \A j \in 1 .. k : (a \o m)[j] = IF j < k THEN s[j] ELSE e
  <2>1. /\ a \o m \in Seq(S) /\ Len(a \o m) = Len(a) + Len(m)
        /\ \A j \in 1 .. Len(a) + Len(m) :
             (a \o m)[j] = IF j <= Len(a) THEN a[j] ELSE m[j - Len(a)]
    BY <1>2, <1>4, ConcatProperties
  <2>2. \A j \in 1 .. k : (a \o m)[j] = IF j <= k - 1 THEN a[j] ELSE m[j - (k - 1)]
    BY <1>1, <1>2, <1>4, <2>1
  <2>3. ASSUME NEW j \in 1 .. k PROVE (a \o m)[j] = IF j < k THEN s[j] ELSE e
    <3>1. CASE j < k
      BY <1>1, <1>2, <2>2, <3>1
    <3>2. CASE j = k
      <4>1. j - (k - 1) = 1 /\ ~(j <= k - 1) /\ ~(j < k)
        BY <1>1, <3>2
      <4>2. (a \o m)[j] = m[j - (k - 1)]
        BY <2>2, <4>1
      <4> QED BY <1>4, <4>1, <4>2
    <3>3. j < k \/ j = k
      BY <1>1
    <3> QED BY <3>1, <3>2, <3>3, Zenon
  <2> QED BY <1>1, <1>2, <1>4, <2>1, <2>3
<1> DEFINE d == a \o m
<1> HIDE DEF d
<1>7. /\ t \in Seq(S) /\ Len(t) = n + 1
      /\ \A j \in 1 .. n + 1 : t[j] = IF j <= k THEN d[j] ELSE b[j - k]
  <2>1. /\ d \o b \in Seq(S) /\ Len(d \o b) = Len(d) + Len(b)
        /\ \A j \in 1 .. Len(d) + Len(b) :
             (d \o b)[j] = IF j <= Len(d) THEN d[j] ELSE b[j - Len(d)]
    <3>1. d \in Seq(S)
      BY <1>6 DEF d
    <3> QED BY <1>3, <3>1, ConcatProperties
  <2>2. Len(d) = k /\ Len(d) + Len(b) = n + 1
    BY <1>1, <1>3, <1>6 DEF d
  <2>3. t = d \o b
    BY <1>5 DEF d
  <2> QED BY <2>1, <2>2, <2>3
<1>8. \A j \in 1 .. n + 1 : t[j] = IF j < k THEN s[j] ELSE IF j = k THEN e ELSE s[j - 1]
  <2> TAKE j \in 1 .. n + 1
  <2>1. CASE j <= k
    <3>1. j \in 1 .. k
      BY <1>1, <2>1
    <3>2. d[j] = IF j < k THEN s[j] ELSE e
      BY <1>6, <3>1 DEF d
    <3> QED BY <1>1, <1>7, <2>1, <3>1, <3>2
  <2>2. CASE ~(j <= k)
    <3>1. /\ j - k \in 1 .. n - k + 1 /\ k + (j - k) - 1 = j - 1
          /\ ~(j < k) /\ j # k
      BY <1>1, <2>2
    <3>2. t[j] = b[j - k]
      BY <1>7, <2>2
    <3>3. b[j - k] = s[k + (j - k) - 1]
      BY <1>3, <3>1
    <3> QED BY <3>1, <3>2, <3>3
  <2> QED BY <2>1, <2>2
<1>9. DOMAIN t = 1 .. n + 1
  BY <1>7, LenProperties
<1> QED BY <1>7, <1>8, <1>9 DEF n

-----------------------------------------------------------------------------
(* add_item_to_array *)

(* The links after it, for a first child. *)
LEMMA AppendFirst ==
  ASSUME NEW h, NEW c, NEW item, IsItem(h, c), IsItem(h, item), h[c].child = NULL,
         NEW g, g = AppendLinks(h, c, item)
  PROVE  /\ SameBlocks(h, g)
         /\ \A y \in DOMAIN h :
              /\ g[y].child = IF y = c THEN item ELSE h[y].child
              /\ g[y].prev = IF y = item THEN item ELSE h[y].prev
              /\ g[y].next = IF y = item THEN NULL ELSE h[y].next
<1> DEFINE g1 == SetChild(h, c, item)
           g2 == SetPrev(g1, item, item)
           g3 == SetNext(g2, item, NULL)
<1>0. g = g3
  BY DEF AppendLinks
<1>1. /\ SameBlocks(h, g1)
      /\ \A y \in DOMAIN h : /\ g1[y].child = IF y = c THEN item ELSE h[y].child
                             /\ g1[y].next = h[y].next /\ g1[y].prev = h[y].prev
  BY PutChild
<1> HIDE DEF g1
<1>2. IsItem(g1, item)
  BY <1>1, ItemsStay
<1>3. /\ SameBlocks(g1, g2)
      /\ \A y \in DOMAIN g1 : /\ g2[y].prev = IF y = item THEN item ELSE g1[y].prev
                              /\ g2[y].next = g1[y].next /\ g2[y].child = g1[y].child
  BY <1>2, PutPrev
<1> HIDE DEF g2
<1>4. IsItem(g2, item)
  BY <1>2, <1>3, ItemsStay
<1>5. /\ SameBlocks(g2, g3)
      /\ \A y \in DOMAIN g2 : /\ g3[y].next = IF y = item THEN NULL ELSE g2[y].next
                              /\ g3[y].prev = g2[y].prev /\ g3[y].child = g2[y].child
  BY <1>4, PutNext
<1> HIDE DEF g3
<1> QED BY <1>0, <1>1, <1>3, <1>5 DEF SameBlocks

(* The links after it, for a later child. *)
LEMMA AppendLater ==
  ASSUME NEW h, NEW c, NEW item, IsItem(h, item), NULL \notin DOMAIN h,
         NEW f, f = h[c].child, IsItem(h, f), NEW last, last = h[f].prev, IsItem(h, last),
         NEW g, g = AppendLinks(h, c, item)
  PROVE  /\ SameBlocks(h, g)
         /\ \A y \in DOMAIN h :
              /\ g[y].child = h[y].child
              /\ g[y].prev = IF y = f THEN item ELSE IF y = item THEN last ELSE h[y].prev
              /\ g[y].next = IF y = last THEN item ELSE h[y].next
<1> DEFINE g1 == SetNext(h, last, item)
           g2 == SetPrev(g1, item, last)
           g3 == SetPrev(g2, f, item)
<1>0. g = g3
  BY DEF AppendLinks, IsItem
<1>1. /\ SameBlocks(h, g1)
      /\ \A y \in DOMAIN h : /\ g1[y].next = IF y = last THEN item ELSE h[y].next
                             /\ g1[y].prev = h[y].prev /\ g1[y].child = h[y].child
  BY PutNext
<1> HIDE DEF g1
<1>2. IsItem(g1, item) /\ IsItem(g1, f)
  BY <1>1, ItemsStay
<1>3. /\ SameBlocks(g1, g2)
      /\ \A y \in DOMAIN g1 : /\ g2[y].prev = IF y = item THEN last ELSE g1[y].prev
                              /\ g2[y].next = g1[y].next /\ g2[y].child = g1[y].child
  BY <1>2, PutPrev
<1> HIDE DEF g2
<1>4. IsItem(g2, f)
  BY <1>2, <1>3, ItemsStay
<1>5. /\ SameBlocks(g2, g3)
      /\ \A y \in DOMAIN g2 : /\ g3[y].prev = IF y = f THEN item ELSE g2[y].prev
                              /\ g3[y].next = g2[y].next /\ g3[y].child = g2[y].child
  BY <1>4, PutPrev
<1> HIDE DEF g3
<1> QED BY <1>0, <1>1, <1>3, <1>5 DEF SameBlocks

(* add_item_to_array appends a free item to the children of the container: *)
(* forwards, backwards and at the shortcut from the first to the last, and *)
(* to the children of no other.  It leaves the item's next as it was when  *)
(* there are children already; the item is free, so this is the end.       *)
THEOREM AppendIsRight ==
  ASSUME NEW h, NEW lists, NEW free, ListsAre(h, lists, free),
         NEW c \in DOMAIN lists, NEW item \in free
  PROVE  ListsAre(AppendLinks(h, c, item),
                  [lists EXCEPT ![c] = Append(@, item)], free \ {item})
<1> DEFINE s == lists[c]
           n == Len(s)
           t == Append(s, item)
           g == AppendLinks(h, c, item)
<1>1. /\ NULL \notin DOMAIN h /\ IsItem(h, c) /\ c \in DOMAIN h
      /\ s \in Seq(ItemsOf(h)) /\ n \in Nat /\ DOMAIN s = 1 .. n
      /\ IsListOf(h, c, s)
      /\ \A k \in 1 .. n : IsItem(h, s[k]) /\ s[k] \in DOMAIN h
      /\ \A k, l \in 1 .. n : s[k] = s[l] => k = l
      /\ \A i \in free : /\ IsItem(h, i) /\ i \in DOMAIN h
                         /\ h[i].next = NULL /\ h[i].prev = NULL
                         /\ \A k \in 1 .. n : s[k] # i
  BY OneList
<1>2. /\ t \in Seq(ItemsOf(h)) /\ Len(t) = n + 1 /\ DOMAIN t = 1 .. n + 1
      /\ \A k \in 1 .. n : t[k] = s[k]
      /\ t[n + 1] = item
  <2>1. item \in ItemsOf(h)
    BY <1>1 DEF ItemsOf
  <2> QED BY <1>1, <2>1, AppendProperties, LenProperties
<1>3. \A k, l \in DOMAIN t : t[k] = t[l] => k = l
  BY <1>1, <1>2
<1> HIDE DEF t, g
<1>4. CASE n = 0
  <2>1. h[c].child = NULL
    BY <1>1, <1>4 DEF IsListOf
  <2>2. /\ SameBlocks(h, g)
        /\ \A y \in DOMAIN h :
             /\ g[y].child = IF y = c THEN item ELSE h[y].child
             /\ g[y].prev = IF y = item THEN item ELSE h[y].prev
             /\ g[y].next = IF y = item THEN NULL ELSE h[y].next
    BY <1>1, <2>1, AppendFirst DEF g
  <2>3. IsListOf(g, c, t)
    BY <1>1, <1>2, <1>4, <2>2 DEF IsListOf
  <2>4. ListsAre(g, [lists EXCEPT ![c] = t], free \ {item})
    BY <1>1, <1>2, <1>3, <1>4, <2>2, <2>3, OthersStay
  <2> QED BY <2>4 DEF g, t
<1>5. CASE n # 0
  <2>1. /\ h[c].child = s[1] /\ IsItem(h, s[1])
        /\ h[s[1]].prev = s[n] /\ IsItem(h, s[n])
    BY <1>1, <1>5 DEF IsListOf
  <2>2. /\ SameBlocks(h, g)
        /\ \A y \in DOMAIN h :
             /\ g[y].child = h[y].child
             /\ g[y].prev = IF y = s[1] THEN item ELSE IF y = item THEN s[n] ELSE h[y].prev
             /\ g[y].next = IF y = s[n] THEN item ELSE h[y].next
    BY <1>1, <2>1, AppendLater DEF g
  <2>3. IsListOf(g, c, t)
    <3>1. g[c].child = t[1]
      BY <1>1, <1>2, <1>5, <2>1, <2>2
    <3>2. \A k \in 1 .. n + 1 : /\ g[t[k]].prev = t[IF k = 1 THEN n + 1 ELSE k - 1]
                                /\ g[t[k]].next = IF k = n + 1 THEN NULL ELSE t[k + 1]
      <4> TAKE k \in 1 .. n + 1
      <4>1. CASE k = n + 1
        BY <1>1, <1>2, <1>5, <2>1, <2>2, <4>1
      <4>2. CASE k \in 1 .. n
        BY <1>1, <1>2, <1>5, <2>1, <2>2, <4>2, SMTT(40) DEF IsListOf
      <4> QED BY <1>1, <4>1, <4>2
    <3> QED BY <1>1, <1>2, <3>1, <3>2, SMTT(40) DEF IsListOf
  <2>4. \A y \in DOMAIN h : y \in free \/ (\E l \in DOMAIN s : s[l] = y)
                          \/ (g[y].next = h[y].next /\ g[y].prev = h[y].prev)
    BY <1>1, <1>5, <2>2
  <2>5. \A i \in free \ {item} : /\ IsItem(h, i) /\ g[i].next = NULL /\ g[i].prev = NULL
                                /\ \A k \in DOMAIN t : t[k] # i
    BY <1>1, <1>2, <1>5, <2>2, SMTT(40)
  <2>6. \A k \in DOMAIN t : t[k] \in free \/ \E l \in DOMAIN s : t[k] = s[l]
    BY <1>1, <1>2
  <2>7. ListsAre(g, [lists EXCEPT ![c] = t], free \ {item})
    BY <1>2, <1>3, <2>2, <2>3, <2>4, <2>5, <2>6, OthersStay, SMTT(40)
  <2> QED BY <2>7 DEF g, t
<1> QED BY <1>1, <1>4, <1>5

-----------------------------------------------------------------------------
(* cJSON_DetachItemViaPointer *)

(* The links after it. *)
LEMMA DetachAt ==
  ASSUME NEW h, NEW c, NEW item, IsItem(h, c), IsItem(h, item), NULL \notin DOMAIN h,
         NEW first, first = h[c].child, NEW prev, prev = h[item].prev,
         NEW next, next = h[item].next,
         IsItem(h, first), IsItem(h, prev), next = NULL \/ IsItem(h, next),
         NEW g, g = DetachLinks(h, c, item)
  PROVE  /\ SameBlocks(h, g)
         /\ \A y \in DOMAIN h :
              /\ g[y].child = IF item = first /\ y = c THEN next ELSE h[y].child
              /\ g[y].prev = IF y = item THEN NULL
                             ELSE IF y = next \/ (item # first /\ next = NULL /\ y = first) THEN prev
                             ELSE h[y].prev
              /\ g[y].next = IF y = item THEN NULL
                             ELSE IF item # first /\ y = prev THEN next
                             ELSE h[y].next
<1> DEFINE h1 == IF item = first THEN h ELSE SetNext(h, prev, next)
           h2 == IF next = NULL THEN h1 ELSE SetPrev(h1, next, prev)
           h3 == IF item = first THEN SetChild(h2, c, next)
                 ELSE IF next = NULL THEN SetPrev(h2, h2[c].child, prev)
                 ELSE h2
           h4 == SetPrev(h3, item, NULL)
           h5 == SetNext(h4, item, NULL)
<1>0. g = h5
  BY DEF DetachLinks
<1>1. /\ SameBlocks(h, h1)
      /\ \A y \in DOMAIN h : /\ h1[y].next = IF item # first /\ y = prev THEN next ELSE h[y].next
                             /\ h1[y].prev = h[y].prev /\ h1[y].child = h[y].child
  <2>1. CASE item = first
    BY <2>1 DEF SameBlocks
  <2>2. CASE item # first
    <3>1. h1 = SetNext(h, prev, next)
      BY <2>2
    <3> HIDE DEF h1
    <3> QED BY <2>2, <3>1, PutNext
  <2> QED BY <2>1, <2>2
<1> HIDE DEF h1
<1>2. \A b : IsItem(h1, b) <=> IsItem(h, b)
  BY <1>1, ItemsStay
<1>3. /\ SameBlocks(h1, h2)
      /\ \A y \in DOMAIN h1 : /\ h2[y].prev = IF next # NULL /\ y = next THEN prev ELSE h1[y].prev
                              /\ h2[y].next = h1[y].next /\ h2[y].child = h1[y].child
  <2>1. CASE next = NULL
    BY <2>1 DEF SameBlocks
  <2>2. CASE next # NULL
    <3>1. h2 = SetPrev(h1, next, prev)
      BY <2>2
    <3> HIDE DEF h2
    <3> QED BY <1>2, <2>2, <3>1, PutPrev
  <2> QED BY <2>1, <2>2
<1> HIDE DEF h2
<1>4. \A b : IsItem(h2, b) <=> IsItem(h, b)
  BY <1>2, <1>3, ItemsStay
<1>5. h2[c].child = first
  BY <1>1, <1>3 DEF SameBlocks, IsItem
<1>6. /\ SameBlocks(h2, h3)
      /\ \A y \in DOMAIN h2 :
           /\ h3[y].next = h2[y].next
           /\ h3[y].prev = IF item # first /\ next = NULL /\ y = first THEN prev ELSE h2[y].prev
           /\ h3[y].child = IF item = first /\ y = c THEN next ELSE h2[y].child
  <2>1. CASE item = first
    <3>1. h3 = SetChild(h2, c, next)
      BY <2>1
    <3> HIDE DEF h3
    <3> QED BY <1>4, <2>1, <3>1, PutChild
  <2>2. CASE item # first /\ next = NULL
    <3>1. h3 = SetPrev(h2, first, prev)
      BY <1>5, <2>2
    <3> HIDE DEF h3
    <3> QED BY <1>4, <2>2, <3>1, PutPrev
  <2>3. CASE item # first /\ next # NULL
    <3>1. h3 = h2
      BY <2>3
    <3> HIDE DEF h3
    <3> QED BY <2>3, <3>1 DEF SameBlocks
  <2> QED BY <2>1, <2>2, <2>3
<1> HIDE DEF h3
<1>7. IsItem(h3, item)
  BY <1>4, <1>6, ItemsStay
<1>8. /\ SameBlocks(h3, h4)
      /\ \A y \in DOMAIN h3 : /\ h4[y].prev = IF y = item THEN NULL ELSE h3[y].prev
                              /\ h4[y].next = h3[y].next /\ h4[y].child = h3[y].child
  BY <1>7, PutPrev
<1> HIDE DEF h4
<1>9. IsItem(h4, item)
  BY <1>7, <1>8, ItemsStay
<1>10. /\ SameBlocks(h4, h5)
       /\ \A y \in DOMAIN h4 : /\ h5[y].next = IF y = item THEN NULL ELSE h4[y].next
                               /\ h5[y].prev = h4[y].prev /\ h5[y].child = h4[y].child
  BY <1>9, PutNext
<1> HIDE DEF h5
<1>11. SameBlocks(h, g)
  BY <1>0, <1>1, <1>3, <1>6, <1>8, <1>10 DEF SameBlocks
<1>12. ASSUME NEW y \in DOMAIN h
       PROVE  /\ g[y].child = IF item = first /\ y = c THEN next ELSE h[y].child
              /\ g[y].prev = IF y = item THEN NULL
                             ELSE IF y = next \/ (item # first /\ next = NULL /\ y = first) THEN prev
                             ELSE h[y].prev
              /\ g[y].next = IF y = item THEN NULL
                             ELSE IF item # first /\ y = prev THEN next
                             ELSE h[y].next
  <2>1. y \in DOMAIN h1 /\ y \in DOMAIN h2 /\ y \in DOMAIN h3 /\ y \in DOMAIN h4
    BY <1>1, <1>3, <1>6, <1>8 DEF SameBlocks
  <2>2. g[y].child = IF item = first /\ y = c THEN next ELSE h[y].child
    BY <1>0, <1>1, <1>3, <1>6, <1>8, <1>10, <2>1
  <2>3. g[y].next = IF y = item THEN NULL
                   ELSE IF item # first /\ y = prev THEN next
                   ELSE h[y].next
    BY <1>0, <1>1, <1>3, <1>6, <1>8, <1>10, <2>1
  <2>4. g[y].prev = IF y = item THEN NULL
                   ELSE IF y = next \/ (item # first /\ next = NULL /\ y = first) THEN prev
                   ELSE h[y].prev
    <3>1. g[y].prev = IF y = item THEN NULL ELSE h3[y].prev
      BY <1>0, <1>8, <1>10, <2>1
    <3>2. h2[y].prev = IF y = next THEN prev ELSE h[y].prev
      BY <1>1, <1>3, <2>1
    <3> QED BY <1>6, <2>1, <3>1, <3>2
  <2> QED BY <2>2, <2>3, <2>4
<1> QED BY <1>11, <1>12

(* cJSON_DetachItemViaPointer takes the item out of the children of its    *)
(* container, wherever among them it is, and leaves it free: the rest is a *)
(* list again, with the right end behind the first one's prev, even when   *)
(* the first or the last of them went, and no other list is touched.       *)
THEOREM DetachIsRight ==
  ASSUME NEW h, NEW lists, NEW free, ListsAre(h, lists, free),
         NEW c \in DOMAIN lists, NEW k \in DOMAIN lists[c]
  PROVE  LET item == lists[c][k]
         IN ListsAre(DetachLinks(h, c, item),
                     [lists EXCEPT ![c] = RemoveAt(@, k)], free \cup {item})
<1> DEFINE s == lists[c]
           n == Len(s)
           t == RemoveAt(s, k)
           item == s[k]
           prev == h[item].prev
           next == h[item].next
           g == DetachLinks(h, c, item)
<1>1. /\ NULL \notin DOMAIN h /\ IsItem(h, c) /\ c \in DOMAIN h
      /\ s \in Seq(ItemsOf(h)) /\ n \in Nat /\ DOMAIN s = 1 .. n
      /\ IsListOf(h, c, s)
      /\ \A j \in 1 .. n : IsItem(h, s[j]) /\ s[j] \in DOMAIN h
      /\ \A j, l \in 1 .. n : s[j] = s[l] => j = l
      /\ \A i \in free : /\ IsItem(h, i) /\ i \in DOMAIN h
                         /\ h[i].next = NULL /\ h[i].prev = NULL
                         /\ \A j \in 1 .. n : s[j] # i
  BY OneList
<1>2. k \in 1 .. n
  BY <1>1
<1>3. /\ Len(t) = n - 1 /\ DOMAIN t = 1 .. n - 1 /\ t \in Seq(ItemsOf(h))
      /\ \A j \in 1 .. n - 1 : t[j] = IF j < k THEN s[j] ELSE s[j + 1]
  <2>1. t = RemoveAt(s, k) /\ k \in 1 .. Len(s) /\ s \in Seq(ItemsOf(h))
    BY <1>1, <1>2
  <2> HIDE DEF t, s
  <2> QED BY <2>1, Removed DEF n
<1>4. /\ h[c].child = s[1] /\ IsItem(h, s[1])
      /\ prev = s[IF k = 1 THEN n ELSE k - 1] /\ IsItem(h, prev)
      /\ next = IF k = n THEN NULL ELSE s[k + 1]
      /\ next = NULL \/ IsItem(h, next)
      /\ item = s[1] <=> k = 1
      /\ IsItem(h, item) /\ item = s[k]
  <2>1. /\ h[c].child = s[1]
        /\ prev = s[IF k = 1 THEN n ELSE k - 1]
        /\ next = IF k = n THEN NULL ELSE s[k + 1]
    BY <1>1, <1>2 DEF IsListOf
  <2> QED BY <1>1, <1>2, <2>1
<1> HIDE DEF s, n, t, item, prev, next, g
<1>5. /\ SameBlocks(h, g)
      /\ \A y \in DOMAIN h :
           /\ g[y].child = IF item = s[1] /\ y = c THEN next ELSE h[y].child
           /\ g[y].prev = IF y = item THEN NULL
                          ELSE IF y = next \/ (item # s[1] /\ next = NULL /\ y = s[1]) THEN prev
                          ELSE h[y].prev
           /\ g[y].next = IF y = item THEN NULL
                          ELSE IF item # s[1] /\ y = prev THEN next
                          ELSE h[y].next
  BY <1>1, <1>4, DetachAt DEF g, prev, next
<1>6. \A j \in 1 .. n - 1 : j \in 1 .. n /\ j + 1 \in 1 .. n /\ t[j] \in DOMAIN h
  BY <1>1, <1>3
<1>7. g[c].child = IF n - 1 = 0 THEN NULL ELSE t[1]
  BY <1>1, <1>2, <1>3, <1>4, <1>5, SMTT(40)
<1>8. \A j \in 1 .. n : /\ h[s[j]].prev = s[IF j = 1 THEN n ELSE j - 1]
                        /\ h[s[j]].next = IF j = n THEN NULL ELSE s[j + 1]
  BY <1>1 DEF IsListOf, n
<1>9. ASSUME NEW j \in 1 .. n - 1
      PROVE  g[t[j]].prev = t[IF j = 1 THEN n - 1 ELSE j - 1]
  <2>1. CASE j < k /\ j = 1 /\ k = n
    <3>1. t[j] = s[1] /\ t[n - 1] = s[n - 1] /\ next = NULL /\ item # s[1] /\ prev = s[n - 1]
      BY <1>1, <1>2, <1>3, <1>4, <2>1
    <3> QED BY <1>4, <1>5, <1>6, <2>1, <3>1
  <2>2. CASE j < k /\ j = 1 /\ k # n
    <3>1. t[j] = s[1] /\ t[n - 1] = s[n] /\ next # NULL /\ next # s[1] /\ item # s[1]
      BY <1>1, <1>2, <1>3, <1>4, <2>2
    <3> QED BY <1>5, <1>6, <1>8, <2>2, <3>1
  <2>3. CASE j < k /\ j # 1
    <3>1. t[j] = s[j] /\ t[j - 1] = s[j - 1] /\ s[j] # next /\ s[j] # s[1] /\ s[j] # item
      BY <1>1, <1>2, <1>3, <1>4, <1>6, <2>3
    <3> QED BY <1>5, <1>6, <1>8, <2>3, <3>1
  <2>4. CASE j = k
    <3>1. t[j] = next /\ next # item /\ next # NULL
      BY <1>1, <1>2, <1>3, <1>4, <1>6, <2>4
    <3>2. g[t[j]].prev = prev
      BY <1>5, <1>6, <3>1
    <3>3. prev = t[IF j = 1 THEN n - 1 ELSE j - 1]
      BY <1>1, <1>2, <1>3, <1>4, <2>4
    <3> QED BY <3>2, <3>3
  <2>5. CASE j > k
    <3>1. /\ t[j] = s[j + 1] /\ t[j - 1] = s[j] /\ j # 1
          /\ s[j + 1] # next /\ s[j + 1] # s[1] /\ s[j + 1] # item
      BY <1>1, <1>2, <1>3, <1>4, <1>6, <2>5
    <3> QED BY <1>1, <1>5, <1>6, <1>8, <2>5, <3>1
  <2> QED BY <1>1, <1>2, <2>1, <2>2, <2>3, <2>4, <2>5
<1>10. ASSUME NEW j \in 1 .. n - 1
      PROVE  g[t[j]].next = IF j = n - 1 THEN NULL ELSE t[j + 1]
  <2>1. CASE j < k - 1
    <3>1. t[j] = s[j] /\ t[j + 1] = s[j + 1] /\ s[j] # prev /\ s[j] # item /\ j # n - 1
      BY <1>1, <1>2, <1>3, <1>4, <1>6, <2>1
    <3>2. g[t[j]].next = h[s[j]].next
      BY <1>5, <1>6, <3>1
    <3>3. h[s[j]].next = s[j + 1]
      <4>1. j \in 1 .. n /\ j # n
        BY <1>1
      <4> QED BY <1>8, <4>1
    <3> QED BY <3>1, <3>2, <3>3
  <2>2. CASE j = k - 1
    <3>1. t[j] = prev /\ prev # item /\ item # s[1]
      BY <1>1, <1>2, <1>3, <1>4, <1>6, <2>2
    <3>2. g[t[j]].next = next
      BY <1>5, <1>6, <3>1
    <3>3. next = IF j = n - 1 THEN NULL ELSE t[j + 1]
      BY <1>1, <1>2, <1>3, <1>4, <2>2
    <3> QED BY <3>2, <3>3
  <2>3. CASE j >= k
    <3>1. /\ t[j] = s[j + 1]
          /\ j # n - 1 => t[j + 1] = s[j + 2]
          /\ s[j + 1] # item
          /\ item = s[1] \/ s[j + 1] # prev
      BY <1>1, <1>2, <1>3, <1>4, <1>6, <2>3
    <3>2. g[t[j]].next = h[s[j + 1]].next
      BY <1>5, <1>6, <3>1
    <3>3. h[s[j + 1]].next = IF j + 1 = n THEN NULL ELSE s[j + 2]
      BY <1>1, <1>6, <1>8
    <3> QED BY <1>1, <3>1, <3>2, <3>3
  <2> QED BY <1>1, <1>2, <2>1, <2>2, <2>3
<1>11. IsListOf(g, c, t)
  BY <1>3, <1>7, <1>9, <1>10 DEF IsListOf
<1>12. \A j, l \in DOMAIN t : t[j] = t[l] => j = l
  BY <1>1, <1>2, <1>3, <1>6
<1>13. \A j \in DOMAIN t : t[j] # item /\ \E l \in DOMAIN s : t[j] = s[l]
  <2> SUFFICES ASSUME NEW j \in 1 .. n - 1
               PROVE  t[j] # item /\ \E l \in DOMAIN s : t[j] = s[l]
    BY <1>3
  <2>1. CASE j < k
    BY <1>1, <1>2, <1>3, <1>4, <1>6, <2>1
  <2>2. CASE ~(j < k)
    <3>1. t[j] = s[j + 1] /\ j + 1 \in 1 .. n /\ j + 1 # k
      BY <1>1, <1>2, <1>3, <1>6, <2>2
    <3> QED BY <1>1, <1>2, <1>4, <3>1
  <2> QED BY <2>1, <2>2
<1>14. \A y \in DOMAIN h : y \in free \/ (\E l \in DOMAIN s : s[l] = y)
                          \/ (g[y].next = h[y].next /\ g[y].prev = h[y].prev)
  BY <1>1, <1>2, <1>4, <1>5
<1>15. \A i \in free \cup {item} :
         /\ IsItem(h, i) /\ g[i].next = NULL /\ g[i].prev = NULL
         /\ i \in free \/ \E l \in DOMAIN s : s[l] = i
         /\ \A j \in DOMAIN t : t[j] # i
  BY <1>1, <1>2, <1>4, <1>5, <1>13
<1>16. ListsAre(g, [lists EXCEPT ![c] = t], free \cup {item})
  <2>1. \A y \in DOMAIN h : y # c => g[y].child = h[y].child
    BY <1>5
  <2>2. \A j \in DOMAIN t : t[j] \in free \/ \E l \in DOMAIN lists[c] : t[j] = lists[c][l]
    BY <1>13 DEF s
  <2>3. \A y \in DOMAIN h : y \in free \/ (\E l \in DOMAIN lists[c] : lists[c][l] = y)
                          \/ (g[y].next = h[y].next /\ g[y].prev = h[y].prev)
    BY <1>14 DEF s
  <2>4. \A i \in free \cup {item} :
           /\ IsItem(h, i) /\ g[i].next = NULL /\ g[i].prev = NULL
           /\ i \in free \/ \E l \in DOMAIN lists[c] : lists[c][l] = i
           /\ \A j \in DOMAIN t : t[j] # i
    BY <1>15 DEF s
  <2> QED BY <1>3, <1>5, <1>11, <1>12, <2>1, <2>2, <2>3, <2>4, OthersStay
<1> QED BY <1>16 DEF g, t, item, s

-----------------------------------------------------------------------------
(* cJSON_InsertItemInArray *)

(* The links after it. *)
LEMMA InsertLinked ==
  ASSUME NEW h, NEW c, NEW after, NEW item, IsItem(h, c), IsItem(h, after), IsItem(h, item),
         NEW first, first = h[c].child, NEW prev, prev = h[after].prev, IsItem(h, prev),
         NEW g, g = InsertLinks(h, c, after, item)
  PROVE  /\ SameBlocks(h, g)
         /\ \A y \in DOMAIN h :
              /\ g[y].child = IF after = first /\ y = c THEN item ELSE h[y].child
              /\ g[y].prev = IF y = after THEN item ELSE IF y = item THEN prev ELSE h[y].prev
              /\ g[y].next = IF after # first /\ y = prev THEN item
                             ELSE IF y = item THEN after ELSE h[y].next
<1> DEFINE g1 == SetNext(h, item, after)
           g2 == SetPrev(g1, item, prev)
           g3 == SetPrev(g2, after, item)
<1>0. g = IF after = first THEN SetChild(g3, c, item) ELSE SetNext(g3, prev, item)
  BY DEF InsertLinks
<1>1. /\ SameBlocks(h, g1)
      /\ \A y \in DOMAIN h : /\ g1[y].next = IF y = item THEN after ELSE h[y].next
                             /\ g1[y].prev = h[y].prev /\ g1[y].child = h[y].child
  BY PutNext
<1> HIDE DEF g1
<1>2. \A b : IsItem(g1, b) <=> IsItem(h, b)
  BY <1>1, ItemsStay
<1>3. /\ SameBlocks(g1, g2)
      /\ \A y \in DOMAIN g1 : /\ g2[y].prev = IF y = item THEN prev ELSE g1[y].prev
                              /\ g2[y].next = g1[y].next /\ g2[y].child = g1[y].child
  BY <1>2, PutPrev
<1> HIDE DEF g2
<1>4. \A b : IsItem(g2, b) <=> IsItem(h, b)
  BY <1>2, <1>3, ItemsStay
<1>5. /\ SameBlocks(g2, g3)
      /\ \A y \in DOMAIN g2 : /\ g3[y].prev = IF y = after THEN item ELSE g2[y].prev
                              /\ g3[y].next = g2[y].next /\ g3[y].child = g2[y].child
  BY <1>4, PutPrev
<1> HIDE DEF g3
<1>6. IsItem(g3, c) /\ IsItem(g3, prev)
  BY <1>4, <1>5, ItemsStay
<1>7. CASE after = first
  <2>1. g = SetChild(g3, c, item)
    BY <1>0, <1>7
  <2>2. /\ SameBlocks(g3, g)
        /\ \A y \in DOMAIN g3 : /\ g[y].child = IF y = c THEN item ELSE g3[y].child
                                /\ g[y].next = g3[y].next /\ g[y].prev = g3[y].prev
    BY <1>6, <2>1, PutChild
  <2> QED BY <1>1, <1>3, <1>5, <1>7, <2>2 DEF SameBlocks
<1>8. CASE after # first
  <2>1. g = SetNext(g3, prev, item)
    BY <1>0, <1>8
  <2>2. /\ SameBlocks(g3, g)
        /\ \A y \in DOMAIN g3 : /\ g[y].next = IF y = prev THEN item ELSE g3[y].next
                                /\ g[y].prev = g3[y].prev /\ g[y].child = g3[y].child
    BY <1>6, <2>1, PutNext
  <2> QED BY <1>1, <1>3, <1>5, <1>8, <2>2 DEF SameBlocks
<1> QED BY <1>7, <1>8

(* cJSON_InsertItemInArray puts a free item before the child at k, which   *)
(* the code reaches by which = k - 1: also before the first, whose prev    *)
(* leads to the last one and has to lead there from the new item on.       *)
THEOREM InsertIsRight ==
  ASSUME NEW h, NEW lists, NEW free, ListsAre(h, lists, free),
         NEW c \in DOMAIN lists, NEW k \in DOMAIN lists[c], NEW item \in free
  PROVE  ListsAre(InsertLinks(h, c, lists[c][k], item),
                  [lists EXCEPT ![c] = InsertAt(@, k, item)], free \ {item})
<1> DEFINE s == lists[c]
           n == Len(s)
           t == InsertAt(s, k, item)
           after == s[k]
           prev == h[after].prev
           g == InsertLinks(h, c, after, item)
<1>1. /\ NULL \notin DOMAIN h /\ IsItem(h, c) /\ c \in DOMAIN h
      /\ s \in Seq(ItemsOf(h)) /\ n \in Nat /\ DOMAIN s = 1 .. n
      /\ IsListOf(h, c, s)
      /\ \A j \in 1 .. n : IsItem(h, s[j]) /\ s[j] \in DOMAIN h
      /\ \A j, l \in 1 .. n : s[j] = s[l] => j = l
      /\ \A i \in free : /\ IsItem(h, i) /\ i \in DOMAIN h
                         /\ h[i].next = NULL /\ h[i].prev = NULL
                         /\ \A j \in 1 .. n : s[j] # i
  BY OneList
<1>2. k \in 1 .. n
  BY <1>1
<1>3. /\ Len(t) = n + 1 /\ DOMAIN t = 1 .. n + 1 /\ t \in Seq(ItemsOf(h))
      /\ \A j \in 1 .. n + 1 : t[j] = IF j < k THEN s[j] ELSE IF j = k THEN item ELSE s[j - 1]
  <2>1. /\ t = InsertAt(s, k, item) /\ k \in 1 .. Len(s)
        /\ s \in Seq(ItemsOf(h)) /\ item \in ItemsOf(h)
    BY <1>1, <1>2 DEF ItemsOf
  <2> HIDE DEF t, s, n
  <2>2. /\ t \in Seq(ItemsOf(h)) /\ Len(t) = Len(s) + 1 /\ DOMAIN t = 1 .. Len(s) + 1
        /\ \A j \in 1 .. Len(s) + 1 :
             t[j] = IF j < k THEN s[j] ELSE IF j = k THEN item ELSE s[j - 1]
    BY <2>1, Inserted, Z3T(40)
  <2> QED BY <2>2 DEF n
<1>4. \A j \in 1 .. n : /\ h[s[j]].prev = s[IF j = 1 THEN n ELSE j - 1]
                        /\ h[s[j]].next = IF j = n THEN NULL ELSE s[j + 1]
  BY <1>1 DEF IsListOf
<1>5. /\ h[c].child = s[1] /\ IsItem(h, s[1])
      /\ prev = s[IF k = 1 THEN n ELSE k - 1] /\ IsItem(h, prev)
      /\ IsItem(h, after) /\ after = s[k]
      /\ after = s[1] <=> k = 1
  <2>1. h[c].child = s[1]
    BY <1>1, <1>2 DEF IsListOf
  <2>2. prev = s[IF k = 1 THEN n ELSE k - 1]
    BY <1>2, <1>4
  <2> QED BY <1>1, <1>2, <2>1, <2>2
<1> HIDE DEF s, n, t, after, prev, g
<1>6. /\ SameBlocks(h, g)
      /\ \A y \in DOMAIN h :
           /\ g[y].child = IF after = s[1] /\ y = c THEN item ELSE h[y].child
           /\ g[y].prev = IF y = after THEN item ELSE IF y = item THEN prev ELSE h[y].prev
           /\ g[y].next = IF after # s[1] /\ y = prev THEN item
                          ELSE IF y = item THEN after ELSE h[y].next
  BY <1>1, <1>5, InsertLinked DEF g, prev
<1>7. g[c].child = t[1]
  BY <1>1, <1>2, <1>3, <1>5, <1>6
<1>8. ASSUME NEW j \in 1 .. n + 1
      PROVE  g[t[j]].prev = t[IF j = 1 THEN n + 1 ELSE j - 1]
  <2>1. CASE j < k
    <3>1. /\ j \in 1 .. n /\ t[j] = s[j] /\ s[j] # after /\ s[j] # item
          /\ t[IF j = 1 THEN n + 1 ELSE j - 1] = s[IF j = 1 THEN n ELSE j - 1]
      BY <1>1, <1>2, <1>3, <1>5, <2>1
    <3> QED BY <1>1, <1>4, <1>6, <3>1
  <2>2. CASE j = k
    <3>1. t[j] = item /\ item # after /\ item \in DOMAIN h
      BY <1>1, <1>2, <1>3, <1>5, <2>2
    <3>2. prev = t[IF j = 1 THEN n + 1 ELSE j - 1]
      BY <1>1, <1>2, <1>3, <1>5, <2>2
    <3> QED BY <1>6, <3>1, <3>2
  <2>3. CASE j = k + 1
    <3>1. t[j] = after /\ after \in DOMAIN h /\ t[j - 1] = item /\ j # 1
      BY <1>1, <1>2, <1>3, <1>5, <2>3
    <3> QED BY <1>6, <3>1
  <2>4. CASE j > k + 1
    <3>1. /\ j - 1 \in 1 .. n /\ t[j] = s[j - 1] /\ s[j - 1] # after /\ s[j - 1] # item
          /\ t[j - 1] = s[j - 2] /\ j # 1 /\ j - 1 # 1 /\ j - 1 - 1 = j - 2
      BY <1>1, <1>2, <1>3, <1>5, <2>4
    <3>2. g[t[j]].prev = h[s[j - 1]].prev
      BY <1>1, <1>6, <3>1
    <3> QED BY <1>4, <3>1, <3>2
  <2> QED BY <1>1, <1>2, <2>1, <2>2, <2>3, <2>4
<1>9. ASSUME NEW j \in 1 .. n + 1
      PROVE  g[t[j]].next = IF j = n + 1 THEN NULL ELSE t[j + 1]
  <2>1. CASE j < k - 1
    <3>1. /\ j \in 1 .. n /\ t[j] = s[j] /\ s[j] # prev /\ s[j] # item /\ j # n /\ j # n + 1
          /\ t[j + 1] = s[j + 1]
      BY <1>1, <1>2, <1>3, <1>5, <2>1
    <3>2. g[t[j]].next = h[s[j]].next
      BY <1>1, <1>6, <3>1
    <3> QED BY <1>4, <3>1, <3>2
  <2>2. CASE j = k - 1
    <3>1. t[j] = prev /\ prev \in DOMAIN h /\ after # s[1] /\ t[j + 1] = item /\ j # n + 1
      BY <1>1, <1>2, <1>3, <1>5, <2>2
    <3> QED BY <1>6, <3>1
  <2>3. CASE j = k
    <3>1. /\ t[j] = item /\ t[j + 1] = after /\ j # n + 1 /\ item \in DOMAIN h
          /\ item # prev
      BY <1>1, <1>2, <1>3, <1>5, <2>3, SMTT(40)
    <3> QED BY <1>6, <3>1
  <2>4. CASE j > k
    <3>1. /\ j - 1 \in 1 .. n /\ t[j] = s[j - 1] /\ s[j - 1] # item
          /\ after = s[1] \/ s[j - 1] # prev
      BY <1>1, <1>2, <1>3, <1>5, <2>4
    <3>2. g[t[j]].next = h[s[j - 1]].next
      BY <1>1, <1>6, <3>1
    <3>3. h[s[j - 1]].next = IF j - 1 = n THEN NULL ELSE s[j - 1 + 1]
      BY <1>4, <3>1
    <3>4. j # n + 1 => t[j + 1] = s[j] /\ j - 1 + 1 = j
      BY <1>1, <1>2, <1>3, <2>4
    <3>5. j = n + 1 <=> j - 1 = n
      BY <1>1
    <3> QED BY <3>2, <3>3, <3>4, <3>5
  <2> QED BY <1>1, <1>2, <2>1, <2>2, <2>3, <2>4
<1>10. IsListOf(g, c, t)
  <2>1. Len(t) # 0 /\ n + 1 = Len(t) /\ DOMAIN t = 1 .. Len(t)
    BY <1>1, <1>3
  <2>2. \A j \in DOMAIN t : /\ g[t[j]].prev = t[IF j = 1 THEN Len(t) ELSE j - 1]
                            /\ g[t[j]].next = IF j = Len(t) THEN NULL ELSE t[j + 1]
    BY <1>8, <1>9, <2>1
  <2> QED BY <1>7, <2>1, <2>2 DEF IsListOf
<1>11. \A j \in DOMAIN t : \/ t[j] = item /\ j = k
                           \/ j < k /\ j \in 1 .. n /\ t[j] = s[j]
                           \/ j > k /\ j - 1 \in 1 .. n /\ t[j] = s[j - 1]
  BY <1>1, <1>2, <1>3
<1>12. \A j, l \in DOMAIN t : t[j] = t[l] => j = l
  BY <1>1, <1>2, <1>3, <1>11
<1>13. \A j \in DOMAIN t : t[j] \in free \/ \E l \in DOMAIN lists[c] : t[j] = lists[c][l]
  BY <1>1, <1>11 DEF s
<1>14. \A y \in DOMAIN h : y \in free \/ (\E l \in DOMAIN lists[c] : lists[c][l] = y)
                          \/ (g[y].next = h[y].next /\ g[y].prev = h[y].prev)
  <2>1. \A y \in DOMAIN h : y # item /\ y # after /\ (after # s[1] => y # prev)
                          => g[y].next = h[y].next /\ g[y].prev = h[y].prev
    BY <1>6
  <2>2. (\E l \in DOMAIN s : s[l] = after) /\ \E l \in DOMAIN s : s[l] = prev
    BY <1>1, <1>2, <1>5
  <2> QED BY <2>1, <2>2 DEF s
<1>15. \A i \in free \ {item} :
         /\ IsItem(h, i) /\ g[i].next = NULL /\ g[i].prev = NULL
         /\ i \in free \/ \E l \in DOMAIN lists[c] : lists[c][l] = i
         /\ \A j \in DOMAIN t : t[j] # i
  <2> TAKE i \in free \ {item}
  <2>1. IsItem(h, i) /\ i \in DOMAIN h /\ i # after /\ i # prev /\ i # item
    BY <1>1, <1>2, <1>5
  <2>2. g[i].next = NULL /\ g[i].prev = NULL
    BY <1>1, <1>6, <2>1
  <2>3. \A j \in DOMAIN t : t[j] # i
    BY <1>1, <1>11, <2>1
  <2> QED BY <2>1, <2>2, <2>3
<1>16. \A y \in DOMAIN h : y # c => g[y].child = h[y].child
  BY <1>6
<1>17. ListsAre(g, [lists EXCEPT ![c] = t], free \ {item})
  BY <1>3, <1>6, <1>10, <1>12, <1>13, <1>14, <1>15, <1>16, OthersStay, SMTT(40)
<1> QED BY <1>17 DEF g, t, after, s

-----------------------------------------------------------------------------
(* cJSON_ReplaceItemViaPointer *)

(* The links after it. *)
LEMMA ReplaceLinked ==
  ASSUME NEW h, NEW c, NEW item, NEW r, IsItem(h, c), IsItem(h, item), IsItem(h, r),
         NULL \notin DOMAIN h, NEW first, first = h[c].child, IsItem(h, first),
         NEW prev, prev = IF item = first /\ h[item].prev = item THEN r ELSE h[item].prev,
         IsItem(h, prev), NEW next, next = h[item].next, next = NULL \/ IsItem(h, next),
         NEW g, g = ReplaceLinks(h, c, item, r)
  PROVE  /\ SameBlocks(h, g)
         /\ \A y \in DOMAIN h :
              /\ g[y].child = IF item = first /\ y = c THEN r ELSE h[y].child
              /\ g[y].next = IF y = item THEN NULL
                             ELSE IF item # first /\ y = prev THEN r
                             ELSE IF y = r THEN next ELSE h[y].next
              /\ g[y].prev = IF y = item THEN NULL
                             ELSE IF y = next \/ (item # first /\ next = NULL /\ y = first) THEN r
                             ELSE IF y = r THEN prev ELSE h[y].prev
<1> DEFINE h0 == SetNext(h, r, next)
           h1 == SetPrev(h0, r, prev)
           h2 == IF next = NULL THEN h1 ELSE SetPrev(h1, next, r)
           h3 == IF item = first THEN SetChild(h2, c, r) ELSE SetNext(h2, prev, r)
           h4 == IF item = first \/ next # NULL THEN h3 ELSE SetPrev(h3, h3[c].child, r)
           h5 == SetNext(h4, item, NULL)
           h6 == SetPrev(h5, item, NULL)
<1>0. g = h6
  <2>1. prev # NULL
    BY DEF IsItem
  <2> QED BY <2>1 DEF ReplaceLinks
<1>1. /\ SameBlocks(h, h0)
      /\ \A y \in DOMAIN h : /\ h0[y].next = IF y = r THEN next ELSE h[y].next
                             /\ h0[y].prev = h[y].prev /\ h0[y].child = h[y].child
  BY PutNext
<1> HIDE DEF h0
<1>2. \A b : IsItem(h0, b) <=> IsItem(h, b)
  BY <1>1, ItemsStay
<1>3. /\ SameBlocks(h0, h1)
      /\ \A y \in DOMAIN h0 : /\ h1[y].prev = IF y = r THEN prev ELSE h0[y].prev
                              /\ h1[y].next = h0[y].next /\ h1[y].child = h0[y].child
  BY <1>2, PutPrev
<1> HIDE DEF h1
<1>4. \A b : IsItem(h1, b) <=> IsItem(h, b)
  BY <1>2, <1>3, ItemsStay
<1>5. /\ SameBlocks(h1, h2)
      /\ \A y \in DOMAIN h1 : /\ h2[y].prev = IF next # NULL /\ y = next THEN r ELSE h1[y].prev
                              /\ h2[y].next = h1[y].next /\ h2[y].child = h1[y].child
  <2>1. CASE next = NULL
    BY <2>1 DEF SameBlocks
  <2>2. CASE next # NULL
    <3>1. h2 = SetPrev(h1, next, r)
      BY <2>2
    <3> HIDE DEF h2
    <3> QED BY <1>4, <2>2, <3>1, PutPrev
  <2> QED BY <2>1, <2>2
<1> HIDE DEF h2
<1>6. \A b : IsItem(h2, b) <=> IsItem(h, b)
  BY <1>4, <1>5, ItemsStay
<1>7. /\ SameBlocks(h2, h3)
      /\ \A y \in DOMAIN h2 :
           /\ h3[y].child = IF item = first /\ y = c THEN r ELSE h2[y].child
           /\ h3[y].next = IF item # first /\ y = prev THEN r ELSE h2[y].next
           /\ h3[y].prev = h2[y].prev
  <2>1. CASE item = first
    <3>1. h3 = SetChild(h2, c, r)
      BY <2>1
    <3> HIDE DEF h3
    <3> QED BY <1>6, <2>1, <3>1, PutChild
  <2>2. CASE item # first
    <3>1. h3 = SetNext(h2, prev, r)
      BY <2>2
    <3> HIDE DEF h3
    <3> QED BY <1>6, <2>2, <3>1, PutNext
  <2> QED BY <2>1, <2>2
<1> HIDE DEF h3
<1>8. \A b : IsItem(h3, b) <=> IsItem(h, b)
  BY <1>6, <1>7, ItemsStay
<1>9. item # first => h3[c].child = first
  BY <1>1, <1>3, <1>5, <1>7 DEF SameBlocks, IsItem
<1>10. /\ SameBlocks(h3, h4)
       /\ \A y \in DOMAIN h3 :
            /\ h4[y].prev = IF item # first /\ next = NULL /\ y = first THEN r ELSE h3[y].prev
            /\ h4[y].next = h3[y].next /\ h4[y].child = h3[y].child
  <2>1. CASE item = first \/ next # NULL
    <3>1. h4 = h3
      BY <2>1
    <3> HIDE DEF h4
    <3> QED BY <2>1, <3>1 DEF SameBlocks
  <2>2. CASE item # first /\ next = NULL
    <3>1. h4 = SetPrev(h3, first, r)
      BY <1>9, <2>2
    <3> HIDE DEF h4
    <3> QED BY <1>8, <2>2, <3>1, PutPrev
  <2> QED BY <2>1, <2>2
<1> HIDE DEF h4
<1>11. IsItem(h4, item)
  BY <1>8, <1>10, ItemsStay
<1>12. /\ SameBlocks(h4, h5)
       /\ \A y \in DOMAIN h4 : /\ h5[y].next = IF y = item THEN NULL ELSE h4[y].next
                               /\ h5[y].prev = h4[y].prev /\ h5[y].child = h4[y].child
  BY <1>11, PutNext
<1> HIDE DEF h5
<1>13. IsItem(h5, item)
  BY <1>11, <1>12, ItemsStay
<1>14. /\ SameBlocks(h5, h6)
       /\ \A y \in DOMAIN h5 : /\ h6[y].prev = IF y = item THEN NULL ELSE h5[y].prev
                               /\ h6[y].next = h5[y].next /\ h6[y].child = h5[y].child
  BY <1>13, PutPrev
<1> HIDE DEF h6
<1>15. SameBlocks(h, g)
  BY <1>0, <1>1, <1>3, <1>5, <1>7, <1>10, <1>12, <1>14 DEF SameBlocks
<1>16. ASSUME NEW y \in DOMAIN h
       PROVE  /\ g[y].child = IF item = first /\ y = c THEN r ELSE h[y].child
              /\ g[y].next = IF y = item THEN NULL
                             ELSE IF item # first /\ y = prev THEN r
                             ELSE IF y = r THEN next ELSE h[y].next
              /\ g[y].prev = IF y = item THEN NULL
                             ELSE IF y = next \/ (item # first /\ next = NULL /\ y = first) THEN r
                             ELSE IF y = r THEN prev ELSE h[y].prev
  <2>1. /\ y \in DOMAIN h0 /\ y \in DOMAIN h1 /\ y \in DOMAIN h2 /\ y \in DOMAIN h3
        /\ y \in DOMAIN h4 /\ y \in DOMAIN h5 /\ y # NULL
    BY <1>1, <1>3, <1>5, <1>7, <1>10, <1>12 DEF SameBlocks
  <2>2. g[y].child = IF item = first /\ y = c THEN r ELSE h[y].child
    BY <1>0, <1>1, <1>3, <1>5, <1>7, <1>10, <1>12, <1>14, <2>1
  <2>3. g[y].next = IF y = item THEN NULL
                   ELSE IF item # first /\ y = prev THEN r
                   ELSE IF y = r THEN next ELSE h[y].next
    <3>1. g[y].next = IF y = item THEN NULL ELSE h3[y].next
      BY <1>0, <1>10, <1>12, <1>14, <2>1
    <3>2. h2[y].next = IF y = r THEN next ELSE h[y].next
      BY <1>1, <1>3, <1>5, <2>1
    <3> QED BY <1>7, <2>1, <3>1, <3>2
  <2>4. g[y].prev = IF y = item THEN NULL
                   ELSE IF y = next \/ (item # first /\ next = NULL /\ y = first) THEN r
                   ELSE IF y = r THEN prev ELSE h[y].prev
    <3>1. g[y].prev = IF y = item THEN NULL ELSE h4[y].prev
      BY <1>0, <1>12, <1>14, <2>1
    <3>2. h1[y].prev = IF y = r THEN prev ELSE h[y].prev
      BY <1>1, <1>3, <2>1
    <3>3. h3[y].prev = IF y = next THEN r ELSE h1[y].prev
      BY <1>5, <1>7, <2>1
    <3> QED BY <1>10, <2>1, <3>1, <3>2, <3>3
  <2> QED BY <2>2, <2>3, <2>4
<1> QED BY <1>15, <1>16

(* cJSON_ReplaceItemViaPointer puts a free item in the place of a child,   *)
(* which becomes free: the only child, whose prev is the child itself, and *)
(* the last one, which the first one's prev leads to, included.            *)
THEOREM ReplaceIsRight ==
  ASSUME NEW h, NEW lists, NEW free, ListsAre(h, lists, free),
         NEW c \in DOMAIN lists, NEW k \in DOMAIN lists[c], NEW r \in free
  PROVE  LET item == lists[c][k]
         IN ListsAre(ReplaceLinks(h, c, item, r),
                     [lists EXCEPT ![c] = ReplaceAt(@, k, r)], (free \ {r}) \cup {item})
<1> DEFINE s == lists[c]
           n == Len(s)
           t == ReplaceAt(s, k, r)
           item == s[k]
           prev == IF item = s[1] /\ h[item].prev = item THEN r ELSE h[item].prev
           next == h[item].next
           g == ReplaceLinks(h, c, item, r)
           stay == (free \ {r}) \cup {item}
<1>1. /\ NULL \notin DOMAIN h /\ IsItem(h, c) /\ c \in DOMAIN h
      /\ s \in Seq(ItemsOf(h)) /\ n \in Nat /\ DOMAIN s = 1 .. n
      /\ IsListOf(h, c, s)
      /\ \A j \in 1 .. n : IsItem(h, s[j]) /\ s[j] \in DOMAIN h
      /\ \A j, l \in 1 .. n : s[j] = s[l] => j = l
      /\ \A i \in free : /\ IsItem(h, i) /\ i \in DOMAIN h
                         /\ h[i].next = NULL /\ h[i].prev = NULL
                         /\ \A j \in 1 .. n : s[j] # i
  BY OneList
<1>2. k \in 1 .. n
  BY <1>1
<1>3. /\ Len(t) = n /\ DOMAIN t = 1 .. n /\ t \in Seq(ItemsOf(h))
      /\ \A j \in 1 .. n : t[j] = IF j = k THEN r ELSE s[j]
  <2>1. t = [s EXCEPT ![k] = r] /\ r \in ItemsOf(h)
    BY <1>1 DEF ReplaceAt, ItemsOf
  <2> HIDE DEF t
  <2> QED BY <1>1, <1>2, <2>1, ExceptSeq
<1>4. \A j \in 1 .. n : /\ h[s[j]].prev = s[IF j = 1 THEN n ELSE j - 1]
                        /\ h[s[j]].next = IF j = n THEN NULL ELSE s[j + 1]
  BY <1>1 DEF IsListOf
<1>5. /\ h[c].child = s[1] /\ IsItem(h, s[1])
      /\ prev = t[IF k = 1 THEN n ELSE k - 1] /\ IsItem(h, prev)
      /\ next = IF k = n THEN NULL ELSE s[k + 1]
      /\ next = NULL \/ IsItem(h, next)
      /\ item = s[1] <=> k = 1
      /\ IsItem(h, item) /\ item = s[k]
  <2>1. h[c].child = s[1]
    BY <1>1, <1>2 DEF IsListOf
  <2>2. h[item].prev = s[IF k = 1 THEN n ELSE k - 1] /\ next = IF k = n THEN NULL ELSE s[k + 1]
    BY <1>2, <1>4
  <2>3. item = s[1] <=> k = 1
    BY <1>1, <1>2
  <2>4. prev = t[IF k = 1 THEN n ELSE k - 1]
    <3>1. CASE k = 1
      BY <1>1, <1>2, <1>3, <2>2, <3>1
    <3>2. CASE k # 1
      BY <1>1, <1>2, <1>3, <2>2, <2>3, <3>2
    <3> QED BY <3>1, <3>2
  <2>5. IsItem(h, prev)
    BY <1>1, <1>2, <1>3, <2>4
  <2> QED BY <1>1, <1>2, <2>1, <2>2, <2>3, <2>4, <2>5
<1>6. prev = IF item = h[c].child /\ h[item].prev = item THEN r ELSE h[item].prev
  BY <1>5
<1> HIDE DEF s, n, t, item, prev, next, g, stay
<1>7. /\ SameBlocks(h, g)
      /\ \A y \in DOMAIN h :
           /\ g[y].child = IF item = s[1] /\ y = c THEN r ELSE h[y].child
           /\ g[y].next = IF y = item THEN NULL
                          ELSE IF item # s[1] /\ y = prev THEN r
                          ELSE IF y = r THEN next ELSE h[y].next
           /\ g[y].prev = IF y = item THEN NULL
                          ELSE IF y = next \/ (item # s[1] /\ next = NULL /\ y = s[1]) THEN r
                          ELSE IF y = r THEN prev ELSE h[y].prev
  BY <1>1, <1>5, <1>6, ReplaceLinked DEF g, next
<1>8. g[c].child = t[1]
  BY <1>1, <1>2, <1>3, <1>5, <1>7
<1>9. r \in DOMAIN h /\ r # item /\ r # next /\ \A j \in 1 .. n : s[j] # r
  BY <1>1, <1>2, <1>5
<1>10. ASSUME NEW j \in 1 .. n
       PROVE  g[t[j]].prev = t[IF j = 1 THEN n ELSE j - 1]
  <2>1. CASE j = k
    <3>1. t[j] = r /\ r # s[1]
      BY <1>1, <1>2, <1>3, <1>9, <2>1
    <3> QED BY <1>5, <1>7, <1>9, <2>1, <3>1
  <2>2. CASE j = k + 1
    <3>1. t[j] = next /\ next \in DOMAIN h /\ next # item /\ t[j - 1] = r /\ j # 1
      BY <1>1, <1>2, <1>3, <1>5, <2>2
    <3> QED BY <1>7, <3>1
  <2>3. CASE j = 1 /\ k = n /\ j # k
    <3>1. t[j] = s[1] /\ s[1] \in DOMAIN h /\ item # s[1] /\ next = NULL /\ t[n] = r
      BY <1>1, <1>2, <1>3, <1>5, <2>3
    <3> QED BY <1>7, <2>3, <3>1
  <2>4. CASE j # k /\ j # k + 1 /\ ~(j = 1 /\ k = n)
    <3>1. /\ t[j] = s[j] /\ s[j] \in DOMAIN h /\ s[j] # item /\ s[j] # next /\ s[j] # r
          /\ ~(next = NULL /\ s[j] = s[1])
          /\ t[IF j = 1 THEN n ELSE j - 1] = s[IF j = 1 THEN n ELSE j - 1]
      BY <1>1, <1>2, <1>3, <1>5, <1>9, <2>4
    <3> QED BY <1>4, <1>7, <3>1
  <2> QED BY <2>1, <2>2, <2>3, <2>4
<1>11. ASSUME NEW j \in 1 .. n
       PROVE  g[t[j]].next = IF j = n THEN NULL ELSE t[j + 1]
  <2>1. CASE j = k
    <3>1. t[j] = r /\ (item = s[1] \/ r # prev) /\ next = IF j = n THEN NULL ELSE t[j + 1]
      BY <1>1, <1>2, <1>3, <1>5, <1>9, <2>1
    <3> QED BY <1>7, <1>9, <3>1
  <2>2. CASE j = k - 1
    <3>1. t[j] = prev /\ prev \in DOMAIN h /\ prev # item /\ item # s[1] /\ t[j + 1] = r /\ j # n
      BY <1>1, <1>2, <1>3, <1>5, <1>9, <2>2
    <3> QED BY <1>7, <3>1
  <2>3. CASE j # k /\ j # k - 1
    <3>1. /\ t[j] = s[j] /\ s[j] \in DOMAIN h /\ s[j] # item /\ s[j] # r
          /\ item = s[1] \/ s[j] # prev
          /\ j # n => t[j + 1] = s[j + 1]
      BY <1>1, <1>2, <1>3, <1>5, <1>9, <2>3
    <3> QED BY <1>4, <1>7, <3>1
  <2> QED BY <2>1, <2>2, <2>3
<1>12. IsListOf(g, c, t)
  <2>1. Len(t) # 0 /\ n = Len(t) /\ DOMAIN t = 1 .. Len(t)
    BY <1>1, <1>2, <1>3
  <2>2. \A j \in DOMAIN t : /\ g[t[j]].prev = t[IF j = 1 THEN Len(t) ELSE j - 1]
                            /\ g[t[j]].next = IF j = Len(t) THEN NULL ELSE t[j + 1]
    BY <1>10, <1>11, <2>1
  <2> QED BY <1>8, <2>1, <2>2 DEF IsListOf
<1>13. \A j, l \in DOMAIN t : t[j] = t[l] => j = l
  BY <1>1, <1>2, <1>3, <1>9
<1>14. \A j \in DOMAIN t : t[j] \in free \/ \E l \in DOMAIN lists[c] : t[j] = lists[c][l]
  BY <1>1, <1>3 DEF s
<1>15. \A y \in DOMAIN h : y \in free \/ (\E l \in DOMAIN lists[c] : lists[c][l] = y)
                           \/ (g[y].next = h[y].next /\ g[y].prev = h[y].prev)
  <2> TAKE y \in DOMAIN h
  <2>1. CASE y \in free \/ \E l \in 1 .. n : s[l] = y
    BY <1>1, <2>1 DEF s
  <2>2. CASE y \notin free /\ \A l \in 1 .. n : s[l] # y
    <3>1. y # item /\ y # next /\ y # s[1] /\ y # r /\ (item # s[1] => y # prev)
      BY <1>1, <1>2, <1>3, <1>5, <2>2
    <3> QED BY <1>7, <3>1
  <2> QED BY <2>1, <2>2
<1>16. \A i \in stay :
         /\ IsItem(h, i) /\ g[i].next = NULL /\ g[i].prev = NULL
         /\ i \in free \/ \E l \in DOMAIN lists[c] : lists[c][l] = i
         /\ \A j \in DOMAIN t : t[j] # i
  <2> TAKE i \in stay
  <2>1. CASE i = item
    <3>1. \A j \in DOMAIN t : t[j] # i
      BY <1>1, <1>2, <1>3, <1>5, <1>9, <2>1
    <3>2. g[i].next = NULL /\ g[i].prev = NULL
      BY <1>1, <1>2, <1>5, <1>7, <2>1
    <3>3. k \in DOMAIN lists[c] /\ lists[c][k] = i
      BY <1>5, <2>1 DEF s
    <3> QED BY <1>5, <2>1, <3>1, <3>2, <3>3
  <2>2. CASE i # item
    <3>1. i \in free /\ i # r
      BY <2>2 DEF stay
    <3>2. /\ IsItem(h, i) /\ i \in DOMAIN h /\ \A j \in DOMAIN t : t[j] # i
          /\ h[i].next = NULL /\ h[i].prev = NULL
      BY <1>1, <1>3, <3>1
    <3>3. i # next /\ i # s[1] /\ (item # s[1] => i # prev)
      BY <1>1, <1>2, <1>3, <1>5, <3>1
    <3>4. g[i].next = NULL /\ g[i].prev = NULL
      BY <1>7, <2>2, <3>1, <3>2, <3>3
    <3> QED BY <3>1, <3>2, <3>4
  <2> QED BY <2>1, <2>2
<1>17. \A y \in DOMAIN h : y # c => g[y].child = h[y].child
  BY <1>7
<1>18. ListsAre(g, [lists EXCEPT ![c] = t], stay)
  BY <1>3, <1>7, <1>12, <1>13, <1>14, <1>15, <1>16, <1>17, OthersStay
<1> QED BY <1>18 DEF g, t, item, stay, s

-----------------------------------------------------------------------------
(* Lists of items, as they are walked along. *)

ListLevel(h, n, prev) ==
  [p \in Int |-> IF n = 0 \/ ~IsItem(h, p) THEN <<>> ELSE <<p>> \o prev[h[p].next]]

(* The walk is there, for every number of steps.                           *)
LEMMA ListExists ==
  ASSUME NEW h, NEW n \in Nat
  PROVE  \E f : f = [k \in 0 .. n |-> ListLevel(h, k, f[k - 1])]
<1> DEFINE F(f, m) == [k \in 0 .. m |-> ListLevel(h, k, f[k - 1])]
           T == {m \in Nat : \E f : f = F(f, m)}
<1>1. \A a, b : ListLevel(h, 0, a) = ListLevel(h, 0, b)
  BY DEF ListLevel
<1>2. 0 \in T
  <2> DEFINE f == [k \in 0 .. 0 |-> ListLevel(h, 0, 0)]
  <2>1. \A k \in 0 .. 0 : k = 0
    OBVIOUS
  <2>2. f = F(f, 0)
    BY <1>1, <2>1
  <2> QED BY <2>2
<1>3. \A m \in T : m + 1 \in T
  <2> SUFFICES ASSUME NEW m \in Nat, NEW f, f = F(f, m) PROVE \E g : g = F(g, m + 1)
    OBVIOUS
  <2> DEFINE g == F(f, m + 1)
  <2>1. \A k \in 0 .. m : g[k] = f[k]
    OBVIOUS
  <2>2. \A k \in 0 .. m + 1 : k = 0 \/ k - 1 \in 0 .. m
    OBVIOUS
  <2> HIDE DEF g
  <2>3. \A k \in 0 .. m + 1 : ListLevel(h, k, f[k - 1]) = ListLevel(h, k, g[k - 1])
    BY <1>1, <2>1, <2>2
  <2>4. g = F(g, m + 1)
    BY <2>3 DEF g
  <2> QED BY <2>4
<1>4. T = Nat
  <2>1. T \in SUBSET Nat
    OBVIOUS
  <2> HIDE DEF T
  <2> QED BY <1>2, <1>3, <2>1, InductionStep
<1>5. n \in T
  <2> HIDE DEF T
  <2> QED BY <1>4
<1> QED BY <1>5

(* A walk of n steps is the item it starts at and a walk of n - 1 steps    *)
(* from its next.                                                          *)
LEMMA ListIs ==
  ASSUME NEW h, NEW n \in Nat
  PROVE  \E f : /\ \A k \in 0 .. n : f[k] = ListLevel(h, k, f[k - 1])
                /\ \A b : ListFrom(h, b, n) = f[n][b]
<1> DEFINE f == CHOOSE f : f = [k \in 0 .. n |-> ListLevel(h, k, f[k - 1])]
<1>1. f = [k \in 0 .. n |-> ListLevel(h, k, f[k - 1])]
  BY ListExists
<1>2. \A b : ListFrom(h, b, n) = f[n][b]
  BY Zenon DEF ListFrom, ListLevel
<1> HIDE DEF f
<1>3. \A k \in 0 .. n : f[k] = ListLevel(h, k, f[k - 1])
  BY <1>1
<1> QED BY <1>2, <1>3

(* What is walked along are items.                                         *)
LEMMA ListType ==
  ASSUME NEW h, \A b \in ItemsOf(h) : h[b].next \in Int, NEW n \in Nat, NEW b \in Int
  PROVE  ListFrom(h, b, n) \in Seq(ItemsOf(h))
<1> DEFINE I == ItemsOf(h)
<1>1. PICK f : /\ \A k \in 0 .. n : f[k] = ListLevel(h, k, f[k - 1])
               /\ \A c : ListFrom(h, c, n) = f[n][c]
  BY ListIs
<1> DEFINE T == {k \in 0 .. n : \A p \in Int : f[k][p] \in Seq(I)}
<1>2. ASSUME NEW k \in 0 .. n, NEW prev, k = 0 \/ \A p \in Int : prev[p] \in Seq(I)
      PROVE  \A p \in Int : ListLevel(h, k, prev)[p] \in Seq(I)
  <2> SUFFICES ASSUME NEW p \in Int PROVE ListLevel(h, k, prev)[p] \in Seq(I)
    OBVIOUS
  <2>1. CASE k = 0 \/ ~IsItem(h, p)
    BY <2>1 DEF ListLevel
  <2>2. CASE ~(k = 0 \/ ~IsItem(h, p))
    <3>1. p \in I
      BY <2>2 DEF ItemsOf, IsItem
    <3>2. h[p].next \in Int
      BY <3>1
    <3> HIDE DEF I
    <3>3. <<p>> \in Seq(I) /\ prev[h[p].next] \in Seq(I)
      BY <1>2, <2>2, <3>1, <3>2
    <3>4. <<p>> \o prev[h[p].next] \in Seq(I)
      BY <3>3, ConcatProperties
    <3> QED BY <2>2, <3>4 DEF ListLevel
  <2> QED BY <2>1, <2>2
<1> HIDE DEF I
<1>3. 0 \in T
  <2>1. 0 \in 0 .. n /\ f[0] = ListLevel(h, 0, f[0 - 1])
    BY <1>1
  <2> QED BY <1>2, <2>1
<1>4. ASSUME NEW k \in 0 .. n - 1, k \in T PROVE k + 1 \in T
  <2>1. k + 1 \in 0 .. n /\ k + 1 - 1 = k
    OBVIOUS
  <2>2. f[k + 1] = ListLevel(h, k + 1, f[k])
    BY <1>1, <2>1
  <2>3. \A p \in Int : f[k][p] \in Seq(I)
    BY <1>4
  <2> QED BY <1>2, <2>1, <2>2, <2>3
<1>5. n \in T
  <2>1. \A k \in 0 .. n : k \in T
    <3> HIDE DEF T
    <3> QED BY <1>3, <1>4, UpTo
  <2> HIDE DEF T
  <2> QED BY <2>1
<1> QED BY <1>1, <1>5 DEF I

-----------------------------------------------------------------------------
(* What cJSON_Delete reaches from an item. *)

(* Where cJSON_Delete goes on from an item. *)
Succ(h, p) ==
  {q \in ItemsOf(h) : q = h[p].next \/ (~h[p].IsReference /\ q = h[p].child)}

Closed(h, S) == \A p \in S : Succ(h, p) \subseteq S

(* The least set of items with p that it does not lead out of. *)
Reach(h, p) == {q \in ItemsOf(h) : \A S \in SUBSET ItemsOf(h) : p \in S /\ Closed(h, S) => q \in S}

(* Nothing leads to an item from two places. *)
OneWay(h) == \A p, q \in ItemsOf(h) : p # q => Succ(h, p) \cap Succ(h, q) = {}

(* It is the least such set. *)
LEMMA ReachIsLeast ==
  ASSUME NEW h, NEW p \in ItemsOf(h)
  PROVE  /\ p \in Reach(h, p) /\ Reach(h, p) \subseteq ItemsOf(h) /\ Closed(h, Reach(h, p))
         /\ \A S \in SUBSET ItemsOf(h) : p \in S /\ Closed(h, S) => Reach(h, p) \subseteq S
<1>1. \A q : Succ(h, q) \subseteq ItemsOf(h)
  BY DEF Succ
<1>2. Closed(h, Reach(h, p))
  <2> SUFFICES ASSUME NEW q \in Reach(h, p), NEW r \in Succ(h, q),
                      NEW S \in SUBSET ItemsOf(h), p \in S, Closed(h, S)
               PROVE  r \in S
    BY <1>1 DEF Closed, Reach
  <2>1. q \in S
    BY DEF Reach
  <2> QED BY <2>1 DEF Closed
<1> QED BY <1>2 DEF Reach

(* It is p and what is reached from where p leads. *)
LEMMA ReachIs ==
  ASSUME NEW h, NEW p \in ItemsOf(h)
  PROVE  Reach(h, p) = {p} \cup UNION {Reach(h, q) : q \in Succ(h, p)}
<1> DEFINE S == {p} \cup UNION {Reach(h, q) : q \in Succ(h, p)}
<1>1. Succ(h, p) \subseteq ItemsOf(h)
  BY DEF Succ
<1>2. \A q \in Succ(h, p) : /\ q \in Reach(h, q) /\ Reach(h, q) \subseteq ItemsOf(h)
                            /\ Closed(h, Reach(h, q))
  BY <1>1, ReachIsLeast
<1>3. S \in SUBSET ItemsOf(h) /\ p \in S
  BY <1>2
<1>4. Closed(h, S)
  <2> SUFFICES ASSUME NEW r \in S PROVE Succ(h, r) \subseteq S
    BY DEF Closed
  <2>1. CASE r = p
    BY <1>2, <2>1
  <2>2. CASE r # p
    <3>1. PICK q \in Succ(h, p) : r \in Reach(h, q)
      BY <2>2
    <3>2. Succ(h, r) \subseteq Reach(h, q)
      BY <1>2, <3>1 DEF Closed
    <3> QED BY <3>2
  <2> QED BY <2>1, <2>2
<1>5. Reach(h, p) \subseteq S
  BY <1>3, <1>4, ReachIsLeast
<1>6. \A q \in Succ(h, p) : Reach(h, q) \subseteq Reach(h, p)
  <2> TAKE q \in Succ(h, p)
  <2>1. q \in Reach(h, p) /\ Closed(h, Reach(h, p)) /\ Reach(h, p) \in SUBSET ItemsOf(h)
    BY ReachIsLeast DEF Closed
  <2> QED BY <1>1, <2>1, ReachIsLeast
<1>7. p \in Reach(h, p)
  BY ReachIsLeast
<1> QED BY <1>5, <1>6, <1>7

(* What is reached from p is p, or something reached leads to it. *)
LEMMA ReachedFrom ==
  ASSUME NEW h, NEW p \in ItemsOf(h), NEW q \in Reach(h, p), q # p
  PROVE  \E r \in Reach(h, p) : q \in Succ(h, r)
<1> SUFFICES ASSUME \A r \in Reach(h, p) : q \notin Succ(h, r)
             PROVE  FALSE
  OBVIOUS
<1> DEFINE S == Reach(h, p) \ {q}
<1>1. p \in S /\ S \in SUBSET ItemsOf(h) /\ Closed(h, S)
  BY ReachIsLeast DEF Closed
<1>2. Reach(h, p) \subseteq S
  BY <1>1, ReachIsLeast
<1> QED BY <1>2

(* From an item that nothing leads to, the way never comes back: nothing   *)
(* that is reached is reached again from where it leads.                   *)
LEMMA NoWayBack ==
  ASSUME NEW h, OneWay(h), NEW i \in ItemsOf(h), \A q \in ItemsOf(h) : i \notin Succ(h, q),
         NEW p \in Reach(h, i), NEW q \in Succ(h, p)
  PROVE  p \notin Reach(h, q)
<1> DEFINE S == {x \in ItemsOf(h) : \A y \in Succ(h, x) : x \notin Reach(h, y)}
<1>1. \A x : Succ(h, x) \subseteq ItemsOf(h)
  BY DEF Succ
<1>2. i \in S
  <2> SUFFICES ASSUME NEW y \in Succ(h, i), i \in Reach(h, y) PROVE FALSE
    OBVIOUS
  <2>1. i # y /\ y \in ItemsOf(h)
    BY <1>1
  <2>2. \E r \in Reach(h, y) : i \in Succ(h, r)
    BY <2>1, ReachedFrom
  <2>3. Reach(h, y) \subseteq ItemsOf(h)
    BY <2>1, ReachIsLeast
  <2> QED BY <2>2, <2>3
<1>3. Closed(h, S)
  <2> SUFFICES ASSUME NEW x \in S, NEW y \in Succ(h, x), NEW z \in Succ(h, y), y \in Reach(h, z)
               PROVE  FALSE
    BY <1>1 DEF Closed
  <2>1. x \in ItemsOf(h) /\ y \in ItemsOf(h) /\ z \in ItemsOf(h) /\ x \notin Reach(h, y)
    BY <1>1
  <2>2. Reach(h, z) \subseteq Reach(h, y) /\ y \in Reach(h, y)
    BY <2>1, ReachIs, ReachIsLeast
  <2>3. CASE y = z
    <3>1. y \in Succ(h, x) \cap Succ(h, y)
      BY <2>3
    <3>2. x = y
      BY <2>1, <3>1 DEF OneWay
    <3> QED BY <2>1, <2>2, <3>2
  <2>4. CASE y # z
    <3>1. PICK r \in Reach(h, z) : y \in Succ(h, r)
      BY <2>1, <2>4, ReachedFrom
    <3>2. r \in ItemsOf(h)
      BY <2>1, ReachIsLeast
    <3>3. r = x
      BY <2>1, <3>1, <3>2 DEF OneWay
    <3> QED BY <2>1, <2>2, <3>1, <3>3
  <2> QED BY <2>3, <2>4
<1>4. Reach(h, i) \subseteq S
  BY <1>2, <1>3, ReachIsLeast
<1> QED BY <1>4

(* And what is reached by two ways on from an item is reached by one only. *)
LEMMA WaysPart ==
  ASSUME NEW h, OneWay(h), NEW p \in ItemsOf(h), NEW q \in Succ(h, p), NEW r \in Succ(h, p), q # r,
         p \notin Reach(h, q), p \notin Reach(h, r)
  PROVE  Reach(h, q) \cap Reach(h, r) = {}
<1> DEFINE S == Reach(h, q) \ Reach(h, r)
<1>1. q \in ItemsOf(h) /\ r \in ItemsOf(h)
  BY DEF Succ
<1>2. /\ Reach(h, q) \subseteq ItemsOf(h) /\ Closed(h, Reach(h, q)) /\ q \in Reach(h, q)
      /\ Reach(h, r) \subseteq ItemsOf(h) /\ Closed(h, Reach(h, r)) /\ r \in Reach(h, r)
  BY <1>1, ReachIsLeast
<1>3. q \notin Reach(h, r)
  <2> SUFFICES ASSUME q \in Reach(h, r) PROVE FALSE
    OBVIOUS
  <2>1. PICK u \in Reach(h, r) : q \in Succ(h, u)
    BY <1>1, ReachedFrom
  <2>2. u = p
    BY <1>2, <2>1 DEF OneWay
  <2> QED BY <2>1, <2>2
<1>4. Closed(h, S)
  <2> SUFFICES ASSUME NEW x \in S, NEW y \in Succ(h, x), y \in Reach(h, r) PROVE FALSE
    BY <1>2 DEF Closed
  <2>1. CASE y = r
    <3>1. x = p
      BY <1>2, <2>1 DEF OneWay
    <3> QED BY <3>1
  <2>2. CASE y # r
    <3>1. PICK u \in Reach(h, r) : y \in Succ(h, u)
      BY <1>1, <2>2, ReachedFrom
    <3>2. u = x
      BY <1>2, <3>1 DEF OneWay
    <3> QED BY <3>1, <3>2
  <2> QED BY <2>1, <2>2
<1>5. S \in SUBSET ItemsOf(h) /\ q \in S
  BY <1>2, <1>3
<1>6. Reach(h, q) \subseteq S
  BY <1>1, <1>4, <1>5, ReachIsLeast
<1> QED BY <1>6

-----------------------------------------------------------------------------
(* Sequences that name each element of a set once. *)

Lists(s, S) ==
  /\ s \in Seq(S)
  /\ \A k, l \in DOMAIN s : s[k] = s[l] => k = l
  /\ \A x \in S : \E k \in DOMAIN s : s[k] = x

(* Two of them make one of both sets, if these have nothing in common.     *)
LEMMA ListsJoin ==
  ASSUME NEW S, NEW T, NEW s, NEW t, Lists(s, S), Lists(t, T), S \cap T = {}
  PROVE  Lists(s \o t, S \cup T)
<1> DEFINE U == S \cup T
           m == Len(s)
           n == Len(t)
           u == s \o t
<1>1. /\ s \in Seq(S) /\ t \in Seq(T) /\ m \in Nat /\ n \in Nat
      /\ DOMAIN s = 1 .. m /\ DOMAIN t = 1 .. n
      /\ \A k \in 1 .. m : s[k] \in S
      /\ \A k \in 1 .. n : t[k] \in T
  BY LenProperties, ElementOfSeq DEF Lists
<1>2. s \in Seq(U) /\ t \in Seq(U)
  <2>1. \A k \in 1 .. m : s[k] \in U
    BY <1>1
  <2>2. \A k \in 1 .. n : t[k] \in U
    BY <1>1
  <2>3. s = [k \in 1 .. m |-> s[k]] /\ t = [k \in 1 .. n |-> t[k]]
    BY <1>1
  <2> HIDE DEF U, m, n
  <2>4. s \in [1 .. m -> U] /\ t \in [1 .. n -> U]
    BY <2>1, <2>2, <2>3
  <2> QED BY <1>1, <2>4
<1> HIDE DEF m, n
<1>3. /\ u \in Seq(U) /\ Len(u) = Len(s) + Len(t)
      /\ \A k \in 1 .. Len(s) + Len(t) : u[k] = IF k <= Len(s) THEN s[k] ELSE t[k - Len(s)]
  <2> HIDE DEF U
  <2> QED BY <1>2, ConcatProperties
<1> HIDE DEF u
<1>4. DOMAIN u = 1 .. m + n /\ \A k \in 1 .. m + n : u[k] = IF k <= m THEN s[k] ELSE t[k - m]
  BY <1>3, LenProperties DEF m, n
<1>5. \A k \in 1 .. m + n : (k \in 1 .. m /\ u[k] = s[k]) \/ (k - m \in 1 .. n /\ u[k] = t[k - m])
  BY <1>1, <1>4
<1>6. \A k, l \in DOMAIN u : u[k] = u[l] => k = l
  <2> SUFFICES ASSUME NEW k \in 1 .. m + n, NEW l \in 1 .. m + n, u[k] = u[l] PROVE k = l
    BY <1>4
  <2>1. CASE k \in 1 .. m /\ u[k] = s[k] /\ l \in 1 .. m /\ u[l] = s[l]
    BY <1>1, <2>1 DEF Lists
  <2>2. CASE k - m \in 1 .. n /\ u[k] = t[k - m] /\ l - m \in 1 .. n /\ u[l] = t[l - m]
    <3>1. k - m = l - m
      BY <1>1, <2>2 DEF Lists
    <3> QED BY <1>1, <3>1
  <2>3. CASE k \in 1 .. m /\ u[k] = s[k] /\ l - m \in 1 .. n /\ u[l] = t[l - m]
    BY <1>1, <2>3
  <2>4. CASE l \in 1 .. m /\ u[l] = s[l] /\ k - m \in 1 .. n /\ u[k] = t[k - m]
    BY <1>1, <2>4
  <2> QED BY <1>5, <2>1, <2>2, <2>3, <2>4
<1>7. \A x \in U : \E k \in DOMAIN u : u[k] = x
  <2> TAKE x \in U
  <2>1. CASE x \in S
    <3>1. PICK k \in 1 .. m : s[k] = x
      BY <1>1, <2>1 DEF Lists
    <3>2. k \in 1 .. m + n /\ u[k] = s[k]
      BY <1>1, <1>4
    <3> QED BY <1>4, <3>1, <3>2
  <2>2. CASE x \in T
    <3>1. PICK k \in 1 .. n : t[k] = x
      BY <1>1, <2>2 DEF Lists
    <3>2. PICK j \in 1 .. m + n : j = m + k /\ ~(j <= m) /\ j - m = k
      BY <1>1
    <3>3. u[j] = t[k]
      BY <1>4, <3>2
    <3> QED BY <1>4, <3>1, <3>3
  <2> QED BY <2>1, <2>2
<1> QED BY <1>3, <1>6, <1>7 DEF Lists, u

(* The empty one, and one of one element. *)
LEMMA ListsFew ==
  /\ Lists(<<>>, {})
  /\ \A x : Lists(<<x>>, {x})
BY DEF Lists

(* What is asked of the order in which blocks are freed.                   *)
LEMMA ListsSet ==
  ASSUME NEW s, NEW S, Lists(s, S)
  PROVE  ToSet(s) = S /\ IsInjective(s)
<1>1. \A k \in DOMAIN s : s[k] \in S
  <2>1. s \in Seq(S) /\ DOMAIN s = 1 .. Len(s)
    BY LenProperties DEF Lists
  <2> QED BY <2>1, ElementOfSeq
<1> QED BY <1>1 DEF Lists, ToSet, IsInjective

-----------------------------------------------------------------------------
(* The order in which cJSON_Delete frees. *)

(* The texts that an item owns. *)
TextsOf(h, b) ==
  ((IF h[b].IsReference THEN {} ELSE {h[b].valuestring})
   \cup (IF h[b].StringIsConst THEN {} ELSE {h[b].string})) \ {NULL}

(* The texts that a set of items owns. *)
TextsIn(h, S) == UNION {TextsOf(h, b) : b \in S}

(* An item, what is below it, what follows it, and all their texts. *)
Tree(h, p) == Reach(h, p) \cup TextsIn(h, Reach(h, p))

(* Memory in which the links lead to items, each from one place, and the   *)
(* texts belong to one item each.                                          *)
Wood(h) ==
  /\ IsFiniteSet(DOMAIN h) /\ DOMAIN h \subseteq Int \ {NULL}
  /\ OneWay(h)
  /\ \A p \in ItemsOf(h) :
       /\ h[p].next = NULL \/ h[p].next \in ItemsOf(h)
       /\ h[p].IsReference \/ h[p].child = NULL \/ (h[p].child \in ItemsOf(h) /\ h[p].child # h[p].next)
       /\ TextsOf(h, p) \subseteq DOMAIN h \ ItemsOf(h)
       /\ h[p].IsReference \/ h[p].StringIsConst \/ h[p].valuestring = NULL
          \/ h[p].valuestring # h[p].string
  /\ \A p, q \in ItemsOf(h) : p # q => TextsOf(h, p) \cap TextsOf(h, q) = {}

FreeLevel(h, k, prev) ==
  [p \in Int |->
    IF k = 0 THEN <<>>
    ELSE IF p = NULL THEN <<>>
    ELSE IF ~IsItem(h, p) THEN <<NULL>>
    ELSE (IF h[p].IsReference THEN <<>> ELSE prev[h[p].child])
         \o TextFreed(~h[p].IsReference, h[p].valuestring)
         \o TextFreed(~h[p].StringIsConst, h[p].string) \o <<p>> \o prev[h[p].next]]

(* The walk is there, for every depth. *)
LEMMA FreeExists ==
  ASSUME NEW h, NEW n \in Nat
  PROVE  \E f : f = [k \in 0 .. n |-> FreeLevel(h, k, f[k - 1])]
<1> DEFINE F(f, m) == [k \in 0 .. m |-> FreeLevel(h, k, f[k - 1])]
           T == {m \in Nat : \E f : f = F(f, m)}
<1>1. \A a, b : FreeLevel(h, 0, a) = FreeLevel(h, 0, b)
  BY DEF FreeLevel
<1>2. 0 \in T
  <2> DEFINE f == [k \in 0 .. 0 |-> FreeLevel(h, 0, 0)]
  <2>1. \A k \in 0 .. 0 : k = 0
    OBVIOUS
  <2>2. f = F(f, 0)
    BY <1>1, <2>1
  <2> QED BY <2>2
<1>3. \A m \in T : m + 1 \in T
  <2> SUFFICES ASSUME NEW m \in Nat, NEW f, f = F(f, m) PROVE \E g : g = F(g, m + 1)
    OBVIOUS
  <2> DEFINE g == F(f, m + 1)
  <2>1. \A k \in 0 .. m : g[k] = f[k]
    OBVIOUS
  <2>2. \A k \in 0 .. m + 1 : k = 0 \/ k - 1 \in 0 .. m
    OBVIOUS
  <2> HIDE DEF g
  <2>3. \A k \in 0 .. m + 1 : FreeLevel(h, k, f[k - 1]) = FreeLevel(h, k, g[k - 1])
    BY <1>1, <2>1, <2>2
  <2>4. g = F(g, m + 1)
    BY <2>3 DEF g
  <2> QED BY <2>4
<1>4. T = Nat
  <2>1. T \in SUBSET Nat
    OBVIOUS
  <2> HIDE DEF T
  <2> QED BY <1>2, <1>3, <2>1, InductionStep
<1>5. n \in T
  <2> HIDE DEF T
  <2> QED BY <1>4
<1> QED BY <1>5

(* A walk n deep is made of two walks n - 1 deep. *)
LEMMA FreeOrderIs ==
  ASSUME NEW h, NEW n \in Nat, Cardinality(DOMAIN h) + 1 = n
  PROVE  \E f : /\ \A k \in 0 .. n : f[k] = FreeLevel(h, k, f[k - 1])
                /\ \A b : FreeOrder(h, b) = f[n][b]
<1> DEFINE f == CHOOSE f : f = [k \in 0 .. n |-> FreeLevel(h, k, f[k - 1])]
<1>1. f = [k \in 0 .. n |-> FreeLevel(h, k, f[k - 1])]
  BY FreeExists
<1>2. \A b : FreeOrder(h, b) = f[n][b]
  BY Zenon DEF FreeOrder, FreeLevel
<1> HIDE DEF f
<1>3. \A k \in 0 .. n : f[k] = FreeLevel(h, k, f[k - 1])
  BY <1>1
<1> QED BY <1>2, <1>3

(* One step of the walk: what an item adds to what is below it and what    *)
(* follows it.                                                             *)
LEMMA FreeStep ==
  ASSUME NEW h, Wood(h), NEW p \in ItemsOf(h), \A q \in Succ(h, p) : p \notin Reach(h, q),
         NEW k \in Nat \ {0}, NEW prev, prev[NULL] = <<>>,
         \A q \in Succ(h, p) : Lists(prev[q], Tree(h, q))
  PROVE  Lists(FreeLevel(h, k, prev)[p], Tree(h, p))
<1> DEFINE n == h[p]
           own == ~n.IsReference /\ n.valuestring # NULL
           key == ~n.StringIsConst /\ n.string # NULL
           down == ~n.IsReference /\ n.child # NULL
           on == n.next # NULL
           a == IF n.IsReference THEN <<>> ELSE prev[n.child]
           b == TextFreed(~n.IsReference, n.valuestring)
           c == TextFreed(~n.StringIsConst, n.string)
           e == prev[n.next]
           A == IF down THEN Tree(h, n.child) ELSE {}
           B == IF own THEN {n.valuestring} ELSE {}
           C == IF key THEN {n.string} ELSE {}
           E == IF on THEN Tree(h, n.next) ELSE {}
<1>1. p \in Int /\ p # NULL /\ IsItem(h, p)
  BY DEF Wood, ItemsOf
<1>2. FreeLevel(h, k, prev)[p] = (((a \o b) \o c) \o <<p>>) \o e
  BY <1>1 DEF FreeLevel
<1>3. TextsOf(h, p) = B \cup C
  BY DEF TextsOf
<1>4. /\ down => n.child \in Succ(h, p)
      /\ on => n.next \in Succ(h, p)
      /\ down /\ on => n.child # n.next
      /\ \A q \in Succ(h, p) : (down /\ q = n.child) \/ (on /\ q = n.next)
  BY DEF Wood, Succ, ItemsOf, IsItem
<1> HIDE DEF n
<1>5. Lists(a, A)
  <2>1. CASE down
    BY <1>4, <2>1
  <2>2. CASE ~down
    BY <2>2, ListsFew
  <2> QED BY <2>1, <2>2
<1>6. Lists(b, B) /\ Lists(c, C)
  BY ListsFew DEF TextFreed
<1>7. Lists(e, E)
  <2>1. CASE on
    BY <1>4, <2>1
  <2>2. CASE ~on
    BY <2>2, ListsFew
  <2> QED BY <2>1, <2>2
<1>8. \A q \in Succ(h, p) : /\ p \notin Reach(h, q) /\ Reach(h, q) \subseteq ItemsOf(h)
                            /\ TextsIn(h, Reach(h, q)) \subseteq DOMAIN h \ ItemsOf(h)
                            /\ TextsIn(h, Reach(h, q)) \cap TextsOf(h, p) = {}
  <2> TAKE q \in Succ(h, p)
  <2>1. q \in ItemsOf(h)
    BY DEF Succ
  <2>2. p \notin Reach(h, q) /\ Reach(h, q) \subseteq ItemsOf(h)
    BY <2>1, ReachIsLeast
  <2>3. TextsIn(h, Reach(h, q)) \subseteq DOMAIN h \ ItemsOf(h)
    BY <2>2 DEF TextsIn, Wood
  <2>4. TextsIn(h, Reach(h, q)) \cap TextsOf(h, p) = {}
    BY <2>2 DEF TextsIn, Wood
  <2> QED BY <2>2, <2>3, <2>4
<1>9. TextsOf(h, p) \subseteq DOMAIN h \ ItemsOf(h)
  BY DEF Wood
<1>10. A \cap B = {} /\ A \cap C = {} /\ A \cap {p} = {}
  <2>1. CASE down
    <3>1. A = Reach(h, n.child) \cup TextsIn(h, Reach(h, n.child)) /\ n.child \in Succ(h, p)
      BY <1>4, <2>1 DEF Tree
    <3> HIDE DEF A, B, C, down
    <3> QED BY <1>3, <1>8, <1>9, <3>1
  <2>2. CASE ~down
    BY <2>2
  <2> QED BY <2>1, <2>2
<1>11. E \cap B = {} /\ E \cap C = {} /\ E \cap {p} = {}
  <2>1. CASE on
    <3>1. E = Reach(h, n.next) \cup TextsIn(h, Reach(h, n.next)) /\ n.next \in Succ(h, p)
      BY <1>4, <2>1 DEF Tree
    <3> HIDE DEF E, B, C, on
    <3> QED BY <1>3, <1>8, <1>9, <3>1
  <2>2. CASE ~on
    BY <2>2
  <2> QED BY <2>1, <2>2
<1>12. A \cap E = {}
  <2>1. CASE down /\ on
    <3>1. n.child \in Succ(h, p) /\ n.next \in Succ(h, p) /\ n.child # n.next
      BY <1>4, <2>1
    <3>2. Reach(h, n.child) \cap Reach(h, n.next) = {}
      BY <1>8, <3>1, WaysPart DEF Wood
    <3>3. TextsIn(h, Reach(h, n.child)) \cap TextsIn(h, Reach(h, n.next)) = {}
      <4> SUFFICES ASSUME NEW x \in Reach(h, n.child), NEW y \in Reach(h, n.next)
                   PROVE  TextsOf(h, x) \cap TextsOf(h, y) = {}
        BY DEF TextsIn
      <4>1. x # y /\ x \in ItemsOf(h) /\ y \in ItemsOf(h)
        BY <1>8, <3>1, <3>2
      <4> QED BY <4>1 DEF Wood
    <3>4. A = Tree(h, n.child) /\ E = Tree(h, n.next)
      BY <2>1
    <3> HIDE DEF A, E, down, on
    <3> QED BY <1>8, <3>1, <3>2, <3>3, <3>4 DEF Tree
  <2>2. CASE ~(down /\ on)
    BY <2>2
  <2> QED BY <2>1, <2>2
<1>13. B \cap C = {}
  BY DEF Wood, n
<1>14. p \notin B /\ p \notin C
  <2> HIDE DEF B, C
  <2> QED BY <1>3, <1>9
<1>15. Tree(h, p) = (((A \cup B) \cup C) \cup {p}) \cup E
  <2>1. Reach(h, p) = {p} \cup UNION {Reach(h, q) : q \in Succ(h, p)}
    BY ReachIs
  <2>2. Reach(h, p) = {p} \cup (IF down THEN Reach(h, n.child) ELSE {})
                          \cup (IF on THEN Reach(h, n.next) ELSE {})
    <3> HIDE DEF down, on
    <3> QED BY <1>4, <2>1
  <2>3. TextsIn(h, Reach(h, p)) = TextsOf(h, p)
                          \cup (IF down THEN TextsIn(h, Reach(h, n.child)) ELSE {})
                          \cup (IF on THEN TextsIn(h, Reach(h, n.next)) ELSE {})
    <3> HIDE DEF down, on
    <3> QED BY <2>2 DEF TextsIn
  <2>4. A = (IF down THEN Reach(h, n.child) ELSE {})
            \cup (IF down THEN TextsIn(h, Reach(h, n.child)) ELSE {})
    BY DEF Tree
  <2>5. E = (IF on THEN Reach(h, n.next) ELSE {})
            \cup (IF on THEN TextsIn(h, Reach(h, n.next)) ELSE {})
    BY DEF Tree
  <2> HIDE DEF A, B, C, E, down, on
  <2> QED BY <1>3, <2>2, <2>3, <2>4, <2>5 DEF Tree
<1> HIDE DEF a, b, c, e, A, B, C, E
<1>16. Lists(a \o b, A \cup B)
  BY <1>5, <1>6, <1>10, ListsJoin
<1>17. Lists((a \o b) \o c, (A \cup B) \cup C)
  <2>1. (A \cup B) \cap C = {}
    BY <1>10, <1>13
  <2> QED BY <1>6, <1>16, <2>1, ListsJoin
<1>18. Lists(((a \o b) \o c) \o <<p>>, ((A \cup B) \cup C) \cup {p})
  <2>1. ((A \cup B) \cup C) \cap {p} = {}
    BY <1>10, <1>14
  <2>2. Lists(<<p>>, {p})
    BY ListsFew
  <2> QED BY <1>17, <2>1, <2>2, ListsJoin
<1>19. Lists((((a \o b) \o c) \o <<p>>) \o e, (((A \cup B) \cup C) \cup {p}) \cup E)
  <2>1. (((A \cup B) \cup C) \cup {p}) \cap E = {}
    BY <1>11, <1>12
  <2> QED BY <1>7, <1>18, <2>1, ListsJoin
<1> QED BY <1>2, <1>15, <1>19

(* Whatever hangs on an item that nothing leads to is freed once, and      *)
(* nothing else is.                                                        *)
THEOREM FreesTheTree ==
  ASSUME NEW h, Wood(h), NEW i \in ItemsOf(h), \A q \in ItemsOf(h) : i \notin Succ(h, q)
  PROVE  Lists(FreeOrder(h, i), Tree(h, i))
<1> DEFINE N == Cardinality(DOMAIN h) + 1
<1>1. N \in Nat /\ IsFiniteSet(DOMAIN h)
  BY FS_CardinalityType DEF Wood
<1>2. PICK f : /\ \A k \in 0 .. N : f[k] = FreeLevel(h, k, f[k - 1])
               /\ \A b : FreeOrder(h, b) = f[N][b]
  BY <1>1, FreeOrderIs
<1>3. /\ Reach(h, i) \subseteq ItemsOf(h) /\ ItemsOf(h) \subseteq DOMAIN h
      /\ i \in Reach(h, i) /\ Closed(h, Reach(h, i))
  BY ReachIsLeast DEF ItemsOf
<1> HIDE DEF N
<1>4. \A p \in Reach(h, i) : \A q \in Succ(h, p) : p \notin Reach(h, q)
  BY NoWayBack DEF Wood
<1>5. \A p \in Reach(h, i) : /\ IsFiniteSet(Reach(h, p)) /\ Cardinality(Reach(h, p)) \in Nat
                             /\ Cardinality(Reach(h, p)) > 0
                             /\ Cardinality(Reach(h, p)) <= N - 1
                             /\ \A q \in Succ(h, p) : Cardinality(Reach(h, q)) < Cardinality(Reach(h, p))
  <2> TAKE p \in Reach(h, i)
  <2>1. Reach(h, p) \in SUBSET DOMAIN h /\ p \in Reach(h, p)
    BY <1>3, ReachIsLeast
  <2>2. /\ IsFiniteSet(Reach(h, p)) /\ Cardinality(Reach(h, p)) \in Nat
        /\ Cardinality(Reach(h, p)) <= Cardinality(DOMAIN h)
    BY <1>1, <2>1, FS_Subset, FS_CardinalityType
  <2>3. Cardinality(Reach(h, p)) > 0
    <3>1. Cardinality(Reach(h, p)) # 0
      BY <2>1, <2>2, FS_EmptySet
    <3> QED BY <2>2, <3>1
  <2>4. ASSUME NEW q \in Succ(h, p) PROVE Cardinality(Reach(h, q)) < Cardinality(Reach(h, p))
    <3>1. Reach(h, q) \subseteq Reach(h, p) /\ p \notin Reach(h, q)
      BY <1>3, <1>4, ReachIs
    <3>2. Reach(h, q) \in SUBSET Reach(h, p) /\ Reach(h, q) # Reach(h, p)
      BY <2>1, <3>1
    <3> QED BY <2>2, <3>2, FS_Subset, FS_CardinalityType
  <2>5. Cardinality(DOMAIN h) = N - 1
    BY <1>1, FS_CardinalityType DEF N
  <2> QED BY <2>2, <2>3, <2>4, <2>5
<1> DEFINE T == {k \in 0 .. N : /\ f[k][NULL] = <<>>
                               /\ \A p \in Reach(h, i) :
                                    Cardinality(Reach(h, p)) <= k => Lists(f[k][p], Tree(h, p))}
<1>6. 0 \in T
  <2>1. 0 \in 0 .. N /\ f[0] = FreeLevel(h, 0, f[0 - 1])
    BY <1>1, <1>2
  <2>2. NULL \in Int /\ f[0][NULL] = <<>>
    BY <2>1 DEF FreeLevel, NULL
  <2>3. \A p \in Reach(h, i) : ~(Cardinality(Reach(h, p)) <= 0)
    BY <1>5
  <2> QED BY <2>1, <2>2, <2>3
<1>7. ASSUME NEW k \in 0 .. N - 1, k \in T PROVE k + 1 \in T
  <2>1. PICK j \in 0 .. N : j = k + 1 /\ j - 1 = k /\ j \in Nat \ {0}
    BY <1>1
  <2>2. f[j] = FreeLevel(h, j, f[k])
    BY <1>2, <2>1
  <2>3. f[j][NULL] = <<>> /\ f[k][NULL] = <<>>
    BY <1>7, <2>1, <2>2 DEF FreeLevel, NULL
  <2>4. ASSUME NEW p \in Reach(h, i), Cardinality(Reach(h, p)) <= j PROVE Lists(f[j][p], Tree(h, p))
    <3>1. \A q \in Succ(h, p) : q \in Reach(h, i)
      BY <1>3 DEF Closed
    <3>2. \A q \in Succ(h, p) : Cardinality(Reach(h, q)) <= k
      BY <1>5, <2>1, <2>4, <3>1
    <3>3. \A q \in Succ(h, p) : Lists(f[k][q], Tree(h, q))
      BY <1>7, <3>1, <3>2
    <3>4. p \in ItemsOf(h) /\ \A q \in Succ(h, p) : p \notin Reach(h, q)
      BY <1>3, <1>4
    <3>5. Lists(FreeLevel(h, j, f[k])[p], Tree(h, p))
      BY <2>1, <2>3, <3>3, <3>4, FreeStep
    <3> QED BY <2>2, <3>5
  <2> QED BY <2>1, <2>3, <2>4
<1>8. N \in T
  <2>1. \A k \in 0 .. N : k \in T
    <3> HIDE DEF T
    <3> QED BY <1>1, <1>6, <1>7, UpTo
  <2> HIDE DEF T
  <2> QED BY <1>1, <2>1
<1>9. Cardinality(Reach(h, i)) <= N
  BY <1>1, <1>3, <1>5
<1> QED BY <1>2, <1>3, <1>8, <1>9

-----------------------------------------------------------------------------
(* The whole of memory. *)

(* A function of its domain. *)
IsMap(h) == h = [x \in DOMAIN h |-> h[x]]

Owners(h) == {b \in ItemsOf(h) : ~h[b].IsReference}

(* Every text belongs to one item, but for those that a function has in    *)
(* its hands.                                                              *)
TextsAre(h, loose) ==
  /\ loose \subseteq DOMAIN h \ ItemsOf(h)
  /\ \A b \in ItemsOf(h) :
       /\ h[b].string = StaticKey <=> h[b].StringIsConst /\ h[b].string # NULL
       /\ TextsOf(h, b) \subseteq DOMAIN h \ (ItemsOf(h) \cup loose)
       /\ h[b].IsReference \/ h[b].StringIsConst \/ h[b].valuestring = NULL
          \/ h[b].valuestring # h[b].string
  /\ \A b, c \in ItemsOf(h) : b # c => TextsOf(h, b) \cap TextsOf(h, c) = {}
  /\ \A t \in DOMAIN h \ (ItemsOf(h) \cup loose) : \E b \in ItemsOf(h) : t \in TextsOf(h, b)

(* Every item is held or in one place of one list.                         *)
MemoryIs(h, lists, held, loose) ==
  /\ h = [x \in DOMAIN h |-> h[x]] /\ DOMAIN h \subseteq Blocks
  /\ \A x \in DOMAIN h : h[x] \in ItemRecord \cup [chars : Seq(Byte)]
  /\ DOMAIN lists = Owners(h)
  /\ ListsAre(h, lists, held)
  /\ \A b \in ItemsOf(h) : b \in held \/ \E c \in DOMAIN lists : \E k \in DOMAIN lists[c] : lists[c][k] = b
  /\ TextsAre(h, loose)

(* A sequence is one of whatever its entries are in. *)
LEMMA SequenceIn ==
  ASSUME NEW S, NEW T, NEW s \in Seq(S), \A k \in 1 .. Len(s) : s[k] \in T
  PROVE  s \in Seq(T)
<1> DEFINE n == Len(s)
<1>1. s = [k \in 1 .. n |-> s[k]] /\ n \in Nat
  BY LenProperties
<1> HIDE DEF n
<1>2. s \in [1 .. n -> T]
  BY <1>1 DEF n
<1> QED BY <1>1, <1>2

(* Items are the records with links. *)
LEMMA ItemsAre ==
  ASSUME NEW h, NEW x \in DOMAIN h
  PROVE  /\ h[x] \in ItemRecord => IsItem(h, x)
         /\ h[x] \in [chars : Seq(Byte)] => ~IsItem(h, x)
BY DEF ItemRecord, IsItem

(* What the fields of an item can hold. *)
LEMMA ItemFields ==
  ASSUME NEW h, \A x \in DOMAIN h : h[x] \in ItemRecord \cup [chars : Seq(Byte)],
         NEW b \in ItemsOf(h)
  PROVE  /\ h[b] \in ItemRecord
         /\ h[b].type \in Types /\ h[b].next \in Int /\ h[b].prev \in Int /\ h[b].child \in Int
         /\ h[b].valuestring \in Int /\ h[b].valuedouble \in Int /\ h[b].string \in Int
         /\ h[b].StringIsConst \in BOOLEAN /\ h[b].IsReference \in BOOLEAN
<1>1. h[b] \in ItemRecord
  BY ItemsAre DEF ItemsOf
<1> QED BY <1>1 DEF ItemRecord

(* Where an item is in the lists, and what its links are. *)
LEMMA Placed ==
  ASSUME NEW h, NEW lists, NEW held, NEW loose, MemoryIs(h, lists, held, loose),
         NEW c \in DOMAIN lists, NEW k \in DOMAIN lists[c]
  PROVE  /\ c \in ItemsOf(h) /\ ~h[c].IsReference
         /\ lists[c][k] \in ItemsOf(h) \ held
         /\ Len(lists[c]) \in Nat /\ k \in 1 .. Len(lists[c]) /\ DOMAIN lists[c] = 1 .. Len(lists[c])
         /\ 1 \in DOMAIN lists[c] /\ h[c].child = lists[c][1]
         /\ h[lists[c][k]].next = IF k = Len(lists[c]) THEN NULL ELSE lists[c][k + 1]
         /\ h[lists[c][k]].prev = lists[c][IF k = 1 THEN Len(lists[c]) ELSE k - 1]
         /\ NULL \notin ItemsOf(h)
<1>1. ListsAre(h, lists, held) /\ DOMAIN lists = Owners(h)
  BY DEF MemoryIs
<1>2. /\ NULL \notin DOMAIN h /\ IsItem(h, c) /\ c \in DOMAIN h
      /\ lists[c] \in Seq(ItemsOf(h)) /\ Len(lists[c]) \in Nat
      /\ DOMAIN lists[c] = 1 .. Len(lists[c])
      /\ IsListOf(h, c, lists[c])
      /\ \A j \in 1 .. Len(lists[c]) : IsItem(h, lists[c][j]) /\ lists[c][j] \in DOMAIN h
      /\ \A i \in held : \A j \in 1 .. Len(lists[c]) : lists[c][j] # i
  BY <1>1, OneList
<1>3. c \in ItemsOf(h) /\ ~h[c].IsReference /\ lists[c][k] \in ItemsOf(h) \ held
  BY <1>1, <1>2 DEF Owners, ItemsOf
<1>4. 1 \in 1 .. Len(lists[c]) /\ Len(lists[c]) # 0
  BY <1>2
<1>5. h[c].child = lists[c][1]
  BY <1>2, <1>4 DEF IsListOf
<1>6. /\ h[lists[c][k]].next = IF k = Len(lists[c]) THEN NULL ELSE lists[c][k + 1]
      /\ h[lists[c][k]].prev = lists[c][IF k = 1 THEN Len(lists[c]) ELSE k - 1]
  BY <1>2 DEF IsListOf
<1> QED BY <1>2, <1>3, <1>4, <1>5, <1>6 DEF ItemsOf

(* No item is in two places. *)
LEMMA PlacedOnce ==
  ASSUME NEW h, NEW lists, NEW held, NEW loose, MemoryIs(h, lists, held, loose),
         NEW c \in DOMAIN lists, NEW k \in DOMAIN lists[c],
         NEW d \in DOMAIN lists, NEW l \in DOMAIN lists[d], lists[c][k] = lists[d][l]
  PROVE  c = d /\ k = l
BY DEF MemoryIs, ListsAre

(* Where cJSON_Delete goes on to is the first of a list or the next in it. *)
LEMMA LeadsTo ==
  ASSUME NEW h, NEW lists, NEW held, NEW loose, MemoryIs(h, lists, held, loose),
         NEW p \in ItemsOf(h), NEW q \in Succ(h, p)
  PROVE  \/ p \in DOMAIN lists /\ 1 \in DOMAIN lists[p] /\ q = lists[p][1]
         \/ \E c \in DOMAIN lists : \E k \in DOMAIN lists[c] :
              k + 1 \in DOMAIN lists[c] /\ p = lists[c][k] /\ q = lists[c][k + 1]
<1>1. q \in ItemsOf(h) /\ q # NULL
  BY DEF Succ, MemoryIs, ListsAre, ItemsOf
<1>2. CASE ~h[p].IsReference /\ q = h[p].child
  <2>1. p \in DOMAIN lists
    BY <1>2 DEF MemoryIs, Owners
  <2>2. Len(lists[p]) # 0 /\ q = lists[p][1] /\ lists[p] \in Seq(ItemsOf(h))
    BY <1>1, <1>2, <2>1 DEF MemoryIs, ListsAre, IsListOf, ItemsOf
  <2>3. 1 \in DOMAIN lists[p]
    BY <2>2, LenProperties
  <2> QED BY <2>1, <2>2, <2>3
<1>3. CASE q = h[p].next
  <2>1. p \notin held
    BY <1>1, <1>3 DEF MemoryIs, ListsAre
  <2>2a. PICK c \in DOMAIN lists : \E k \in DOMAIN lists[c] :
           lists[c][k] = p
    BY <2>1 DEF MemoryIs
  <2>2. PICK k \in DOMAIN lists[c] :
           lists[c][k] = p
    BY <2>2a
  <2>3. /\ Len(lists[c]) \in Nat /\ k \in 1 .. Len(lists[c]) /\ DOMAIN lists[c] = 1 .. Len(lists[c])
        /\ h[lists[c][k]].next = IF k = Len(lists[c]) THEN NULL ELSE lists[c][k + 1]
    BY Placed
  <2>4. k # Len(lists[c]) /\ q = lists[c][k + 1]
    BY <1>1, <1>3, <2>2, <2>3
  <2>5. k + 1 \in DOMAIN lists[c]
    BY <2>3, <2>4
  <2> QED BY <2>2, <2>4, <2>5
<1> QED BY <1>2, <1>3 DEF Succ

(* So nothing leads to an item from two places, and nothing to an item     *)
(* that is held.                                                           *)
LEMMA MemoryIsForest ==
  ASSUME NEW h, NEW lists, NEW held, NEW loose, MemoryIs(h, lists, held, loose)
  PROVE  Wood(h) /\ \A i \in held, q \in ItemsOf(h) : i \notin Succ(h, q)
<1>1. IsFiniteSet(DOMAIN h) /\ DOMAIN h \subseteq Int \ {NULL}
  <2>1. DOMAIN h \in SUBSET Blocks /\ IsFiniteSet(Blocks) /\ Blocks \subseteq Nat \ {NULL}
    BY BlocksAssumption DEF MemoryIs
  <2>2. IsFiniteSet(DOMAIN h)
    BY <2>1, FS_Subset
  <2>3. ASSUME NEW x \in DOMAIN h PROVE x \in Int /\ x # NULL
    <3>1. x \in Nat \ {NULL}
      BY <2>1
    <3> HIDE DEF NULL
    <3>2. x \in Nat /\ x # NULL
      BY <3>1
    <3> QED BY <3>2
  <2> QED BY <2>2, <2>3
<1>2. \A p, r \in ItemsOf(h) : \A q : q \in Succ(h, p) /\ q \in Succ(h, r) => p = r
  <2> SUFFICES ASSUME NEW p \in ItemsOf(h), NEW r \in ItemsOf(h),
                      NEW q \in Succ(h, p), q \in Succ(h, r)
               PROVE  p = r
    OBVIOUS
  <2> DEFINE First(x) == x \in DOMAIN lists /\ 1 \in DOMAIN lists[x] /\ q = lists[x][1]
             Later(x) == \E c \in DOMAIN lists : \E k \in DOMAIN lists[c] :
                           k + 1 \in DOMAIN lists[c] /\ x = lists[c][k] /\ q = lists[c][k + 1]
  <2>1. (First(p) \/ Later(p)) /\ (First(r) \/ Later(r))
    BY LeadsTo
  <2>2. ASSUME NEW x, NEW y, First(x), Later(y) PROVE FALSE
    <3>1a. PICK c \in DOMAIN lists : \E k \in DOMAIN lists[c] :
             k + 1 \in DOMAIN lists[c] /\ y = lists[c][k] /\ q = lists[c][k + 1]
      BY <2>2
    <3>1. PICK k \in DOMAIN lists[c] :
             k + 1 \in DOMAIN lists[c] /\ y = lists[c][k] /\ q = lists[c][k + 1]
      BY <3>1a
    <3>2. k + 1 = 1
      <4>1. x \in DOMAIN lists /\ 1 \in DOMAIN lists[x] /\ q = lists[x][1]
        BY <2>2
      <4>2. lists[x][1] = lists[c][k + 1]
        BY <3>1, <4>1
      <4> HIDE DEF First, Later
      <4> QED BY <3>1, <4>1, <4>2, PlacedOnce
    <3>3. k \in 1 .. Len(lists[c]) /\ Len(lists[c]) \in Nat
      BY Placed
    <3> QED BY <3>2, <3>3
  <2>3. CASE First(p) /\ First(r)
    BY <2>3, PlacedOnce
  <2>4. CASE Later(p) /\ Later(r)
    <3>1a. PICK c \in DOMAIN lists : \E k \in DOMAIN lists[c] :
             k + 1 \in DOMAIN lists[c] /\ p = lists[c][k] /\ q = lists[c][k + 1]
      BY <2>4
    <3>1. PICK k \in DOMAIN lists[c] :
             k + 1 \in DOMAIN lists[c] /\ p = lists[c][k] /\ q = lists[c][k + 1]
      BY <3>1a
    <3>2a. PICK d \in DOMAIN lists : \E l \in DOMAIN lists[d] :
             l + 1 \in DOMAIN lists[d] /\ r = lists[d][l] /\ q = lists[d][l + 1]
      BY <2>4
    <3>2. PICK l \in DOMAIN lists[d] :
             l + 1 \in DOMAIN lists[d] /\ r = lists[d][l] /\ q = lists[d][l + 1]
      BY <3>2a
    <3>3. c = d /\ k + 1 = l + 1
      <4> HIDE DEF First, Later
      <4> QED BY <3>1, <3>2, PlacedOnce
    <3>4. k \in 1 .. Len(lists[c]) /\ l \in 1 .. Len(lists[d]) /\ Len(lists[c]) \in Nat
      BY Placed
    <3>5. k = l
      BY <3>3, <3>4
    <3> QED BY <3>1, <3>2, <3>3, <3>5
  <2> QED BY <2>1, <2>2, <2>3, <2>4
<1>3. ASSUME NEW p \in ItemsOf(h)
      PROVE  /\ h[p].next = NULL \/ h[p].next \in ItemsOf(h)
             /\ h[p].IsReference \/ h[p].child = NULL
                \/ (h[p].child \in ItemsOf(h) /\ h[p].child # h[p].next)
  <2>1. h[p].next = NULL \/ h[p].next \in ItemsOf(h)
    <3>1. CASE p \in held
      BY <3>1 DEF MemoryIs, ListsAre
    <3>2. CASE p \notin held
      <4>1a. PICK c \in DOMAIN lists : \E k \in DOMAIN lists[c] :
               lists[c][k] = p
        BY <3>2 DEF MemoryIs
      <4>1. PICK k \in DOMAIN lists[c] :
               lists[c][k] = p
        BY <4>1a
      <4>2. /\ Len(lists[c]) \in Nat /\ k \in 1 .. Len(lists[c]) /\ DOMAIN lists[c] = 1 .. Len(lists[c])
            /\ h[lists[c][k]].next = IF k = Len(lists[c]) THEN NULL ELSE lists[c][k + 1]
        BY Placed
      <4>3. CASE k = Len(lists[c])
        BY <4>1, <4>2, <4>3
      <4>4. CASE k # Len(lists[c])
        <5>1. k + 1 \in DOMAIN lists[c]
          BY <4>2, <4>4
        <5>2. lists[c][k + 1] \in ItemsOf(h)
          BY <5>1, Placed
        <5> QED BY <4>1, <4>2, <4>4, <5>2
      <4> QED BY <4>3, <4>4
    <3> QED BY <3>1, <3>2
  <2>2. CASE ~h[p].IsReference /\ h[p].child # NULL
    <3>1. p \in DOMAIN lists
      BY <2>2 DEF MemoryIs, Owners
    <3>2. Len(lists[p]) # 0 /\ h[p].child = lists[p][1] /\ lists[p] \in Seq(ItemsOf(h))
      BY <2>2, <3>1 DEF MemoryIs, ListsAre, IsListOf, ItemsOf
    <3>3. 1 \in DOMAIN lists[p]
      BY <3>2, LenProperties
    <3>4. h[p].child \in ItemsOf(h)
      BY <3>1, <3>2, <3>3, Placed
    <3>5. ASSUME h[p].child = h[p].next PROVE FALSE
      <4>1. h[p].child # NULL /\ p \notin held
        BY <2>2, <3>5 DEF MemoryIs, ListsAre
      <4>2a. PICK c \in DOMAIN lists : \E k \in DOMAIN lists[c] :
               lists[c][k] = p
        BY <4>1 DEF MemoryIs
      <4>2. PICK k \in DOMAIN lists[c] :
               lists[c][k] = p
        BY <4>2a
      <4>3. /\ Len(lists[c]) \in Nat /\ k \in 1 .. Len(lists[c]) /\ DOMAIN lists[c] = 1 .. Len(lists[c])
            /\ h[lists[c][k]].next = IF k = Len(lists[c]) THEN NULL ELSE lists[c][k + 1]
        BY Placed
      <4>4. k # Len(lists[c]) /\ h[p].next = lists[c][k + 1]
        BY <3>5, <4>1, <4>2, <4>3
      <4>5. k + 1 \in DOMAIN lists[c] /\ k + 1 # 1
        BY <4>3, <4>4
      <4>6. lists[c][k + 1] = lists[p][1]
        BY <3>2, <3>5, <4>4
      <4> QED BY <3>1, <3>3, <4>5, <4>6, PlacedOnce
    <3> QED BY <3>4, <3>5, <2>1
  <2> QED BY <2>1, <2>2
<1>4. \A p \in ItemsOf(h) :
        /\ TextsOf(h, p) \subseteq DOMAIN h \ ItemsOf(h)
        /\ h[p].IsReference \/ h[p].StringIsConst \/ h[p].valuestring = NULL
           \/ h[p].valuestring # h[p].string
  BY DEF MemoryIs, TextsAre
<1>5. \A p, q \in ItemsOf(h) : p # q => TextsOf(h, p) \cap TextsOf(h, q) = {}
  BY DEF MemoryIs, TextsAre
<1>6. OneWay(h)
  BY <1>2 DEF OneWay
<1>7. ASSUME NEW i \in held, NEW q \in ItemsOf(h), i \in Succ(h, q) PROVE FALSE
  <2>1. CASE q \in DOMAIN lists /\ 1 \in DOMAIN lists[q] /\ i = lists[q][1]
    BY <2>1, Placed
  <2>2. CASE \E c \in DOMAIN lists : \E k \in DOMAIN lists[c] :
              k + 1 \in DOMAIN lists[c] /\ q = lists[c][k] /\ i = lists[c][k + 1]
    <3>1a. PICK c \in DOMAIN lists : \E k \in DOMAIN lists[c] :
             k + 1 \in DOMAIN lists[c] /\ i = lists[c][k + 1]
      BY <2>2
    <3>1. PICK k \in DOMAIN lists[c] :
             k + 1 \in DOMAIN lists[c] /\ i = lists[c][k + 1]
      BY <3>1a
    <3>2. lists[c][k + 1] \notin held
      BY <3>1, Placed
    <3> QED BY <3>1, <3>2
  <2> QED BY <1>7, <2>1, <2>2, LeadsTo
<1>8. Wood(h)
  BY <1>1, <1>3, <1>4, <1>5, <1>6 DEF Wood
<1> QED BY <1>7, <1>8

-----------------------------------------------------------------------------
(* What is left when an item is deleted. *)

(* The children of an item are deleted with it, and no others.             *)
LEMMA ListsPart ==
  ASSUME NEW h, NEW lists, NEW held, NEW loose, MemoryIs(h, lists, held, loose),
         NEW i \in held, NEW c \in DOMAIN lists, NEW k \in DOMAIN lists[c]
  PROVE  lists[c][k] \in Reach(h, i) <=> c \in Reach(h, i)
<1> DEFINE D == Reach(h, i)
           s == lists[c]
           n == Len(s)
<1>1. i \in ItemsOf(h) /\ NULL \notin ItemsOf(h)
  BY DEF MemoryIs, ListsAre, ItemsOf
<1>2. D \subseteq ItemsOf(h) /\ Closed(h, D)
  BY <1>1, ReachIsLeast
<1>3. /\ n \in Nat /\ k \in 1 .. n /\ DOMAIN s = 1 .. n /\ c \in ItemsOf(h) /\ ~h[c].IsReference
      /\ h[c].child = s[1]
  BY Placed
<1>4. \A j \in 1 .. n : /\ s[j] \in ItemsOf(h) /\ s[j] \notin held
                        /\ h[s[j]].next = IF j = n THEN NULL ELSE s[j + 1]
  <2> TAKE j \in 1 .. n
  <2>1. j \in DOMAIN lists[c]
    BY <1>3
  <2> QED BY <2>1, Placed
<1> HIDE DEF n
<1>5. s[1] \in Succ(h, c)
  BY <1>3, <1>4 DEF Succ
<1>6. \A j \in 1 .. n : j # n => s[j + 1] \in Succ(h, s[j])
  <2> TAKE j \in 1 .. n
  <2> HAVE j # n
  <2>1. j + 1 \in 1 .. n
    BY <1>3
  <2> HIDE DEF s
  <2>2. s[j + 1] \in ItemsOf(h) /\ h[s[j]].next = s[j + 1]
    BY <1>4, <2>1
  <2> QED BY <2>2 DEF Succ
<1>7. \A p, r \in ItemsOf(h) : \A q : q \in Succ(h, p) /\ q \in Succ(h, r) => p = r
  BY MemoryIsForest DEF Wood, OneWay
<1>8. \A q \in D : q # i => \E r \in D : q \in Succ(h, r)
  BY <1>1, ReachedFrom
<1>9. ASSUME NEW p \in ItemsOf(h), NEW q \in Succ(h, p), q \notin held
      PROVE  q \in D <=> p \in D
  <2>1. q # i
    BY <1>9
  <2>2. p \in D => q \in D
    BY <1>2 DEF Closed
  <2>3. q \in D => p \in D
    BY <1>2, <1>7, <1>8, <2>1
  <2> QED BY <2>2, <2>3
<1> HIDE DEF D, s
<1> DEFINE T == {j \in 1 .. n : s[j] \in D <=> c \in D}
<1> DEFINE U == {j \in 0 .. n : j = 0 \/ j \in T}
<1>10. 1 \in T
  <2>1. 1 \in 1 .. n
    BY <1>3
  <2>2. s[1] \notin held /\ s[1] \in ItemsOf(h)
    BY <1>4, <2>1
  <2> QED BY <1>3, <1>5, <1>9, <2>1, <2>2
<1>11. ASSUME NEW j \in 0 .. n - 1, j \in U PROVE j + 1 \in U
  <2>1. CASE j = 0
    <3>1. j + 1 = 1 /\ j + 1 \in 0 .. n
      BY <1>3, <2>1
    <3> QED BY <1>10, <3>1
  <2>2. CASE j # 0
    <3>1. j \in 1 .. n /\ j # n /\ j + 1 \in 1 .. n /\ j + 1 \in 0 .. n
      BY <1>3, <2>2
    <3>2. s[j] \in D <=> c \in D
      BY <1>11, <2>2
    <3>3. s[j + 1] \in Succ(h, s[j]) /\ s[j] \in ItemsOf(h) /\ s[j + 1] \notin held
      BY <1>4, <1>6, <3>1
    <3>4. s[j + 1] \in D <=> s[j] \in D
      BY <1>9, <3>3
    <3> QED BY <3>1, <3>2, <3>4
  <2> QED BY <2>1, <2>2
<1>12. \A j \in 0 .. n : j \in U
  <2>1. 0 \in U
    BY <1>3
  <2> HIDE DEF U
  <2> QED BY <1>3, <1>11, <2>1, UpTo
<1>13. k \in T
  <2>1. k \in 0 .. n /\ k # 0
    BY <1>3
  <2> QED BY <1>12, <2>1
<1> QED BY <1>13 DEF D, s

(* cJSON_Delete of an item that is held frees it with all below it and     *)
(* their texts, each once, and leaves the rest of memory in order.         *)
LEMMA DeleteIs ==
  ASSUME NEW h, NEW lists, NEW held, NEW loose, MemoryIs(h, lists, held, loose),
         NEW i \in held, NEW order, order = FreeOrder(h, i),
         NEW g, IsMap(g), DOMAIN g = DOMAIN h \ ToSet(order), \A x \in DOMAIN g : g[x] = h[x]
  PROVE  /\ IsInjective(order) /\ ToSet(order) \subseteq DOMAIN h
         /\ ItemsOf(g) = ItemsOf(h) \ Reach(h, i)
         /\ MemoryIs(g, [c \in DOMAIN lists \ Reach(h, i) |-> lists[c]], held \ {i}, loose)
<1> DEFINE D == Reach(h, i)
           rest == [c \in DOMAIN lists \ D |-> lists[c]]
<1>1. /\ i \in ItemsOf(h) /\ ItemsOf(h) \subseteq DOMAIN h
      /\ Wood(h) /\ \A p \in held, q \in ItemsOf(h) : p \notin Succ(h, q)
  <2>1. ItemsOf(h) \subseteq DOMAIN h /\ i \in ItemsOf(h)
    BY DEF MemoryIs, ListsAre, ItemsOf
  <2> QED BY <2>1, MemoryIsForest
<1>2. Lists(order, Tree(h, i))
  BY <1>1, FreesTheTree
<1>3. ToSet(order) = D \cup TextsIn(h, D) /\ IsInjective(order)
  BY <1>2, ListsSet DEF Tree
<1>4. D \subseteq ItemsOf(h) /\ i \in D
  BY <1>1, ReachIsLeast
<1>5. TextsIn(h, D) \subseteq DOMAIN h \ (ItemsOf(h) \cup loose)
  BY <1>4 DEF TextsIn, MemoryIs, TextsAre
<1> HIDE DEF D
<1>6. DOMAIN g = DOMAIN h \ (D \cup TextsIn(h, D)) /\ \A x \in DOMAIN g : g[x] = h[x]
  BY <1>3
<1>7. ToSet(order) \subseteq DOMAIN h
  BY <1>1, <1>3, <1>4, <1>5
<1>8. ItemsOf(g) = ItemsOf(h) \ D
  <2>1. \A x \in DOMAIN g : IsItem(g, x) <=> IsItem(h, x)
    BY <1>6 DEF IsItem
  <2>2. \A x \in ItemsOf(h) \ D : x \in DOMAIN g
    BY <1>1, <1>5, <1>6
  <2> QED BY <1>6, <2>1, <2>2 DEF ItemsOf
<1>9. \A p \in held : p \in D => p = i
  <2> SUFFICES ASSUME NEW p \in held, p \in D, p # i PROVE FALSE
    OBVIOUS
  <2>1. \E r \in D : p \in Succ(h, r)
    BY <1>1, <2>1, ReachedFrom DEF D
  <2> QED BY <1>1, <1>4, <2>1
<1>10. \A x \in ItemsOf(g) : x \in DOMAIN g /\ x \in ItemsOf(h) /\ g[x] = h[x] /\ x \notin D
  BY <1>6, <1>8 DEF ItemsOf
<1>11. DOMAIN rest = Owners(g) /\ DOMAIN rest = DOMAIN lists \ D
  <2>1. DOMAIN lists = Owners(h)
    BY DEF MemoryIs
  <2>2. DOMAIN rest = DOMAIN lists \ D
    BY DEF D
  <2> QED BY <1>8, <1>10, <2>1, <2>2 DEF Owners
<1>12. \A c \in DOMAIN rest : rest[c] = lists[c] /\ c \in DOMAIN lists /\ c \notin D
  BY <1>11 DEF D
<1> HIDE DEF rest
<1>13. \A c \in DOMAIN rest : \A k \in DOMAIN lists[c] : lists[c][k] \in ItemsOf(g)
  <2> TAKE c \in DOMAIN rest
  <2> TAKE k \in DOMAIN lists[c]
  <2>1. c \in DOMAIN lists /\ c \notin D
    BY <1>12
  <2>2. lists[c][k] \in ItemsOf(h) /\ lists[c][k] \notin D
    BY <2>1, Placed, ListsPart DEF D
  <2> QED BY <1>8, <2>2
<1>14. ListsAre(g, rest, held \ {i})
  <2>1. /\ NULL \notin DOMAIN g
        /\ DOMAIN rest \subseteq ItemsOf(g) /\ held \ {i} \subseteq ItemsOf(g)
    <3>1. NULL \notin DOMAIN h /\ held \subseteq ItemsOf(h)
      BY DEF MemoryIs, ListsAre, ItemsOf
    <3> QED BY <1>6, <1>8, <1>9, <1>11, <3>1 DEF Owners
  <2>2. ASSUME NEW c \in DOMAIN rest
        PROVE  rest[c] \in Seq(ItemsOf(g)) /\ IsListOf(g, c, rest[c])
    <3>1. lists[c] \in Seq(ItemsOf(h)) /\ IsListOf(h, c, lists[c]) /\ DOMAIN lists[c] = 1 .. Len(lists[c])
      BY <1>12, LenProperties DEF MemoryIs, ListsAre, ItemsOf
    <3>2. lists[c] \in Seq(ItemsOf(g))
      <4>1. \A k \in 1 .. Len(lists[c]) : lists[c][k] \in ItemsOf(g)
        BY <1>13, <3>1
      <4> QED BY <3>1, <4>1, SequenceIn
    <3>3. \A k \in DOMAIN lists[c] : g[lists[c][k]] = h[lists[c][k]]
      BY <1>10, <1>13
    <3>4. g[c] = h[c]
      BY <1>10, <1>11 DEF Owners
    <3>5. IsListOf(g, c, lists[c])
      BY <3>1, <3>3, <3>4, SameList
    <3> QED BY <1>12, <3>2, <3>5
  <2>3. \A c, d \in DOMAIN rest : \A k \in DOMAIN rest[c], l \in DOMAIN rest[d] :
          rest[c][k] = rest[d][l] => c = d /\ k = l
    BY <1>12, PlacedOnce
  <2>4. \A p \in held \ {i} : g[p].next = NULL /\ g[p].prev = NULL
    <3>1. \A p \in held : h[p].next = NULL /\ h[p].prev = NULL
      BY DEF MemoryIs, ListsAre
    <3> QED BY <1>10, <2>1, <3>1
  <2>5. \A p \in held \ {i}, c \in DOMAIN rest : \A k \in DOMAIN rest[c] : rest[c][k] # p
    <3>1. \A p \in held, c \in DOMAIN lists : \A k \in DOMAIN lists[c] : lists[c][k] # p
      BY Zenon DEF MemoryIs, ListsAre
    <3> QED BY <1>12, <3>1
  <2> QED BY <2>1, <2>2, <2>3, <2>4, <2>5, Zenon DEF ListsAre, ItemsOf
<1>15. \A b \in ItemsOf(g) : b \in held \ {i} \/ \E c \in DOMAIN rest : \E k \in DOMAIN rest[c] : rest[c][k] = b
  <2> SUFFICES ASSUME NEW b \in ItemsOf(g), b \notin held \ {i}
               PROVE  \E c \in DOMAIN rest : \E k \in DOMAIN rest[c] : rest[c][k] = b
    OBVIOUS
  <2>1. b \in ItemsOf(h) /\ b \notin held /\ b \notin D
    BY <1>4, <1>10
  <2>2. PICK c \in DOMAIN lists : \E k \in DOMAIN lists[c] : lists[c][k] = b
    BY <2>1 DEF MemoryIs
  <2>3. c \notin D
    BY <2>1, <2>2, ListsPart DEF D
  <2> QED BY <1>11, <1>12, <2>2, <2>3
<1>16. TextsAre(g, loose)
  <2>1. \A b \in ItemsOf(g) : TextsOf(g, b) = TextsOf(h, b)
    BY <1>10 DEF TextsOf
  <2>2. \A b \in ItemsOf(h), c \in ItemsOf(h) : b # c => TextsOf(h, b) \cap TextsOf(h, c) = {}
    BY DEF MemoryIs, TextsAre
  <2>3. \A b \in ItemsOf(h) :
          /\ h[b].string = StaticKey <=> h[b].StringIsConst /\ h[b].string # NULL
          /\ TextsOf(h, b) \subseteq DOMAIN h \ (ItemsOf(h) \cup loose)
          /\ h[b].IsReference \/ h[b].StringIsConst \/ h[b].valuestring = NULL
             \/ h[b].valuestring # h[b].string
    BY DEF MemoryIs, TextsAre
  <2>4. loose \subseteq DOMAIN h \ ItemsOf(h)
    BY DEF MemoryIs, TextsAre
  <2>5. \A t \in DOMAIN h \ (ItemsOf(h) \cup loose) : \E b \in ItemsOf(h) : t \in TextsOf(h, b)
    BY DEF MemoryIs, TextsAre
  <2>6. loose \subseteq DOMAIN g \ ItemsOf(g)
    BY <1>4, <1>5, <1>6, <1>8, <2>4
  <2>7. ASSUME NEW b \in ItemsOf(g)
        PROVE  TextsOf(g, b) \subseteq DOMAIN g \ (ItemsOf(g) \cup loose)
    <3>1. TextsOf(h, b) \cap TextsIn(h, D) = {}
      BY <1>4, <1>10, <2>2 DEF TextsIn
    <3>2. TextsOf(h, b) \subseteq DOMAIN h \ (ItemsOf(h) \cup loose)
      BY <1>10, <2>3
    <3> QED BY <1>4, <1>6, <1>8, <2>1, <3>1, <3>2
  <2>8. \A b \in ItemsOf(g) :
          /\ g[b].string = StaticKey <=> g[b].StringIsConst /\ g[b].string # NULL
          /\ g[b].IsReference \/ g[b].StringIsConst \/ g[b].valuestring = NULL
             \/ g[b].valuestring # g[b].string
    BY <1>10, <2>3
  <2>9. \A b, c \in ItemsOf(g) : b # c => TextsOf(g, b) \cap TextsOf(g, c) = {}
    BY <1>10, <2>1, <2>2
  <2>10. ASSUME NEW t \in DOMAIN g \ (ItemsOf(g) \cup loose) PROVE \E b \in ItemsOf(g) : t \in TextsOf(g, b)
    <3>1. t \in DOMAIN h \ (ItemsOf(h) \cup loose) /\ t \notin TextsIn(h, D)
      BY <1>6, <1>8
    <3>2. PICK b \in ItemsOf(h) : t \in TextsOf(h, b)
      BY <2>5, <3>1
    <3>3. b \in ItemsOf(g)
      BY <1>8, <3>1, <3>2 DEF TextsIn
    <3> QED BY <2>1, <3>2, <3>3
  <2> QED BY <2>6, <2>7, <2>8, <2>9, <2>10 DEF TextsAre
<1>17. /\ g = [x \in DOMAIN g |-> g[x]] /\ DOMAIN g \subseteq Blocks
       /\ \A x \in DOMAIN g : g[x] \in ItemRecord \cup [chars : Seq(Byte)]
  <2>1. DOMAIN h \subseteq Blocks /\ \A x \in DOMAIN h : h[x] \in ItemRecord \cup [chars : Seq(Byte)]
    BY DEF MemoryIs, IsMap
  <2> QED BY <1>6, <2>1 DEF IsMap
<1>18. MemoryIs(g, rest, held \ {i}, loose)
  BY <1>11, <1>14, <1>15, <1>16, <1>17, Zenon DEF MemoryIs
<1> QED BY <1>3, <1>7, <1>8, <1>18 DEF rest, D

-----------------------------------------------------------------------------
(* What happens to texts. *)

(* An assignment that changes no link changes no list. *)
LEMMA LinksStay ==
  ASSUME NEW h, NEW lists, NEW held, NEW loose, MemoryIs(h, lists, held, loose),
         NEW g, g = [x \in DOMAIN g |-> g[x]], DOMAIN g \subseteq Blocks,
         \A x \in DOMAIN g : g[x] \in ItemRecord \cup [chars : Seq(Byte)],
         ItemsOf(g) = ItemsOf(h),
         \A b \in ItemsOf(h) : /\ g[b].next = h[b].next /\ g[b].prev = h[b].prev
                               /\ g[b].child = h[b].child /\ g[b].IsReference = h[b].IsReference,
         NEW left, TextsAre(g, left)
  PROVE  MemoryIs(g, lists, held, left)
<1>1. NULL \notin DOMAIN g
  BY BlocksAssumption
<1>2. Owners(g) = Owners(h) /\ DOMAIN lists = Owners(h)
  BY DEF Owners, MemoryIs
<1>3. ListsAre(g, lists, held)
  <2>1. ListsAre(h, lists, held)
    BY DEF MemoryIs
  <2>2. NULL \notin DOMAIN g /\ DOMAIN lists \subseteq ItemsOf(g) /\ held \subseteq ItemsOf(g)
    BY <1>1, <2>1 DEF ListsAre, ItemsOf
  <2>3. \A c \in DOMAIN lists : lists[c] \in Seq(ItemsOf(g)) /\ IsListOf(g, c, lists[c])
    <3> TAKE c \in DOMAIN lists
    <3>1. lists[c] \in Seq(ItemsOf(h)) /\ IsListOf(h, c, lists[c]) /\ c \in ItemsOf(h)
      BY <2>1 DEF ListsAre, ItemsOf
    <3>2. \A k \in DOMAIN lists[c] : lists[c][k] \in ItemsOf(h)
      BY <3>1, LenProperties, ElementOfSeq
    <3>3. IsListOf(g, c, lists[c])
      BY <3>1, <3>2, SameList
    <3> QED BY <3>1, <3>3
  <2>4. \A i \in held : g[i].next = NULL /\ g[i].prev = NULL
    BY <2>1, <2>2 DEF ListsAre
  <2>5. /\ \A c, d \in DOMAIN lists : \A k \in DOMAIN lists[c], l \in DOMAIN lists[d] :
             lists[c][k] = lists[d][l] => c = d /\ k = l
        /\ \A i \in held, c \in DOMAIN lists : \A k \in DOMAIN lists[c] : lists[c][k] # i
    BY <2>1, Zenon DEF ListsAre
  <2> QED BY <2>2, <2>3, <2>4, <2>5, Zenon DEF ListsAre, ItemsOf
<1>4. \A b \in ItemsOf(g) : b \in held \/ \E c \in DOMAIN lists : \E k \in DOMAIN lists[c] : lists[c][k] = b
  BY DEF MemoryIs
<1> QED BY <1>2, <1>3, <1>4, Zenon DEF MemoryIs

(* A text that belongs to no item may be freed. *)
LEMMA FreeText ==
  ASSUME NEW h, NEW lists, NEW held, NEW loose, MemoryIs(h, lists, held, loose),
         NEW t \in loose, NEW g, IsMap(g), DOMAIN g = DOMAIN h \ {t}, \A x \in DOMAIN g : g[x] = h[x]
  PROVE  MemoryIs(g, lists, held, loose \ {t}) /\ ItemsOf(g) = ItemsOf(h) /\ t \in DOMAIN h
<1>1. t \in DOMAIN h /\ t \notin ItemsOf(h)
  BY DEF MemoryIs, TextsAre
<1>2. DOMAIN g = DOMAIN h \ {t} /\ \A x \in DOMAIN g : g[x] = h[x]
  OBVIOUS
<1>3. ItemsOf(g) = ItemsOf(h)
  BY <1>1, <1>2 DEF ItemsOf, IsItem
<1>4. \A b \in ItemsOf(h) : b \in DOMAIN g /\ g[b] = h[b]
  BY <1>2, <1>3 DEF ItemsOf
<1>7. TextsAre(g, loose \ {t})
  <2>1. TextsAre(h, loose)
    BY DEF MemoryIs
  <2>2. \A b \in ItemsOf(h) : TextsOf(g, b) = TextsOf(h, b)
    BY <1>4 DEF TextsOf
  <2>3. \A b \in ItemsOf(g) :
          /\ g[b].string = StaticKey <=> g[b].StringIsConst /\ g[b].string # NULL
          /\ g[b].IsReference \/ g[b].StringIsConst \/ g[b].valuestring = NULL
             \/ g[b].valuestring # g[b].string
    BY <1>3, <1>4, <2>1 DEF TextsAre
  <2>4. \A b \in ItemsOf(g) : TextsOf(g, b) \subseteq DOMAIN g \ (ItemsOf(g) \cup (loose \ {t}))
    <3> TAKE b \in ItemsOf(g)
    <3>1. TextsOf(h, b) \subseteq DOMAIN h \ (ItemsOf(h) \cup loose)
      BY <1>3, <2>1 DEF TextsAre
    <3> QED BY <1>2, <1>3, <2>2, <3>1
  <2>5. \A b, c \in ItemsOf(g) : b # c => TextsOf(g, b) \cap TextsOf(g, c) = {}
    BY <1>3, <2>1, <2>2 DEF TextsAre
  <2>6. \A u \in DOMAIN g \ (ItemsOf(g) \cup (loose \ {t})) : \E b \in ItemsOf(g) : u \in TextsOf(g, b)
    <3> TAKE u \in DOMAIN g \ (ItemsOf(g) \cup (loose \ {t}))
    <3>1. u \in DOMAIN h \ (ItemsOf(h) \cup loose)
      BY <1>2, <1>3
    <3>2. \E b \in ItemsOf(h) : u \in TextsOf(h, b)
      BY <2>1, <3>1 DEF TextsAre
    <3> QED BY <1>3, <2>2, <3>2
  <2>7. loose \ {t} \subseteq DOMAIN g \ ItemsOf(g)
    BY <1>2, <1>3, <2>1 DEF TextsAre
  <2> QED BY <2>3, <2>4, <2>5, <2>6, <2>7 DEF TextsAre
<1>8. g = [x \in DOMAIN g |-> g[x]] /\ DOMAIN g \subseteq Blocks
  BY <1>2 DEF MemoryIs, IsMap
<1>9. \A x \in DOMAIN g : g[x] \in ItemRecord \cup [chars : Seq(Byte)]
  BY <1>2 DEF MemoryIs
<1>10. MemoryIs(g, lists, held, loose \ {t})
  BY <1>3, <1>4, <1>7, <1>8, <1>9, LinksStay
<1> QED BY <1>1, <1>3, <1>10

(* A new text belongs to no item. *)
LEMMA NewText ==
  ASSUME NEW h, NEW lists, NEW held, NEW loose, MemoryIs(h, lists, held, loose),
         NEW t \in Blocks \ DOMAIN h, NEW g, IsMap(g), DOMAIN g = DOMAIN h \cup {t},
         g[t] \in [chars : Seq(Byte)], \A x \in DOMAIN h : g[x] = h[x]
  PROVE  /\ MemoryIs(g, lists, held, loose \cup {t}) /\ ItemsOf(g) = ItemsOf(h)
<1>1. DOMAIN g = DOMAIN h \cup {t} /\ \A x \in DOMAIN h : g[x] = h[x]
  OBVIOUS
<1>2. g = [x \in DOMAIN g |-> g[x]]
  BY DEF IsMap
<1>3. g[t] \in [chars : Seq(Byte)] /\ ~IsItem(g, t)
  BY <1>1, ItemsAre
<1>4. ItemsOf(g) = ItemsOf(h)
  BY <1>1, <1>3 DEF ItemsOf, IsItem
<1>5. \A b \in ItemsOf(h) : b \in DOMAIN h /\ g[b] = h[b]
  BY <1>1 DEF ItemsOf
<1>6. TextsAre(g, loose \cup {t})
  <2>1. TextsAre(h, loose)
    BY DEF MemoryIs
  <2>2. \A b \in ItemsOf(h) : TextsOf(g, b) = TextsOf(h, b)
    BY <1>5 DEF TextsOf
  <2>3. \A b \in ItemsOf(g) :
          /\ g[b].string = StaticKey <=> g[b].StringIsConst /\ g[b].string # NULL
          /\ g[b].IsReference \/ g[b].StringIsConst \/ g[b].valuestring = NULL
             \/ g[b].valuestring # g[b].string
    BY <1>4, <1>5, <2>1 DEF TextsAre
  <2>4. \A b \in ItemsOf(g) : TextsOf(g, b) \subseteq DOMAIN g \ (ItemsOf(g) \cup (loose \cup {t}))
    <3> TAKE b \in ItemsOf(g)
    <3>1. TextsOf(h, b) \subseteq DOMAIN h \ (ItemsOf(h) \cup loose)
      BY <1>4, <2>1 DEF TextsAre
    <3> QED BY <1>1, <1>4, <2>2, <3>1
  <2>5. \A b, c \in ItemsOf(g) : b # c => TextsOf(g, b) \cap TextsOf(g, c) = {}
    BY <1>4, <2>1, <2>2 DEF TextsAre
  <2>6. \A u \in DOMAIN g \ (ItemsOf(g) \cup (loose \cup {t})) : \E b \in ItemsOf(g) : u \in TextsOf(g, b)
    <3> TAKE u \in DOMAIN g \ (ItemsOf(g) \cup (loose \cup {t}))
    <3>1. u \in DOMAIN h \ (ItemsOf(h) \cup loose)
      BY <1>1, <1>4
    <3>2. \E b \in ItemsOf(h) : u \in TextsOf(h, b)
      BY <2>1, <3>1 DEF TextsAre
    <3> QED BY <1>4, <2>2, <3>2
  <2>7. loose \cup {t} \subseteq DOMAIN g \ ItemsOf(g)
    <3>1. loose \subseteq DOMAIN h \ ItemsOf(h)
      BY <2>1 DEF TextsAre
    <3>2. t \notin ItemsOf(h)
      BY DEF ItemsOf
    <3> QED BY <1>1, <1>4, <3>1, <3>2
  <2> QED BY <2>3, <2>4, <2>5, <2>6, <2>7 DEF TextsAre
<1>7. DOMAIN g \subseteq Blocks /\ \A x \in DOMAIN g : g[x] \in ItemRecord \cup [chars : Seq(Byte)]
  BY <1>1, <1>3 DEF MemoryIs
<1>8. MemoryIs(g, lists, held, loose \cup {t})
  BY <1>2, <1>4, <1>5, <1>6, <1>7, LinksStay
<1> QED BY <1>1, <1>4, <1>8

(* A text written over another one. *)
LEMMA TextWritten ==
  ASSUME NEW h, NEW lists, NEW held, NEW loose, MemoryIs(h, lists, held, loose),
         NEW t \in DOMAIN h \ ItemsOf(h), NEW g, IsMap(g), DOMAIN g = DOMAIN h,
         g[t] \in [chars : Seq(Byte)], \A x \in DOMAIN h : x # t => g[x] = h[x]
  PROVE  MemoryIs(g, lists, held, loose) /\ ItemsOf(g) = ItemsOf(h)
<1>2. /\ DOMAIN g = DOMAIN h /\ g = [x \in DOMAIN g |-> g[x]] /\ g[t] \in [chars : Seq(Byte)]
      /\ \A x \in DOMAIN h : x # t => g[x] = h[x]
  BY DEF IsMap
<1>3. ItemsOf(g) = ItemsOf(h)
  <2>1. ~IsItem(g, t)
    BY <1>2, ItemsAre
  <2> QED BY <1>2, <2>1 DEF ItemsOf, IsItem
<1>4. \A b \in ItemsOf(h) : b \in DOMAIN h /\ g[b] = h[b]
  BY <1>2 DEF ItemsOf
<1>5. TextsAre(g, loose)
  <2>1. \A b \in ItemsOf(h) : TextsOf(g, b) = TextsOf(h, b)
    BY <1>4 DEF TextsOf
  <2>2. TextsAre(h, loose)
    BY DEF MemoryIs
  <2>3. \A b \in ItemsOf(g) :
          /\ g[b].string = StaticKey <=> g[b].StringIsConst /\ g[b].string # NULL
          /\ TextsOf(g, b) \subseteq DOMAIN g \ (ItemsOf(g) \cup loose)
          /\ g[b].IsReference \/ g[b].StringIsConst \/ g[b].valuestring = NULL
             \/ g[b].valuestring # g[b].string
    BY <1>2, <1>3, <1>4, <2>1, <2>2 DEF TextsAre
  <2>4. \A b, c \in ItemsOf(g) : b # c => TextsOf(g, b) \cap TextsOf(g, c) = {}
    BY <1>3, <2>1, <2>2 DEF TextsAre
  <2>5. \A u \in DOMAIN g \ (ItemsOf(g) \cup loose) : \E b \in ItemsOf(g) : u \in TextsOf(g, b)
    BY <1>2, <1>3, <2>1, <2>2 DEF TextsAre
  <2>6. loose \subseteq DOMAIN g \ ItemsOf(g)
    BY <1>2, <1>3, <2>2 DEF TextsAre
  <2> QED BY <2>3, <2>4, <2>5, <2>6, Zenon DEF TextsAre
<1>6. DOMAIN g \subseteq Blocks /\ \A x \in DOMAIN g : g[x] \in ItemRecord \cup [chars : Seq(Byte)]
  BY <1>2 DEF MemoryIs
<1>7. MemoryIs(g, lists, held, loose)
  BY <1>2, <1>3, <1>4, <1>5, <1>6, LinksStay
<1> QED BY <1>3, <1>7

(* An item takes other texts: those it owned are nobody's now. *)
LEMMA TextsTaken ==
  ASSUME NEW h, NEW lists, NEW held, NEW loose, MemoryIs(h, lists, held, loose),
         NEW b \in ItemsOf(h), NEW g, IsMap(g), DOMAIN g = DOMAIN h, g[b] \in ItemRecord,
         \A x \in DOMAIN h : x # b => g[x] = h[x],
         g[b].next = h[b].next, g[b].prev = h[b].prev, g[b].child = h[b].child,
         g[b].IsReference = h[b].IsReference,
         g[b].string = StaticKey <=> g[b].StringIsConst /\ g[b].string # NULL,
         g[b].IsReference \/ g[b].StringIsConst \/ g[b].valuestring = NULL \/ g[b].valuestring # g[b].string,
         TextsOf(g, b) \subseteq loose \cup TextsOf(h, b)
  PROVE  /\ MemoryIs(g, lists, held, (loose \cup TextsOf(h, b)) \ TextsOf(g, b))
         /\ ItemsOf(g) = ItemsOf(h)
<1> DEFINE left == (loose \cup TextsOf(h, b)) \ TextsOf(g, b)
<1>1. /\ DOMAIN g = DOMAIN h /\ g = [x \in DOMAIN g |-> g[x]] /\ g[b] \in ItemRecord
      /\ \A x \in DOMAIN h : x # b => g[x] = h[x]
  BY DEF ItemsOf, IsMap
<1>2. ItemsOf(g) = ItemsOf(h)
  <2>1. IsItem(g, b)
    BY <1>1, ItemsAre DEF ItemsOf
  <2> QED BY <1>1, <2>1 DEF ItemsOf, IsItem
<1>3. \A c \in ItemsOf(h) : c \in DOMAIN h /\ (c # b => g[c] = h[c])
  BY <1>1 DEF ItemsOf
<1>4. TextsAre(h, loose)
  BY DEF MemoryIs
<1>5. \A c \in ItemsOf(h) : c # b => TextsOf(g, c) = TextsOf(h, c)
  BY <1>3 DEF TextsOf
<1>6. /\ loose \subseteq DOMAIN h \ ItemsOf(h)
      /\ \A c \in ItemsOf(h) : TextsOf(h, c) \subseteq DOMAIN h \ (ItemsOf(h) \cup loose)
      /\ \A c, d \in ItemsOf(h) : c # d => TextsOf(h, c) \cap TextsOf(h, d) = {}
      /\ \A t \in DOMAIN h \ (ItemsOf(h) \cup loose) : \E c \in ItemsOf(h) : t \in TextsOf(h, c)
  BY <1>4 DEF TextsAre
<1>7. TextsAre(g, left)
  <2>1. left \subseteq DOMAIN g \ ItemsOf(g)
    BY <1>1, <1>2, <1>6
  <2>2. \A c \in ItemsOf(g) : TextsOf(g, c) \subseteq DOMAIN g \ (ItemsOf(g) \cup left)
    <3> TAKE c \in ItemsOf(g)
    <3>1. CASE c = b
      BY <1>1, <1>2, <1>6, <3>1
    <3>2. CASE c # b
      <4>1. TextsOf(g, c) = TextsOf(h, c) /\ TextsOf(h, c) \cap TextsOf(h, b) = {}
        BY <1>2, <1>5, <1>6, <3>2
      <4>2. TextsOf(h, c) \subseteq DOMAIN h \ (ItemsOf(h) \cup loose)
        BY <1>2, <1>6
      <4> QED BY <1>1, <1>2, <4>1, <4>2
    <3> QED BY <3>1, <3>2
  <2>3. \A c \in ItemsOf(g) :
          /\ g[c].string = StaticKey <=> g[c].StringIsConst /\ g[c].string # NULL
          /\ g[c].IsReference \/ g[c].StringIsConst \/ g[c].valuestring = NULL
             \/ g[c].valuestring # g[c].string
    BY <1>1, <1>2, <1>3, <1>4 DEF TextsAre
  <2>4. ASSUME NEW c \in ItemsOf(g), c # b PROVE TextsOf(g, b) \cap TextsOf(g, c) = {}
    <3>1. TextsOf(g, c) = TextsOf(h, c) /\ TextsOf(h, c) \cap TextsOf(h, b) = {}
      BY <1>2, <1>5, <1>6, <2>4
    <3>2. TextsOf(h, c) \subseteq DOMAIN h \ (ItemsOf(h) \cup loose)
      BY <1>2, <1>6
    <3> QED BY <3>1, <3>2
  <2>5. \A c, d \in ItemsOf(g) : c # d => TextsOf(g, c) \cap TextsOf(g, d) = {}
    <3> TAKE c, d \in ItemsOf(g)
    <3> HAVE c # d
    <3>1. CASE c = b
      BY <2>4, <3>1
    <3>2. CASE d = b
      BY <2>4, <3>2
    <3>3. CASE c # b /\ d # b
      BY <1>2, <1>5, <1>6, <3>3
    <3> QED BY <3>1, <3>2, <3>3
  <2>6. \A t \in DOMAIN g \ (ItemsOf(g) \cup left) : \E c \in ItemsOf(g) : t \in TextsOf(g, c)
    <3> TAKE t \in DOMAIN g \ (ItemsOf(g) \cup left)
    <3>1. CASE t \in TextsOf(g, b)
      BY <1>2, <3>1
    <3>2. CASE t \notin TextsOf(g, b)
      <4>1. t \in DOMAIN h \ (ItemsOf(h) \cup loose) /\ t \notin TextsOf(h, b)
        BY <1>1, <1>2, <3>2
      <4>2. PICK c \in ItemsOf(h) : t \in TextsOf(h, c)
        BY <1>6, <4>1
      <4> QED BY <1>2, <1>5, <4>1, <4>2
    <3> QED BY <3>1, <3>2
  <2> HIDE DEF left
  <2> QED BY <2>1, <2>2, <2>3, <2>5, <2>6 DEF TextsAre
<1>8. DOMAIN g \subseteq Blocks /\ \A x \in DOMAIN g : g[x] \in ItemRecord \cup [chars : Seq(Byte)]
  BY <1>1 DEF MemoryIs
<1>9. \A c \in ItemsOf(h) : /\ g[c].next = h[c].next /\ g[c].prev = h[c].prev
                            /\ g[c].child = h[c].child /\ g[c].IsReference = h[c].IsReference
  BY <1>1, <1>3
<1> HIDE DEF left
<1>10. MemoryIs(g, lists, held, left)
  <2>1. MemoryIs(h, lists, held, loose) /\ g = [x \in DOMAIN g |-> g[x]] /\ TextsAre(g, left)
    BY <1>1, <1>7
  <2> QED BY ONLY <1>2, <1>8, <1>9, <2>1, LinksStay
<1> QED BY <1>1, <1>2, <1>10 DEF left

-----------------------------------------------------------------------------
(* What happens to items. *)

(* The lists with one more, which is empty, if the new item i owns its children. *)
Prolonged(lists, longer, i) ==
  /\ \A c \in DOMAIN lists : c \in DOMAIN longer /\ longer[c] = lists[c]
  /\ \A c \in DOMAIN longer : c \notin DOMAIN lists => c = i /\ longer[c] = <<>>

(* A new item that owns nothing is held. *)
LEMMA NewItem ==
  ASSUME NEW h, NEW lists, NEW held, NEW loose, MemoryIs(h, lists, held, loose),
         NEW i \in Blocks \ DOMAIN h, NEW n \in ItemRecord,
         n.next = NULL, n.prev = NULL, n.string = NULL,
         n.IsReference \/ (n.child = NULL /\ n.valuestring = NULL),
         NEW g, IsMap(g), DOMAIN g = DOMAIN h \cup {i}, g[i] = n, \A x \in DOMAIN h : g[x] = h[x]
  PROVE  /\ \E longer : MemoryIs(g, longer, held \cup {i}, loose) /\ Prolonged(lists, longer, i)
         /\ ItemsOf(g) = ItemsOf(h) \cup {i}
<1> DEFINE longer == IF n.IsReference THEN lists
                     ELSE [c \in DOMAIN lists \cup {i} |-> IF c = i THEN <<>> ELSE lists[c]]
<1>1. DOMAIN g = DOMAIN h \cup {i} /\ (\A x \in DOMAIN h : g[x] = h[x]) /\ g[i] = n
  OBVIOUS
<1>2. g = [x \in DOMAIN g |-> g[x]]
  BY DEF IsMap
<1>3. IsItem(g, i)
  BY <1>1, ItemsAre
<1>4. ItemsOf(g) = ItemsOf(h) \cup {i} /\ i \notin ItemsOf(h)
  BY <1>1, <1>3 DEF ItemsOf, IsItem
<1>5. \A b \in ItemsOf(h) : b \in DOMAIN h /\ g[b] = h[b]
  BY <1>1 DEF ItemsOf
<1>6. n.IsReference \in BOOLEAN /\ n.StringIsConst \in BOOLEAN
  BY DEF ItemRecord
<1>7. DOMAIN lists = Owners(h)
  BY DEF MemoryIs
<1>8. Owners(g) = IF n.IsReference THEN Owners(h) ELSE Owners(h) \cup {i}
  BY <1>1, <1>4, <1>5, <1>6 DEF Owners
<1>9. DOMAIN longer = Owners(g)
  BY <1>6, <1>7, <1>8
<1>10. \A c \in DOMAIN longer : \/ c \in DOMAIN lists /\ c # i /\ longer[c] = lists[c]
                                \/ c = i /\ longer[c] = <<>> /\ ~n.IsReference
  BY <1>4, <1>6, <1>7 DEF Owners
<1>11. \A c \in DOMAIN lists : c \in DOMAIN longer /\ longer[c] = lists[c]
  BY <1>4, <1>6, <1>7 DEF Owners
<1>12. ListsAre(h, lists, held)
  BY DEF MemoryIs
<1> HIDE DEF longer
<1>13. ListsAre(g, longer, held \cup {i})
  <2>1. /\ NULL \notin DOMAIN g /\ DOMAIN longer \subseteq ItemsOf(g)
        /\ held \cup {i} \subseteq ItemsOf(g)
    <3>1. NULL \notin DOMAIN h /\ held \subseteq ItemsOf(h) /\ NULL \notin Blocks
      BY <1>12, BlocksAssumption DEF ListsAre, ItemsOf
    <3> QED BY <1>1, <1>4, <1>9, <3>1 DEF Owners
  <2>2. \A c \in DOMAIN longer : longer[c] \in Seq(ItemsOf(g)) /\ IsListOf(g, c, longer[c])
    <3> TAKE c \in DOMAIN longer
    <3>1. CASE c \in DOMAIN lists /\ c # i /\ longer[c] = lists[c]
      <4>1. lists[c] \in Seq(ItemsOf(h)) /\ IsListOf(h, c, lists[c]) /\ c \in ItemsOf(h)
        BY <1>12, <3>1 DEF ListsAre, ItemsOf
      <4>2. \A k \in 1 .. Len(lists[c]) : lists[c][k] \in ItemsOf(h)
        BY <4>1, ElementOfSeq
      <4>3. DOMAIN lists[c] = 1 .. Len(lists[c])
        BY <4>1, LenProperties
      <4>4. IsListOf(g, c, lists[c])
        BY <1>5, <4>1, <4>2, <4>3, SameList
      <4>5. \A k \in 1 .. Len(lists[c]) : lists[c][k] \in ItemsOf(g)
        BY <1>4, <4>2
      <4>6. lists[c] \in Seq(ItemsOf(g))
        BY ONLY <4>1, <4>5, SequenceIn
      <4> QED BY <3>1, <4>4, <4>6
    <3>2. CASE c = i /\ longer[c] = <<>> /\ ~n.IsReference
      BY <1>1, <3>2 DEF IsListOf
    <3> QED BY <1>10, <3>1, <3>2
  <2>3. \A p \in held \cup {i} : g[p].next = NULL /\ g[p].prev = NULL
    <3>1. \A p \in held : p \in ItemsOf(h) /\ h[p].next = NULL /\ h[p].prev = NULL
      BY <1>12 DEF ListsAre, ItemsOf
    <3> QED BY <1>1, <1>5, <3>1
  <2>4. \A c, d \in DOMAIN longer : \A k \in DOMAIN longer[c], l \in DOMAIN longer[d] :
             longer[c][k] = longer[d][l] => c = d /\ k = l
    <3>1. \A c, d \in DOMAIN lists : \A k \in DOMAIN lists[c], l \in DOMAIN lists[d] :
             lists[c][k] = lists[d][l] => c = d /\ k = l
      BY <1>12, Zenon DEF ListsAre
    <3>2. \A c \in DOMAIN longer : \A k \in DOMAIN longer[c] : c \in DOMAIN lists /\ longer[c] = lists[c]
      BY <1>10
    <3> QED BY ONLY <3>1, <3>2
  <2>5. \A p \in held \cup {i}, c \in DOMAIN longer : \A k \in DOMAIN longer[c] : longer[c][k] # p
    <3>1. \A p \in held, c \in DOMAIN lists : \A k \in DOMAIN lists[c] : lists[c][k] # p
      BY <1>12, Zenon DEF ListsAre
    <3>2. \A c \in DOMAIN longer : \A k \in DOMAIN longer[c] : c \in DOMAIN lists /\ longer[c] = lists[c]
      BY <1>10
    <3>3. \A c \in DOMAIN lists : \A k \in DOMAIN lists[c] : lists[c][k] \in ItemsOf(h)
      BY Placed
    <3> QED BY <1>4, <3>1, <3>2, <3>3
  <2> QED BY <2>1, <2>2, <2>3, <2>4, <2>5, Zenon DEF ListsAre, ItemsOf
<1>14. \A b \in ItemsOf(g) : b \in held \cup {i} \/ \E c \in DOMAIN longer : \E k \in DOMAIN longer[c] : longer[c][k] = b
  <2>1. \A b \in ItemsOf(h) : b \in held \/ \E c \in DOMAIN lists : \E k \in DOMAIN lists[c] : lists[c][k] = b
    BY DEF MemoryIs
  <2> TAKE b \in ItemsOf(g)
  <2>2. CASE b \in ItemsOf(h) /\ b \notin held
    <3>1. PICK c \in DOMAIN lists : \E k \in DOMAIN lists[c] : lists[c][k] = b
      BY <2>1, <2>2
    <3>2. c \in DOMAIN longer /\ longer[c] = lists[c]
      BY <1>11
    <3> QED BY ONLY <3>1, <3>2
  <2>3. CASE b \in held \/ b = i
    BY <2>3
  <2> QED BY <1>4, <2>2, <2>3
<1>15. TextsAre(g, loose)
  <2>1. TextsAre(h, loose)
    BY DEF MemoryIs
  <2>2. (\A b \in ItemsOf(h) : TextsOf(g, b) = TextsOf(h, b)) /\ TextsOf(g, i) = {}
    <3>1. \A b \in ItemsOf(h) : TextsOf(g, b) = TextsOf(h, b)
      BY <1>5 DEF TextsOf
    <3>2. TextsOf(g, i) = {}
      BY <1>1, <1>6 DEF TextsOf
    <3> QED BY <3>1, <3>2
  <2>3. \A b \in ItemsOf(g) :
          /\ g[b].string = StaticKey <=> g[b].StringIsConst /\ g[b].string # NULL
          /\ g[b].IsReference \/ g[b].StringIsConst \/ g[b].valuestring = NULL
             \/ g[b].valuestring # g[b].string
    <3>1. StaticKey # NULL
      BY DEF StaticKey, NULL
    <3>2. \A b \in ItemsOf(h) :
          /\ h[b].string = StaticKey <=> h[b].StringIsConst /\ h[b].string # NULL
          /\ h[b].IsReference \/ h[b].StringIsConst \/ h[b].valuestring = NULL
             \/ h[b].valuestring # h[b].string
      BY <2>1 DEF TextsAre
    <3> QED BY <1>1, <1>4, <1>5, <3>1, <3>2
  <2>4. \A b \in ItemsOf(g) : TextsOf(g, b) \subseteq DOMAIN g \ (ItemsOf(g) \cup loose)
    <3> TAKE b \in ItemsOf(g)
    <3>1. CASE b \in ItemsOf(h)
      <4>1. TextsOf(h, b) \subseteq DOMAIN h \ (ItemsOf(h) \cup loose)
        BY <2>1, <3>1 DEF TextsAre
      <4> QED BY <1>1, <1>4, <2>2, <3>1, <4>1
    <3>2. CASE b = i
      BY <2>2, <3>2
    <3> QED BY <1>4, <3>1, <3>2
  <2>5. \A b, c \in ItemsOf(g) : b # c => TextsOf(g, b) \cap TextsOf(g, c) = {}
    <3>1. \A b, c \in ItemsOf(h) : b # c => TextsOf(h, b) \cap TextsOf(h, c) = {}
      BY <2>1 DEF TextsAre
    <3> QED BY <1>4, <2>2, <3>1
  <2>6. \A u \in DOMAIN g \ (ItemsOf(g) \cup loose) : \E b \in ItemsOf(g) : u \in TextsOf(g, b)
    <3> TAKE u \in DOMAIN g \ (ItemsOf(g) \cup loose)
    <3>1. u \in DOMAIN h \ (ItemsOf(h) \cup loose)
      BY <1>1, <1>4
    <3>2. \E b \in ItemsOf(h) : u \in TextsOf(h, b)
      BY <2>1, <3>1 DEF TextsAre
    <3> QED BY <1>4, <2>2, <3>2
  <2>7. loose \subseteq DOMAIN g \ ItemsOf(g)
    BY <1>1, <1>4, <2>1 DEF TextsAre
  <2> QED BY <2>3, <2>4, <2>5, <2>6, <2>7 DEF TextsAre
<1>16. DOMAIN g \subseteq Blocks /\ \A x \in DOMAIN g : g[x] \in ItemRecord \cup [chars : Seq(Byte)]
  BY <1>1 DEF MemoryIs
<1>17. MemoryIs(g, longer, held \cup {i}, loose)
  BY <1>2, <1>9, <1>13, <1>14, <1>15, <1>16, Zenon DEF MemoryIs
<1>18. Prolonged(lists, longer, i)
  BY <1>10, <1>11 DEF Prolonged
<1> QED BY <1>1, <1>4, <1>17, <1>18

(* The same blocks, with the same contents but for the links. *)
SameButLinks(h, g) ==
  /\ g = [x \in DOMAIN h |-> g[x]]
  /\ \A x \in DOMAIN h :
       /\ ~IsItem(h, x) => g[x] = h[x]
       /\ IsItem(h, x) => /\ g[x] \in ItemRecord
                          /\ g[x].type = h[x].type /\ g[x].string = h[x].string
                          /\ g[x].StringIsConst = h[x].StringIsConst
                          /\ g[x].valuestring = h[x].valuestring
                          /\ g[x].valuedouble = h[x].valuedouble
                          /\ g[x].IsReference = h[x].IsReference

(* Items move from list to list, or are held: the rest stays as it is.     *)
LEMMA LinksMoved ==
  ASSUME NEW h, NEW lists, NEW held, NEW loose, MemoryIs(h, lists, held, loose),
         NEW g, SameButLinks(h, g), NEW moved, NEW free, ListsAre(g, moved, free),
         DOMAIN moved = DOMAIN lists,
         \A b \in ItemsOf(h) : b \in free \/ \E c \in DOMAIN moved : \E k \in DOMAIN moved[c] : moved[c][k] = b
  PROVE  MemoryIs(g, moved, free, loose) /\ ItemsOf(g) = ItemsOf(h)
<1>1. DOMAIN g = DOMAIN h
  BY DEF SameButLinks
<1>2. ItemsOf(g) = ItemsOf(h)
  <2> SUFFICES ASSUME NEW x \in DOMAIN h PROVE IsItem(g, x) <=> IsItem(h, x)
    BY <1>1 DEF ItemsOf
  <2>1. CASE IsItem(h, x)
    BY <1>1, <2>1, ItemsAre DEF SameButLinks
  <2>2. CASE ~IsItem(h, x)
    BY <1>1, <2>2 DEF SameButLinks, IsItem
  <2> QED BY <2>1, <2>2
<1>3. \A b \in ItemsOf(h) : /\ g[b] \in ItemRecord
                            /\ g[b].string = h[b].string
                            /\ g[b].StringIsConst = h[b].StringIsConst
                            /\ g[b].valuestring = h[b].valuestring
                            /\ g[b].IsReference = h[b].IsReference
  BY DEF ItemsOf, SameButLinks
<1>4. DOMAIN moved = Owners(g)
  BY <1>2, <1>3 DEF MemoryIs, Owners
<1>5. TextsAre(g, loose)
  <2>1. \A b \in ItemsOf(h) : TextsOf(g, b) = TextsOf(h, b)
    BY <1>3 DEF TextsOf
  <2>2. TextsAre(h, loose)
    BY DEF MemoryIs
  <2>3. \A b \in ItemsOf(g) :
          /\ g[b].string = StaticKey <=> g[b].StringIsConst /\ g[b].string # NULL
          /\ TextsOf(g, b) \subseteq DOMAIN g \ (ItemsOf(g) \cup loose)
          /\ g[b].IsReference \/ g[b].StringIsConst \/ g[b].valuestring = NULL
             \/ g[b].valuestring # g[b].string
    BY <1>1, <1>2, <1>3, <2>1, <2>2 DEF TextsAre
  <2>4. \A b, c \in ItemsOf(g) : b # c => TextsOf(g, b) \cap TextsOf(g, c) = {}
    BY <1>2, <2>1, <2>2 DEF TextsAre
  <2>5. \A u \in DOMAIN g \ (ItemsOf(g) \cup loose) : \E b \in ItemsOf(g) : u \in TextsOf(g, b)
    BY <1>1, <1>2, <2>1, <2>2 DEF TextsAre
  <2>6. loose \subseteq DOMAIN g \ ItemsOf(g)
    BY <1>1, <1>2, <2>2 DEF TextsAre
  <2> QED BY <2>3, <2>4, <2>5, <2>6, Zenon DEF TextsAre
<1>6. \A x \in DOMAIN g : g[x] \in ItemRecord \cup [chars : Seq(Byte)]
  BY <1>1, ItemsAre DEF SameButLinks, MemoryIs
<1>7. g = [x \in DOMAIN g |-> g[x]] /\ DOMAIN g \subseteq Blocks
  BY <1>1 DEF SameButLinks, MemoryIs
<1>8. \A b \in ItemsOf(g) : b \in free \/ \E c \in DOMAIN moved : \E k \in DOMAIN moved[c] : moved[c][k] = b
  BY <1>2
<1>9. MemoryIs(g, moved, free, loose)
  BY <1>4, <1>5, <1>6, <1>7, <1>8, Zenon DEF MemoryIs
<1> QED BY <1>2, <1>9

(* Memory in which every block is an item or a text.                       *)
Typed(h) ==
  h = [x \in DOMAIN h |-> h[x]] /\ \A x \in DOMAIN h : h[x] \in ItemRecord \cup [chars : Seq(Byte)]

(* An assignment to a link changes nothing else. *)
LEMMA LinkPut ==
  ASSUME NEW h, Typed(h), NEW b, IsItem(h, b), NEW p \in Int,
         NEW g, g = SetNext(h, b, p) \/ g = SetPrev(h, b, p) \/ g = SetChild(h, b, p)
  PROVE  SameButLinks(h, g)
<1>1. b \in DOMAIN h /\ h[b] \in ItemRecord
  BY ItemsAre DEF IsItem, Typed
<1>2. ASSUME NEW n \in ItemRecord, g = [h EXCEPT ![b] = n],
             n.type = h[b].type, n.string = h[b].string, n.StringIsConst = h[b].StringIsConst,
             n.valuestring = h[b].valuestring, n.valuedouble = h[b].valuedouble,
             n.IsReference = h[b].IsReference
      PROVE  SameButLinks(h, g)
  <2>1. \A x \in DOMAIN h : IsItem(h, x) => h[x] \in ItemRecord
    BY ItemsAre DEF Typed
  <2>2. DOMAIN g = DOMAIN h /\ g[b] = n /\ (\A x \in DOMAIN h : x # b => g[x] = h[x])
        /\ g = [x \in DOMAIN h |-> g[x]]
    BY <1>1, <1>2
  <2> QED BY ONLY <1>2, <2>1, <2>2, IsItem(h, b) DEF SameButLinks
<1>3. CASE g = SetNext(h, b, p)
  <2> DEFINE n == [h[b] EXCEPT !.next = p]
  <2>1. n \in ItemRecord
    BY <1>1 DEF ItemRecord
  <2>2. /\ n.type = h[b].type /\ n.string = h[b].string /\ n.StringIsConst = h[b].StringIsConst
        /\ n.valuestring = h[b].valuestring /\ n.valuedouble = h[b].valuedouble
        /\ n.IsReference = h[b].IsReference
    BY <1>1 DEF ItemRecord
  <2>3. g = [h EXCEPT ![b] = n]
    BY <1>1, <1>3 DEF SetNext
  <2> HIDE DEF n
  <2> QED BY <1>2, <2>1, <2>2, <2>3
<1>4. CASE g = SetPrev(h, b, p)
  <2> DEFINE n == [h[b] EXCEPT !.prev = p]
  <2>1. n \in ItemRecord
    BY <1>1 DEF ItemRecord
  <2>2. /\ n.type = h[b].type /\ n.string = h[b].string /\ n.StringIsConst = h[b].StringIsConst
        /\ n.valuestring = h[b].valuestring /\ n.valuedouble = h[b].valuedouble
        /\ n.IsReference = h[b].IsReference
    BY <1>1 DEF ItemRecord
  <2>3. g = [h EXCEPT ![b] = n]
    BY <1>1, <1>4 DEF SetPrev
  <2> HIDE DEF n
  <2> QED BY <1>2, <2>1, <2>2, <2>3
<1>5. CASE g = SetChild(h, b, p)
  <2> DEFINE n == [h[b] EXCEPT !.child = p]
  <2>1. n \in ItemRecord
    BY <1>1 DEF ItemRecord
  <2>2. /\ n.type = h[b].type /\ n.string = h[b].string /\ n.StringIsConst = h[b].StringIsConst
        /\ n.valuestring = h[b].valuestring /\ n.valuedouble = h[b].valuedouble
        /\ n.IsReference = h[b].IsReference
    BY <1>1 DEF ItemRecord
  <2>3. g = [h EXCEPT ![b] = n]
    BY <1>1, <1>5 DEF SetChild
  <2> HIDE DEF n
  <2> QED BY <1>2, <2>1, <2>2, <2>3
<1> QED BY <1>3, <1>4, <1>5

(* Such memories have the same items. *)
LEMMA LinksApart ==
  ASSUME NEW h, NEW g, Typed(h), SameButLinks(h, g)
  PROVE  /\ Typed(g) /\ DOMAIN g = DOMAIN h /\ \A x : IsItem(g, x) <=> IsItem(h, x)
         /\ \A x : IsItem(g, x) => g[x].next \in Int /\ g[x].prev \in Int /\ g[x].child \in Int
<1>1. DOMAIN g = DOMAIN h
  BY DEF SameButLinks
<1>2. \A x \in DOMAIN h : g[x] \in ItemRecord \cup [chars : Seq(Byte)]
  BY DEF SameButLinks, Typed
<1>3. \A x : IsItem(g, x) <=> IsItem(h, x)
  <2> TAKE x
  <2>1. CASE x \in DOMAIN h /\ IsItem(h, x)
    BY <1>1, <2>1, ItemsAre DEF SameButLinks
  <2>2. CASE x \in DOMAIN h /\ ~IsItem(h, x)
    BY <1>1, <2>2 DEF SameButLinks, IsItem
  <2>3. CASE x \notin DOMAIN h
    BY <1>1, <2>3 DEF IsItem
  <2> QED BY <2>1, <2>2, <2>3
<1>4. Typed(g)
  BY <1>1, <1>2 DEF Typed, SameButLinks
<1>5. \A x : IsItem(g, x) => g[x].next \in Int /\ g[x].prev \in Int /\ g[x].child \in Int
  <2> TAKE x
  <2> HAVE IsItem(g, x)
  <2>1. g[x] \in ItemRecord
    BY <1>1, <1>3 DEF SameButLinks, IsItem
  <2> QED BY <2>1 DEF ItemRecord
<1> QED BY <1>1, <1>3, <1>4, <1>5

(* One such change after another is one. *)
LEMMA LinksThen ==
  ASSUME NEW h, NEW g, NEW k, Typed(h), SameButLinks(h, g), SameButLinks(g, k)
  PROVE  SameButLinks(h, k)
<1>1. DOMAIN g = DOMAIN h /\ \A x : IsItem(g, x) <=> IsItem(h, x)
  BY LinksApart
<1> QED BY <1>1 DEF SameButLinks

(* A program's own memory is of that kind. *)
LEMMA MemoryTyped ==
  ASSUME NEW h, NEW lists, NEW held, NEW loose, MemoryIs(h, lists, held, loose)
  PROVE  Typed(h)
BY DEF MemoryIs, Typed

(* A memory differs from itself in nothing. *)
LEMMA LinksSame ==
  ASSUME NEW h, Typed(h)
  PROVE  SameButLinks(h, h)
<1>1. \A x \in DOMAIN h : IsItem(h, x) => h[x] \in ItemRecord
  BY ItemsAre DEF Typed
<1> QED BY <1>1 DEF SameButLinks, Typed

(* Another assignment to a link, after some. *)
LEMMA LinkPutThen ==
  ASSUME NEW h, Typed(h), NEW k, SameButLinks(h, k), NEW b, IsItem(h, b), NEW p \in Int,
         NEW g, g = SetNext(k, b, p) \/ g = SetPrev(k, b, p) \/ g = SetChild(k, b, p)
  PROVE  SameButLinks(h, g)
<1>1. Typed(k) /\ IsItem(k, b)
  BY LinksApart
<1>2. SameButLinks(k, g)
  BY <1>1, LinkPut
<1> QED BY <1>2, LinksThen

(* What the functions that link items in and out assign to are links. *)
LEMMA AppendOnlyLinks ==
  ASSUME NEW h, Typed(h), NEW c, IsItem(h, c), NEW item \in Int, IsItem(h, item),
         NULL \notin DOMAIN h,
         h[c].child = NULL \/ (IsItem(h, h[c].child) /\ IsItem(h, h[h[c].child].prev))
  PROVE  SameButLinks(h, AppendLinks(h, c, item))
<1> DEFINE f == h[c].child
           last == h[f].prev
<1>1. NULL \in Int /\ SameButLinks(h, h)
  BY LinksSame DEF NULL
<1>2. CASE f = NULL
  <2> DEFINE g1 == SetChild(h, c, item)
             g2 == SetPrev(g1, item, item)
             g3 == SetNext(g2, item, NULL)
  <2>1. SameButLinks(h, g1)
    BY <1>1, LinkPutThen
  <2> HIDE DEF g1
  <2>2. SameButLinks(h, g2)
    BY <2>1, LinkPutThen
  <2> HIDE DEF g2
  <2>3. SameButLinks(h, g3)
    BY <1>1, <2>2, LinkPutThen
  <2>4. g3 = AppendLinks(h, c, item)
    BY <1>2 DEF AppendLinks, g1, g2, g3
  <2> QED BY <2>3, <2>4
<1>3. CASE f # NULL
  <2> DEFINE g1 == SetNext(h, last, item)
             g2 == SetPrev(g1, item, last)
             g3 == SetPrev(g2, f, item)
  <2>0. IsItem(h, f) /\ IsItem(h, last) /\ last # NULL
    BY <1>3 DEF IsItem
  <2>1. last \in Int
    BY <1>1, <2>0, LinksApart
  <2>2. SameButLinks(h, g1)
    BY <1>1, <2>0, LinkPutThen
  <2> HIDE DEF g1
  <2>3. SameButLinks(h, g2)
    BY <2>1, <2>2, LinkPutThen
  <2> HIDE DEF g2
  <2>4. SameButLinks(h, g3)
    BY <2>0, <2>3, LinkPutThen
  <2>5. g3 = AppendLinks(h, c, item)
    BY <1>3, <2>0 DEF AppendLinks, g1, g2, g3
  <2> QED BY <2>4, <2>5
<1> QED BY <1>2, <1>3

(* So do detaching one, *)
LEMMA DetachOnlyLinks ==
  ASSUME NEW h, Typed(h), NEW c, IsItem(h, c), NEW item, IsItem(h, item), NULL \notin DOMAIN h,
         IsItem(h, h[c].child), IsItem(h, h[item].prev),
         h[item].next = NULL \/ IsItem(h, h[item].next)
  PROVE  SameButLinks(h, DetachLinks(h, c, item))
<1> DEFINE prev == h[item].prev
           next == h[item].next
           first == item = h[c].child
           h1 == IF first THEN h ELSE SetNext(h, prev, next)
           h2 == IF next = NULL THEN h1 ELSE SetPrev(h1, next, prev)
           h3 == IF first THEN SetChild(h2, c, next)
                 ELSE IF next = NULL THEN SetPrev(h2, h2[c].child, prev) ELSE h2
           h4 == SetPrev(h3, item, NULL)
           h5 == SetNext(h4, item, NULL)
<1>1. NULL \in Int /\ SameButLinks(h, h) /\ prev \in Int /\ next \in Int /\ c \in DOMAIN h
  BY LinksSame, LinksApart DEF NULL, IsItem
<1>2. SameButLinks(h, h1) /\ h1[c].child = h[c].child
  BY <1>1, LinkPutThen, PutNext
<1>3. IsItem(h1, next) \/ next = NULL
  BY <1>2, LinksApart
<1>4. c \in DOMAIN h1
  BY <1>1, <1>2, LinksApart
<1> HIDE DEF h1
<1>5. SameButLinks(h, h2)
  BY <1>1, <1>2, LinkPutThen
<1>6. h2[c].child = h[c].child
  BY <1>2, <1>3, <1>4, PutPrev
<1> HIDE DEF h2
<1>7. SameButLinks(h, h3)
  <2>1. CASE first
    BY <1>1, <1>5, <2>1, LinkPutThen
  <2>2. CASE ~first /\ next = NULL
    BY <1>1, <1>5, <1>6, <2>2, LinkPutThen
  <2>3. CASE ~first /\ next # NULL
    BY <1>5, <2>3
  <2> QED BY <2>1, <2>2, <2>3
<1> HIDE DEF h3
<1>8. SameButLinks(h, h4)
  BY <1>1, <1>7, LinkPutThen
<1> HIDE DEF h4
<1>9. SameButLinks(h, h5)
  BY <1>1, <1>8, LinkPutThen
<1>10. h5 = DetachLinks(h, c, item)
  BY Zenon DEF DetachLinks, h1, h2, h3, h4, h5, first, prev, next
<1> QED BY <1>9, <1>10

(* putting one before another, *)
LEMMA InsertOnlyLinks ==
  ASSUME NEW h, Typed(h), NEW c, IsItem(h, c), NEW after \in Int, IsItem(h, after),
         NEW item \in Int, IsItem(h, item), IsItem(h, h[after].prev)
  PROVE  SameButLinks(h, InsertLinks(h, c, after, item))
<1> DEFINE prev == h[after].prev
           h1 == SetNext(h, item, after)
           h2 == SetPrev(h1, item, prev)
           h3 == SetPrev(h2, after, item)
           h4 == IF after = h[c].child THEN SetChild(h3, c, item) ELSE SetNext(h3, prev, item)
<1>1. SameButLinks(h, h) /\ prev \in Int
  BY LinksSame, LinksApart
<1>2. SameButLinks(h, h1)
  BY <1>1, LinkPutThen
<1> HIDE DEF h1
<1>3. SameButLinks(h, h2)
  BY <1>1, <1>2, LinkPutThen
<1> HIDE DEF h2
<1>4. SameButLinks(h, h3)
  BY <1>3, LinkPutThen
<1> HIDE DEF h3
<1>5. SameButLinks(h, h4)
  BY <1>1, <1>4, LinkPutThen
<1>6. h4 = InsertLinks(h, c, after, item)
  BY Zenon DEF InsertLinks, h1, h2, h3, h4, prev
<1> QED BY <1>5, <1>6

(* and putting one in the place of another. *)
LEMMA ReplaceOnlyLinks ==
  ASSUME NEW h, Typed(h), NEW c, IsItem(h, c), NEW item, IsItem(h, item),
         NEW r \in Int, IsItem(h, r), NULL \notin DOMAIN h,
         IsItem(h, h[c].child), IsItem(h, h[item].prev),
         h[item].next = NULL \/ IsItem(h, h[item].next)
  PROVE  SameButLinks(h, ReplaceLinks(h, c, item, r))
<1> DEFINE n == h[item]
           first == h[c].child = item
           prev == IF first /\ n.prev = item THEN r ELSE n.prev
           g1 == SetNext(h, r, n.next)
           h1 == SetPrev(g1, r, prev)
           h2 == IF n.next = NULL THEN h1 ELSE SetPrev(h1, n.next, r)
           h3 == IF first THEN SetChild(h2, c, r)
                 ELSE IF prev = NULL THEN h2 ELSE SetNext(h2, prev, r)
           h4 == IF first \/ n.next # NULL THEN h3 ELSE SetPrev(h3, h3[c].child, r)
           h5 == SetNext(h4, item, NULL)
           h6 == SetPrev(h5, item, NULL)
<1>1. /\ NULL \in Int /\ SameButLinks(h, h) /\ n.prev \in Int /\ n.next \in Int
      /\ prev \in Int /\ IsItem(h, prev) /\ c \in DOMAIN h
  BY LinksSame, LinksApart DEF NULL, IsItem
<1>2. SameButLinks(h, g1) /\ g1[c].child = h[c].child
  BY <1>1, LinkPutThen, PutNext
<1>3. IsItem(g1, r) /\ c \in DOMAIN g1
  BY <1>1, <1>2, LinksApart
<1> HIDE DEF g1
<1>4. SameButLinks(h, h1) /\ h1[c].child = h[c].child
  BY <1>1, <1>2, <1>3, LinkPutThen, PutPrev
<1>5. (IsItem(h1, n.next) \/ n.next = NULL) /\ c \in DOMAIN h1
  BY <1>1, <1>4, LinksApart
<1> HIDE DEF h1
<1>6. SameButLinks(h, h2)
  BY <1>1, <1>4, LinkPutThen
<1>7. h2[c].child = h[c].child
  BY <1>4, <1>5, PutPrev
<1>8. IsItem(h2, prev) /\ c \in DOMAIN h2
  BY <1>1, <1>6, LinksApart
<1> HIDE DEF h2
<1>9. SameButLinks(h, h3)
  BY <1>1, <1>6, LinkPutThen
<1>10. first \/ h3[c].child = h[c].child
  BY <1>7, <1>8, PutNext
<1> HIDE DEF h3
<1>11. SameButLinks(h, h4)
  BY <1>9, <1>10, LinkPutThen
<1> HIDE DEF h4
<1>12. SameButLinks(h, h5)
  BY <1>1, <1>11, LinkPutThen
<1> HIDE DEF h5
<1>13. SameButLinks(h, h6)
  BY <1>1, <1>12, LinkPutThen
<1>14. h6 = ReplaceLinks(h, c, item, r)
  BY Zenon DEF ReplaceLinks, g1, h1, h2, h3, h4, h5, h6, first, prev, n
<1> QED BY <1>13, <1>14

(* What the first of a list and an item of it lead to are items. *)
LEMMA Neighbours ==
  ASSUME NEW h, NEW lists, NEW held, NEW loose, MemoryIs(h, lists, held, loose),
         NEW c \in DOMAIN lists, NEW k \in DOMAIN lists[c]
  PROVE  /\ Typed(h) /\ NULL \notin DOMAIN h /\ IsItem(h, c) /\ IsItem(h, lists[c][k]) /\ lists[c][k] \in Int
         /\ IsItem(h, h[c].child) /\ IsItem(h, h[lists[c][k]].prev)
         /\ h[lists[c][k]].next = NULL \/ IsItem(h, h[lists[c][k]].next)
<1>1. Typed(h)
  BY MemoryTyped
<1>2. /\ c \in ItemsOf(h) /\ lists[c][k] \in ItemsOf(h)
      /\ Len(lists[c]) \in Nat /\ k \in 1 .. Len(lists[c]) /\ DOMAIN lists[c] = 1 .. Len(lists[c])
      /\ 1 \in DOMAIN lists[c] /\ h[c].child = lists[c][1]
      /\ h[lists[c][k]].next = IF k = Len(lists[c]) THEN NULL ELSE lists[c][k + 1]
      /\ h[lists[c][k]].prev = lists[c][IF k = 1 THEN Len(lists[c]) ELSE k - 1]
  BY Placed
<1>3. \A j \in DOMAIN lists[c] : lists[c][j] \in ItemsOf(h)
  BY Placed
<1>4. (IF k = 1 THEN Len(lists[c]) ELSE k - 1) \in DOMAIN lists[c]
  BY <1>2
<1>5. k = Len(lists[c]) \/ k + 1 \in DOMAIN lists[c]
  BY <1>2
<1>6. NULL \notin DOMAIN h /\ lists[c][k] \in Int
  BY <1>2, BlocksAssumption DEF MemoryIs, ItemsOf
<1> QED BY <1>1, <1>2, <1>3, <1>4, <1>5, <1>6 DEF ItemsOf

(* One list got longer by an item. *)
Lengthened(lists, longer, c, item) ==
  /\ DOMAIN longer = DOMAIN lists /\ longer[c] = Append(lists[c], item)
  /\ \A d \in DOMAIN lists : d # c => longer[d] = lists[d]

(* add_item_to_array puts an item that is held at the end of a list, and   *)
(* the rest of memory is as it was.                                        *)
LEMMA AppendIs ==
  ASSUME NEW h, NEW lists, NEW held, NEW loose, MemoryIs(h, lists, held, loose),
         NEW c \in DOMAIN lists, NEW item \in held,
         NEW g, g = AppendLinks(h, c, item)
  PROVE  /\ \E longer : MemoryIs(g, longer, held \ {item}, loose) /\ Lengthened(lists, longer, c, item)
         /\ ItemsOf(g) = ItemsOf(h) /\ SameButLinks(h, g)
<1> DEFINE moved == [lists EXCEPT ![c] = Append(@, item)]
           s == lists[c]
<1>1. ListsAre(h, lists, held)
  BY DEF MemoryIs
<1>2. /\ s \in Seq(ItemsOf(h)) /\ Len(s) \in Nat /\ DOMAIN s = 1 .. Len(s) /\ IsListOf(h, c, s)
      /\ IsItem(h, c) /\ IsItem(h, item) /\ NULL \notin DOMAIN h
  BY <1>1, OneList
<1>3. h[c].child = NULL \/ (IsItem(h, h[c].child) /\ IsItem(h, h[h[c].child].prev))
  <2>1. CASE Len(s) = 0
    BY <1>2, <2>1 DEF IsListOf
  <2>2. CASE Len(s) # 0
    <3>1. 1 \in DOMAIN s
      BY <1>2, <2>2
    <3>2. h[c].child = s[1] /\ IsItem(h, s[1]) /\ IsItem(h, h[s[1]].prev)
      BY <3>1, Placed, Neighbours
    <3> QED BY <3>2
  <2> QED BY <2>1, <2>2
<1>4. item \in Int /\ Typed(h)
  BY <1>2, BlocksAssumption, MemoryTyped DEF MemoryIs, IsItem
<1>5. SameButLinks(h, g)
  BY <1>2, <1>3, <1>4, AppendOnlyLinks
<1>6. ListsAre(g, moved, held \ {item})
  BY <1>1, AppendIsRight
<1>7. /\ DOMAIN Append(s, item) = 1 .. Len(s) + 1 /\ Append(s, item)[Len(s) + 1] = item
      /\ \A k \in DOMAIN s : k \in DOMAIN Append(s, item) /\ Append(s, item)[k] = s[k]
  <2>1. item \in ItemsOf(h)
    BY <1>2 DEF ItemsOf, IsItem
  <2>2. /\ Append(s, item) \in Seq(ItemsOf(h)) /\ Len(Append(s, item)) = Len(s) + 1
        /\ \A k \in 1 .. Len(s) : Append(s, item)[k] = s[k]
        /\ Append(s, item)[Len(s) + 1] = item
    BY <1>2, <2>1, AppendProperties
  <2>3. DOMAIN Append(s, item) = 1 .. Len(s) + 1
    BY <2>2, LenProperties
  <2> QED BY <1>2, <2>2, <2>3
<1>8. DOMAIN moved = DOMAIN lists /\ moved[c] = Append(s, item) /\ \A d \in DOMAIN lists : d # c => moved[d] = lists[d]
  OBVIOUS
<1> HIDE DEF moved
<1>9. ASSUME NEW b \in ItemsOf(h)
      PROVE  b \in held \ {item} \/ \E d \in DOMAIN moved : \E k \in DOMAIN moved[d] : moved[d][k] = b
  <2>1. b \in held \/ \E d \in DOMAIN lists : \E k \in DOMAIN lists[d] : lists[d][k] = b
    BY DEF MemoryIs
  <2>2. CASE b = item
    <3>1. Len(s) + 1 \in DOMAIN moved[c] /\ moved[c][Len(s) + 1] = item /\ c \in DOMAIN moved
      BY <1>2, <1>7, <1>8
    <3> QED BY <2>2, <3>1
  <2>3. CASE b \notin held
    <3>1. PICK d \in DOMAIN lists : \E k \in DOMAIN lists[d] : lists[d][k] = b
      BY <2>1, <2>3
    <3>2. PICK k \in DOMAIN lists[d] : lists[d][k] = b
      BY <3>1
    <3>3. d \in DOMAIN moved /\ k \in DOMAIN moved[d] /\ moved[d][k] = b
      BY <1>7, <1>8, <3>2
    <3> QED BY <3>3
  <2> QED BY <2>2, <2>3
<1>10. MemoryIs(g, moved, held \ {item}, loose) /\ ItemsOf(g) = ItemsOf(h)
  BY <1>5, <1>6, <1>8, <1>9, LinksMoved
<1> QED BY <1>5, <1>8, <1>10 DEF Lengthened

(* cJSON_DetachItemViaPointer takes an item out of its list. *)
LEMMA DetachIs ==
  ASSUME NEW h, NEW lists, NEW held, NEW loose, MemoryIs(h, lists, held, loose),
         NEW c \in DOMAIN lists, NEW k \in DOMAIN lists[c],
         NEW g, g = DetachLinks(h, c, lists[c][k])
  PROVE  /\ MemoryIs(g, [lists EXCEPT ![c] = RemoveAt(@, k)], held \cup {lists[c][k]}, loose)
         /\ ItemsOf(g) = ItemsOf(h) /\ SameButLinks(h, g)
<1> DEFINE moved == [lists EXCEPT ![c] = RemoveAt(@, k)]
           s == lists[c]
           item == s[k]
           t == RemoveAt(s, k)
<1>1. ListsAre(h, lists, held)
  BY DEF MemoryIs
<1>2. s \in Seq(ItemsOf(h)) /\ Len(s) \in Nat /\ DOMAIN s = 1 .. Len(s)
  BY <1>1, OneList
<1>3. SameButLinks(h, g)
  <2>1. /\ Typed(h) /\ NULL \notin DOMAIN h /\ IsItem(h, c) /\ IsItem(h, item)
        /\ IsItem(h, h[c].child) /\ IsItem(h, h[item].prev)
        /\ h[item].next = NULL \/ IsItem(h, h[item].next)
    BY Neighbours
  <2> QED BY <2>1, DetachOnlyLinks
<1>4. ListsAre(g, moved, held \cup {item})
  BY <1>1, DetachIsRight
<1>5. DOMAIN t = 1 .. Len(s) - 1 /\ \A j \in 1 .. Len(s) - 1 : t[j] = IF j < k THEN s[j] ELSE s[j + 1]
  BY <1>2, Removed
<1>6. DOMAIN moved = DOMAIN lists /\ moved[c] = t /\ \A d \in DOMAIN lists : d # c => moved[d] = lists[d]
  OBVIOUS
<1> HIDE DEF moved, t
<1>7. ASSUME NEW b \in ItemsOf(h)
      PROVE  b \in held \cup {item} \/ \E d \in DOMAIN moved : \E j \in DOMAIN moved[d] : moved[d][j] = b
  <2>1. b \in held \/ \E d \in DOMAIN lists : \E j \in DOMAIN lists[d] : lists[d][j] = b
    BY DEF MemoryIs
  <2>2. CASE b \notin held /\ b # item
    <3>1. PICK d \in DOMAIN lists : \E j \in DOMAIN lists[d] : lists[d][j] = b
      BY <2>1, <2>2
    <3>2. PICK j \in DOMAIN lists[d] : lists[d][j] = b
      BY <3>1
    <3>3. CASE d # c
      <4>1. d \in DOMAIN moved /\ j \in DOMAIN moved[d] /\ moved[d][j] = b
        BY <1>6, <3>2, <3>3
      <4> QED BY <4>1
    <3>4. CASE d = c
      <4>1. j \in 1 .. Len(s) /\ k \in 1 .. Len(s) /\ j # k /\ s[j] = b
        BY <1>2, <2>2, <3>2, <3>4
      <4>2. PICK l \in 1 .. Len(s) - 1 : j = IF l < k THEN l ELSE l + 1
        <5>1. CASE j < k
          BY <1>2, <4>1, <5>1
        <5>2. CASE j > k
          <6>1. j - 1 \in 1 .. Len(s) - 1 /\ ~(j - 1 < k) /\ j - 1 + 1 = j
            BY <1>2, <4>1, <5>2
          <6> QED BY <6>1
        <5> QED BY <1>2, <4>1, <5>1, <5>2
      <4>3. l \in DOMAIN moved[c] /\ moved[c][l] = b /\ c \in DOMAIN moved
        BY <1>5, <1>6, <4>1, <4>2
      <4> QED BY <4>3
    <3> QED BY <3>3, <3>4
  <2> QED BY <2>2
<1>8. MemoryIs(g, moved, held \cup {item}, loose) /\ ItemsOf(g) = ItemsOf(h)
  BY <1>3, <1>4, <1>6, <1>7, LinksMoved
<1> QED BY <1>3, <1>8 DEF moved

(* cJSON_InsertItemInArray puts an item in front of another. *)
LEMMA InsertIs ==
  ASSUME NEW h, NEW lists, NEW held, NEW loose, MemoryIs(h, lists, held, loose),
         NEW c \in DOMAIN lists, NEW k \in DOMAIN lists[c], NEW item \in held,
         NEW g, g = InsertLinks(h, c, lists[c][k], item)
  PROVE  /\ MemoryIs(g, [lists EXCEPT ![c] = InsertAt(@, k, item)], held \ {item}, loose)
         /\ ItemsOf(g) = ItemsOf(h) /\ SameButLinks(h, g)
<1> DEFINE moved == [lists EXCEPT ![c] = InsertAt(@, k, item)]
           s == lists[c]
           t == InsertAt(s, k, item)
<1>1. ListsAre(h, lists, held)
  BY DEF MemoryIs
<1>2. /\ s \in Seq(ItemsOf(h)) /\ Len(s) \in Nat /\ DOMAIN s = 1 .. Len(s) /\ IsItem(h, item)
  BY <1>1, OneList
<1>3. item \in Int /\ item \in ItemsOf(h)
  BY <1>2, BlocksAssumption DEF MemoryIs, IsItem, ItemsOf
<1>4. SameButLinks(h, g)
  <2>1. /\ Typed(h) /\ IsItem(h, c) /\ IsItem(h, s[k]) /\ s[k] \in Int
        /\ IsItem(h, h[s[k]].prev)
    BY Neighbours
  <2> QED BY <1>2, <1>3, <2>1, InsertOnlyLinks
<1>5. ListsAre(g, moved, held \ {item})
  BY <1>1, InsertIsRight
<1>6. /\ DOMAIN t = 1 .. Len(s) + 1
      /\ \A j \in 1 .. Len(s) + 1 : t[j] = IF j < k THEN s[j] ELSE IF j = k THEN item ELSE s[j - 1]
  <2>1. k \in 1 .. Len(s)
    BY <1>2
  <2>2. s \in Seq(ItemsOf(h)) /\ item \in ItemsOf(h) /\ t = InsertAt(s, k, item)
    BY <1>2, <1>3
  <2> HIDE DEF moved, t, s
  <2>3. /\ t \in Seq(ItemsOf(h)) /\ Len(t) = Len(s) + 1 /\ DOMAIN t = 1 .. Len(s) + 1
        /\ \A j \in 1 .. Len(s) + 1 :
             t[j] = IF j < k THEN s[j] ELSE IF j = k THEN item ELSE s[j - 1]
    BY <2>1, <2>2, Inserted, Z3T(40)
  <2> QED BY <2>3
<1>7. DOMAIN moved = DOMAIN lists /\ moved[c] = t /\ \A d \in DOMAIN lists : d # c => moved[d] = lists[d]
  OBVIOUS
<1> HIDE DEF moved, t
<1>8. ASSUME NEW b \in ItemsOf(h)
      PROVE  b \in held \ {item} \/ \E d \in DOMAIN moved : \E j \in DOMAIN moved[d] : moved[d][j] = b
  <2>1. b \in held \/ \E d \in DOMAIN lists : \E j \in DOMAIN lists[d] : lists[d][j] = b
    BY DEF MemoryIs
  <2>2. CASE b = item
    <3>1. k \in DOMAIN moved[c] /\ moved[c][k] = item /\ c \in DOMAIN moved
      BY <1>2, <1>6, <1>7
    <3> QED BY <2>2, <3>1
  <2>3. CASE b \notin held
    <3>1. PICK d \in DOMAIN lists : \E j \in DOMAIN lists[d] : lists[d][j] = b
      BY <2>1, <2>3
    <3>2. PICK j \in DOMAIN lists[d] : lists[d][j] = b
      BY <3>1
    <3>3. CASE d # c
      <4>1. d \in DOMAIN moved /\ j \in DOMAIN moved[d] /\ moved[d][j] = b
        BY <1>7, <3>2, <3>3
      <4> QED BY <4>1
    <3>4. CASE d = c
      <4>1. j \in 1 .. Len(s) /\ k \in 1 .. Len(s) /\ s[j] = b
        BY <1>2, <3>2, <3>4
      <4>2. PICK l \in 1 .. Len(s) + 1 : (l < k /\ j = l) \/ (l > k /\ j = l - 1)
        <5>1. CASE j < k
          BY <1>2, <4>1, <5>1
        <5>2. CASE j >= k
          <6>1. j + 1 \in 1 .. Len(s) + 1 /\ j + 1 > k /\ j = j + 1 - 1
            BY <1>2, <4>1, <5>2
          <6> QED BY ONLY <6>1
        <5> QED BY <1>2, <4>1, <5>1, <5>2
      <4>3. l \in DOMAIN moved[c] /\ moved[c][l] = b /\ c \in DOMAIN moved
        BY <1>6, <1>7, <4>1, <4>2
      <4> QED BY <4>3
    <3> QED BY <3>3, <3>4
  <2> QED BY <2>2, <2>3
<1>9. MemoryIs(g, moved, held \ {item}, loose) /\ ItemsOf(g) = ItemsOf(h)
  BY <1>4, <1>5, <1>7, <1>8, LinksMoved
<1> QED BY <1>4, <1>9 DEF moved

(* cJSON_ReplaceItemViaPointer puts an item in the place of another, which *)
(* is held then.                                                           *)
LEMMA ReplaceIs ==
  ASSUME NEW h, NEW lists, NEW held, NEW loose, MemoryIs(h, lists, held, loose),
         NEW c \in DOMAIN lists, NEW k \in DOMAIN lists[c], NEW r \in held,
         NEW g, g = ReplaceLinks(h, c, lists[c][k], r)
  PROVE  /\ MemoryIs(g, [lists EXCEPT ![c] = ReplaceAt(@, k, r)], (held \ {r}) \cup {lists[c][k]}, loose)
         /\ ItemsOf(g) = ItemsOf(h) /\ SameButLinks(h, g)
<1> DEFINE moved == [lists EXCEPT ![c] = ReplaceAt(@, k, r)]
           s == lists[c]
           item == s[k]
           t == ReplaceAt(s, k, r)
           stay == (held \ {r}) \cup {item}
<1>1. ListsAre(h, lists, held)
  BY DEF MemoryIs
<1>2. /\ s \in Seq(ItemsOf(h)) /\ Len(s) \in Nat /\ DOMAIN s = 1 .. Len(s) /\ IsItem(h, r)
  BY <1>1, OneList
<1>3. r \in Int
  BY <1>2, BlocksAssumption DEF MemoryIs, IsItem
<1>4. SameButLinks(h, g)
  <2>1. /\ Typed(h) /\ NULL \notin DOMAIN h /\ IsItem(h, c) /\ IsItem(h, item)
        /\ IsItem(h, h[c].child) /\ IsItem(h, h[item].prev)
        /\ h[item].next = NULL \/ IsItem(h, h[item].next)
    BY Neighbours
  <2> QED BY <1>2, <1>3, <2>1, ReplaceOnlyLinks
<1>5. ListsAre(g, moved, stay)
  BY <1>1, ReplaceIsRight
<1>6. DOMAIN t = 1 .. Len(s) /\ \A j \in 1 .. Len(s) : t[j] = IF j = k THEN r ELSE s[j]
  BY <1>2 DEF ReplaceAt
<1>7. DOMAIN moved = DOMAIN lists /\ moved[c] = t /\ \A d \in DOMAIN lists : d # c => moved[d] = lists[d]
  OBVIOUS
<1> HIDE DEF moved, t
<1>8. ASSUME NEW b \in ItemsOf(h)
      PROVE  b \in stay \/ \E d \in DOMAIN moved : \E j \in DOMAIN moved[d] : moved[d][j] = b
  <2>1. b \in held \/ \E d \in DOMAIN lists : \E j \in DOMAIN lists[d] : lists[d][j] = b
    BY DEF MemoryIs
  <2>2. CASE b = r
    <3>1. k \in DOMAIN moved[c] /\ moved[c][k] = r /\ c \in DOMAIN moved
      BY <1>2, <1>6, <1>7
    <3> QED BY <2>2, <3>1
  <2>3. CASE b \notin held /\ b # item
    <3>1. PICK d \in DOMAIN lists : \E j \in DOMAIN lists[d] : lists[d][j] = b
      BY <2>1, <2>3
    <3>2. PICK j \in DOMAIN lists[d] : lists[d][j] = b
      BY <3>1
    <3>3. d \in DOMAIN moved /\ j \in DOMAIN moved[d] /\ moved[d][j] = b
      BY <1>2, <1>6, <1>7, <2>3, <3>2
    <3> QED BY <3>3
  <2> QED BY <2>2, <2>3
<1>9. MemoryIs(g, moved, stay, loose) /\ ItemsOf(g) = ItemsOf(h)
  BY <1>4, <1>5, <1>7, <1>8, LinksMoved
<1> QED BY <1>4, <1>9 DEF moved

-----------------------------------------------------------------------------
(* Looking up children. *)

(* What a walk from the j-th entry of s on has found.                      *)
Rest(h, s, j, t) ==
  /\ t \in Seq(ItemsOf(h)) /\ Len(t) = Len(s) - j + 1
  /\ \A l \in 1 .. Len(s) - j + 1 : t[l] = s[j + l - 1]

(* One step of it. *)
LEMMA RestStep ==
  ASSUME NEW h, NULL \notin DOMAIN h, NEW s \in Seq(ItemsOf(h)), NEW j \in 1 .. Len(s),
         s[j] \in Int,
         h[s[j]].next = IF j = Len(s) THEN NULL ELSE s[j + 1],
         NEW k \in Nat \ {0}, NEW prev, prev[NULL] = <<>>,
         j = Len(s) \/ Rest(h, s, j + 1, prev[s[j + 1]])
  PROVE  Rest(h, s, j, ListLevel(h, k, prev)[s[j]])
<1> DEFINE p == s[j]
           rest == prev[h[p].next]
           t == <<p>> \o rest
           n == Len(s)
<1>1. p \in ItemsOf(h) /\ n \in Nat
  BY ElementOfSeq, LenProperties
<1>2. ListLevel(h, k, prev)[p] = t
  BY <1>1 DEF ListLevel, ItemsOf
<1> HIDE DEF n
<1>3. rest \in Seq(ItemsOf(h)) /\ Len(rest) = n - j /\ \A l \in 1 .. n - j : rest[l] = s[j + l]
  <2>1. CASE j = n
    <3>1. rest = <<>>
      BY <2>1 DEF n
    <3>2. rest \in Seq(ItemsOf(h)) /\ Len(rest) = 0
      BY <3>1, EmptySeq
    <3> HIDE DEF rest
    <3>3. n - j = 0 /\ \A l \in 1 .. 0 : FALSE
      BY <1>1, <2>1
    <3> QED BY <3>2, <3>3
  <2>2. CASE j # n
    <3>1. rest = prev[s[j + 1]] /\ Rest(h, s, j + 1, rest)
      BY <2>2 DEF n
    <3>2. /\ rest \in Seq(ItemsOf(h)) /\ Len(rest) = n - (j + 1) + 1
          /\ \A l \in 1 .. n - (j + 1) + 1 : rest[l] = s[j + 1 + l - 1]
      BY <3>1 DEF Rest, n
    <3>3. n - (j + 1) + 1 = n - j /\ \A l \in Int : j + 1 + l - 1 = j + l
      BY <1>1
    <3> QED BY <3>2, <3>3
  <2> QED BY <2>1, <2>2
<1> HIDE DEF rest, p
<1>4. <<p>> \in Seq(ItemsOf(h)) /\ Len(<<p>>) = 1 /\ <<p>>[1] = p
  BY <1>1
<1>5. /\ t \in Seq(ItemsOf(h)) /\ Len(t) = 1 + (n - j)
      /\ \A l \in 1 .. 1 + (n - j) : t[l] = IF l <= 1 THEN <<p>>[l] ELSE rest[l - 1]
  <2> DEFINE u == <<p>>
  <2> HIDE DEF u
  <2>1. /\ u \o rest \in Seq(ItemsOf(h)) /\ Len(u \o rest) = Len(u) + Len(rest)
        /\ \A l \in 1 .. Len(u) + Len(rest) :
             (u \o rest)[l] = IF l <= Len(u) THEN u[l] ELSE rest[l - Len(u)]
    BY <1>3, <1>4, ConcatProperties DEF u
  <2> QED BY <1>3, <1>4, <2>1 DEF u
<1> HIDE DEF t
<1>6. 1 + (n - j) = n - j + 1 /\ j \in 1 .. n
  BY <1>1 DEF n
<1>7. \A l \in 1 .. n - j + 1 : t[l] = s[j + l - 1]
  <2> TAKE l \in 1 .. n - j + 1
  <2>1. CASE l = 1
    BY <1>1, <1>4, <1>5, <1>6, <2>1 DEF p
  <2>2. CASE l # 1
    <3>1. l - 1 \in 1 .. n - j /\ ~(l <= 1) /\ j + (l - 1) = j + l - 1
      BY <1>1, <2>2
    <3>2. t[l] = rest[l - 1]
      BY <1>5, <1>6, <3>1
    <3> QED BY <1>3, <3>1, <3>2
  <2> QED BY <2>1, <2>2
<1>8. Rest(h, s, j, t)
  BY <1>5, <1>6, <1>7 DEF Rest, n
<1> QED BY <1>2, <1>8 DEF p

(* The children that cJSON_GetArraySize and the others find by walking     *)
(* along next are the list.                                                *)
LEMMA ChildrenAre ==
  ASSUME NEW h, NEW lists, NEW held, NEW loose, MemoryIs(h, lists, held, loose), NEW c \in DOMAIN lists
  PROVE  Children(h, c) = lists[c]
<1> DEFINE s == lists[c]
           n == Len(s)
           N == Cardinality(DOMAIN h)
<1>1. ListsAre(h, lists, held) /\ DOMAIN h \subseteq Blocks
  BY DEF MemoryIs
<1>2. /\ NULL \notin DOMAIN h /\ s \in Seq(ItemsOf(h)) /\ n \in Nat /\ DOMAIN s = 1 .. n
      /\ IsListOf(h, c, s)
      /\ \A k \in 1 .. n : s[k] \in DOMAIN h
      /\ \A k, l \in 1 .. n : s[k] = s[l] => k = l
  BY <1>1, OneList
<1>3. IsFiniteSet(DOMAIN h) /\ N \in Nat
  BY <1>1, BlocksAssumption, FS_Subset, FS_CardinalityType
<1>4. n <= N
  <2>1. s = [k \in 1 .. n |-> s[k]]
    BY <1>2
  <2> HIDE DEF s, n, N
  <2>2. s \in Injection(1 .. n, DOMAIN h)
    <3>1. s \in [1 .. n -> DOMAIN h]
      BY <1>2, <2>1
    <3>2. IsInjective(s)
      BY <1>2 DEF IsInjective
    <3> QED BY <3>1, <3>2 DEF Injection
  <2>3. Cardinality(1 .. n) <= Cardinality(DOMAIN h)
    BY <1>3, <2>2, FS_Injection
  <2>4. Cardinality(1 .. n) = IF 1 > n THEN 0 ELSE n - 1 + 1
    BY <1>2, FS_Interval
  <2> QED BY <1>2, <1>3, <2>3, <2>4 DEF N
<1>5. PICK f : /\ \A k \in 0 .. N : f[k] = ListLevel(h, k, f[k - 1])
               /\ \A b : ListFrom(h, b, N) = f[N][b]
  BY <1>3, ListIs
<1>6. Children(h, c) = f[N][h[c].child]
  BY <1>5 DEF Children
<1>7. \A k \in 0 .. N : f[k][NULL] = <<>>
  <2>1. ~IsItem(h, NULL) /\ NULL \in Int
    BY <1>2 DEF IsItem, NULL
  <2> HIDE DEF N, NULL
  <2> TAKE k \in 0 .. N
  <2>2. f[k] = ListLevel(h, k, f[k - 1])
    BY <1>5
  <2> QED BY <2>1, <2>2 DEF ListLevel
<1> HIDE DEF N
<1>8. \A j \in 1 .. n : /\ s[j] \in Int
                        /\ h[s[j]].next = IF j = n THEN NULL ELSE s[j + 1]
  <2> TAKE j \in 1 .. n
  <2>0. DOMAIN h \subseteq Int
    <3>1. \A x \in Blocks : x \in Int
      BY BlocksAssumption
    <3> QED BY ONLY <1>1, <3>1
  <2>1. s[j] \in Int
    BY ONLY <1>2, <2>0
  <2> QED BY <1>2, <2>1 DEF IsListOf
<1> DEFINE T == {k \in 0 .. N : \A j \in 1 .. n : n - j < k => Rest(h, s, j, f[k][s[j]])}
<1>9. 0 \in T
  BY <1>2, <1>3
<1>10. ASSUME NEW k \in 0 .. N - 1, k \in T PROVE k + 1 \in T
  <2>1. k + 1 \in 0 .. N /\ k + 1 - 1 = k /\ k + 1 \in Nat \ {0} /\ k \in 0 .. N /\ k \in Nat
    BY <1>3
  <2>2. f[k + 1] = ListLevel(h, k + 1, f[k])
    BY <1>5, <2>1
  <2> SUFFICES ASSUME NEW j \in 1 .. n, n - j < k + 1 PROVE Rest(h, s, j, f[k + 1][s[j]])
    BY <2>1
  <2>3. f[k][NULL] = <<>>
    BY <1>7, <2>1
  <2>4. j = n \/ Rest(h, s, j + 1, f[k][s[j + 1]])
    <3>1. CASE j # n
      <4>1. \A m, i, l \in Int : i \in 1 .. m /\ i # m /\ m - i < l + 1 =>
                 i + 1 \in 1 .. m /\ m - (i + 1) < l
        OBVIOUS
      <4>2. n \in Int /\ j \in Int /\ k \in Int
        BY ONLY <1>2, <2>1, j \in 1 .. n
      <4> HIDE DEF n, T
      <4>3. j + 1 \in 1 .. n /\ n - (j + 1) < k
        BY <3>1, <4>1, <4>2
      <4> USE DEF T
      <4> QED BY <1>10, <4>3
    <3> QED BY <3>1
  <2>5. Rest(h, s, j, ListLevel(h, k + 1, f[k])[s[j]])
    <3> DEFINE prev == f[k]
    <3> HIDE DEF prev, s, T
    <3>1. prev[NULL] = <<>> /\ (j = Len(s) \/ Rest(h, s, j + 1, prev[s[j + 1]]))
      BY <2>3, <2>4 DEF prev
    <3>2. s[j] \in Int /\ h[s[j]].next = IF j = Len(s) THEN NULL ELSE s[j + 1]
      BY <1>8
    <3>3. Rest(h, s, j, ListLevel(h, k + 1, prev)[s[j]])
      BY <1>2, <2>1, <3>1, <3>2, RestStep
    <3> QED BY <3>3 DEF prev
  <2> QED BY <2>2, <2>5
<1>11. N \in T
  <2> HIDE DEF T
  <2>1. \A k \in 0 .. N : k \in T
    BY <1>3, <1>9, <1>10, UpTo
  <2> QED BY <1>3, <2>1
<1>12. CASE n = 0
  <2>1. h[c].child = NULL /\ s = <<>>
    BY <1>2, <1>12, EmptySeq DEF IsListOf
  <2>2. N \in 0 .. N
    BY <1>3
  <2> QED BY <1>6, <1>7, <2>1, <2>2
<1>13. CASE n # 0
  <2>1. 1 \in 1 .. n /\ n - 1 < N /\ n - 1 + 1 = n
    BY <1>2, <1>3, <1>4, <1>13
  <2>2. h[c].child = s[1]
    BY <1>2, <1>13 DEF IsListOf
  <2>3. Rest(h, s, 1, f[N][s[1]])
    BY <1>11, <2>1
  <2> DEFINE t == f[N][s[1]]
  <2> HIDE DEF t, s
  <2>4. t \in Seq(ItemsOf(h)) /\ Len(t) = n /\ \A l \in 1 .. n : t[l] = s[1 + l - 1]
    BY <2>1, <2>3 DEF t, Rest
  <2>5. \A l \in 1 .. n : t[l] = s[l]
    BY <2>4
  <2>6. t = s
    BY <1>2, <2>4, <2>5, SeqEqual
  <2> QED BY <1>6, <2>2, <2>6 DEF t, s
<1> QED BY <1>12, <1>13

(* What get_array_item and get_object_item return is NULL or a child. *)
LEMMA ItemAtIs ==
  ASSUME NEW h, NEW lists, NEW held, NEW loose, MemoryIs(h, lists, held, loose),
         NEW m, m.heap = h, NEW c \in DOMAIN lists, NEW index \in Nat,
         NEW item, item = get_array_item(m, c, index)
  PROVE  item = NULL \/ \E k \in DOMAIN lists[c] : item = lists[c][k]
<1>1. Children(m.heap, c) = lists[c] /\ DOMAIN lists[c] = 1 .. Len(lists[c]) /\ Len(lists[c]) \in Nat
  BY ChildrenAre, OneList DEF MemoryIs
<1>2. CASE index < Len(lists[c])
  <2>1. index + 1 \in DOMAIN lists[c]
    BY <1>1, <1>2
  <2> QED BY <1>1, <1>2, <2>1 DEF get_array_item
<1>3. CASE ~(index < Len(lists[c]))
  BY <1>1, <1>3 DEF get_array_item
<1> QED BY <1>2, <1>3

(* So is what get_object_item returns. *)
LEMMA ObjectItemIs ==
  ASSUME NEW h, NEW lists, NEW held, NEW loose, MemoryIs(h, lists, held, loose),
         NEW m, m.heap = h, NEW c \in DOMAIN lists, NEW name, NEW case_sensitive,
         NEW item, item = get_object_item(m, c, name, case_sensitive)
  PROVE  item = NULL \/ \E k \in DOMAIN lists[c] : item = lists[c][k]
<1> DEFINE s == Children(m.heap, c)
           string(k) == m.heap[s[k]].string
           matches == {k \in DOMAIN s : string(k) # NULL /\
                         SameName(name, Chars(m.heap, string(k)), case_sensitive)}
           nameless == {k \in DOMAIN s : string(k) = NULL}
<1>1. s = lists[c] /\ DOMAIN s = 1 .. Len(s) /\ Len(s) \in Nat
  BY ChildrenAre, OneList DEF MemoryIs
<1>2. item = IF matches = {} \/ (case_sensitive /\ \E k \in nameless : k < Min(matches))
             THEN NULL ELSE s[Min(matches)]
  BY Zenon DEF get_object_item
<1>3. matches \in SUBSET Nat /\ matches \subseteq DOMAIN s
  BY <1>1
<1> HIDE DEF matches, nameless, s
<1>4. matches # {} => Min(matches) \in DOMAIN s
  BY <1>3, MinExists
<1> QED BY <1>1, <1>2, <1>4

-----------------------------------------------------------------------------
(* Memory and what a function has in its hands. *)

Sound(h, held, loose, refs) ==
  /\ \E lists : MemoryIs(h, lists, held, loose)
  /\ refs \subseteq held
  /\ \A b \in refs : h[b].IsReference

IsMachine(m) ==
  DOMAIN m = {"heap", "room", "fuel", "ret", "ok", "bad", "oom", "off", "depth"} /\ m.room = Blocks

Ready(m, held, loose, refs) ==
  /\ DOMAIN m = {"heap", "room", "fuel", "ret", "ok", "bad", "oom", "off", "depth"}
  /\ m.room = Blocks /\ ~m.bad
  /\ Sound(m.heap, held, loose, refs)

(* What holds of every sound memory. *)
LEMMA SoundType ==
  ASSUME NEW h, NEW held, NEW loose, NEW refs, Sound(h, held, loose, refs)
  PROVE  /\ held \subseteq ItemsOf(h) /\ loose \subseteq DOMAIN h \ ItemsOf(h) /\ refs \subseteq held
         /\ Owners(h) \subseteq ItemsOf(h) /\ ItemsOf(h) \subseteq DOMAIN h /\ DOMAIN h \subseteq Blocks
         /\ NULL \notin DOMAIN h /\ StaticKey \notin DOMAIN h /\ h = [x \in DOMAIN h |-> h[x]]
         /\ \A x \in DOMAIN h : x \in Nat
<1>1. PICK lists : MemoryIs(h, lists, held, loose)
  BY DEF Sound
<1>2. held \subseteq ItemsOf(h) /\ loose \subseteq DOMAIN h \ ItemsOf(h) /\ DOMAIN h \subseteq Blocks
  BY <1>1 DEF MemoryIs, ListsAre, TextsAre, ItemsOf
<1>3. \A x \in DOMAIN h : x \in Nat /\ x # NULL
  BY <1>2, BlocksAssumption
<1>4. StaticKey \notin Nat
  BY DEF StaticKey
<1>5. Owners(h) \subseteq ItemsOf(h) /\ ItemsOf(h) \subseteq DOMAIN h
  BY DEF Owners, ItemsOf
<1>6. refs \subseteq held /\ h = [x \in DOMAIN h |-> h[x]]
  BY <1>1 DEF Sound, MemoryIs
<1> QED BY <1>2, <1>3, <1>4, <1>5, <1>6

(* Setting the fields ret, ok, fuel and oom leaves memory alone. *)
LEMMA ReadyAgain ==
  ASSUME NEW m, NEW held, NEW loose, NEW refs, Ready(m, held, loose, refs),
         NEW g, DOMAIN g = DOMAIN m, g.heap = m.heap, g.room = m.room, g.bad = m.bad
  PROVE  Ready(g, held, loose, refs)
BY DEF Ready

(* malloc fails or finds a block that is not allocated. *)
LEMMA AllocateIs ==
  ASSUME NEW m, IsMachine(m), NEW block, NEW g, g = Allocate(m, block)
  PROVE  /\ DOMAIN g = DOMAIN m /\ g.room = m.room /\ g.bad = m.bad /\ g.ok = (g.ret # NULL)
         /\ \/ g.ret = NULL /\ g.heap = m.heap
            \/ /\ g.ret \in Blocks \ DOMAIN m.heap /\ g.ret # NULL
               /\ IsMap(g.heap) /\ DOMAIN g.heap = DOMAIN m.heap \cup {g.ret} /\ g.heap[g.ret] = block
               /\ \A x \in DOMAIN m.heap : g.heap[x] = m.heap[x]
<1> DEFINE free == m.room \ DOMAIN m.heap
           id == Min(free)
           with == [x \in DOMAIN m.heap \cup {id} |-> IF x = id THEN block ELSE m.heap[x]]
<1>1. DOMAIN m = {"heap", "room", "fuel", "ret", "ok", "bad", "oom", "off", "depth"} /\ m.room = Blocks
  BY DEF IsMachine
<1>2. CASE m.fuel = 0 \/ m.room \subseteq DOMAIN m.heap
  <2>1. g = Return([m EXCEPT !.oom = TRUE], NULL)
    BY <1>2 DEF Allocate
  <2> QED BY <1>1, <2>1 DEF Return
<1>3. CASE ~(m.fuel = 0 \/ m.room \subseteq DOMAIN m.heap)
  <2>1. g = Return([m EXCEPT !.heap = with, !.fuel = @ - 1], id)
    BY <1>3, Zenon DEF Allocate
  <2>2. free \in SUBSET Nat /\ free # {} /\ NULL \notin free
    BY <1>1, <1>3, BlocksAssumption
  <2> HIDE DEF free
  <2>3. id \in free /\ id # NULL
    BY <2>2, MinExists
  <2>4. id \in Blocks \ DOMAIN m.heap
    BY <1>1, <2>3 DEF free
  <2> HIDE DEF id, with
  <2>5. /\ DOMAIN g = DOMAIN m /\ g.room = m.room /\ g.bad = m.bad /\ g.ok = (id # NULL)
        /\ g.ret = id /\ g.heap = with
    BY <1>1, <2>1 DEF Return
  <2>6. /\ IsMap(with) /\ DOMAIN with = DOMAIN m.heap \cup {id} /\ with[id] = block
        /\ \A x \in DOMAIN m.heap : x # id => with[x] = m.heap[x]
    BY DEF with, IsMap
  <2> QED BY <2>3, <2>4, <2>5, <2>6
<1> QED BY <1>2, <1>3

(* A block more. *)
Grown(h, g, t) == t \notin DOMAIN h /\ DOMAIN g = DOMAIN h \cup {t} /\ \A x \in DOMAIN h : g[x] = h[x]

(* The text that strdup returns is nobody's yet. *)
LEMMA StrdupIs ==
  ASSUME NEW m, NEW held, NEW loose, NEW refs, Ready(m, held, loose, refs),
         NEW chars \in Seq(Byte), NEW g, g = cJSON_strdup(m, chars)
  PROVE  /\ g.ok = (g.ret # NULL) /\ ItemsOf(g.heap) = ItemsOf(m.heap) /\ Owners(g.heap) = Owners(m.heap)
         /\ \/ g.ret = NULL /\ g.heap = m.heap /\ Ready(g, held, loose, refs)
            \/ /\ g.ret # NULL /\ Grown(m.heap, g.heap, g.ret)
               /\ Ready(g, held, loose \cup {g.ret}, refs)
<1> DEFINE block == [chars |-> chars]
<1>1. block \in [chars : Seq(Byte)]
  OBVIOUS
<1>2. g = Allocate(m, block)
  BY DEF cJSON_strdup
<1> HIDE DEF block
<1>3. IsMachine(m)
  BY DEF Ready, IsMachine
<1>4. /\ DOMAIN g = DOMAIN m /\ g.room = m.room /\ g.bad = m.bad /\ g.ok = (g.ret # NULL)
      /\ \/ g.ret = NULL /\ g.heap = m.heap
         \/ /\ g.ret \in Blocks \ DOMAIN m.heap /\ g.ret # NULL
            /\ IsMap(g.heap) /\ DOMAIN g.heap = DOMAIN m.heap \cup {g.ret} /\ g.heap[g.ret] = block
            /\ \A x \in DOMAIN m.heap : g.heap[x] = m.heap[x]
  BY ONLY <1>2, <1>3, AllocateIs
<1>5. CASE g.ret = NULL /\ g.heap = m.heap
  BY <1>4, <1>5, ReadyAgain DEF Owners
<1>6. CASE g.ret # NULL
  <2>1. PICK lists : MemoryIs(m.heap, lists, held, loose)
    BY DEF Ready, Sound
  <2>2. /\ MemoryIs(g.heap, lists, held, loose \cup {g.ret}) /\ ItemsOf(g.heap) = ItemsOf(m.heap)
        /\ DOMAIN g.heap = DOMAIN m.heap \cup {g.ret} /\ \A x \in DOMAIN m.heap : g.heap[x] = m.heap[x]
    <3> DEFINE h == m.heap
               k == g.heap
               t == g.ret
    <3>1. /\ t \in Blocks \ DOMAIN h /\ MemoryIs(h, lists, held, loose)
          /\ IsMap(k) /\ DOMAIN k = DOMAIN h \cup {t} /\ k[t] \in [chars : Seq(Byte)]
          /\ \A x \in DOMAIN h : k[x] = h[x]
      BY <1>1, <1>4, <1>6, <2>1
    <3> HIDE DEF h, k, t
    <3>2. /\ MemoryIs(k, lists, held, loose \cup {t}) /\ ItemsOf(k) = ItemsOf(h)
          /\ DOMAIN k = DOMAIN h \cup {t} /\ \A x \in DOMAIN h : k[x] = h[x]
      BY <3>1, NewText
    <3> QED BY <3>2 DEF h, k, t
  <2>3. Ready(g, held, loose \cup {g.ret}, refs)
    <3>1. \A b \in refs : b \in DOMAIN m.heap
      BY SoundType DEF Ready
    <3> QED BY <1>4, <2>2, <3>1 DEF Ready, Sound
  <2>4. Owners(g.heap) = Owners(m.heap)
    BY <2>1, <2>2 DEF MemoryIs
  <2> QED BY <1>4, <1>6, <2>2, <2>3, <2>4 DEF Grown
<1> QED BY <1>4, <1>5, <1>6

-----------------------------------------------------------------------------
(* The functions, on machines. *)

(* Nothing is deleted of NULL. *)
LEMMA DeleteNothing ==
  ASSUME NEW h, NEW n \in Nat, Cardinality(DOMAIN h) + 1 = n
  PROVE  FreeOrder(h, NULL) = <<>>
<1>1. PICK f : /\ \A k \in 0 .. n : f[k] = FreeLevel(h, k, f[k - 1])
               /\ \A b : FreeOrder(h, b) = f[n][b]
  BY FreeOrderIs
<1>2. f[n] = FreeLevel(h, n, f[n - 1]) /\ NULL \in Int
  BY <1>1 DEF NULL
<1>3. f[n][NULL] = <<>>
  BY <1>2 DEF FreeLevel
<1> QED BY <1>1, <1>3

(* cJSON_Delete of an item that is held frees it and what is below it,     *)
(* every block once, and leaves the rest as it was.                        *)
LEMMA DeleteHeld ==
  ASSUME NEW m, NEW held, NEW loose, NEW refs, Ready(m, held, loose, refs),
         NEW i \in held, NEW g, g = cJSON_Delete(m, i)
  PROVE  Ready(g, held \ {i}, loose, refs \ {i}) /\ g.ret = m.ret /\ g.ok = m.ok
<1> DEFINE h == m.heap
           order == FreeOrder(h, i)
           k == [x \in DOMAIN h \ ToSet(order) |-> h[x]]
<1>1. DOMAIN m = {"heap", "room", "fuel", "ret", "ok", "bad", "oom", "off", "depth"}
  BY DEF Ready
<1>2. g = [m EXCEPT !.heap = k, !.bad = @ \/ ~IsInjective(order) \/ ~(ToSet(order) \subseteq DOMAIN m.heap)]
  BY Zenon DEF cJSON_Delete
<1>3. IsMap(k) /\ DOMAIN k = DOMAIN h \ ToSet(order) /\ \A x \in DOMAIN k : k[x] = h[x]
  BY DEF IsMap
<1>4. PICK lists : MemoryIs(h, lists, held, loose)
  BY DEF Ready, Sound
<1> HIDE DEF k, order
<1>5. /\ g.heap = k /\ DOMAIN g = DOMAIN m /\ g.ret = m.ret /\ g.ok = m.ok /\ g.room = m.room
      /\ g.bad = (m.bad \/ ~IsInjective(order) \/ ~(ToSet(order) \subseteq DOMAIN h))
  BY <1>1, <1>2
<1> HIDE DEF h
<1>6. /\ IsInjective(order) /\ ToSet(order) \subseteq DOMAIN h
      /\ \E rest : MemoryIs(k, rest, held \ {i}, loose)
  <2>1. order = FreeOrder(h, i) /\ i \in held
    BY DEF order
  <2> DEFINE rest == [c \in DOMAIN lists \ Reach(h, i) |-> lists[c]]
  <2>2. /\ IsInjective(order) /\ ToSet(order) \subseteq DOMAIN h
        /\ MemoryIs(k, rest, held \ {i}, loose)
    BY ONLY <1>3, <1>4, <2>1, DeleteIs
  <2> HIDE DEF rest
  <2> QED BY <2>2
<1>7. \A b \in refs \ {i} : k[b].IsReference
  <2>1. PICK rest : MemoryIs(k, rest, held \ {i}, loose)
    BY <1>6
  <2>2. held \ {i} \subseteq DOMAIN k
    BY <2>1 DEF MemoryIs, ListsAre
  <2>3. refs \subseteq held /\ \A b \in refs : h[b].IsReference
    BY DEF Ready, Sound, h
  <2> QED BY <1>3, <2>2, <2>3
<1>8. Ready(g, held \ {i}, loose, refs \ {i})
  BY <1>5, <1>6, <1>7 DEF Ready, Sound
<1> QED BY <1>5, <1>8

(* cJSON_Delete of NULL does nothing. *)
LEMMA DeleteNull ==
  ASSUME NEW m, NEW held, NEW loose, NEW refs, Ready(m, held, loose, refs),
         NEW g, g = cJSON_Delete(m, NULL)
  PROVE  Ready(g, held, loose, refs) /\ g.heap = m.heap
<1> DEFINE h == m.heap
           order == FreeOrder(h, NULL)
           k == [x \in DOMAIN h \ ToSet(order) |-> h[x]]
<1>1. DOMAIN m = {"heap", "room", "fuel", "ret", "ok", "bad", "oom", "off", "depth"}
  BY DEF Ready
<1>2. g = [m EXCEPT !.heap = k, !.bad = @ \/ ~IsInjective(order) \/ ~(ToSet(order) \subseteq DOMAIN m.heap)]
  BY Zenon DEF cJSON_Delete
<1>3. order = <<>>
  <2>1. IsFiniteSet(DOMAIN h)
    BY SoundType, BlocksAssumption, FS_Subset DEF Ready
  <2>2. Cardinality(DOMAIN h) + 1 \in Nat
    BY <2>1, FS_CardinalityType
  <2> QED BY <2>2, DeleteNothing
<1>4. ToSet(order) = {} /\ IsInjective(order)
  BY <1>3 DEF ToSet, IsInjective
<1>5. k = h
  <2>1. h = [x \in DOMAIN h |-> h[x]]
    BY SoundType DEF Ready
  <2> QED BY <1>4, <2>1
<1> HIDE DEF k, order, h
<1>6. /\ g.heap = h /\ DOMAIN g = DOMAIN m /\ g.room = m.room
      /\ g.bad = (m.bad \/ ~IsInjective(order) \/ ~(ToSet(order) \subseteq DOMAIN m.heap))
  BY <1>1, <1>2, <1>5
<1> QED BY <1>4, <1>6 DEF Ready, h

(* free of a text that is in a function's hands. *)
LEMMA DeallocateIs ==
  ASSUME NEW m, NEW held, NEW loose, NEW refs, Ready(m, held, loose, refs),
         NEW t \in loose, NEW g, g = Deallocate(m, t)
  PROVE  /\ Ready(g, held, loose \ {t}, refs) /\ g.ret = m.ret /\ g.ok = m.ok
         /\ ItemsOf(g.heap) = ItemsOf(m.heap) /\ \A x \in ItemsOf(m.heap) : g.heap[x] = m.heap[x]
<1> DEFINE h == m.heap
           k == [x \in DOMAIN h \ {t} |-> h[x]]
<1>1. DOMAIN m = {"heap", "room", "fuel", "ret", "ok", "bad", "oom", "off", "depth"}
  BY DEF Ready
<1>2. IsMap(k) /\ DOMAIN k = DOMAIN h \ {t} /\ \A x \in DOMAIN k : k[x] = h[x]
  BY DEF IsMap
<1>3. PICK lists : MemoryIs(h, lists, held, loose)
  BY DEF Ready, Sound
<1>4. t \in DOMAIN h /\ loose \subseteq DOMAIN h \ ItemsOf(h)
  BY SoundType DEF Ready
<1>5. g = [m EXCEPT !.heap = k]
  BY <1>4 DEF Deallocate
<1> HIDE DEF k
<1>6. g.heap = k /\ DOMAIN g = DOMAIN m /\ g.ret = m.ret /\ g.ok = m.ok /\ g.room = m.room /\ g.bad = m.bad
  BY <1>1, <1>5
<1> HIDE DEF h
<1>7. MemoryIs(k, lists, held, loose \ {t}) /\ ItemsOf(k) = ItemsOf(h)
  BY <1>2, <1>3, FreeText
<1>8. \A x \in ItemsOf(h) : k[x] = h[x]
  BY <1>2, <1>7 DEF ItemsOf
<1>9. Sound(k, held, loose \ {t}, refs)
  <2>1. refs \subseteq held /\ held \subseteq ItemsOf(h) /\ \A b \in refs : h[b].IsReference
    BY SoundType DEF Ready, Sound, h
  <2> QED BY <1>7, <1>8, <2>1 DEF Sound
<1>10. Ready(g, held, loose \ {t}, refs)
  BY <1>6, <1>9 DEF Ready
<1> QED BY <1>6, <1>7, <1>8, <1>10 DEF h

-----------------------------------------------------------------------------
(* The key of an item. *)

(* A record with another key. *)
Rekeyed(n, r, key) ==
  /\ n \in ItemRecord /\ n.string = key
  /\ n.type = r.type /\ n.next = r.next /\ n.prev = r.prev /\ n.child = r.child
  /\ n.valuestring = r.valuestring /\ n.IsReference = r.IsReference

OldKey(h, b) == IF ~h[b].StringIsConst /\ h[b].string # NULL THEN {h[b].string} ELSE {}

(* The old key, if it is not constant, is a text of its own. *)
LEMMA OldKeyIs ==
  ASSUME NEW h, NEW lists, NEW held, NEW loose, MemoryIs(h, lists, held, loose), NEW b \in ItemsOf(h)
  PROVE  /\ OldKey(h, b) \subseteq DOMAIN h \ (ItemsOf(h) \cup loose)
         /\ b \in DOMAIN h /\ h[b] \in ItemRecord
<1>1. TextsOf(h, b) \subseteq DOMAIN h \ (ItemsOf(h) \cup loose)
  BY DEF MemoryIs, TextsAre
<1>2. OldKey(h, b) \subseteq TextsOf(h, b)
  BY DEF OldKey, TextsOf
<1>3. h[b] \in ItemRecord /\ b \in DOMAIN h
  BY ItemFields DEF MemoryIs, ItemsOf
<1> QED BY <1>1, <1>2, <1>3

(* Memory g is h without the old key of b, with b rewritten. *)
KeyChanged(h, g, b) ==
  /\ IsMap(g) /\ DOMAIN g = DOMAIN h \ OldKey(h, b)
  /\ \A x \in DOMAIN g : x # b => g[x] = h[x]

(* The key is freed and no pointer to it is left. *)
LEMMA KeyDropped ==
  ASSUME NEW h, NEW lists, NEW held, NEW loose, MemoryIs(h, lists, held, loose),
         NEW b \in ItemsOf(h),
         NEW g, KeyChanged(h, g, b), Rekeyed(g[b], h[b], NULL)
  PROVE  MemoryIs(g, lists, held, loose) /\ ItemsOf(g) = ItemsOf(h)
<1> USE DEF KeyChanged
<1> DEFINE n == g[b]
           old == h[b].string
           k == [h EXCEPT ![b] = n]
<1>1. /\ TextsAre(h, loose) /\ OldKey(h, b) \subseteq DOMAIN h \ (ItemsOf(h) \cup loose)
      /\ b \in DOMAIN h /\ h[b] \in ItemRecord
  BY OldKeyIs DEF MemoryIs
<1>2. TextsOf(h, b) \cap loose = {} /\ OldKey(h, b) \cap loose = {}
  BY <1>1 DEF TextsAre
<1>3. k[b] = n /\ DOMAIN k = DOMAIN h /\ \A x \in DOMAIN h : x # b => k[x] = h[x]
  BY <1>1
<1>4. IsMap(k)
  BY DEF IsMap
<1> HIDE DEF k
<1>5. TextsOf(k, b) = TextsOf(h, b) \ OldKey(h, b)
  <2>1. /\ h[b].IsReference \/ h[b].StringIsConst \/ h[b].valuestring = NULL
           \/ h[b].valuestring # h[b].string
    BY <1>1 DEF TextsAre
  <2>2. h[b].StringIsConst \in BOOLEAN /\ h[b].IsReference \in BOOLEAN
    BY <1>1 DEF ItemRecord
  <2> QED BY <1>3, <2>1, <2>2 DEF TextsOf, OldKey, Rekeyed
<1>6. MemoryIs(k, lists, held, loose \cup OldKey(h, b)) /\ ItemsOf(k) = ItemsOf(h)
  <2>1. /\ n \in ItemRecord /\ n.next = h[b].next /\ n.prev = h[b].prev /\ n.child = h[b].child
        /\ n.IsReference = h[b].IsReference
        /\ n.string = StaticKey <=> n.StringIsConst /\ n.string # NULL
        /\ n.IsReference \/ n.StringIsConst \/ n.valuestring = NULL \/ n.valuestring # n.string
    <3>1. NULL # StaticKey
      BY DEF NULL, StaticKey
    <3> QED BY <3>1 DEF Rekeyed
  <2>2. TextsOf(k, b) \subseteq loose \cup TextsOf(h, b)
    BY <1>5
  <2> HIDE DEF n
  <2>3. k[b] = n
    BY <1>3
  <2>4. /\ MemoryIs(k, lists, held, (loose \cup TextsOf(h, b)) \ TextsOf(k, b))
        /\ ItemsOf(k) = ItemsOf(h)
    <3>1. /\ k[b] \in ItemRecord /\ k[b].next = h[b].next /\ k[b].prev = h[b].prev
          /\ k[b].child = h[b].child /\ k[b].IsReference = h[b].IsReference
          /\ k[b].string = StaticKey <=> k[b].StringIsConst /\ k[b].string # NULL
          /\ k[b].IsReference \/ k[b].StringIsConst \/ k[b].valuestring = NULL
             \/ k[b].valuestring # k[b].string
      BY <2>1, <2>3
    <3>2. MemoryIs(h, lists, held, loose) /\ b \in ItemsOf(h)
      OBVIOUS
    <3> QED BY ONLY <3>1, <3>2, <1>3, <1>4, <2>2, TextsTaken
  <2>5. (loose \cup TextsOf(h, b)) \ TextsOf(k, b) = loose \cup OldKey(h, b)
    <3>1. OldKey(h, b) \subseteq TextsOf(h, b)
      BY DEF OldKey, TextsOf
    <3> QED BY <1>2, <1>5, <3>1
  <2> QED BY <2>4, <2>5
<1>7. \A x \in DOMAIN g : g[x] = k[x]
  BY <1>3
<1>8. CASE OldKey(h, b) = {}
  <2>1. g = k
    BY <1>3, <1>4, <1>7, <1>8 DEF IsMap
  <2> QED BY <1>6, <1>8, <2>1
<1>9. CASE OldKey(h, b) # {}
  <2>1. OldKey(h, b) = {old}
    BY <1>9 DEF OldKey
  <2>2. DOMAIN g = DOMAIN k \ {old} /\ old \in loose \cup OldKey(h, b)
    BY <1>3, <2>1
  <2>3. MemoryIs(g, lists, held, (loose \cup OldKey(h, b)) \ {old}) /\ ItemsOf(g) = ItemsOf(k)
    BY <1>6, <1>7, <2>2, FreeText
  <2>4. (loose \cup OldKey(h, b)) \ {old} = loose
    BY <1>2, <2>1
  <2> QED BY <1>6, <2>3, <2>4
<1> QED BY <1>8, <1>9

(* An item without a key gets one. *)
LEMMA KeyPut ==
  ASSUME NEW h, NEW lists, NEW held, NEW loose, MemoryIs(h, lists, held, loose),
         NEW b \in ItemsOf(h), h[b].string = NULL,
         NEW p, NEW g, IsMap(g), DOMAIN g = DOMAIN h, Rekeyed(g[b], h[b], p),
         (g[b].StringIsConst /\ p = StaticKey) \/ (~g[b].StringIsConst /\ p \in loose),
         \A x \in DOMAIN g : x # b => g[x] = h[x]
  PROVE  MemoryIs(g, lists, held, loose \ {p}) /\ ItemsOf(g) = ItemsOf(h)
<1> DEFINE n == g[b]
<1>1. /\ TextsAre(h, loose) /\ b \in DOMAIN h /\ h[b] \in ItemRecord /\ DOMAIN h \subseteq Blocks
  BY OldKeyIs DEF MemoryIs
<1>2. TextsOf(h, b) \cap loose = {} /\ loose \subseteq DOMAIN h
  BY <1>1 DEF TextsAre
<1>3. \A x \in DOMAIN h : x # b => g[x] = h[x]
  OBVIOUS
<1>4. \A x \in loose : x \in Nat /\ x # NULL /\ x # StaticKey
  BY <1>1, <1>2, BlocksAssumption DEF StaticKey
<1>5. h[b].StringIsConst \in BOOLEAN /\ h[b].IsReference \in BOOLEAN
  BY <1>1 DEF ItemRecord
<1>6. StaticKey # NULL
  BY DEF StaticKey, NULL
<1>7. TextsOf(g, b) = TextsOf(h, b) \cup (IF n.StringIsConst THEN {} ELSE {p})
  BY <1>4, <1>5 DEF TextsOf, Rekeyed
<1>8. /\ n \in ItemRecord /\ n.next = h[b].next /\ n.prev = h[b].prev /\ n.child = h[b].child
      /\ n.IsReference = h[b].IsReference
      /\ n.string = StaticKey <=> n.StringIsConst /\ n.string # NULL
  BY <1>4, <1>6 DEF Rekeyed
<1>9. n.IsReference \/ n.StringIsConst \/ n.valuestring = NULL \/ n.valuestring # n.string
  <2>1. CASE ~n.StringIsConst /\ ~h[b].IsReference /\ h[b].valuestring # NULL
    <3>1. h[b].valuestring \in TextsOf(h, b)
      BY <2>1 DEF TextsOf
    <3> QED BY <1>2, <2>1, <3>1 DEF Rekeyed
  <2> QED BY <1>5, <2>1 DEF Rekeyed
<1>10. TextsOf(g, b) \subseteq loose \cup TextsOf(h, b)
  BY <1>7
<1> HIDE DEF n
<1>11. /\ MemoryIs(g, lists, held, (loose \cup TextsOf(h, b)) \ TextsOf(g, b))
       /\ ItemsOf(g) = ItemsOf(h)
  <2>1. MemoryIs(h, lists, held, loose) /\ b \in ItemsOf(h) /\ IsMap(g) /\ DOMAIN g = DOMAIN h
    OBVIOUS
  <2> QED BY ONLY <2>1, <1>3, <1>8, <1>9, <1>10, TextsTaken DEF n
<1>12. (loose \cup TextsOf(h, b)) \ TextsOf(g, b) = loose \ {p}
  BY <1>2, <1>4, <1>7 DEF n
<1> QED BY <1>11, <1>12

(* A new key takes the place of the old one, possibly in the same block.   *)
LEMMA KeyMoved ==
  ASSUME NEW h, NEW lists, NEW held, NEW loose, MemoryIs(h, lists, held, loose),
         NEW b \in ItemsOf(h), NEW t \in Blocks \ (DOMAIN h \ OldKey(h, b)),
         NEW g, IsMap(g), DOMAIN g = (DOMAIN h \ OldKey(h, b)) \cup {t},
         g[t] \in [chars : Seq(Byte)],
         Rekeyed(g[b], h[b], t), ~g[b].StringIsConst, \A x \in DOMAIN g \ {t} : x # b => g[x] = h[x]
  PROVE  MemoryIs(g, lists, held, loose) /\ ItemsOf(g) = ItemsOf(h)
<1> DEFINE bare == [h[b] EXCEPT !.string = NULL]
           k1 == [x \in DOMAIN h \ OldKey(h, b) |-> IF x = b THEN bare ELSE h[x]]
           k2 == [x \in (DOMAIN h \ OldKey(h, b)) \cup {t} |-> IF x = t THEN g[t] ELSE k1[x]]
<1>1. /\ OldKey(h, b) \subseteq DOMAIN h \ (ItemsOf(h) \cup loose)
      /\ b \in DOMAIN h /\ h[b] \in ItemRecord
  BY OldKeyIs
<1>2. b \in DOMAIN h \ OldKey(h, b) /\ t # b
  BY <1>1
<1>3. Rekeyed(bare, h[b], NULL)
  BY <1>1 DEF Rekeyed, ItemRecord, NULL
<1> HIDE DEF bare
<1>4. /\ DOMAIN k1 = DOMAIN h \ OldKey(h, b) /\ k1[b] = bare
      /\ \A x \in DOMAIN k1 : x # b => k1[x] = h[x]
  BY <1>2
<1>5. IsMap(k1)
  BY DEF IsMap
<1>6. /\ DOMAIN k2 = (DOMAIN h \ OldKey(h, b)) \cup {t} /\ k2[t] = g[t]
      /\ \A x \in DOMAIN h \ OldKey(h, b) : k2[x] = k1[x]
  OBVIOUS
<1>7. IsMap(k2)
  BY DEF IsMap
<1> HIDE DEF k1, k2
<1>8. MemoryIs(k1, lists, held, loose) /\ ItemsOf(k1) = ItemsOf(h)
  <2>1. Rekeyed(k1[b], h[b], NULL)
    BY <1>3, <1>4
  <2>2. MemoryIs(h, lists, held, loose) /\ b \in ItemsOf(h)
    OBVIOUS
  <2>3. KeyChanged(h, k1, b)
    BY <1>4, <1>5 DEF KeyChanged
  <2> QED BY ONLY <2>1, <2>2, <2>3, KeyDropped
<1>9. MemoryIs(k2, lists, held, loose \cup {t}) /\ ItemsOf(k2) = ItemsOf(k1)
  <2>1. t \in Blocks \ DOMAIN k1
    BY <1>4
  <2>2. /\ DOMAIN k2 = DOMAIN k1 \cup {t} /\ k2[t] \in [chars : Seq(Byte)]
        /\ \A x \in DOMAIN k1 : k2[x] = k1[x]
    BY <1>4, <1>6
  <2> QED BY ONLY <1>7, <1>8, <2>1, <2>2, NewText
<1>10. k2[b] = bare
  BY <1>2, <1>4, <1>6
<1>11. Rekeyed(g[b], k2[b], t) /\ k2[b].string = NULL
  BY <1>3, <1>10 DEF Rekeyed
<1>12. DOMAIN g = DOMAIN k2 /\ \A x \in DOMAIN g : x # b => g[x] = k2[x]
  BY <1>4, <1>6
<1>13. MemoryIs(g, lists, held, (loose \cup {t}) \ {t}) /\ ItemsOf(g) = ItemsOf(k2)
  <2>1. t \in loose \cup {t} /\ b \in ItemsOf(k2)
    BY <1>8, <1>9
  <2> DEFINE left == loose \cup {t}
  <2>2. IsMap(g) /\ ~g[b].StringIsConst /\ t \in left
    OBVIOUS
  <2>3. MemoryIs(k2, lists, held, left)
    BY <1>9
  <2> HIDE DEF left
  <2>4. MemoryIs(g, lists, held, left \ {t}) /\ ItemsOf(g) = ItemsOf(k2)
    BY ONLY <1>11, <1>12, <2>1, <2>2, <2>3, KeyPut
  <2> QED BY <2>4 DEF left
<1>14. (loose \cup {t}) \ {t} = loose
  <2>1. loose \subseteq DOMAIN h
    BY DEF MemoryIs, TextsAre
  <2> QED BY <1>1, <2>1
<1> QED BY <1>8, <1>9, <1>13, <1>14

(* A function that leaves the set of items and which are references. *)
LEMMA ReadyStep ==
  ASSUME NEW m, NEW held, NEW loose, NEW refs, Ready(m, held, loose, refs),
         NEW g, DOMAIN g = DOMAIN m, g.room = m.room, g.bad = m.bad,
         NEW lists, NEW lists2, NEW held2, NEW loose2, NEW refs2,
         MemoryIs(m.heap, lists, held, loose), MemoryIs(g.heap, lists2, held2, loose2),
         DOMAIN lists2 = DOMAIN lists, ItemsOf(g.heap) = ItemsOf(m.heap), refs2 \subseteq refs \cap held2
  PROVE  Ready(g, held2, loose2, refs2) /\ Owners(g.heap) = Owners(m.heap)
<1>1. Owners(g.heap) = Owners(m.heap)
  BY DEF MemoryIs
<1>2. \A b \in refs2 : g.heap[b].IsReference
  <2> TAKE b \in refs2
  <2>1. m.heap[b].IsReference /\ b \in held
    BY DEF Ready, Sound
  <2>3. b \in ItemsOf(m.heap)
    BY <2>1, SoundType DEF Ready
  <2>2. b \notin Owners(g.heap) /\ b \in ItemsOf(g.heap)
    BY <1>1, <2>1, <2>3 DEF Owners
  <2> QED BY <2>2 DEF Owners
<1> QED BY <1>1, <1>2 DEF Ready, Sound

-----------------------------------------------------------------------------
(* The functions that link items. *)

(* cJSON_AddItemToArray: the item is the container's if it was added.      *)
LEMMA AddToArrayIs ==
  ASSUME NEW m, NEW held, NEW loose, NEW refs, Ready(m, held, loose, refs),
         NEW c \in Owners(m.heap), NEW item, item = NULL \/ item \in held,
         NEW g, g = add_item_to_array(m, c, item)
  PROVE  /\ g.ret = m.ret
         /\ \/ ~g.ok /\ (item = NULL \/ c = item) /\ Ready(g, held, loose, refs)
            \/ g.ok /\ item \in held /\ Ready(g, held \ {item}, loose, refs \ {item})
<1>1. DOMAIN m = {"heap", "room", "fuel", "ret", "ok", "bad", "oom", "off", "depth"}
  BY DEF Ready
<1>2. CASE item = NULL \/ c = item
  <2>1. g = [m EXCEPT !.ok = FALSE]
    BY <1>2 DEF add_item_to_array, Fail
  <2>2. /\ DOMAIN g = DOMAIN m /\ g.heap = m.heap /\ g.room = m.room /\ g.bad = m.bad
        /\ ~g.ok /\ g.ret = m.ret
    BY <1>1, <2>1
  <2> QED BY <1>2, <2>2, ReadyAgain
<1>3. CASE ~(item = NULL \/ c = item)
  <2> DEFINE k == AppendLinks(m.heap, c, item)
  <2>1. g = [m EXCEPT !.heap = k, !.ok = TRUE]
    BY <1>3 DEF add_item_to_array
  <2>2. PICK lists : MemoryIs(m.heap, lists, held, loose)
    BY DEF Ready, Sound
  <2>3. c \in DOMAIN lists /\ item \in held
    BY <1>3, <2>2 DEF MemoryIs
  <2>4. PICK longer : /\ MemoryIs(k, longer, held \ {item}, loose) /\ DOMAIN longer = DOMAIN lists
                      /\ ItemsOf(k) = ItemsOf(m.heap)
    <3> DEFINE h == m.heap
    <3>1. MemoryIs(h, lists, held, loose) /\ k = AppendLinks(h, c, item)
      BY <2>2
    <3> HIDE DEF h, k
    <3>2. /\ \E longer : MemoryIs(k, longer, held \ {item}, loose) /\ Lengthened(lists, longer, c, item)
          /\ ItemsOf(k) = ItemsOf(h) /\ SameButLinks(h, k)
      BY ONLY <2>3, <3>1, AppendIs
    <3> QED BY <3>2 DEF h, Lengthened
  <2> HIDE DEF k
  <2>6. g.heap = k /\ DOMAIN g = DOMAIN m /\ g.room = m.room /\ g.bad = m.bad /\ g.ret = m.ret /\ g.ok
    BY <1>1, <2>1
  <2>7. refs \ {item} \subseteq refs \cap (held \ {item})
    BY DEF Ready, Sound
  <2>8. Ready(g, held \ {item}, loose, refs \ {item})
    BY <2>2, <2>4, <2>6, <2>7, ReadyStep
  <2> QED BY <2>3, <2>6, <2>8
<1> QED BY <1>2, <1>3

(* What a look-up returns. *)
NullOrChild(h, c, item) == item = NULL \/ \E k \in DOMAIN Children(h, c) : item = Children(h, c)[k]

(* cJSON_DetachItemViaPointer: what it returns is held from then on.       *)
LEMMA DetachFrom ==
  ASSUME NEW m, NEW held, NEW loose, NEW refs, Ready(m, held, loose, refs),
         NEW c \in Owners(m.heap), NEW item, NullOrChild(m.heap, c, item),
         NEW g, g = Detach(m, c, item)
  PROVE  \/ g.ret = NULL /\ Ready(g, held, loose, refs)
         \/ g.ret # NULL /\ g.ret \notin held /\ Ready(g, held \cup {g.ret}, loose, refs)
<1>1. DOMAIN m = {"heap", "room", "fuel", "ret", "ok", "bad", "oom", "off", "depth"}
  BY DEF Ready
<1>2. CASE item = NULL \/ (item # m.heap[c].child /\ m.heap[item].prev = NULL)
  <2>1. g = Return(m, NULL)
    BY <1>2 DEF Detach
  <2>2. /\ DOMAIN g = DOMAIN m /\ g.heap = m.heap /\ g.room = m.room /\ g.bad = m.bad
        /\ g.ret = NULL
    BY <1>1, <2>1 DEF Return
  <2> QED BY <2>2, ReadyAgain
<1>3. CASE ~(item = NULL \/ (item # m.heap[c].child /\ m.heap[item].prev = NULL))
  <2> DEFINE n == DetachLinks(m.heap, c, item)
  <2>1. g = Return([m EXCEPT !.heap = n], item)
    BY <1>3 DEF Detach
  <2>2. PICK lists : MemoryIs(m.heap, lists, held, loose)
    BY DEF Ready, Sound
  <2>3. c \in DOMAIN lists
    BY <2>2 DEF MemoryIs
  <2>4. Children(m.heap, c) = lists[c]
    BY <2>2, <2>3, ChildrenAre
  <2>5. PICK k \in DOMAIN lists[c] : item = lists[c][k]
    BY <1>3, <2>4 DEF NullOrChild
  <2> DEFINE lists2 == [lists EXCEPT ![c] = RemoveAt(@, k)]
  <2>6. MemoryIs(n, lists2, held \cup {item}, loose) /\ ItemsOf(n) = ItemsOf(m.heap)
    BY <2>2, <2>3, <2>5, DetachIs
  <2>7. DOMAIN lists2 = DOMAIN lists
    OBVIOUS
  <2> HIDE DEF n, lists2
  <2>8. g.heap = n /\ DOMAIN g = DOMAIN m /\ g.room = m.room /\ g.bad = m.bad /\ g.ret = item
    BY <1>1, <2>1 DEF Return
  <2>9. refs \subseteq refs \cap (held \cup {item})
    BY DEF Ready, Sound
  <2>10. Ready(g, held \cup {item}, loose, refs)
    BY <2>2, <2>6, <2>7, <2>8, <2>9, ReadyStep
  <2>11. item \notin held
    BY <2>2, <2>3, <2>5, Placed
  <2> QED BY <1>3, <2>8, <2>10, <2>11
<1> QED BY <1>2, <1>3

(* A text in a function's hands, or a constant, takes the place of the key. *)
LEMMA KeyReplaced ==
  ASSUME NEW h, NEW lists, NEW held, NEW loose, MemoryIs(h, lists, held, loose),
         NEW b \in ItemsOf(h), NEW p,
         NEW g, KeyChanged(h, g, b), Rekeyed(g[b], h[b], p),
         (g[b].StringIsConst /\ p = StaticKey) \/ (~g[b].StringIsConst /\ p \in loose)
  PROVE  MemoryIs(g, lists, held, loose \ {p}) /\ ItemsOf(g) = ItemsOf(h)
<1> DEFINE bare == [h[b] EXCEPT !.string = NULL]
           k == [x \in DOMAIN h \ OldKey(h, b) |-> IF x = b THEN bare ELSE h[x]]
<1>1. /\ OldKey(h, b) \subseteq DOMAIN h \ (ItemsOf(h) \cup loose)
      /\ b \in DOMAIN h /\ h[b] \in ItemRecord
  BY OldKeyIs
<1>2. b \in DOMAIN h \ OldKey(h, b)
  BY <1>1
<1>3. Rekeyed(bare, h[b], NULL) /\ bare.string = NULL
  BY <1>1 DEF Rekeyed, ItemRecord, NULL
<1> HIDE DEF bare
<1>4. /\ DOMAIN k = DOMAIN h \ OldKey(h, b) /\ k[b] = bare
      /\ \A x \in DOMAIN k : x # b => k[x] = h[x]
  BY <1>2
<1>5. IsMap(k)
  BY DEF IsMap
<1> HIDE DEF k
<1>6. MemoryIs(k, lists, held, loose) /\ ItemsOf(k) = ItemsOf(h)
  <2>1. Rekeyed(k[b], h[b], NULL) /\ MemoryIs(h, lists, held, loose) /\ b \in ItemsOf(h)
    BY <1>3, <1>4
  <2>2. KeyChanged(h, k, b)
    BY <1>4, <1>5 DEF KeyChanged
  <2> QED BY ONLY <2>1, <2>2, KeyDropped
<1>7. Rekeyed(g[b], k[b], p) /\ k[b].string = NULL /\ b \in ItemsOf(k)
  BY <1>3, <1>4, <1>6 DEF Rekeyed
<1>8. DOMAIN g = DOMAIN k /\ \A x \in DOMAIN g : x # b => g[x] = k[x]
  BY <1>4 DEF KeyChanged
<1>9. /\ IsMap(g)
      /\ (g[b].StringIsConst /\ p = StaticKey) \/ (~g[b].StringIsConst /\ p \in loose)
  BY DEF KeyChanged
<1>10. MemoryIs(g, lists, held, loose \ {p}) /\ ItemsOf(g) = ItemsOf(k)
  BY ONLY <1>6, <1>7, <1>8, <1>9, KeyPut
<1> QED BY <1>6, <1>10

(* free of an item's key, unless it is constant. *)
WithoutKey(m, b) == FreeIf(m, ~m.heap[b].StringIsConst, m.heap[b].string)

(* Memory g is memory h without that text. *)
KeyGone(h, g, b) ==
  /\ IsMap(g) /\ DOMAIN g = DOMAIN h \ OldKey(h, b)
  /\ \A x \in DOMAIN g : g[x] = h[x]

(* It frees that text, if there is one, and nothing else. *)
LEMMA FreeKeyIs ==
  ASSUME NEW m, IsMachine(m), NEW lists, NEW held, NEW loose, MemoryIs(m.heap, lists, held, loose),
         NEW b \in ItemsOf(m.heap),
         NEW g, g = WithoutKey(m, b)
  PROVE  /\ DOMAIN g = DOMAIN m /\ g.room = m.room /\ g.bad = m.bad /\ g.ret = m.ret /\ g.ok = m.ok
         /\ KeyGone(m.heap, g.heap, b)
<1> DEFINE h == m.heap
           t == h[b].string
           k == [x \in DOMAIN h \ {t} |-> h[x]]
<1>1. DOMAIN m = {"heap", "room", "fuel", "ret", "ok", "bad", "oom", "off", "depth"}
  BY DEF IsMachine
<1>2. OldKey(h, b) \subseteq DOMAIN h \ (ItemsOf(h) \cup loose)
  BY OldKeyIs
<1>3. IsMap(h)
  BY DEF MemoryIs, IsMap
<1>4. CASE ~h[b].StringIsConst /\ t # NULL
  <2>1. t \in DOMAIN h /\ OldKey(h, b) = {t}
    BY <1>2, <1>4 DEF OldKey
  <2>2. g = [m EXCEPT !.heap = k]
    BY <1>4, <2>1 DEF WithoutKey, FreeIf, Deallocate
  <2>3. IsMap(k) /\ DOMAIN k = DOMAIN h \ {t} /\ \A x \in DOMAIN k : k[x] = h[x]
    BY DEF IsMap
  <2> HIDE DEF k, t
  <2>4. /\ DOMAIN g = DOMAIN m /\ g.room = m.room /\ g.bad = m.bad /\ g.ret = m.ret /\ g.ok = m.ok
        /\ g.heap = k
    BY <1>1, <2>2
  <2> QED BY <2>1, <2>3, <2>4 DEF KeyGone
<1>5. CASE ~(~h[b].StringIsConst /\ t # NULL)
  <2>1. g = m /\ OldKey(h, b) = {}
    BY <1>5 DEF WithoutKey, FreeIf, OldKey
  <2> QED BY <1>3, <2>1 DEF KeyGone
<1> QED BY <1>4, <1>5

(* The assignment of a key. *)
WithKey(m, b, p, const) == [m EXCEPT !.heap[b].string = p, !.heap[b].StringIsConst = const]

(* What it may be: the constant one, or a text in a function's hands. *)
KeyFits(const, p, loose) == (const = TRUE /\ p = StaticKey) \/ (const = FALSE /\ p \in loose)

(* Memory g is memory h with another key of item b, the old one's text gone. *)
KeyIs(h, g, b, p, const) ==
  KeyChanged(h, g, b) /\ g[b] = [h[b] EXCEPT !.string = p, !.StringIsConst = const]

(* An item whose key was replaced is as ready as before. *)
LEMMA KeySet ==
  ASSUME NEW m, NEW held, NEW loose, NEW refs, Ready(m, held, loose, refs),
         NEW b \in ItemsOf(m.heap), NEW p, NEW const, KeyFits(const, p, loose),
         NEW f, f = WithoutKey(m, b),
         NEW g, g = WithKey(f, b, p, const)
  PROVE  /\ Ready(g, held, loose \ {p}, refs)
         /\ Owners(g.heap) = Owners(m.heap) /\ g.ret = m.ret /\ g.ok = m.ok
         /\ KeyIs(m.heap, g.heap, b, p, const)
<1>1. PICK lists : MemoryIs(m.heap, lists, held, loose)
  BY DEF Ready, Sound
<1>2. /\ DOMAIN m = {"heap", "room", "fuel", "ret", "ok", "bad", "oom", "off", "depth"}
      /\ IsMachine(m)
  BY DEF Ready, IsMachine
<1>3. /\ DOMAIN f = DOMAIN m /\ f.room = m.room /\ f.bad = m.bad /\ f.ret = m.ret /\ f.ok = m.ok
      /\ IsMap(f.heap) /\ DOMAIN f.heap = DOMAIN m.heap \ OldKey(m.heap, b)
      /\ \A x \in DOMAIN m.heap \ OldKey(m.heap, b) : f.heap[x] = m.heap[x]
  <2>1. b \in ItemsOf(m.heap) /\ f = WithoutKey(m, b)
    OBVIOUS
  <2>2. /\ DOMAIN f = DOMAIN m /\ f.room = m.room /\ f.bad = m.bad /\ f.ret = m.ret /\ f.ok = m.ok
        /\ KeyGone(m.heap, f.heap, b)
    BY ONLY <1>1, <1>2, <2>1, FreeKeyIs
  <2> QED BY <2>2 DEF KeyGone
<1> DEFINE h == m.heap
           k == f.heap
           n == [k[b] EXCEPT !.string = p, !.StringIsConst = const]
           l == g.heap
<1>4. /\ OldKey(h, b) \subseteq DOMAIN h \ (ItemsOf(h) \cup loose)
      /\ b \in DOMAIN h /\ h[b] \in ItemRecord
  BY <1>1, OldKeyIs
<1>5. b \in DOMAIN k /\ k[b] = h[b]
  BY <1>3, <1>4
<1>6. p \in Int
  <2>1. loose \subseteq DOMAIN h /\ \A x \in DOMAIN h : x \in Nat
    BY SoundType DEF Ready
  <2>2. StaticKey \in Int
    BY DEF StaticKey
  <2> QED BY <2>1, <2>2 DEF KeyFits
<1>7. l = [k EXCEPT ![b] = n] /\ DOMAIN g = DOMAIN f /\ g.room = f.room /\ g.bad = f.bad
      /\ g.ret = f.ret /\ g.ok = f.ok
  <2> DEFINE mid == [f EXCEPT !.heap[b].string = p, !.heap[b].StringIsConst = const]
  <2>4. g = mid
    BY DEF WithKey
  <2>1. l = [[k EXCEPT ![b].string = p] EXCEPT ![b].StringIsConst = const]
    BY <1>2, <1>3, <2>4
  <2>2. [[k EXCEPT ![b].string = p] EXCEPT ![b].StringIsConst = const] = [k EXCEPT ![b] = n]
    BY <1>3, <1>5 DEF IsMap
  <2>3. DOMAIN g = DOMAIN f /\ g.room = f.room /\ g.bad = f.bad /\ g.ret = f.ret /\ g.ok = f.ok
    BY <1>2, <1>3, <2>4
  <2> QED BY <2>1, <2>2, <2>3
<1>8. Rekeyed(n, h[b], p) /\ n.StringIsConst = const /\ n = [h[b] EXCEPT !.string = p, !.StringIsConst = const]
  <2>1. Rekeyed(n, h[b], p) /\ n.StringIsConst = const
    BY <1>4, <1>5, <1>6 DEF Rekeyed, ItemRecord, KeyFits
  <2> QED BY <1>5, <2>1
<1> HIDE DEF n
<1>9. /\ DOMAIN l = DOMAIN h \ OldKey(h, b) /\ l[b] = n
      /\ \A x \in DOMAIN l : x # b => l[x] = h[x]
  <2>1. /\ DOMAIN k = DOMAIN h \ OldKey(h, b) /\ l = [k EXCEPT ![b] = n] /\ b \in DOMAIN k
        /\ \A x \in DOMAIN h \ OldKey(h, b) : k[x] = h[x]
    BY <1>3, <1>5, <1>7
  <2> HIDE DEF h, k, l
  <2> QED BY <2>1
<1>10. IsMap(l)
  BY <1>7 DEF IsMap
<1>11. MemoryIs(l, lists, held, loose \ {p}) /\ ItemsOf(l) = ItemsOf(h)
  <2>1. MemoryIs(h, lists, held, loose) /\ b \in ItemsOf(h)
    BY <1>1
  <2>2. Rekeyed(l[b], h[b], p)
    BY <1>8, <1>9
  <2>3. (l[b].StringIsConst /\ p = StaticKey) \/ (~l[b].StringIsConst /\ p \in loose)
    BY <1>8, <1>9 DEF KeyFits
  <2>4. KeyChanged(h, l, b)
    BY <1>9, <1>10 DEF KeyChanged
  <2> HIDE DEF h, l
  <2> QED BY ONLY <2>1, <2>2, <2>3, <2>4, KeyReplaced
<1>12. refs \subseteq refs \cap held
  BY DEF Ready, Sound
<1>13. DOMAIN g = DOMAIN m /\ g.room = m.room /\ g.bad = m.bad /\ g.ret = m.ret /\ g.ok = m.ok
  BY <1>3, <1>7
<1>14. Ready(g, held, loose \ {p}, refs) /\ Owners(g.heap) = Owners(m.heap)
  <2>1. MemoryIs(g.heap, lists, held, loose \ {p}) /\ ItemsOf(g.heap) = ItemsOf(m.heap)
    BY <1>11
  <2>2. Ready(m, held, loose, refs) /\ refs \subseteq refs \cap held /\ DOMAIN lists = DOMAIN lists
    BY <1>12
  <2> QED BY ONLY <1>1, <1>13, <2>1, <2>2, ReadyStep
<1>15. KeyIs(m.heap, g.heap, b, p, const)
  <2>1. KeyChanged(h, l, b)
    BY <1>9, <1>10 DEF KeyChanged
  <2>2. l[b] = [h[b] EXCEPT !.string = p, !.StringIsConst = const]
    BY <1>8, <1>9
  <2> QED BY <2>1, <2>2 DEF KeyIs
<1> QED BY <1>13, <1>14, <1>15

IsFlag(b) == b \in BOOLEAN

(* cJSON_AddItemToObject: the item is the container's if it was added, and *)
(* the text of its key is its own.                                         *)
LEMMA AddToObjectIs ==
  ASSUME NEW m, NEW held, NEW loose, NEW refs, Ready(m, held, loose, refs),
         NEW c \in Owners(m.heap), NEW item, item = NULL \/ item \in held,
         NEW key \in Seq(Byte), NEW const, IsFlag(const),
         NEW g, g = add_item_to_object(m, c, key, item, const)
  PROVE  \/ ~g.ok /\ Ready(g, held, loose, refs)
         \/ g.ok /\ item \in held /\ Ready(g, held \ {item}, loose, refs \ {item})
<1> DEFINE m1 == IF const THEN Return(m, StaticKey) ELSE cJSON_strdup(m, key)
           m2 == WithoutKey(m1, item)
           m3 == [m2 EXCEPT !.heap[item].string = m1.ret, !.heap[item].StringIsConst = const]
           m4 == add_item_to_array(m3, c, item)
           p == m1.ret
           left == IF const THEN loose ELSE loose \cup {p}
<1>0. const \in BOOLEAN
  BY DEF IsFlag
<1>1. /\ DOMAIN m = {"heap", "room", "fuel", "ret", "ok", "bad", "oom", "off", "depth"}
      /\ m.room = Blocks
  BY DEF Ready
<1>2. g = IF item = NULL \/ c = item THEN Fail(m)
          ELSE IF m1.ret = NULL THEN Fail(m1)
          ELSE [m4 EXCEPT !.ret = NULL]
  BY Zenon DEF add_item_to_object, WithoutKey
<1>3. /\ StaticKey \notin DOMAIN m.heap /\ loose \subseteq DOMAIN m.heap /\ StaticKey # NULL
      /\ held \subseteq ItemsOf(m.heap)
  BY SoundType DEF Ready, StaticKey, NULL
<1>4. CASE item = NULL \/ c = item
  <2>1. g = [m EXCEPT !.ok = FALSE]
    BY <1>2, <1>4 DEF Fail
  <2>2. DOMAIN g = DOMAIN m /\ g.heap = m.heap /\ g.room = m.room /\ g.bad = m.bad /\ ~g.ok
    BY <1>1, <2>1
  <2> QED BY <2>2, ReadyAgain
<1>5. /\ p # NULL => /\ Ready(m1, held, left, refs)
                     /\ (const /\ p = StaticKey) \/ (~const /\ p \in left)
                     /\ left \ {p} = loose
      /\ p = NULL => Ready(m1, held, loose, refs)
      /\ ItemsOf(m1.heap) = ItemsOf(m.heap) /\ Owners(m1.heap) = Owners(m.heap)
  <2>1. CASE const
    <3>1. m1 = [m EXCEPT !.ret = StaticKey, !.ok = StaticKey # NULL]
      BY <2>1 DEF Return
    <3> HIDE DEF m1
    <3>2. DOMAIN m1 = DOMAIN m /\ m1.heap = m.heap /\ m1.room = m.room /\ m1.bad = m.bad /\ m1.ret = StaticKey
      BY <1>1, <3>1
    <3>3. Ready(m1, held, loose, refs)
      BY <3>2, ReadyAgain
    <3>4. loose \ {StaticKey} = loose
      BY <1>3
    <3> QED BY <1>3, <2>1, <3>2, <3>3, <3>4
  <2>2. CASE ~const
    <3>1. m1 = cJSON_strdup(m, key)
      BY <2>2
    <3> HIDE DEF m1
    <3>2. /\ ItemsOf(m1.heap) = ItemsOf(m.heap) /\ Owners(m1.heap) = Owners(m.heap)
          /\ \/ m1.ret = NULL /\ m1.heap = m.heap /\ Ready(m1, held, loose, refs)
             \/ /\ m1.ret # NULL /\ Grown(m.heap, m1.heap, m1.ret)
                /\ Ready(m1, held, loose \cup {m1.ret}, refs)
      BY ONLY <3>1, StrdupIs, Ready(m, held, loose, refs), key \in Seq(Byte)
    <3>3. m1.ret # NULL => (loose \cup {m1.ret}) \ {m1.ret} = loose
      BY <1>3, <3>2 DEF Grown
    <3> QED BY <2>2, <3>2, <3>3
  <2> QED BY <1>0, <2>1, <2>2
<1> HIDE DEF m1, left
<1>6. CASE ~(item = NULL \/ c = item) /\ p = NULL
  <2>1. g = [m1 EXCEPT !.ok = FALSE] /\ Ready(m1, held, loose, refs)
    BY <1>2, <1>5, <1>6 DEF Fail
  <2>2. DOMAIN m1 = DOMAIN m
    BY <1>1, <2>1 DEF Ready
  <2>3. DOMAIN g = DOMAIN m1 /\ g.heap = m1.heap /\ g.room = m1.room /\ g.bad = m1.bad /\ ~g.ok
    BY <1>1, <2>1, <2>2
  <2> QED BY <2>1, <2>3, ReadyAgain
<1>7. CASE ~(item = NULL \/ c = item) /\ p # NULL
  <2>1. /\ Ready(m1, held, left, refs) /\ left \ {p} = loose /\ item \in held /\ item # NULL /\ c # item
        /\ item \in ItemsOf(m1.heap) /\ c \in Owners(m1.heap)
        /\ (const /\ p = StaticKey) \/ (~const /\ p \in left)
    BY <1>3, <1>5, <1>7
  <2> HIDE DEF p, m2, m3
  <2>2. Ready(m3, held, left \ {p}, refs) /\ Owners(m3.heap) = Owners(m1.heap)
    <3>1. m2 = WithoutKey(m1, item)
      BY DEF m2
    <3>2. m3 = WithKey(m2, item, p, const)
      BY DEF m3, p, WithKey
    <3>3. KeyFits(const, p, left)
      BY <1>0, <2>1 DEF KeyFits
    <3> QED BY ONLY <2>1, <3>1, <3>2, <3>3, KeySet
  <2>3. c \in Owners(m3.heap) /\ Ready(m3, held, loose, refs)
    BY <2>1, <2>2
  <2> HIDE DEF m4
  <2>4. m4.ok /\ Ready(m4, held \ {item}, loose, refs \ {item})
    <3>1. m4 = add_item_to_array(m3, c, item)
      BY DEF m4
    <3>2. \/ ~m4.ok /\ (item = NULL \/ c = item) /\ Ready(m4, held, loose, refs)
          \/ m4.ok /\ item \in held /\ Ready(m4, held \ {item}, loose, refs \ {item})
      BY ONLY <2>1, <2>3, <3>1, AddToArrayIs
    <3> QED BY <2>1, <3>2
  <2>5. g = [m4 EXCEPT !.ret = NULL]
    BY <1>2, <1>7 DEF p
  <2>6. DOMAIN m4 = {"heap", "room", "fuel", "ret", "ok", "bad", "oom", "off", "depth"}
    BY <2>4 DEF Ready
  <2>7. DOMAIN g = DOMAIN m4 /\ g.heap = m4.heap /\ g.room = m4.room /\ g.bad = m4.bad /\ g.ok = m4.ok
    BY <2>5, <2>6
  <2>8. Ready(g, held \ {item}, loose, refs \ {item})
    BY <2>4, <2>7, ReadyAgain
  <2> QED BY <2>1, <2>4, <2>7, <2>8
<1> QED BY <1>4, <1>6, <1>7

(* Both look-ups return NULL or a child. *)
LEMMA LookUpsAre ==
  ASSUME NEW m, NEW held, NEW loose, NEW refs, Ready(m, held, loose, refs),
         NEW c \in Owners(m.heap)
  PROVE  /\ \A index \in Nat : NullOrChild(m.heap, c, get_array_item(m, c, index))
         /\ \A name, case_sensitive :
              NullOrChild(m.heap, c, get_object_item(m, c, name, case_sensitive))
<1>1. PICK lists : MemoryIs(m.heap, lists, held, loose)
  BY DEF Ready, Sound
<1>2. c \in DOMAIN lists
  BY <1>1 DEF MemoryIs
<1>3. Children(m.heap, c) = lists[c]
  BY <1>1, <1>2, ChildrenAre
<1>4. ASSUME NEW index \in Nat PROVE NullOrChild(m.heap, c, get_array_item(m, c, index))
  <2> DEFINE item == get_array_item(m, c, index)
             h == m.heap
  <2>1. MemoryIs(h, lists, held, loose) /\ m.heap = h /\ item = get_array_item(m, c, index)
    BY <1>1
  <2> HIDE DEF item, h
  <2>2. item = NULL \/ \E k \in DOMAIN lists[c] : item = lists[c][k]
    BY ONLY <1>2, <1>4, <2>1, ItemAtIs
  <2> QED BY <1>3, <2>2 DEF NullOrChild, item
<1>5. ASSUME NEW name, NEW case_sensitive
      PROVE  NullOrChild(m.heap, c, get_object_item(m, c, name, case_sensitive))
  <2> DEFINE item == get_object_item(m, c, name, case_sensitive)
             h == m.heap
  <2>1. MemoryIs(h, lists, held, loose) /\ m.heap = h /\ item = get_object_item(m, c, name, case_sensitive)
    BY <1>1
  <2> HIDE DEF item, h
  <2>2. item = NULL \/ \E k \in DOMAIN lists[c] : item = lists[c][k]
    BY ONLY <1>2, <2>1, ObjectItemIs
  <2> QED BY <1>3, <2>2 DEF NullOrChild, item
<1> QED BY <1>4, <1>5

(* cJSON_InsertItemInArray. *)
LEMMA InsertInArrayIs ==
  ASSUME NEW m, NEW held, NEW loose, NEW refs, Ready(m, held, loose, refs),
         NEW c \in Owners(m.heap), NEW which \in Nat, NEW item \in held,
         NEW g, g = Insert(m, c, which, item)
  PROVE  \/ ~g.ok /\ Ready(g, held, loose, refs)
         \/ g.ok /\ Ready(g, held \ {item}, loose, refs \ {item})
<1> DEFINE h == m.heap
           after == get_array_item(m, c, which)
           n == InsertLinks(h, c, after, item)
<1>1. DOMAIN m = {"heap", "room", "fuel", "ret", "ok", "bad", "oom", "off", "depth"}
  BY DEF Ready
<1>2. g = IF after = NULL THEN add_item_to_array(m, c, item)
          ELSE IF after # h[c].child /\ h[after].prev = NULL THEN Fail(m)
          ELSE [m EXCEPT !.heap = n, !.ok = TRUE]
  BY Zenon DEF Insert
<1>3. NullOrChild(h, c, after)
  BY LookUpsAre
<1>4. PICK lists : MemoryIs(h, lists, held, loose)
  BY DEF Ready, Sound
<1>5. c \in DOMAIN lists
  BY <1>4 DEF MemoryIs
<1> HIDE DEF after, n
<1>6. CASE after = NULL
  <2>1. g = add_item_to_array(m, c, item)
    BY <1>2, <1>6
  <2>2. /\ c \in Owners(m.heap) /\ Ready(m, held, loose, refs) /\ (item = NULL \/ item \in held)
    OBVIOUS
  <2> QED BY ONLY <2>1, <2>2, AddToArrayIs
<1>7. CASE after # NULL /\ after # h[c].child /\ h[after].prev = NULL
  <2>1. g = [m EXCEPT !.ok = FALSE]
    BY <1>2, <1>7 DEF Fail
  <2>2. DOMAIN g = DOMAIN m /\ g.heap = m.heap /\ g.room = m.room /\ g.bad = m.bad /\ ~g.ok
    BY <1>1, <2>1
  <2> QED BY <2>2, ReadyAgain
<1>8. CASE after # NULL /\ ~(after # h[c].child /\ h[after].prev = NULL)
  <2>1. g = [m EXCEPT !.heap = n, !.ok = TRUE]
    BY <1>2, <1>8
  <2>2. Children(h, c) = lists[c]
    <3> HIDE DEF h
    <3> QED BY <1>4, <1>5, ChildrenAre
  <2>3. PICK k \in DOMAIN lists[c] : after = lists[c][k]
    BY <1>3, <1>8, <2>2 DEF NullOrChild
  <2> DEFINE lists2 == [lists EXCEPT ![c] = InsertAt(@, k, item)]
  <2>4. MemoryIs(n, lists2, held \ {item}, loose) /\ ItemsOf(n) = ItemsOf(h)
    <3>1. n = InsertLinks(h, c, lists[c][k], item)
      BY <2>3 DEF n
    <3> HIDE DEF h
    <3> QED BY <1>4, <1>5, <3>1, InsertIs
  <2>5. DOMAIN lists2 = DOMAIN lists
    OBVIOUS
  <2> HIDE DEF lists2
  <2>6. g.heap = n /\ DOMAIN g = DOMAIN m /\ g.room = m.room /\ g.bad = m.bad /\ g.ok
    BY <1>1, <2>1
  <2>7. refs \ {item} \subseteq refs \cap (held \ {item})
    BY DEF Ready, Sound
  <2>8. Ready(g, held \ {item}, loose, refs \ {item})
    BY <1>4, <2>4, <2>5, <2>6, <2>7, ReadyStep
  <2> QED BY <2>6, <2>8
<1> QED BY <1>6, <1>7, <1>8

(* cJSON_ReplaceItemViaPointer: the old item is deleted and the new one in *)
(* its place.                                                              *)
LEMMA ReplaceItemIs ==
  ASSUME NEW m, NEW held, NEW loose, NEW refs, Ready(m, held, loose, refs),
         NEW c \in Owners(m.heap), NEW item, NullOrChild(m.heap, c, item), NEW r \in held,
         NEW g, g = ReplaceItem(m, c, item, r)
  PROVE  \/ ~g.ok /\ Ready(g, held, loose, refs)
         \/ g.ok /\ Ready(g, held \ {r}, loose, refs \ {r})
<1> DEFINE h == m.heap
           n == ReplaceLinks(h, c, item, r)
           linked == [m EXCEPT !.heap = n]
           deleted == cJSON_Delete(linked, item)
<1>1. DOMAIN m = {"heap", "room", "fuel", "ret", "ok", "bad", "oom", "off", "depth"}
  BY DEF Ready
<1>2. g = IF item = NULL THEN Fail(m)
          ELSE IF item = r THEN [m EXCEPT !.ok = TRUE] ELSE [deleted EXCEPT !.ok = TRUE]
  BY Zenon DEF ReplaceItem
<1>3. PICK lists : MemoryIs(h, lists, held, loose)
  BY DEF Ready, Sound
<1>4. c \in DOMAIN lists
  BY <1>3 DEF MemoryIs
<1> HIDE DEF n, deleted
<1>5. CASE item = NULL
  <2>1. g = [m EXCEPT !.ok = FALSE]
    BY <1>2, <1>5 DEF Fail
  <2>2. DOMAIN g = DOMAIN m /\ g.heap = m.heap /\ g.room = m.room /\ g.bad = m.bad /\ ~g.ok
    BY <1>1, <2>1
  <2> QED BY <2>2, ReadyAgain
<1>6. CASE item # NULL
  <2>1. Children(h, c) = lists[c]
    <3> HIDE DEF h
    <3> QED BY <1>3, <1>4, ChildrenAre
  <2>2. PICK k \in DOMAIN lists[c] : item = lists[c][k]
    BY <1>6, <2>1 DEF NullOrChild
  <2>3. item \notin held
    <3> HIDE DEF h
    <3> QED BY <1>3, <1>4, <2>2, Placed
  <2>4. g = [deleted EXCEPT !.ok = TRUE]
    BY <1>2, <1>6, <2>3
  <2> DEFINE lists2 == [lists EXCEPT ![c] = ReplaceAt(@, k, r)]
             held2 == (held \ {r}) \cup {item}
  <2>5. MemoryIs(n, lists2, held2, loose) /\ ItemsOf(n) = ItemsOf(h)
    <3>1. n = ReplaceLinks(h, c, lists[c][k], r)
      BY <2>2 DEF n
    <3> HIDE DEF h
    <3> QED BY <1>3, <1>4, <2>2, <3>1, ReplaceIs
  <2>6. DOMAIN lists2 = DOMAIN lists
    OBVIOUS
  <2>7. refs \ {r} \subseteq refs \cap held2 /\ item \in held2 /\ held2 \ {item} = held \ {r}
        /\ (refs \ {r}) \ {item} = refs \ {r}
    BY <2>3 DEF Ready, Sound
  <2> HIDE DEF lists2, held2
  <2>8. linked.heap = n /\ DOMAIN linked = DOMAIN m /\ linked.room = m.room /\ linked.bad = m.bad
    BY <1>1
  <2> HIDE DEF linked
  <2>9. Ready(linked, held2, loose, refs \ {r})
    BY <1>3, <2>5, <2>6, <2>7, <2>8, ReadyStep
  <2>10. Ready(deleted, held2 \ {item}, loose, (refs \ {r}) \ {item})
    BY <2>7, <2>9, DeleteHeld DEF deleted
  <2>11. DOMAIN deleted = {"heap", "room", "fuel", "ret", "ok", "bad", "oom", "off", "depth"}
    BY <2>10 DEF Ready
  <2>12. /\ DOMAIN g = DOMAIN deleted /\ g.heap = deleted.heap /\ g.room = deleted.room
         /\ g.bad = deleted.bad /\ g.ok
    BY <2>4, <2>11
  <2>13. Ready(g, held2 \ {item}, loose, (refs \ {r}) \ {item})
    BY <2>10, <2>12, ReadyAgain
  <2> QED BY <2>7, <2>12, <2>13
<1> QED BY <1>5, <1>6

(* cJSON_ReplaceItemInObject: the old key is freed before the new one is   *)
(* copied, and gone also when that fails.                                  *)
LEMMA ReplaceInObjectIs ==
  ASSUME NEW m, NEW held, NEW loose, NEW refs, Ready(m, held, loose, refs),
         NEW c \in Owners(m.heap), NEW key \in Seq(Byte), NEW r \in held, NEW case_sensitive,
         NEW g, g = replace_item_in_object(m, c, key, r, case_sensitive)
  PROVE  \/ ~g.ok /\ Ready(g, held, loose, refs)
         \/ g.ok /\ Ready(g, held \ {r}, loose, refs \ {r})
<1> DEFINE block == [chars |-> key]
           m1 == WithoutKey(m, r)
           m2 == Allocate(m1, block)
           m3 == [m2 EXCEPT !.heap[r].string = m2.ret]
           m4 == [m3 EXCEPT !.heap[r].StringIsConst = FALSE, !.ret = NULL]
           found == get_object_item(m4, c, key, case_sensitive)
           last == ReplaceItem(m4, c, found, r)
           h == m.heap
           t == m2.ret
<1>1. /\ DOMAIN m = {"heap", "room", "fuel", "ret", "ok", "bad", "oom", "off", "depth"}
      /\ IsMachine(m)
  BY DEF Ready, IsMachine
<1>2. g = IF t = NULL THEN Fail(m3) ELSE last
  BY Zenon DEF replace_item_in_object, WithoutKey, cJSON_strdup
<1>3. PICK lists : MemoryIs(h, lists, held, loose)
  BY DEF Ready, Sound
<1>4. r \in ItemsOf(h) /\ r \in DOMAIN h
  BY <1>3 DEF MemoryIs, ListsAre, ItemsOf
<1> HIDE DEF last, found
<1>5. /\ DOMAIN m1 = DOMAIN m /\ m1.room = m.room /\ m1.bad = m.bad
      /\ KeyGone(h, m1.heap, r)
  <2>1. r \in ItemsOf(m.heap) /\ m1 = WithoutKey(m, r) /\ MemoryIs(m.heap, lists, held, loose)
    BY <1>3, <1>4
  <2> HIDE DEF m1, h
  <2>2. DOMAIN m1 = DOMAIN m /\ m1.room = m.room /\ m1.bad = m.bad /\ KeyGone(m.heap, m1.heap, r)
    BY ONLY <1>1, <2>1, FreeKeyIs
  <2> QED BY <2>2 DEF h
<1>6. block \in [chars : Seq(Byte)]
  OBVIOUS
<1> HIDE DEF m1, block
<1>7. /\ DOMAIN m2 = DOMAIN m1 /\ m2.room = m1.room /\ m2.bad = m1.bad
      /\ \/ t = NULL /\ m2.heap = m1.heap
         \/ /\ t \in Blocks \ DOMAIN m1.heap /\ t # NULL
            /\ IsMap(m2.heap) /\ DOMAIN m2.heap = DOMAIN m1.heap \cup {t} /\ m2.heap[t] = block
            /\ \A x \in DOMAIN m1.heap : m2.heap[x] = m1.heap[x]
  <2>1. IsMachine(m1) /\ m2 = Allocate(m1, block)
    BY <1>1, <1>5 DEF IsMachine
  <2> HIDE DEF m2
  <2> QED BY <2>1, AllocateIs
<1> HIDE DEF m2, t
<1>8. /\ DOMAIN m1.heap = DOMAIN h \ OldKey(h, r) /\ IsMap(m1.heap)
      /\ \A x \in DOMAIN m1.heap : m1.heap[x] = h[x]
  BY <1>5 DEF KeyGone
<1>9. /\ OldKey(h, r) \subseteq DOMAIN h \ (ItemsOf(h) \cup loose) /\ h[r] \in ItemRecord
  BY <1>3, <1>4, OldKeyIs
<1>10. r \in DOMAIN m1.heap /\ m1.heap[r] = h[r] /\ r \in DOMAIN m2.heap /\ m2.heap[r] = h[r]
  BY <1>4, <1>7, <1>8, <1>9
<1>11. CASE t = NULL
  <2> DEFINE k == m3.heap
  <2>1. m2.heap = m1.heap /\ m2.ret = NULL
    BY <1>7, <1>11, <1>8 DEF t
  <2>2. DOMAIN m2 = {"heap", "room", "fuel", "ret", "ok", "bad", "oom", "off", "depth"}
    BY <1>1, <1>5, <1>7
  <2>3. g = [m3 EXCEPT !.ok = FALSE]
    BY <1>2, <1>11 DEF Fail
  <2>4. /\ k = [m1.heap EXCEPT ![r].string = NULL]
        /\ DOMAIN m3 = DOMAIN m2 /\ m3.room = m2.room /\ m3.bad = m2.bad
    BY <2>1, <2>2
  <2> HIDE DEF m3
  <2>5. DOMAIN g = DOMAIN m /\ g.heap = k /\ g.room = m.room /\ g.bad = m.bad /\ ~g.ok
    BY <1>1, <1>5, <1>7, <2>2, <2>3, <2>4
  <2>6. IsMap(k) /\ DOMAIN k = DOMAIN h \ OldKey(h, r) /\ k[r] = [h[r] EXCEPT !.string = NULL]
        /\ \A x \in DOMAIN k : x # r => k[x] = h[x]
    <3> HIDE DEF k, h
    <3> QED BY <1>8, <1>10, <2>4 DEF IsMap
  <2>7. Rekeyed(k[r], h[r], NULL)
    BY <1>9, <2>6 DEF Rekeyed, ItemRecord, NULL
  <2> HIDE DEF k, h
  <2>8. MemoryIs(k, lists, held, loose) /\ ItemsOf(k) = ItemsOf(h)
    <3>1. Rekeyed(k[r], h[r], NULL) /\ MemoryIs(h, lists, held, loose) /\ r \in ItemsOf(h)
      BY <1>3, <1>4, <2>7
    <3>2. KeyChanged(h, k, r)
      BY <2>6 DEF KeyChanged
    <3> QED BY ONLY <3>1, <3>2, KeyDropped
  <2>9. Ready(g, held, loose, refs)
    <3>1. refs \subseteq refs \cap held
      BY DEF Ready, Sound
    <3>2. MemoryIs(m.heap, lists, held, loose) /\ MemoryIs(g.heap, lists, held, loose)
          /\ ItemsOf(g.heap) = ItemsOf(m.heap)
      BY <1>3, <2>5, <2>8 DEF h
    <3>3. Ready(m, held, loose, refs) /\ DOMAIN lists = DOMAIN lists
      OBVIOUS
    <3> QED BY ONLY <2>5, <3>1, <3>2, <3>3, ReadyStep
  <2> QED BY <2>5, <2>9
<1>12. CASE t # NULL
  <2> DEFINE k == m4.heap
             n == [h[r] EXCEPT !.string = t, !.StringIsConst = FALSE]
  <2>1. /\ t \in Blocks \ DOMAIN m1.heap /\ IsMap(m2.heap) /\ DOMAIN m2.heap = DOMAIN m1.heap \cup {t}
        /\ m2.heap[t] = block /\ \A x \in DOMAIN m1.heap : m2.heap[x] = m1.heap[x]
    BY <1>7, <1>12
  <2>2. DOMAIN m2 = {"heap", "room", "fuel", "ret", "ok", "bad", "oom", "off", "depth"}
    BY <1>1, <1>5, <1>7
  <2>3. /\ m3.heap = [m2.heap EXCEPT ![r].string = t]
        /\ DOMAIN m3 = DOMAIN m2 /\ m3.room = m2.room /\ m3.bad = m2.bad
    BY <2>2 DEF t
  <2> HIDE DEF m3
  <2>4. /\ k = [m3.heap EXCEPT ![r].StringIsConst = FALSE]
        /\ DOMAIN m4 = DOMAIN m3 /\ m4.room = m3.room /\ m4.bad = m3.bad
    BY <2>2, <2>3
  <2>5. g = last
    BY <1>2, <1>12
  <2> HIDE DEF m4, k, h
  <2>6. k = [m2.heap EXCEPT ![r] = n]
    BY <1>10, <2>1, <2>3, <2>4 DEF IsMap
  <2>7. Rekeyed(n, h[r], t) /\ ~n.StringIsConst
    <3>1. t \in Int
      BY <2>1, BlocksAssumption
    <3> QED BY <1>9, <3>1 DEF Rekeyed, ItemRecord
  <2> HIDE DEF n
  <2>8. /\ t \in Blocks \ (DOMAIN h \ OldKey(h, r))
        /\ DOMAIN k = (DOMAIN h \ OldKey(h, r)) \cup {t}
        /\ \A x \in DOMAIN k \ {t} : x # r => k[x] = h[x]
    BY <1>8, <2>1, <2>6
  <2>9. IsMap(k) /\ k[t] \in [chars : Seq(Byte)] /\ Rekeyed(k[r], h[r], t) /\ ~k[r].StringIsConst
    <3>1. k[r] = n /\ t # r /\ k[t] = block
      BY <1>10, <2>1, <2>6
    <3>2. IsMap(k)
      BY <2>6 DEF IsMap
    <3> QED BY <1>6, <2>7, <3>1, <3>2
  <2>10. MemoryIs(k, lists, held, loose) /\ ItemsOf(k) = ItemsOf(h)
    BY ONLY <1>3, <1>4, <2>8, <2>9, KeyMoved
  <2>11. DOMAIN m4 = DOMAIN m /\ m4.room = m.room /\ m4.bad = m.bad
    BY <1>5, <1>7, <2>3, <2>4
  <2>12. Ready(m4, held, loose, refs) /\ Owners(m4.heap) = Owners(m.heap)
    <3>1. refs \subseteq refs \cap held
      BY DEF Ready, Sound
    <3>2. MemoryIs(m.heap, lists, held, loose) /\ MemoryIs(m4.heap, lists, held, loose)
          /\ ItemsOf(m4.heap) = ItemsOf(m.heap)
      BY <1>3, <2>10 DEF h, k
    <3>3. Ready(m, held, loose, refs) /\ DOMAIN lists = DOMAIN lists
      OBVIOUS
    <3> QED BY ONLY <2>11, <3>1, <3>2, <3>3, ReadyStep
  <2>13. c \in Owners(m4.heap)
    BY <2>12
  <2>14. NullOrChild(m4.heap, c, found)
    BY <2>12, <2>13, LookUpsAre DEF found
  <2>15. g = ReplaceItem(m4, c, found, r) /\ Ready(m4, held, loose, refs) /\ r \in held
    BY <2>5, <2>12 DEF last
  <2> QED BY ONLY <2>13, <2>14, <2>15, ReplaceItemIs
<1> QED BY <1>11, <1>12

-----------------------------------------------------------------------------
(* The text of an item. *)

OldValue(h, b) == IF h[b].valuestring # NULL THEN {h[b].valuestring} ELSE {}

(* Memory g is h without the old text of b, with b rewritten to have t. *)
ValueChanged(h, g, b, t) ==
  /\ IsMap(g) /\ DOMAIN g = DOMAIN h \ OldValue(h, b)
  /\ \A x \in DOMAIN g : x # b => g[x] = h[x]
  /\ g[b] \in ItemRecord /\ g[b].valuestring = t
  /\ g[b].next = h[b].next /\ g[b].prev = h[b].prev /\ g[b].child = h[b].child
  /\ g[b].string = h[b].string /\ g[b].StringIsConst = h[b].StringIsConst
  /\ g[b].IsReference = h[b].IsReference

(* A text in a function's hands takes the place of the old one. *)
LEMMA ValueReplaced ==
  ASSUME NEW h, NEW lists, NEW held, NEW loose, MemoryIs(h, lists, held, loose),
         NEW b \in ItemsOf(h), ~h[b].IsReference, NEW t \in loose,
         NEW g, ValueChanged(h, g, b, t)
  PROVE  MemoryIs(g, lists, held, loose \ {t}) /\ ItemsOf(g) = ItemsOf(h)
<1> DEFINE old == h[b].valuestring
           n == g[b]
           k == [x \in DOMAIN h |-> IF x = b THEN n ELSE h[x]]
<1>1. /\ TextsAre(h, loose) /\ b \in DOMAIN h /\ h[b] \in ItemRecord /\ DOMAIN h \subseteq Blocks
  BY OldKeyIs DEF MemoryIs
<1>2. /\ TextsOf(h, b) \cap loose = {} /\ loose \subseteq DOMAIN h
      /\ TextsOf(h, b) \subseteq DOMAIN h \ ItemsOf(h)
  BY <1>1 DEF TextsAre
<1>3. \A x \in DOMAIN h : x \in Nat /\ x # NULL /\ x # StaticKey
  <2>1. \A x \in Blocks : x \in Nat /\ x # NULL
    BY BlocksAssumption
  <2>2. StaticKey \notin Nat
    BY DEF StaticKey
  <2> QED BY <1>1, <2>1, <2>2
<1>4. h[b].StringIsConst \in BOOLEAN /\ h[b].IsReference \in BOOLEAN
  BY <1>1 DEF ItemRecord
<1>5. /\ n \in ItemRecord /\ n.valuestring = t /\ n.next = h[b].next /\ n.prev = h[b].prev
      /\ n.child = h[b].child /\ n.string = h[b].string /\ n.StringIsConst = h[b].StringIsConst
      /\ n.IsReference = h[b].IsReference
  BY DEF ValueChanged
<1> HIDE DEF n
<1>6. k[b] = n /\ DOMAIN k = DOMAIN h /\ \A x \in DOMAIN h : x # b => k[x] = h[x]
  BY <1>1
<1>7. IsMap(k)
  BY DEF IsMap
<1> HIDE DEF k
<1> DEFINE keys == IF h[b].StringIsConst \/ h[b].string = NULL THEN {} ELSE {h[b].string}
<1>8. TextsOf(h, b) = keys \cup OldValue(h, b) /\ t \notin keys
  <2>1. TextsOf(h, b) = keys \cup OldValue(h, b)
    BY <1>4 DEF TextsOf, OldValue
  <2> QED BY <1>2, <2>1
<1>9. TextsOf(k, b) = keys \cup {t} /\ t # NULL
  BY <1>2, <1>3, <1>4, <1>5, <1>6 DEF TextsOf
<1>10. OldValue(h, b) \cap keys = {}
  BY <1>1, <1>4 DEF TextsAre, OldValue
<1>11. n.IsReference \/ n.StringIsConst \/ n.valuestring = NULL \/ n.valuestring # n.string
  BY <1>3, <1>5, <1>8, <1>2
<1>12. n.string = StaticKey <=> n.StringIsConst /\ n.string # NULL
  BY <1>1, <1>5 DEF TextsAre
<1> HIDE DEF keys
<1>13. /\ MemoryIs(k, lists, held, (loose \ {t}) \cup OldValue(h, b))
       /\ ItemsOf(k) = ItemsOf(h)
  <2>1. TextsOf(k, b) \subseteq loose \cup TextsOf(h, b)
    BY <1>8, <1>9
  <2>2. /\ k[b] \in ItemRecord /\ k[b].next = h[b].next /\ k[b].prev = h[b].prev
        /\ k[b].child = h[b].child /\ k[b].IsReference = h[b].IsReference
        /\ k[b].string = StaticKey <=> k[b].StringIsConst /\ k[b].string # NULL
        /\ k[b].IsReference \/ k[b].StringIsConst \/ k[b].valuestring = NULL
           \/ k[b].valuestring # k[b].string
    BY <1>5, <1>6, <1>11, <1>12
  <2>3. MemoryIs(h, lists, held, loose) /\ b \in ItemsOf(h)
    OBVIOUS
  <2>4. /\ MemoryIs(k, lists, held, (loose \cup TextsOf(h, b)) \ TextsOf(k, b))
        /\ ItemsOf(k) = ItemsOf(h)
    BY ONLY <1>6, <1>7, <2>1, <2>2, <2>3, TextsTaken
  <2>5. (loose \cup TextsOf(h, b)) \ TextsOf(k, b) = (loose \ {t}) \cup OldValue(h, b)
    BY <1>2, <1>8, <1>9, <1>10
  <2> QED BY <2>4, <2>5
<1>14. /\ DOMAIN g = DOMAIN h \ OldValue(h, b) /\ IsMap(g)
       /\ \A x \in DOMAIN g : g[x] = k[x]
  <2>1. DOMAIN g = DOMAIN h \ OldValue(h, b) /\ IsMap(g) /\ \A x \in DOMAIN g : x # b => g[x] = h[x]
    BY DEF ValueChanged
  <2> QED BY <1>6, <2>1 DEF n
<1>15. OldValue(h, b) \cap loose = {}
  BY <1>2, <1>8
<1>16. CASE OldValue(h, b) = {}
  <2>1. g = k
    BY <1>6, <1>7, <1>14, <1>16 DEF IsMap
  <2>2. (loose \ {t}) \cup OldValue(h, b) = loose \ {t}
    BY <1>16
  <2> QED BY <1>13, <2>1, <2>2
<1>17. CASE OldValue(h, b) # {}
  <2>1. OldValue(h, b) = {old}
    BY <1>17 DEF OldValue
  <2> DEFINE left == (loose \ {t}) \cup OldValue(h, b)
  <2>2. DOMAIN g = DOMAIN k \ {old} /\ old \in left
    BY <1>6, <1>14, <2>1
  <2>3. left \ {old} = loose \ {t}
    BY <1>15, <2>1
  <2>4. MemoryIs(k, lists, held, left)
    BY <1>13
  <2> HIDE DEF left, old
  <2>5. MemoryIs(g, lists, held, left \ {old}) /\ ItemsOf(g) = ItemsOf(k)
    BY ONLY <1>14, <2>2, <2>4, FreeText
  <2> QED BY <1>13, <2>3, <2>5
<1> QED BY <1>16, <1>17

-----------------------------------------------------------------------------
(* New items. *)

(* What a new item is like. *)
Fresh(n) ==
  /\ n \in ItemRecord /\ n.next = NULL /\ n.prev = NULL /\ n.string = NULL
  /\ n.IsReference \/ (n.child = NULL /\ n.valuestring = NULL)

(* Memory g is h with a new block i. *)
NewBlock(h, g, i) ==
  /\ i \in Blocks \ DOMAIN h /\ IsMap(g) /\ DOMAIN g = DOMAIN h \cup {i}
  /\ \A x \in DOMAIN h : g[x] = h[x]

(* A function that made an item holds it. *)
LEMMA NewItemIs ==
  ASSUME NEW m, NEW held, NEW loose, NEW refs, Ready(m, held, loose, refs),
         NEW g, DOMAIN g = DOMAIN m, g.room = m.room, g.bad = m.bad,
         NEW i, NewBlock(m.heap, g.heap, i), Fresh(g.heap[i])
  PROVE  /\ Ready(g, held \cup {i}, loose, refs) /\ i \notin held /\ i # NULL
         /\ Owners(m.heap) \subseteq Owners(g.heap)
<1> DEFINE h == m.heap
           k == g.heap
           n == k[i]
<1>1. PICK lists : MemoryIs(h, lists, held, loose)
  BY DEF Ready, Sound
<1>2. /\ i \in Blocks \ DOMAIN h /\ IsMap(k) /\ DOMAIN k = DOMAIN h \cup {i}
      /\ \A x \in DOMAIN h : k[x] = h[x]
  BY DEF NewBlock
<1>3. /\ n \in ItemRecord /\ n.next = NULL /\ n.prev = NULL /\ n.string = NULL
      /\ n.IsReference \/ (n.child = NULL /\ n.valuestring = NULL)
      /\ k[i] = n
  BY DEF Fresh
<1> HIDE DEF n
<1>4. (\E longer : MemoryIs(k, longer, held \cup {i}, loose)) /\ ItemsOf(k) = ItemsOf(h) \cup {i}
  <2> HIDE DEF h, k
  <2>1. /\ \E longer : MemoryIs(k, longer, held \cup {i}, loose) /\ Prolonged(lists, longer, i)
        /\ ItemsOf(k) = ItemsOf(h) \cup {i}
    BY ONLY <1>1, <1>2, <1>3, NewItem
  <2> QED BY <2>1
<1>5. held \subseteq ItemsOf(h) /\ ItemsOf(h) \subseteq DOMAIN h /\ refs \subseteq held
  BY SoundType DEF Ready
<1>6. i \notin held /\ i # NULL
  BY <1>2, <1>5, BlocksAssumption
<1>7. \A b \in refs : k[b].IsReference
  <2>1. \A b \in refs : h[b].IsReference
    BY DEF Ready, Sound
  <2> QED BY <1>2, <1>5, <2>1
<1>8. Owners(h) \subseteq Owners(k)
  BY <1>2, <1>4, <1>5 DEF Owners
<1>9. Ready(g, held \cup {i}, loose, refs)
  BY <1>4, <1>5, <1>7 DEF Ready, Sound
<1> QED BY <1>6, <1>8, <1>9

(* What a function that makes an item leaves behind. *)
Makes(m, g, held, loose, refs) ==
  \/ g.ret = NULL /\ Ready(g, held, loose, refs)
  \/ /\ g.ret # NULL /\ g.ret \notin held /\ Ready(g, held \cup {g.ret}, loose, refs)
     /\ Owners(m.heap) \subseteq Owners(g.heap)

(* What they begin with: a copy made a reference, or an item of a type.    *)
LEMMA FreshItems ==
  /\ \A r \in ItemRecord :
       LET n == [r EXCEPT !.string = NULL, !.next = NULL, !.prev = NULL, !.IsReference = TRUE]
       IN Fresh(n) /\ n.IsReference
  /\ \A type \in Types :
       LET n == [Blank0 EXCEPT !.type = type]
       IN Fresh(n) /\ ~n.IsReference /\ n.valuestring = NULL /\ n \in ItemRecord
<1>1. ASSUME NEW r \in ItemRecord
      PROVE  LET n == [r EXCEPT !.string = NULL, !.next = NULL, !.prev = NULL, !.IsReference = TRUE]
             IN Fresh(n) /\ n.IsReference
  <2> DEFINE n == [r EXCEPT !.string = NULL, !.next = NULL, !.prev = NULL, !.IsReference = TRUE]
  <2>1. NULL \in Int
    BY DEF NULL
  <2>2. n \in ItemRecord /\ n.string = NULL /\ n.next = NULL /\ n.prev = NULL /\ n.IsReference = TRUE
    BY <2>1 DEF ItemRecord
  <2> HIDE DEF n
  <2>3. Fresh(n) /\ n.IsReference
    BY <2>2 DEF Fresh
  <2> QED BY <2>3 DEF n
<1>2. ASSUME NEW type \in Types
      PROVE  LET n == [Blank0 EXCEPT !.type = type]
             IN Fresh(n) /\ ~n.IsReference /\ n.valuestring = NULL /\ n \in ItemRecord
  <2> DEFINE n == [Blank0 EXCEPT !.type = type]
             made == [type |-> type, next |-> NULL, prev |-> NULL, child |-> NULL, valuestring |-> NULL,
                      valuedouble |-> 0, string |-> NULL, StringIsConst |-> FALSE, IsReference |-> FALSE]
             fields == {"type", "next", "prev", "child", "valuestring", "valuedouble", "string",
                        "StringIsConst", "IsReference"}
  <2>1. made \in ItemRecord /\ made = [x \in fields |-> made[x]]
    BY DEF ItemRecord, NULL
  <2>2. Blank0 = [x \in fields |-> Blank0[x]]
    BY DEF Blank0
  <2>3. n = [x \in fields |-> n[x]]
    BY <2>2
  <2>5. /\ n.type = made.type /\ n.next = made.next /\ n.prev = made.prev /\ n.child = made.child
        /\ n.valuestring = made.valuestring /\ n.valuedouble = made.valuedouble
        /\ n.string = made.string /\ n.StringIsConst = made.StringIsConst
        /\ n.IsReference = made.IsReference
    BY DEF Blank0
  <2>6. /\ made.string = NULL /\ made.next = NULL /\ made.prev = NULL /\ made.child = NULL
        /\ made.valuestring = NULL /\ made.IsReference = FALSE
    OBVIOUS
  <2> HIDE DEF n, made
  <2>7. n = made
    BY <2>1, <2>3, <2>5
  <2> HIDE DEF n
  <2>4. Fresh(n) /\ ~n.IsReference /\ n.valuestring = NULL /\ n \in ItemRecord
    BY <2>1, <2>6, <2>7 DEF Fresh
  <2> QED BY <2>4 DEF n
<1> QED BY <1>1, <1>2

(* create_reference; what it makes is a reference.                         *)
LEMMA CreateReferenceIs ==
  ASSUME NEW m, NEW held, NEW loose, NEW refs, Ready(m, held, loose, refs),
         NEW item \in ItemsOf(m.heap), NEW g, g = create_reference(m, item)
  PROVE  /\ Makes(m, g, held, loose, refs)
         /\ g.ret # NULL => g.heap[g.ret].IsReference
<1> DEFINE block == [m.heap[item] EXCEPT !.string = NULL, !.next = NULL, !.prev = NULL,
                                         !.IsReference = TRUE]
           i == g.ret
<1>1. g = Allocate(m, block)
  BY Zenon DEF create_reference
<1>2. IsMachine(m)
  BY DEF Ready, IsMachine
<1>3. Fresh(block) /\ block.IsReference
  <2>1. m.heap[item] \in ItemRecord
    <3> DEFINE h == m.heap
    <3>1. PICK lists : MemoryIs(h, lists, held, loose)
      BY DEF Ready, Sound
    <3>2. item \in ItemsOf(h)
      OBVIOUS
    <3> HIDE DEF h
    <3>3. h[item] \in ItemRecord
      BY <3>1, <3>2, OldKeyIs
    <3> QED BY <3>3 DEF h
  <2> QED BY <2>1, FreshItems
<1> HIDE DEF block
<1>4. /\ DOMAIN g = DOMAIN m /\ g.room = m.room /\ g.bad = m.bad
      /\ \/ i = NULL /\ g.heap = m.heap
         \/ /\ i \in Blocks \ DOMAIN m.heap /\ i # NULL
            /\ IsMap(g.heap) /\ DOMAIN g.heap = DOMAIN m.heap \cup {i} /\ g.heap[i] = block
            /\ \A x \in DOMAIN m.heap : g.heap[x] = m.heap[x]
  BY <1>1, <1>2, AllocateIs
<1>5. CASE i = NULL
  <2>1. g.heap = m.heap
    BY <1>4, <1>5, BlocksAssumption
  <2> QED BY <1>4, <1>5, <2>1, ReadyAgain DEF Makes
<1>6. CASE i # NULL
  <2>1. NewBlock(m.heap, g.heap, i) /\ g.heap[i] = block
    BY <1>4, <1>6 DEF NewBlock
  <2>2. Fresh(g.heap[i])
    BY <1>3, <2>1
  <2>3. Ready(m, held, loose, refs) /\ DOMAIN g = DOMAIN m /\ g.room = m.room /\ g.bad = m.bad
    BY <1>4
  <2>4. Ready(g, held \cup {i}, loose, refs) /\ i \notin held /\ Owners(m.heap) \subseteq Owners(g.heap)
    BY ONLY <2>1, <2>2, <2>3, NewItemIs
  <2> QED BY <1>3, <1>6, <2>1, <2>4 DEF Makes
<1> QED BY <1>5, <1>6

(* An item that a function made takes a text that nobody has.              *)
LEMMA ValueSet ==
  ASSUME NEW m, NEW held, NEW loose, NEW refs, Ready(m, held, loose, refs),
         NEW b \in ItemsOf(m.heap), ~m.heap[b].IsReference, NEW t \in loose,
         NEW g, DOMAIN g = DOMAIN m, g.room = m.room, g.bad = m.bad,
         ValueChanged(m.heap, g.heap, b, t)
  PROVE  Ready(g, held, loose \ {t}, refs) /\ Owners(g.heap) = Owners(m.heap)
<1> DEFINE h == m.heap
           k == g.heap
<1>1. PICK lists : MemoryIs(h, lists, held, loose)
  BY DEF Ready, Sound
<1>2. b \in ItemsOf(h) /\ ~h[b].IsReference /\ ValueChanged(h, k, b, t) /\ t \in loose
  OBVIOUS
<1> HIDE DEF h, k
<1>3. MemoryIs(k, lists, held, loose \ {t}) /\ ItemsOf(k) = ItemsOf(h)
  BY ONLY <1>1, <1>2, ValueReplaced
<1>4. refs \subseteq refs \cap held /\ Ready(m, held, loose, refs) /\ DOMAIN lists = DOMAIN lists
  BY DEF Ready, Sound
<1>5. /\ MemoryIs(m.heap, lists, held, loose) /\ MemoryIs(g.heap, lists, held, loose \ {t})
      /\ ItemsOf(g.heap) = ItemsOf(m.heap)
      /\ DOMAIN g = DOMAIN m /\ g.room = m.room /\ g.bad = m.bad
  BY <1>1, <1>3 DEF h, k
<1> QED BY ONLY <1>4, <1>5, ReadyStep

(* The cJSON_Create... functions: when the text cannot be copied the item  *)
(* is deleted again.                                                       *)
LEMMA CreateIs ==
  ASSUME NEW m, NEW held, NEW loose, NEW refs, Ready(m, held, loose, refs),
         NEW type \in Types, NEW chars \in Seq(Byte), NEW g, g = Create(m, type, chars)
  PROVE  Makes(m, g, held, loose, refs)
<1> DEFINE new == Allocate(m, Blank0)
           i == new.ret
           typed == [new EXCEPT !.heap[i].type = type]
           text == cJSON_strdup(typed, chars)
           deleted == cJSON_Delete(text, i)
           t == text.ret
           full == [text EXCEPT !.heap[i].valuestring = t]
           Fields == {"heap", "room", "fuel", "ret", "ok", "bad", "oom", "off", "depth"}
<1>1. DOMAIN m = Fields /\ IsMachine(m)
  BY DEF Ready, IsMachine
<1>2. g = IF i = NULL THEN new
          ELSE IF type \notin {"String", "Raw"} THEN typed
          ELSE IF t = NULL THEN Return(deleted, NULL)
          ELSE Return(full, i)
  BY Zenon DEF Create, cJSON_New_Item
<1>3. /\ DOMAIN new = DOMAIN m /\ new.room = m.room /\ new.bad = m.bad
      /\ \/ i = NULL /\ new.heap = m.heap
         \/ /\ i \in Blocks \ DOMAIN m.heap /\ i # NULL
            /\ IsMap(new.heap) /\ DOMAIN new.heap = DOMAIN m.heap \cup {i} /\ new.heap[i] = Blank0
            /\ \A x \in DOMAIN m.heap : new.heap[x] = m.heap[x]
  <2> HIDE DEF Fields
  <2>1. new = Allocate(m, Blank0)
    OBVIOUS
  <2> HIDE DEF new
  <2> QED BY <1>1, <2>1, AllocateIs
<1> HIDE DEF new, deleted, full, text
<1>4. CASE i = NULL
  <2>1. new.heap = m.heap /\ g = new
    BY <1>2, <1>3, <1>4, BlocksAssumption
  <2> QED BY <1>3, <1>4, <2>1, ReadyAgain DEF Makes
<1>5. CASE i # NULL
  <2> DEFINE n == [Blank0 EXCEPT !.type = type]
             k == typed.heap
  <2>1. /\ k = [new.heap EXCEPT ![i] = n] /\ DOMAIN typed = DOMAIN new /\ typed.room = new.room
        /\ typed.bad = new.bad /\ typed.ret = i
    <3>1. [new.heap EXCEPT ![i].type = type] = [new.heap EXCEPT ![i] = n]
      BY <1>3, <1>5 DEF IsMap
    <3> QED BY <1>1, <1>3, <3>1
  <2>2. Fresh(n) /\ ~n.IsReference /\ n.valuestring = NULL /\ n \in ItemRecord
    BY FreshItems
  <2> HIDE DEF n
  <2>3. NewBlock(m.heap, k, i) /\ k[i] = n
    <3>1. IsMap(k) /\ DOMAIN k = DOMAIN new.heap /\ k[i] = n /\ \A x \in DOMAIN new.heap : x # i => k[x] = new.heap[x]
      <4> HIDE DEF k
      <4> QED BY <1>3, <1>5, <2>1 DEF IsMap
    <3> HIDE DEF k
    <3> QED BY <1>3, <1>5, <3>1 DEF NewBlock
  <2>4. DOMAIN typed = DOMAIN m /\ typed.room = m.room /\ typed.bad = m.bad
    BY <1>3, <2>1
  <2> HIDE DEF typed
  <2>5. /\ Ready(typed, held \cup {i}, loose, refs) /\ i \notin held
        /\ Owners(m.heap) \subseteq Owners(typed.heap)
    <3>1. Fresh(typed.heap[i]) /\ NewBlock(m.heap, typed.heap, i) /\ Ready(m, held, loose, refs)
      BY <2>2, <2>3
    <3> QED BY ONLY <2>4, <3>1, NewItemIs
  <2>6. CASE type \notin {"String", "Raw"}
    <3>1. g = typed
      BY <1>2, <1>5, <2>6
    <3> QED BY <1>5, <2>1, <2>5, <3>1 DEF Makes
  <2>7. CASE type \in {"String", "Raw"}
    <3>1. /\ Owners(text.heap) = Owners(typed.heap) /\ ItemsOf(text.heap) = ItemsOf(typed.heap)
          /\ \/ t = NULL /\ text.heap = typed.heap /\ Ready(text, held \cup {i}, loose, refs)
             \/ /\ t # NULL /\ Grown(typed.heap, text.heap, t)
                /\ Ready(text, held \cup {i}, loose \cup {t}, refs)
      <4>1. text = cJSON_strdup(typed, chars) /\ chars \in Seq(Byte)
        BY DEF text
      <4> DEFINE more == held \cup {i}
      <4>2. Ready(typed, more, loose, refs)
        BY <2>5
      <4> HIDE DEF more
      <4>3. /\ Owners(text.heap) = Owners(typed.heap) /\ ItemsOf(text.heap) = ItemsOf(typed.heap)
            /\ \/ t = NULL /\ text.heap = typed.heap /\ Ready(text, more, loose, refs)
               \/ /\ t # NULL /\ Grown(typed.heap, text.heap, t)
                  /\ Ready(text, more, loose \cup {t}, refs)
        BY ONLY <4>1, <4>2, StrdupIs
      <4> QED BY <4>3 DEF more
    <3>2. CASE t = NULL
      <4>1. g = Return(deleted, NULL) /\ Ready(text, held \cup {i}, loose, refs)
        BY <1>2, <1>5, <2>7, <3>1, <3>2
      <4>2. Ready(deleted, (held \cup {i}) \ {i}, loose, refs \ {i})
        <5>1. deleted = cJSON_Delete(text, i) /\ i \in held \cup {i}
          BY DEF deleted
        <5> QED BY <4>1, <5>1, DeleteHeld
      <4>3. (held \cup {i}) \ {i} = held /\ refs \ {i} = refs
        <5>1. refs \subseteq held
          BY DEF Ready, Sound
        <5> QED BY <2>5, <5>1
      <4>4. DOMAIN deleted = Fields
        BY <4>2 DEF Ready
      <4>5. /\ DOMAIN g = DOMAIN deleted /\ g.heap = deleted.heap /\ g.room = deleted.room
            /\ g.bad = deleted.bad /\ g.ret = NULL
        BY <4>1, <4>4 DEF Return
      <4>6. Ready(g, held, loose, refs)
        BY <4>2, <4>3, <4>5, ReadyAgain
      <4> QED BY <4>5, <4>6 DEF Makes
    <3>3. CASE t # NULL
      <4>1. g = Return(full, i)
        BY <1>2, <1>5, <2>7, <3>3
      <4>2. /\ Ready(text, held \cup {i}, loose \cup {t}, refs) /\ Grown(typed.heap, text.heap, t)
            /\ i \in DOMAIN text.heap /\ text.heap[i] = n
        BY <2>3, <3>1, <3>3 DEF Grown, NewBlock
      <4>3. DOMAIN text = Fields /\ IsMap(text.heap)
        <5>1. text.heap = [x \in DOMAIN text.heap |-> text.heap[x]]
          BY <4>2, SoundType DEF Ready
        <5> QED BY <4>2, <5>1 DEF Ready, IsMap
      <4>4. /\ full.heap = [text.heap EXCEPT ![i].valuestring = t] /\ DOMAIN full = Fields
            /\ full.room = text.room /\ full.bad = text.bad
        BY <4>3 DEF full
      <4>5. /\ DOMAIN g = Fields /\ g.heap = full.heap /\ g.room = full.room /\ g.bad = full.bad /\ g.ret = i
        BY <4>1, <4>4 DEF Return
      <4>6. ValueChanged(text.heap, g.heap, i, t)
        <5> DEFINE h == text.heap
                   l == g.heap
        <5>1. l = [h EXCEPT ![i].valuestring = t] /\ h[i] = n /\ i \in DOMAIN h /\ IsMap(h)
          BY <4>2, <4>3, <4>4, <4>5
        <5>2. t \in Int
          <6>1. t \in DOMAIN text.heap
            BY <4>2 DEF Grown
          <6> QED BY <4>2, <6>1, SoundType DEF Ready
        <5> HIDE DEF h, l
        <5>3. IsMap(l) /\ DOMAIN l = DOMAIN h /\ l[i] = [n EXCEPT !.valuestring = t]
              /\ \A x \in DOMAIN h : x # i => l[x] = h[x]
          BY <5>1 DEF IsMap
        <5>4. OldValue(h, i) = {}
          BY <2>2, <5>1 DEF OldValue
        <5>5. l[i] \in ItemRecord /\ l[i].valuestring = t
              /\ l[i].next = n.next /\ l[i].prev = n.prev /\ l[i].child = n.child
              /\ l[i].string = n.string /\ l[i].StringIsConst = n.StringIsConst
              /\ l[i].IsReference = n.IsReference
          BY <2>2, <5>2, <5>3 DEF ItemRecord
        <5>6. ValueChanged(h, l, i, t)
          BY <5>1, <5>3, <5>4, <5>5 DEF ValueChanged
        <5> QED BY <5>6 DEF h, l
      <4> DEFINE more == held \cup {i}
                 left == loose \cup {t}
      <4>7. /\ Ready(text, more, left, refs) /\ t \in left
            /\ i \in ItemsOf(text.heap) /\ ~text.heap[i].IsReference
        <5>1. Ready(text, more, left, refs)
          BY <4>2
        <5>2. i \in ItemsOf(text.heap)
          BY <5>1, SoundType DEF Ready
        <5> QED BY <2>2, <4>2, <5>1, <5>2
      <4> HIDE DEF more, left
      <4>8. DOMAIN g = DOMAIN text /\ g.room = text.room /\ g.bad = text.bad
        BY <4>3, <4>4, <4>5
      <4>9. Ready(g, more, left \ {t}, refs) /\ Owners(g.heap) = Owners(text.heap)
        BY ONLY <4>6, <4>7, <4>8, ValueSet
      <4>10. left \ {t} = loose
        <5>1. loose \subseteq DOMAIN typed.heap
          BY <2>5, SoundType DEF Ready
        <5> QED BY <4>2, <5>1 DEF left, Grown
      <4> QED BY <1>5, <2>5, <3>1, <4>5, <4>9, <4>10 DEF Makes, more
    <3> QED BY <3>2, <3>3
  <2> QED BY <2>6, <2>7
<1> QED BY <1>4, <1>5

(* cJSON_SetValuestring writes a text over the old one, or puts a copy in  *)
(* its place and frees it.                                                 *)
LEMMA SetValuestringIs ==
  ASSUME NEW m, NEW held, NEW loose, NEW refs, Ready(m, held, loose, refs),
         NEW b \in ItemsOf(m.heap), ~m.heap[b].IsReference,
         NEW chars \in Seq(Byte), NEW g, g = cJSON_SetValuestring(m, b, chars)
  PROVE  Ready(g, held, loose, refs)
<1> DEFINE h == m.heap
           old == h[b].valuestring
           copy == cJSON_strdup(m, chars)
           m1 == Deallocate(copy, old)
           t == copy.ret
           put == [m1 EXCEPT !.heap[b].valuestring = t]
           over == [m EXCEPT !.heap[old].chars = chars]
           Fields == {"heap", "room", "fuel", "ret", "ok", "bad", "oom", "off", "depth"}
<1>1. DOMAIN m = Fields
  BY DEF Ready
<1>2. g = IF old = NULL THEN Fail(m)
          ELSE IF Len(chars) <= Len(Chars(h, old)) THEN over
          ELSE IF t = NULL THEN copy
          ELSE put
  BY Zenon DEF cJSON_SetValuestring
<1>3. PICK lists : MemoryIs(h, lists, held, loose)
  BY DEF Ready, Sound
<1>4. TextsOf(h, b) \subseteq DOMAIN h \ ItemsOf(h) /\ TextsOf(h, b) \cap loose = {}
  BY <1>3 DEF MemoryIs, TextsAre
<1>5. IsMap(h) /\ b \in DOMAIN h /\ h[b] \in ItemRecord
  <2> HIDE DEF h
  <2>1. b \in ItemsOf(h)
    BY DEF h
  <2> QED BY <1>3, <2>1, OldKeyIs DEF MemoryIs, IsMap
<1> HIDE DEF over, put, copy
<1>6. CASE old = NULL
  <2>1. g = [m EXCEPT !.ok = FALSE]
    BY <1>2, <1>6 DEF Fail
  <2>2. DOMAIN g = DOMAIN m /\ g.heap = m.heap /\ g.room = m.room /\ g.bad = m.bad
    BY <1>1, <2>1
  <2> QED BY <2>2, ReadyAgain
<1>7. CASE old # NULL /\ g = over
  <2> DEFINE k == g.heap
  <2>1. old \in DOMAIN h \ ItemsOf(h)
    BY <1>4, <1>7 DEF TextsOf
  <2>2. /\ k = [h EXCEPT ![old].chars = chars] /\ DOMAIN g = DOMAIN m /\ g.room = m.room /\ g.bad = m.bad
    BY <1>1, <1>7 DEF over
  <2> HIDE DEF k, h, old
  <2>3. MemoryIs(k, lists, held, loose) /\ ItemsOf(k) = ItemsOf(h)
    <3>1. h[old] \in [chars : Seq(Byte)]
      BY <1>3, <2>1, ItemsAre DEF MemoryIs, ItemsOf
    <3>2. [h[old] EXCEPT !.chars = chars] \in [chars : Seq(Byte)]
      BY <3>1
    <3>3. k[old] = [h[old] EXCEPT !.chars = chars]
      BY <2>1, <2>2
    <3>4. IsMap(k)
      BY <1>5, <2>2 DEF IsMap
    <3>5. DOMAIN k = DOMAIN h /\ k[old] \in [chars : Seq(Byte)] /\ \A x \in DOMAIN h : x # old => k[x] = h[x]
      BY <2>2, <3>2, <3>3
    <3> QED BY ONLY <1>3, <2>1, <3>4, <3>5, TextWritten
  <2>4. /\ MemoryIs(m.heap, lists, held, loose) /\ MemoryIs(g.heap, lists, held, loose)
        /\ ItemsOf(g.heap) = ItemsOf(m.heap) /\ Ready(m, held, loose, refs)
        /\ refs \subseteq refs \cap held /\ DOMAIN lists = DOMAIN lists
    BY <1>3, <2>3 DEF h, k, Ready, Sound
  <2> QED BY ONLY <2>2, <2>4, ReadyStep
<1>8. CASE old # NULL /\ g # over
  <2>1. /\ Owners(copy.heap) = Owners(m.heap) /\ ItemsOf(copy.heap) = ItemsOf(m.heap)
        /\ \/ t = NULL /\ copy.heap = m.heap /\ Ready(copy, held, loose, refs)
           \/ /\ t # NULL /\ Grown(m.heap, copy.heap, t)
              /\ Ready(copy, held, loose \cup {t}, refs)
    <3>1. copy = cJSON_strdup(m, chars) /\ chars \in Seq(Byte) /\ Ready(m, held, loose, refs)
      BY DEF copy
    <3> QED BY ONLY <3>1, StrdupIs
  <2>2. CASE t = NULL
    BY <1>2, <1>8, <2>1, <2>2
  <2>3. CASE t # NULL
    <3> DEFINE k == copy.heap
               l == g.heap
    <3>1. /\ Ready(copy, held, loose \cup {t}, refs) /\ g = put
          /\ t \notin DOMAIN h /\ DOMAIN k = DOMAIN h \cup {t} /\ \A x \in DOMAIN h : k[x] = h[x]
      BY <1>2, <1>8, <2>1, <2>3 DEF Grown
    <3>2. old \in DOMAIN h \ ItemsOf(h) /\ old \in DOMAIN k /\ b # old
      <4>1. old \in DOMAIN h \ ItemsOf(h)
        BY <1>4, <1>8 DEF TextsOf
      <4> QED BY <3>1, <4>1
    <3>3. DOMAIN copy = Fields /\ IsMap(k)
      <4>1. copy.heap = [x \in DOMAIN copy.heap |-> copy.heap[x]]
        <5> HIDE DEF k, l
        <5> QED BY <3>1, SoundType DEF Ready
      <4> QED BY <3>1, <4>1 DEF Ready, IsMap
    <3> DEFINE less == [x \in DOMAIN k \ {old} |-> k[x]]
    <3>4. m1 = [copy EXCEPT !.heap = less]
      BY <3>2 DEF Deallocate
    <3> HIDE DEF less
    <3>5. m1.heap = less /\ DOMAIN m1 = Fields /\ m1.room = copy.room /\ m1.bad = copy.bad
      BY <3>3, <3>4
    <3> HIDE DEF m1
    <3>6. /\ l = [less EXCEPT ![b].valuestring = t] /\ DOMAIN g = Fields
          /\ g.room = m1.room /\ g.bad = m1.bad
      BY <3>1, <3>5 DEF put
    <3>7. k[b] = h[b] /\ b \in DOMAIN less /\ less[b] = h[b] /\ DOMAIN less = DOMAIN k \ {old}
          /\ \A x \in DOMAIN less : less[x] = k[x]
      BY <1>5, <3>1, <3>2 DEF less
    <3>8. ValueChanged(k, l, b, t)
      <4>1. t \in Int
        <5>1. t \in DOMAIN copy.heap
          BY <3>1
        <5> QED BY <3>1, <5>1, SoundType DEF Ready
      <4>2. OldValue(k, b) = {old}
        BY <1>8, <3>7 DEF OldValue
      <4> DEFINE n == [h[b] EXCEPT !.valuestring = t]
      <4>3. /\ n \in ItemRecord /\ n.valuestring = t
            /\ n.next = h[b].next /\ n.prev = h[b].prev /\ n.child = h[b].child
            /\ n.string = h[b].string /\ n.StringIsConst = h[b].StringIsConst
            /\ n.IsReference = h[b].IsReference
        BY <1>5, <4>1 DEF ItemRecord
      <4>4. l[b] = n /\ DOMAIN l = DOMAIN less /\ IsMap(l) /\ \A x \in DOMAIN less : x # b => l[x] = less[x]
        <5>1. IsMap(less)
          BY DEF less, IsMap
        <5>2. l = [less EXCEPT ![b] = n]
          BY <3>6, <3>7
        <5> HIDE DEF l, n
        <5> QED BY <3>7, <5>1, <5>2 DEF IsMap
      <4> HIDE DEF k, l, n, h
      <4> QED BY <3>7, <4>2, <4>3, <4>4 DEF ValueChanged
    <3> DEFINE left == loose \cup {t}
    <3>9. /\ Ready(copy, held, left, refs) /\ t \in left
          /\ b \in ItemsOf(copy.heap) /\ ~copy.heap[b].IsReference
          /\ ValueChanged(copy.heap, g.heap, b, t)
      BY <2>1, <3>1, <3>7, <3>8
    <3>10. DOMAIN g = DOMAIN copy /\ g.room = copy.room /\ g.bad = copy.bad
      BY <3>3, <3>5, <3>6
    <3> HIDE DEF left
    <3>11. Ready(g, held, left \ {t}, refs)
      BY ONLY <3>9, <3>10, ValueSet
    <3>12. left \ {t} = loose
      <4>1. loose \subseteq DOMAIN h
        BY SoundType DEF Ready
      <4> QED BY <3>1, <4>1 DEF left
    <3> QED BY <3>11, <3>12
  <2> QED BY <2>2, <2>3
<1> QED BY <1>6, <1>7, <1>8

-----------------------------------------------------------------------------
(* The calls of the program. *)

(* Between two calls the program holds the roots and the lost references,  *)
(* and nothing is in a function's hands.                                   *)
IInv ==
  /\ Sound(heap, roots \cup lost, {}, lost)
  /\ roots \cap lost = {} /\ bad = FALSE
  /\ calls \in 0 .. MaxCalls /\ parsed.text \in Seq(Byte)

(* What is returned is not part of memory. *)
LEMMA ReadyFields ==
  ASSUME NEW m, NEW held, NEW loose, NEW refs, Ready(m, held, loose, refs), NEW p
  PROVE  /\ Ready([m EXCEPT !.ret = p], held, loose, refs)
         /\ [m EXCEPT !.ret = p].ok = m.ok
         /\ Ready(Void(m), held, loose, refs)
         /\ Ready(Return(m, p), held, loose, refs) /\ Return(m, p).ret = p
         /\ Ready(Fail(m), held, loose, refs) /\ ~Fail(m).ok
<1>1. DOMAIN m = {"heap", "room", "fuel", "ret", "ok", "bad", "oom", "off", "depth"}
  BY DEF Ready
<1> DEFINE a == [m EXCEPT !.ret = p]
           b == Void(m)
           c == Return(m, p)
           d == Fail(m)
<1>2. DOMAIN a = DOMAIN m /\ a.heap = m.heap /\ a.room = m.room /\ a.bad = m.bad /\ a.ok = m.ok
  BY <1>1
<1>3. DOMAIN b = DOMAIN m /\ b.heap = m.heap /\ b.room = m.room /\ b.bad = m.bad
  BY <1>1 DEF Void
<1>4. DOMAIN c = DOMAIN m /\ c.heap = m.heap /\ c.room = m.room /\ c.bad = m.bad /\ c.ret = p
  BY <1>1 DEF Return
<1>5. DOMAIN d = DOMAIN m /\ d.heap = m.heap /\ d.room = m.room /\ d.bad = m.bad /\ ~d.ok
  BY <1>1 DEF Fail
<1> HIDE DEF a, b, c, d
<1>6. Ready(a, held, loose, refs)
  BY <1>2, ReadyAgain
<1>7. Ready(b, held, loose, refs)
  BY <1>3, ReadyAgain
<1>8. Ready(c, held, loose, refs)
  BY <1>4, ReadyAgain
<1>9. Ready(d, held, loose, refs)
  BY <1>5, ReadyAgain
<1> QED BY <1>2, <1>4, <1>5, <1>6, <1>7, <1>8, <1>9 DEF a, b, c, d

(* A call begins with the memory as the last one left it. *)
LEMMA MemoryReady ==
  ASSUME IInv, NEW fuel
  PROVE  /\ Ready(Memory(fuel), roots \cup lost, {}, lost)
         /\ Memory(fuel).heap = heap
BY DEF IInv, Ready, Memory, Machine

(* And ends with a memory that the next one can begin with. *)
LEMMA Called ==
  ASSUME IInv, calls < MaxCalls, calls' = calls + 1, parsed' = NotParsed,
         NEW m, NEW op, NEW c, NEW at, NEW i, NEW key, Finish(op, c, at, i, key, m),
         NEW held, held = roots' \cup lost',
         Ready(m, held, {}, lost'), roots' \cap lost' = {}
  PROVE  IInv'
<1>1. heap' = m.heap /\ bad' = FALSE
  BY DEF Finish, IInv, Ready
<1>2. calls' \in 0 .. MaxCalls
  BY MaxCallsAssumption DEF IInv
<1>3. parsed'.text \in Seq(Byte)
  BY DEF NotParsed
<1>4. Sound(heap', roots' \cup lost', {}, lost')
  BY <1>1 DEF Ready
<1> QED BY <1>1, <1>2, <1>3, <1>4 DEF IInv

(* Most calls lose nothing. *)
LEMMA CalledKeep ==
  ASSUME IInv, calls < MaxCalls, Keep,
         NEW m, NEW op, NEW c, NEW at, NEW i, NEW key, Finish(op, c, at, i, key, m),
         Ready(m, roots' \cup lost, {}, lost), roots' \cap lost = {}
  PROVE  IInv'
<1> DEFINE held == roots' \cup lost'
<1>1. /\ calls' = calls + 1 /\ parsed' = NotParsed /\ lost' = lost
  BY DEF Keep
<1>2. /\ held = roots' \cup lost' /\ Ready(m, held, {}, lost') /\ roots' \cap lost' = {}
      /\ IInv /\ calls < MaxCalls /\ Finish(op, c, at, i, key, m)
  BY <1>1
<1> HIDE DEF held
<1> QED BY <1>1, <1>2, Called

(* What the program can pass. *)
LEMMA Passed ==
  ASSUME IInv
  PROVE  /\ \A type : Containers(type) \subseteq Owners(heap)
         /\ Items = ItemsOf(heap) /\ roots \subseteq ItemsOf(heap) /\ lost \subseteq ItemsOf(heap)
         /\ Kinds \subseteq Types /\ Values \subseteq Seq(Byte) /\ Keys \subseteq Seq(Byte)
         /\ \A i \in roots : /\ lost \ {i} = lost /\ (roots \cup lost) \ {i} = (roots \ {i}) \cup lost
                             /\ (roots \ {i}) \cap lost = {}
<1>1. Items = ItemsOf(heap)
  BY DEF Items, ItemsOf
<1>2. \A type : Containers(type) \subseteq Owners(heap)
  BY <1>1 DEF Containers, Owners
<1>3. roots \cup lost \subseteq ItemsOf(heap)
  BY SoundType DEF IInv
<1>4. Kinds \subseteq Types
  BY KindsAssumption DEF Types
<1>5. roots \cap lost = {}
  BY DEF IInv
<1> QED BY <1>1, <1>2, <1>3, <1>4, <1>5, TextsPassedAssumption

(* The result of a call that takes the item i from what was held, or fails. *)
Takes(g, i, held, refs) ==
  \/ ~g.ok /\ Ready(g, held, {}, refs)
  \/ g.ok /\ Ready(g, held \ {i}, {}, refs \ {i})

(* The result of a call that leaves a new item with the program, or fails. *)
Gives(g, held, refs) ==
  \/ g.ret = NULL /\ Ready(g, held, {}, refs)
  \/ g.ret # NULL /\ g.ret \notin held /\ Ready(g, held \cup {g.ret}, {}, refs)

(* A call that adds an item which the program held to a container. *)
LEMMA CalledTakes ==
  ASSUME IInv, calls < MaxCalls, Keep,
         NEW m, NEW op, NEW c, NEW at, NEW p, NEW key, Finish(op, c, at, p, key, m),
         NEW i \in roots, roots' = Held(m, i), Takes(m, i, roots \cup lost, lost)
  PROVE  IInv'
<1>1. lost \ {i} = lost /\ (roots \cup lost) \ {i} = (roots \ {i}) \cup lost /\ (roots \ {i}) \cap lost = {}
  BY Passed
<1>2. roots \cap lost = {}
  BY DEF IInv
<1>3. Ready(m, roots' \cup lost, {}, lost) /\ roots' \cap lost = {}
  <2>1. CASE ~m.ok /\ Ready(m, roots \cup lost, {}, lost)
    BY <1>2, <2>1 DEF Held
  <2>2. CASE m.ok /\ Ready(m, (roots \cup lost) \ {i}, {}, lost \ {i})
    <3>1. roots' = roots \ {i}
      BY <2>2 DEF Held
    <3> QED BY <1>1, <2>2, <3>1
  <2> QED BY <2>1, <2>2 DEF Takes
<1> QED BY <1>3, CalledKeep

(* A call that gives the program a new item to hold. *)
LEMMA CalledGives ==
  ASSUME IInv, calls < MaxCalls, Keep,
         NEW m, NEW op, NEW c, NEW at, NEW p, NEW key, Finish(op, c, at, p, key, m),
         roots' = New(m), Gives(m, roots \cup lost, lost)
  PROVE  IInv'
<1>1. roots \cap lost = {}
  BY DEF IInv
<1>2. Ready(m, roots' \cup lost, {}, lost) /\ roots' \cap lost = {}
  <2>1. CASE m.ret = NULL /\ Ready(m, roots \cup lost, {}, lost)
    BY <1>1, <2>1 DEF New
  <2>2. CASE m.ret # NULL /\ m.ret \notin roots \cup lost /\ Ready(m, (roots \cup lost) \cup {m.ret}, {}, lost)
    <3>1. roots' = roots \cup {m.ret}
      BY <2>2 DEF New
    <3>2. (roots \cup lost) \cup {m.ret} = roots' \cup lost /\ roots' \cap lost = {}
      BY <1>1, <2>2, <3>1
    <3> QED BY <2>2, <3>2
  <2> QED BY <2>1, <2>2 DEF Gives
<1> QED BY <1>2, CalledKeep

(* A call that leaves the program what it had. *)
LEMMA CalledSame ==
  ASSUME IInv, calls < MaxCalls, Keep,
         NEW m, NEW op, NEW c, NEW at, NEW p, NEW key, Finish(op, c, at, p, key, m),
         roots' = roots, Ready(m, roots \cup lost, {}, lost)
  PROVE  IInv'
<1>1. roots \cap lost = {}
  BY DEF IInv
<1>2. Ready(m, roots' \cup lost, {}, lost)
  OBVIOUS
<1> QED BY <1>1, <1>2, CalledKeep

(* cJSON_Create... *)
LEMMA CreateItemKeeps ==
  ASSUME IInv, calls < MaxCalls, NEW type \in Kinds, NEW chars \in Values, NEW fuel,
         CreateItem(type, chars, fuel)
  PROVE  IInv'
<1> DEFINE m == Create(Memory(fuel), type, chars)
<1>1. Ready(Memory(fuel), roots \cup lost, {}, lost)
  BY MemoryReady
<1>2. type \in Types /\ chars \in Seq(Byte)
  BY Passed
<1>3. Makes(Memory(fuel), m, roots \cup lost, {}, lost)
  BY <1>1, <1>2, CreateIs
<1>4. Finish("create", NULL, 0, NULL, NoKey, m) /\ roots' = New(m) /\ Keep
  BY DEF CreateItem, Made
<1> HIDE DEF m
<1>5. Gives(m, roots \cup lost, lost)
  BY <1>3 DEF Makes, Gives
<1> QED BY <1>4, <1>5, CalledGives

(* cJSON_SetValuestring. *)
LEMMA SetValuestringKeeps ==
  ASSUME IInv, calls < MaxCalls, NEW i \in Items \ lost, NEW chars \in Values, NEW fuel,
         SetValuestring(i, chars, fuel)
  PROVE  IInv'
<1> DEFINE m == cJSON_SetValuestring(Memory(fuel), i, chars)
           n == [m EXCEPT !.ret = NULL]
<1>1. Ready(Memory(fuel), roots \cup lost, {}, lost) /\ Memory(fuel).heap = heap
  BY MemoryReady
<1>2. i \in ItemsOf(Memory(fuel).heap) /\ chars \in Seq(Byte)
  BY <1>1, Passed
<1>3. ~Memory(fuel).heap[i].IsReference
  BY <1>1 DEF SetValuestring
<1>4. Ready(m, roots \cup lost, {}, lost)
  BY <1>1, <1>2, <1>3, SetValuestringIs
<1>5. Finish("set", NULL, 0, i, chars, n) /\ roots' = roots /\ Keep
  BY DEF SetValuestring
<1> HIDE DEF m
<1>6. Ready(n, roots \cup lost, {}, lost)
  BY <1>4, ReadyFields
<1> HIDE DEF n
<1> QED BY <1>5, <1>6, CalledSame

(* cJSON_AddItemToArray. *)
LEMMA AddToArrayKeeps ==
  ASSUME IInv, calls < MaxCalls, NEW c \in Owners(heap), NEW i \in roots, AddToArray(c, i)
  PROVE  IInv'
<1> DEFINE m == add_item_to_array(Memory(0), c, i)
<1>1. Ready(Memory(0), roots \cup lost, {}, lost) /\ Memory(0).heap = heap
  BY MemoryReady
<1>2. c \in Owners(Memory(0).heap) /\ i \in roots \cup lost
  BY <1>1
<1>3. \/ ~m.ok /\ Ready(m, roots \cup lost, {}, lost)
      \/ m.ok /\ Ready(m, (roots \cup lost) \ {i}, {}, lost \ {i})
  BY <1>1, <1>2, AddToArrayIs
<1>4. Finish("insert", c, cJSON_GetArraySize(c), i, NoKey, m) /\ roots' = Held(m, i) /\ Keep
  BY DEF AddToArray
<1> HIDE DEF m
<1>5. Takes(m, i, roots \cup lost, lost)
  BY <1>3 DEF Takes
<1> QED BY <1>4, <1>5, CalledTakes

(* cJSON_AddItemToObject and ...ToObjectCS. *)
LEMMA AddToObjectKeeps ==
  ASSUME IInv, calls < MaxCalls, NEW c \in Owners(heap), NEW i \in roots, NEW key \in Keys,
         NEW constant_key, IsFlag(constant_key), NEW fuel, AddToObject(c, i, key, constant_key, fuel)
  PROVE  IInv'
<1> DEFINE m == add_item_to_object(Memory(fuel), c, key, i, constant_key)
<1>1. Ready(Memory(fuel), roots \cup lost, {}, lost) /\ Memory(fuel).heap = heap
  BY MemoryReady
<1>2. /\ c \in Owners(Memory(fuel).heap) /\ (i = NULL \/ i \in roots \cup lost)
      /\ key \in Seq(Byte)
  BY <1>1, Passed
<1>3. \/ ~m.ok /\ Ready(m, roots \cup lost, {}, lost)
      \/ m.ok /\ Ready(m, (roots \cup lost) \ {i}, {}, lost \ {i})
  BY <1>1, <1>2, AddToObjectIs
<1>4. Finish("put", c, cJSON_GetArraySize(c), i, key, m) /\ roots' = Held(m, i) /\ Keep
  BY DEF AddToObject
<1> HIDE DEF m
<1>5. Takes(m, i, roots \cup lost, lost)
  BY <1>3 DEF Takes
<1> QED BY <1>4, <1>5, CalledTakes

(* cJSON_InsertItemInArray. *)
LEMMA InsertInArrayKeeps ==
  ASSUME IInv, calls < MaxCalls, NEW c \in Owners(heap), NEW i \in roots, NEW which \in Nat,
         InsertInArray(c, which, i)
  PROVE  IInv'
<1> DEFINE m == Insert(Memory(0), c, which, i)
<1>1. Ready(Memory(0), roots \cup lost, {}, lost) /\ Memory(0).heap = heap
  BY MemoryReady
<1>2. c \in Owners(Memory(0).heap) /\ i \in roots \cup lost
  BY <1>1
<1>3. \/ ~m.ok /\ Ready(m, roots \cup lost, {}, lost)
      \/ m.ok /\ Ready(m, (roots \cup lost) \ {i}, {}, lost \ {i})
  BY <1>1, <1>2, InsertInArrayIs
<1>4. Finish("insert", c, which, i, NoKey, m) /\ roots' = Held(m, i) /\ Keep
  BY DEF InsertInArray
<1> HIDE DEF m
<1>5. Takes(m, i, roots \cup lost, lost)
  BY <1>3 DEF Takes
<1> QED BY <1>4, <1>5, CalledTakes

(* cJSON_ReplaceItemInArray. *)
LEMMA ReplaceInArrayKeeps ==
  ASSUME IInv, calls < MaxCalls, NEW c \in Owners(heap), NEW i \in roots, NEW which \in Nat,
         ReplaceInArray(c, which, i)
  PROVE  IInv'
<1> DEFINE item == get_array_item(Memory(0), c, which)
           m == ReplaceItem(Memory(0), c, item, i)
<1>1. Ready(Memory(0), roots \cup lost, {}, lost) /\ Memory(0).heap = heap
  BY MemoryReady
<1>2. c \in Owners(Memory(0).heap) /\ i \in roots \cup lost
  BY <1>1
<1>3. NullOrChild(Memory(0).heap, c, item)
  BY <1>1, <1>2, LookUpsAre
<1>4. Finish("replace", c, which, i, NoKey, m) /\ roots' = Held(m, i) /\ Keep
  BY DEF ReplaceInArray
<1> HIDE DEF item
<1>5. \/ ~m.ok /\ Ready(m, roots \cup lost, {}, lost)
      \/ m.ok /\ Ready(m, (roots \cup lost) \ {i}, {}, lost \ {i})
  BY <1>1, <1>2, <1>3, ReplaceItemIs
<1> HIDE DEF m
<1>6. Takes(m, i, roots \cup lost, lost)
  BY <1>5 DEF Takes
<1> QED BY <1>4, <1>6, CalledTakes

(* cJSON_ReplaceItemInObject and ...InObjectCaseSensitive. *)
LEMMA ReplaceInObjectKeeps ==
  ASSUME IInv, calls < MaxCalls, NEW c \in Owners(heap), NEW i \in roots, NEW key \in Keys,
         NEW case_sensitive \in BOOLEAN, NEW fuel, ReplaceInObject(c, i, key, case_sensitive, fuel)
  PROVE  IInv'
<1> DEFINE m == replace_item_in_object(Memory(fuel), c, key, i, case_sensitive)
           old == get_object_item(Memory(0), c, key, case_sensitive)
<1>1. Ready(Memory(fuel), roots \cup lost, {}, lost) /\ Memory(fuel).heap = heap
  BY MemoryReady
<1>2. c \in Owners(Memory(fuel).heap) /\ i \in roots \cup lost /\ key \in Seq(Byte)
  BY <1>1, Passed
<1>3. \/ ~m.ok /\ Ready(m, roots \cup lost, {}, lost)
      \/ m.ok /\ Ready(m, (roots \cup lost) \ {i}, {}, lost \ {i})
  BY <1>1, <1>2, ReplaceInObjectIs
<1>4. Finish("replace", c, IndexOf(c, old), i, key, m) /\ roots' = Held(m, i) /\ Keep
  BY DEF ReplaceInObject
<1> HIDE DEF m
<1>5. Takes(m, i, roots \cup lost, lost)
  BY <1>3 DEF Takes
<1> QED BY <1>4, <1>5, CalledTakes

(* cJSON_AddItemToObject of an item that was just made: NULL is refused. *)
LEMMA PutNewIs ==
  ASSUME NEW m, NEW held, NEW refs, Ready(m, held, {}, refs),
         NEW c \in Owners(m.heap), NEW item, NEW key \in Seq(Byte),
         NEW g, g = add_item_to_object(m, c, key, item, FALSE)
  PROVE  /\ item = NULL => g = Fail(m)
         /\ item \in held => Takes(g, item, held, refs)
<1>1. item = NULL => g = Fail(m)
  BY DEF add_item_to_object
<1>2. ASSUME item \in held PROVE Takes(g, item, held, refs)
  <2>1. PICK flag : flag = FALSE
    OBVIOUS
  <2>2. IsFlag(flag) /\ g = add_item_to_object(m, c, key, item, flag)
    BY <2>1, Zenon DEF IsFlag
  <2>3. \/ ~g.ok /\ Ready(g, held, {}, refs)
        \/ g.ok /\ item \in held /\ Ready(g, held \ {item}, {}, refs \ {item})
    BY <1>2, <2>2, AddToObjectIs
  <2> QED BY <2>3 DEF Takes
<1> QED BY <1>1, <1>2

(* cJSON_AddNullToObject and the like. *)
LEMMA AddNewToObjectKeeps ==
  ASSUME IInv, calls < MaxCalls, NEW c \in Owners(heap), NEW type \in Kinds, NEW chars \in Values,
         NEW key \in Keys, NEW fuel, AddNewToObject(c, type, chars, key, fuel)
  PROVE  IInv'
<1> DEFINE R == roots \cup lost
           m0 == Memory(fuel)
           new == Create(m0, type, chars)
           r == new.ret
           m == add_item_to_object(new, c, key, r, FALSE)
           deleted == cJSON_Delete(m, r)
           done == IF m.ok THEN Return(m, r) ELSE Return(deleted, NULL)
<1>1. Ready(m0, R, {}, lost) /\ m0.heap = heap
  BY MemoryReady
<1>2. type \in Types /\ chars \in Seq(Byte) /\ key \in Seq(Byte) /\ c \in Owners(m0.heap) /\ lost \subseteq R
  BY <1>1, Passed
<1> HIDE DEF m0
<1>3. Makes(m0, new, R, {}, lost)
  BY <1>1, <1>2, CreateIs
<1>4. Finish("new", c, 0, NULL, key, done) /\ roots' = roots /\ Keep
  BY DEF AddNewToObject, m0
<1> HIDE DEF new, m, deleted, R
<1>5. Ready(done, R, {}, lost)
  <2>1. CASE r = NULL
    <3>1. Ready(new, R, {}, lost)
      BY <1>3, <2>1 DEF Makes
    <3>2. m = Fail(new)
      BY <2>1 DEF m, add_item_to_object
    <3>3. Ready(m, R, {}, lost) /\ ~m.ok
      BY <3>1, <3>2, ReadyFields
    <3>4. deleted = cJSON_Delete(m, NULL)
      BY <2>1 DEF deleted
    <3>5. Ready(deleted, R, {}, lost)
      BY ONLY <3>3, <3>4, DeleteNull
    <3>6. Ready(Return(deleted, NULL), R, {}, lost)
      BY ONLY <3>5, ReadyFields
    <3> QED BY <3>3, <3>6
  <2>2. CASE r # NULL
    <3>1. /\ r \notin R /\ Ready(new, R \cup {r}, {}, lost) /\ r \in R \cup {r}
          /\ c \in Owners(new.heap)
      BY <1>2, <1>3, <2>2 DEF Makes
    <3>2. m = add_item_to_object(new, c, key, r, FALSE)
      BY DEF m
    <3>3. Takes(m, r, R \cup {r}, lost)
      BY ONLY <1>2, <3>1, <3>2, PutNewIs
    <3>4. (R \cup {r}) \ {r} = R /\ lost \ {r} = lost
      BY <1>2, <3>1
    <3>5. CASE m.ok
      <4>1. Ready(m, R, {}, lost)
        BY <3>3, <3>4, <3>5 DEF Takes
      <4>2. Ready(Return(m, r), R, {}, lost)
        BY ONLY <4>1, ReadyFields
      <4> QED BY <3>5, <4>2
    <3>6. CASE ~m.ok
      <4>1. Ready(m, R \cup {r}, {}, lost)
        BY <3>3, <3>6 DEF Takes
      <4>2. deleted = cJSON_Delete(m, r)
        BY DEF deleted
      <4>3. Ready(deleted, (R \cup {r}) \ {r}, {}, lost \ {r})
        BY ONLY <3>1, <4>1, <4>2, DeleteHeld
      <4>4. Ready(Return(deleted, NULL), R, {}, lost)
        BY ONLY <3>4, <4>3, ReadyFields
      <4> QED BY <3>6, <4>4
    <3> QED BY <3>5, <3>6
  <2> QED BY <2>1, <2>2
<1> HIDE DEF done
<1> QED BY <1>4, <1>5, CalledSame DEF R

(* cJSON_AddItemReferenceToArray: a reference is not the container that it *)
(* is added to, so it is always added.                                     *)
LEMMA AddReferenceToArrayKeeps ==
  ASSUME IInv, calls < MaxCalls, NEW c \in Owners(heap), NEW i \in Items, NEW fuel,
         AddReferenceToArray(c, i, fuel)
  PROVE  IInv'
<1> DEFINE R == roots \cup lost
           m0 == Memory(fuel)
           new == create_reference(m0, i)
           r == new.ret
           m == add_item_to_array(new, c, r)
           done == [m EXCEPT !.ret = NULL]
<1>1. Ready(m0, R, {}, lost) /\ m0.heap = heap
  BY MemoryReady
<1>2. i \in ItemsOf(m0.heap) /\ c \in Owners(m0.heap) /\ lost \subseteq R
  BY <1>1, Passed
<1> HIDE DEF m0
<1>3. Makes(m0, new, R, {}, lost) /\ (r # NULL => new.heap[r].IsReference)
  BY <1>1, <1>2, CreateReferenceIs
<1>4. Finish("refer", c, 0, NULL, NoKey, done) /\ roots' = roots /\ Keep
  BY DEF AddReferenceToArray, m0
<1> HIDE DEF new, m, R
<1>5. Ready(m, R, {}, lost)
  <2>1. CASE r = NULL
    <3>1. Ready(new, R, {}, lost)
      BY <1>3, <2>1 DEF Makes
    <3>2. m = Fail(new)
      BY <2>1 DEF m, add_item_to_array
    <3> QED BY <3>1, <3>2, ReadyFields
  <2>2. CASE r # NULL
    <3> DEFINE S == R \cup {r}
    <3>1. /\ r \notin R /\ Ready(new, S, {}, lost) /\ r \in S
          /\ c \in Owners(new.heap) /\ c # r
      BY <1>2, <1>3, <2>2 DEF Makes, Owners
    <3>2. m = add_item_to_array(new, c, r)
      BY DEF m
    <3>3. S \ {r} = R /\ lost \ {r} = lost
      BY <1>2, <3>1
    <3> HIDE DEF S
    <3>4. \/ ~m.ok /\ (r = NULL \/ c = r) /\ Ready(m, S, {}, lost)
          \/ m.ok /\ r \in S /\ Ready(m, S \ {r}, {}, lost \ {r})
      <4>1. PICK x : x = r
        OBVIOUS
      <4>2. /\ x \in S /\ (x = NULL \/ x \in S) /\ m = add_item_to_array(new, c, x)
            /\ Ready(new, S, {}, lost) /\ c \in Owners(new.heap)
        BY <3>1, <3>2, <4>1
      <4>3. \/ ~m.ok /\ (x = NULL \/ c = x) /\ Ready(m, S, {}, lost)
            \/ m.ok /\ x \in S /\ Ready(m, S \ {x}, {}, lost \ {x})
        BY <4>2, AddToArrayIs
      <4> QED BY <4>1, <4>3
    <3> QED BY <2>2, <3>1, <3>3, <3>4
  <2> QED BY <2>1, <2>2
<1>6. Ready(done, R, {}, lost)
  BY <1>5, ReadyFields
<1> HIDE DEF done
<1> QED BY <1>4, <1>6, CalledSame DEF R

(* More references may be counted among those that are held. *)
LEMMA ReadyRefs ==
  ASSUME NEW m, NEW held, NEW loose, NEW refs, Ready(m, held, loose, refs),
         NEW r \in held, m.heap[r].IsReference
  PROVE  Ready(m, held, loose, refs \cup {r})
BY DEF Ready, Sound

(* cJSON_AddItemReferenceToObject: a reference that got no key is lost. *)
LEMMA AddReferenceToObjectKeeps ==
  ASSUME IInv, calls < MaxCalls, NEW c \in Owners(heap), NEW i \in Items, NEW key \in Keys, NEW fuel,
         AddReferenceToObject(c, i, key, fuel)
  PROVE  IInv'
<1> DEFINE R == roots \cup lost
           m0 == Memory(fuel)
           new == create_reference(m0, i)
           r == new.ret
           m == add_item_to_object(new, c, key, r, FALSE)
           done == [m EXCEPT !.ret = NULL]
           left == IF m.ok \/ r = NULL THEN {} ELSE {r}
<1>1. Ready(m0, R, {}, lost) /\ m0.heap = heap
  BY MemoryReady
<1>2. /\ i \in ItemsOf(m0.heap) /\ c \in Owners(m0.heap) /\ key \in Seq(Byte) /\ lost \subseteq R
      /\ roots \cap lost = {}
  BY <1>1, Passed DEF IInv
<1> HIDE DEF m0
<1>3. Makes(m0, new, R, {}, lost) /\ (r # NULL => new.heap[r].IsReference)
  BY <1>1, <1>2, CreateReferenceIs
<1>4. /\ Finish("refer", c, 0, NULL, key, done) /\ calls' = calls + 1 /\ parsed' = NotParsed
      /\ roots' = roots /\ lost' = lost \cup left
  BY DEF AddReferenceToObject, m0
<1> HIDE DEF new, m
<1>5. Ready(m, R \cup left, {}, lost \cup left) /\ roots \cap (lost \cup left) = {}
  <2>1. CASE r = NULL
    <3>1. Ready(new, R, {}, lost)
      BY <1>3, <2>1 DEF Makes
    <3>2. m = Fail(new)
      BY <2>1 DEF m, add_item_to_object
    <3>3. Ready(m, R, {}, lost)
      BY <3>1, <3>2, ReadyFields
    <3>4. R \cup left = R /\ lost \cup left = lost
      BY <2>1
    <3> QED BY <1>2, <3>3, <3>4
  <2>2. CASE r # NULL
    <3> HIDE DEF left
    <3> DEFINE S == R \cup {r}
               L == lost \cup {r}
    <3>1. /\ r \notin R /\ Ready(new, S, {}, lost) /\ c \in Owners(new.heap) /\ r \in S
      BY <1>2, <1>3, <2>2 DEF Makes
    <3>2. new.heap[r].IsReference
      BY <1>3, <2>2
    <3> HIDE DEF R, S
    <3>3. Ready(new, S, {}, L)
      BY <3>1, <3>2, ReadyRefs
    <3> HIDE DEF L
    <3>4. m = add_item_to_object(new, c, key, r, FALSE)
      BY DEF m
    <3>5. Takes(m, r, S, L)
      BY ONLY <1>2, <3>1, <3>3, <3>4, PutNewIs
    <3>6. CASE m.ok
      <4>1. Ready(m, S \ {r}, {}, L \ {r})
        BY <3>5, <3>6 DEF Takes
      <4>2. left = {}
        BY <3>6 DEF left
      <4>3. S \ {r} = R \cup left /\ L \ {r} = lost \cup left
        BY <1>2, <3>1, <4>2 DEF S, L
      <4>4. roots \cap (lost \cup left) = {}
        BY <1>2, <4>2
      <4> QED BY <4>1, <4>3, <4>4
    <3>7. CASE ~m.ok
      <4>1. Ready(m, S, {}, L)
        BY <3>5, <3>7 DEF Takes
      <4>2. left = {r}
        BY <2>2, <3>7 DEF left
      <4>3. S = R \cup left /\ L = lost \cup left
        BY <4>2 DEF S, L
      <4>4. roots \cap (lost \cup left) = {}
        BY <1>2, <3>1, <4>2 DEF R
      <4> QED BY <4>1, <4>3, <4>4
    <3> QED BY <3>6, <3>7
  <2> QED BY <2>1, <2>2
<1>6. Ready(done, R \cup left, {}, lost \cup left)
  BY <1>5, ReadyFields
<1>7. R \cup left = roots' \cup lost'
  BY <1>4
<1> DEFINE all == R \cup left
<1>8. all = roots' \cup lost' /\ Ready(done, all, {}, lost') /\ roots' \cap lost' = {}
  BY <1>4, <1>5, <1>6, <1>7
<1> HIDE DEF all, done
<1> QED BY <1>4, <1>8, Called

(* cJSON_DetachItemFrom..., of what a look-up found. *)
LEMMA TakeOutKeeps ==
  ASSUME IInv, calls < MaxCalls, NEW c \in Owners(heap), NEW item, NullOrChild(heap, c, item),
         TakeOut(c, item)
  PROVE  IInv'
<1> DEFINE m == Detach(Memory(0), c, item)
<1>1. Ready(Memory(0), roots \cup lost, {}, lost) /\ Memory(0).heap = heap
  BY MemoryReady
<1>2. c \in Owners(Memory(0).heap) /\ NullOrChild(Memory(0).heap, c, item)
  BY <1>1
<1>3. \/ m.ret = NULL /\ Ready(m, roots \cup lost, {}, lost)
      \/ m.ret # NULL /\ m.ret \notin roots \cup lost /\ Ready(m, (roots \cup lost) \cup {m.ret}, {}, lost)
  BY <1>1, <1>2, DetachFrom
<1>4. Finish("detach", c, IndexOf(c, item), NULL, NoKey, m) /\ roots' = New(m) /\ Keep
  BY DEF TakeOut
<1> HIDE DEF m
<1>5. Gives(m, roots \cup lost, lost)
  BY <1>3 DEF Gives
<1> QED BY <1>4, <1>5, CalledGives

(* cJSON_DeleteItemFrom..., of what a look-up found. *)
LEMMA DeleteFromKeeps ==
  ASSUME IInv, calls < MaxCalls, NEW c \in Owners(heap), NEW item, NullOrChild(heap, c, item),
         DeleteFrom(c, item)
  PROVE  IInv'
<1> DEFINE R == roots \cup lost
           m == Detach(Memory(0), c, item)
           r == m.ret
           deleted == cJSON_Delete(m, r)
           done == Void(deleted)
<1>1. Ready(Memory(0), R, {}, lost) /\ Memory(0).heap = heap
  BY MemoryReady
<1>2. c \in Owners(Memory(0).heap) /\ NullOrChild(Memory(0).heap, c, item) /\ lost \subseteq R
  BY <1>1
<1>3. \/ r = NULL /\ Ready(m, R, {}, lost)
      \/ r # NULL /\ r \notin R /\ Ready(m, R \cup {r}, {}, lost)
  BY <1>1, <1>2, DetachFrom
<1>4. Finish("deleteAt", c, IndexOf(c, item), NULL, NoKey, done) /\ roots' = roots /\ Keep
  BY DEF DeleteFrom
<1> HIDE DEF m, R
<1>5. Ready(deleted, R, {}, lost)
  <2>1. CASE r = NULL
    <3>1. deleted = cJSON_Delete(m, NULL)
      BY <2>1
    <3> HIDE DEF deleted
    <3>2. Ready(m, R, {}, lost)
      BY <1>3, <2>1
    <3> QED BY ONLY <3>1, <3>2, DeleteNull
  <2>2. CASE r # NULL
    <3> DEFINE S == R \cup {r}
    <3>1. Ready(m, S, {}, lost) /\ r \in S
      BY <1>3, <2>2
    <3>2. S \ {r} = R /\ lost \ {r} = lost
      BY <1>2, <1>3, <2>2
    <3> HIDE DEF S
    <3>3. Ready(deleted, S \ {r}, {}, lost \ {r})
      BY <3>1, DeleteHeld
    <3> QED BY <3>2, <3>3
  <2> QED BY <2>1, <2>2
<1> HIDE DEF deleted
<1>6. Ready(done, R, {}, lost)
  BY <1>5, ReadyFields
<1> HIDE DEF done
<1> QED BY <1>4, <1>6, CalledSame DEF R

(* cJSON_Delete of what the program holds. *)
LEMMA DeleteKeeps ==
  ASSUME IInv, calls < MaxCalls, NEW i \in roots, Delete(i)
  PROVE  IInv'
<1> DEFINE R == roots \cup lost
           m0 == Memory(0)
           m == cJSON_Delete(m0, i)
           done == Void(m)
<1>1. Ready(m0, R, {}, lost) /\ i \in R
  BY MemoryReady
<1>2. /\ Finish("delete", NULL, 0, i, NoKey, done) /\ roots' = roots \ {i} /\ Keep
      /\ R \ {i} = roots' \cup lost /\ lost \ {i} = lost /\ roots' \cap lost = {}
  BY Passed DEF Delete
<1> HIDE DEF m0, R
<1>3. Ready(m, R \ {i}, {}, lost \ {i})
  BY <1>1, DeleteHeld
<1> HIDE DEF m
<1>4. Ready(m, roots' \cup lost, {}, lost)
  BY <1>2, <1>3
<1> DEFINE held == roots' \cup lost
<1>5. Ready(m, held, {}, lost)
  BY <1>4
<1> HIDE DEF held
<1>6. Ready(done, held, {}, lost)
  BY <1>5, ReadyFields
<1> HIDE DEF done
<1>7. Ready(done, roots' \cup lost, {}, lost) /\ roots \cap lost = {}
  BY <1>6 DEF held, IInv
<1> QED BY <1>2, <1>7, CalledKeep

(* What a look-up finds is the child of the container, or nothing. *)
LEMMA FoundIs ==
  ASSUME IInv, NEW c \in Owners(heap)
  PROVE  /\ \A index \in Nat : NullOrChild(heap, c, get_array_item(Memory(0), c, index))
         /\ \A key, flag : NullOrChild(heap, c, Found(c, key, flag))
         /\ \A which \in 0 .. cJSON_GetArraySize(c) : which \in Nat
<1>1. Ready(Memory(0), roots \cup lost, {}, lost) /\ Memory(0).heap = heap
  BY MemoryReady
<1>2. c \in Owners(Memory(0).heap)
  BY <1>1
<1>3. /\ \A index \in Nat : NullOrChild(Memory(0).heap, c, get_array_item(Memory(0), c, index))
      /\ \A name, case_sensitive :
           NullOrChild(Memory(0).heap, c, get_object_item(Memory(0), c, name, case_sensitive))
  BY <1>1, <1>2, LookUpsAre
<1>4. cJSON_GetArraySize(c) \in Nat
  <2>1. PICK lists : MemoryIs(heap, lists, roots \cup lost, {})
    BY DEF IInv, Sound
  <2>2. c \in DOMAIN lists /\ lists[c] \in Seq(ItemsOf(heap))
    BY <2>1 DEF MemoryIs, ListsAre, ItemsOf
  <2>3. Children(heap, c) = lists[c]
    BY <2>1, <2>2, ChildrenAre
  <2>4. Len(lists[c]) \in Nat
    BY <2>2
  <2> QED BY <2>3, <2>4 DEF cJSON_GetArraySize
<1> QED BY <1>1, <1>3, <1>4 DEF Found

(* Every call keeps memory in order, in whatever state that is in order    *)
(* the program makes it: also with trees that it parsed or duplicated.     *)
THEOREM RearrangeKeeps ==
  ASSUME IInv, calls < MaxCalls, Rearrange
  PROVE  IInv'
<1>1. \A type : Containers(type) \subseteq Owners(heap)
  BY Passed
<1>2. \A flag \in BOOLEAN : IsFlag(flag)
  BY DEF IsFlag
<1>3. \A c \in Owners(heap) :
        /\ \A which \in 0 .. cJSON_GetArraySize(c) :
             which \in Nat /\ NullOrChild(heap, c, get_array_item(Memory(0), c, which))
        /\ \A key, flag : NullOrChild(heap, c, Found(c, key, flag))
  BY FoundIs
<1>4. ASSUME NEW fuel \in Fuels, NEW type \in Kinds, NEW chars \in Values, CreateItem(type, chars, fuel)
      PROVE  IInv'
  BY <1>4, CreateItemKeeps
<1>5. ASSUME NEW fuel \in Fuels, NEW i \in Items \ lost, NEW chars \in Values,
             SetValuestring(i, chars, fuel)
      PROVE  IInv'
  BY <1>5, SetValuestringKeeps
<1>6. ASSUME NEW fuel \in Fuels, NEW i \in Items \ lost, NEW c \in Containers("Array"),
             AddReferenceToArray(c, i, fuel)
      PROVE  IInv'
  BY <1>1, <1>6, AddReferenceToArrayKeeps
<1>7. ASSUME NEW fuel \in Fuels, NEW i \in Items \ lost, NEW c \in Containers("Object"),
             NEW key \in Keys, AddReferenceToObject(c, i, key, fuel)
      PROVE  IInv'
  BY <1>1, <1>7, AddReferenceToObjectKeeps
<1>8. ASSUME NEW fuel \in Fuels, NEW c \in Containers("Object"), NEW key \in Keys,
             NEW type \in Kinds, NEW chars \in Values, AddNewToObject(c, type, chars, key, fuel)
      PROVE  IInv'
  BY <1>1, <1>8, AddNewToObjectKeeps
<1>9. ASSUME NEW fuel \in Fuels, NEW c \in Containers("Object"), NEW key \in Keys,
             NEW i \in roots, NEW flag \in BOOLEAN, AddToObject(c, i, key, flag, fuel)
      PROVE  IInv'
  BY <1>1, <1>2, <1>9, AddToObjectKeeps
<1>10. ASSUME NEW fuel \in Fuels, NEW c \in Containers("Object"), NEW key \in Keys,
              NEW i \in roots, NEW flag \in BOOLEAN, ReplaceInObject(c, i, key, flag, fuel)
       PROVE  IInv'
  BY <1>1, <1>10, ReplaceInObjectKeeps
<1>11. ASSUME NEW c \in Containers("Array"), NEW i \in roots, AddToArray(c, i)
       PROVE  IInv'
  BY <1>1, <1>11, AddToArrayKeeps
<1>12. ASSUME NEW c \in Containers("Array"), NEW i \in roots,
              NEW which \in 0 .. cJSON_GetArraySize(c), InsertInArray(c, which, i)
       PROVE  IInv'
  BY <1>1, <1>3, <1>12, InsertInArrayKeeps
<1>13. ASSUME NEW c \in Containers("Array"), NEW i \in roots,
              NEW which \in 0 .. cJSON_GetArraySize(c), ReplaceInArray(c, which, i)
       PROVE  IInv'
  BY <1>1, <1>3, <1>13, ReplaceInArrayKeeps
<1>14. ASSUME NEW c \in Containers("Array") \union Containers("Object"),
              NEW which \in 0 .. cJSON_GetArraySize(c), NEW item,
              item = get_array_item(Memory(0), c, which), TakeOut(c, item) \/ DeleteFrom(c, item)
       PROVE  IInv'
  <2>1. c \in Owners(heap)
    BY <1>1
  <2>2. NullOrChild(heap, c, item)
    BY <1>3, <1>14, <2>1
  <2> QED BY <1>14, <2>1, <2>2, TakeOutKeeps, DeleteFromKeeps
<1>15. ASSUME NEW c \in Containers("Object"), NEW key \in Keys, NEW flag \in BOOLEAN,
              TakeOut(c, Found(c, key, flag)) \/ DeleteFrom(c, Found(c, key, flag))
       PROVE  IInv'
  <2>1. c \in Owners(heap)
    BY <1>1
  <2> DEFINE item == Found(c, key, flag)
  <2>2. NullOrChild(heap, c, item)
    BY <1>3, <2>1
  <2>3. TakeOut(c, item) \/ DeleteFrom(c, item)
    BY <1>15
  <2> HIDE DEF item
  <2> QED BY <2>1, <2>2, <2>3, TakeOutKeeps, DeleteFromKeeps
<1>16. ASSUME NEW i \in roots, Delete(i)
       PROVE  IInv'
  BY <1>16, DeleteKeeps
<1> QED BY <1>4, <1>5, <1>6, <1>7, <1>8, <1>9, <1>10, <1>11, <1>12, <1>13, <1>14, <1>15, <1>16
        DEF Rearrange

(* The program begins with no memory allocated. *)
LEMMA InitIsSound ==
  ASSUME Init
  PROVE  IInv
<1>1. DOMAIN heap = {}
  BY DEF Init
<1>2. heap = [x \in DOMAIN heap |-> heap[x]]
  BY DEF Init
<1>3. ItemsOf(heap) = {} /\ Owners(heap) = {}
  BY <1>1 DEF ItemsOf, Owners
<1> DEFINE lists == [c \in {} |-> <<>>]
<1>4. DOMAIN lists = {}
  OBVIOUS
<1> HIDE DEF lists
<1>5. ListsAre(heap, lists, {})
  BY <1>1, <1>4 DEF ListsAre
<1>6. TextsAre(heap, {})
  BY <1>1, <1>3 DEF TextsAre
<1>7. MemoryIs(heap, lists, {}, {})
  BY <1>1, <1>2, <1>3, <1>4, <1>5, <1>6 DEF MemoryIs
<1>8. roots \cup lost = {} /\ lost = {} /\ roots \cap lost = {} /\ bad = FALSE
  BY DEF Init
<1>9. Sound(heap, roots \cup lost, {}, lost)
  BY <1>7, <1>8 DEF Sound
<1>10. calls \in 0 .. MaxCalls /\ parsed.text \in Seq(Byte)
  BY MaxCallsAssumption DEF Init, NotParsed
<1> QED BY <1>8, <1>9, <1>10 DEF IInv

(* In every behaviour of the program, memory is in order after every call. *)
THEOREM MemoryIsInOrder == CallsSpec => []IInv
<1>1. Init => IInv
  BY InitIsSound
<1>2. IInv /\ [calls < MaxCalls /\ Rearrange]_vars => IInv'
  <2> SUFFICES ASSUME IInv, [calls < MaxCalls /\ Rearrange]_vars PROVE IInv'
    OBVIOUS
  <2>1. CASE calls < MaxCalls /\ Rearrange
    BY <2>1, RearrangeKeeps
  <2>2. CASE UNCHANGED vars
    BY <2>2 DEF vars, IInv, Sound
  <2> QED BY <2>1, <2>2
<1> QED BY <1>1, <1>2, PTL DEF CallsSpec

(* An item whose text and key are not one block. *)
TextsApart(h, b) ==
  /\ h[b].valuestring \in Int /\ h[b].string \in Int
  /\ h[b].IsReference \in BOOLEAN /\ h[b].StringIsConst \in BOOLEAN
  /\ h[b].IsReference \/ h[b].StringIsConst \/ h[b].valuestring = NULL
       \/ h[b].valuestring # h[b].string

(* The entries of s are the members of S, each once. *)
ListsOnce(s, S) ==
  /\ s \in Seq(Int)
  /\ \A k \in DOMAIN s : s[k] \in S
  /\ \A x \in S : \E k \in DOMAIN s : s[k] = x
  /\ \A k, l \in DOMAIN s : s[k] = s[l] => k = l

(* What one sequence followed by another one holds. *)
LEMMA Joined ==
  ASSUME NEW S, NEW s \in Seq(S), NEW t \in Seq(S), NEW u, u = s \o t
  PROVE  /\ DOMAIN u = 1 .. Len(s) + Len(t)
         /\ Len(s) \in Nat /\ Len(t) \in Nat /\ DOMAIN s = 1 .. Len(s) /\ DOMAIN t = 1 .. Len(t)
         /\ \A k \in 1 .. Len(s) : u[k] = s[k]
         /\ \A k \in 1 .. Len(t) : u[Len(s) + k] = t[k]
OBVIOUS

(* And of two sequences of one entry each. *)
LEMMA PairIs ==
  ASSUME NEW v \in Int, NEW c \in Int, NEW s, s = <<v>> \o <<c>>
  PROVE  DOMAIN s = 1 .. 2 /\ s[1] = v /\ s[2] = c
OBVIOUS

(* What Owned lists: the item's texts, each once. *)
LEMMA OwnedAre ==
  ASSUME NEW h, NEW b, TextsApart(h, b), NEW s, s = Owned(h[b])
  PROVE  ListsOnce(s, TextsOf(h, b))
<1> DEFINE v == h[b].valuestring
           c == h[b].string
           hasValue == ~(h[b].IsReference \/ v = NULL)
           hasKey == ~(h[b].StringIsConst \/ c = NULL)
<1>1. s = (IF hasValue THEN <<v>> ELSE <<>>) \o (IF hasKey THEN <<c>> ELSE <<>>)
  BY DEF Owned
<1>2. TextsOf(h, b) = (IF hasValue THEN {v} ELSE {}) \cup (IF hasKey THEN {c} ELSE {})
  BY DEF TextsOf
<1>3. v \in Int /\ c \in Int /\ (hasValue /\ hasKey => v # c)
  BY DEF TextsApart
<1> HIDE DEF hasValue, hasKey, v, c
<1>4. CASE hasValue /\ hasKey
  <2>1. s = <<v>> \o <<c>> /\ TextsOf(h, b) = {v, c} /\ v # c
    BY <1>1, <1>2, <1>3, <1>4
  <2>2. v \in Int /\ c \in Int /\ s = <<v>> \o <<c>>
    BY <1>3, <2>1
  <2>3. DOMAIN s = 1 .. 2 /\ s[1] = v /\ s[2] = c
    BY ONLY <2>2, PairIs
  <2>4. s \in Seq(Int)
    BY ONLY <2>2
  <2>5. 1 \in DOMAIN s /\ 2 \in DOMAIN s /\ \A k \in DOMAIN s : k = 1 \/ k = 2
    BY <2>3
  <2>6. /\ \A k \in DOMAIN s : s[k] \in {v, c}
        /\ \A x \in {v, c} : \E k \in DOMAIN s : s[k] = x
        /\ \A k, l \in DOMAIN s : s[k] = s[l] => k = l
    BY <2>1, <2>3, <2>5
  <2> QED BY <2>1, <2>4, <2>6 DEF ListsOnce
<1>5. CASE hasValue /\ ~hasKey
  <2>1. s = <<v>> /\ TextsOf(h, b) = {v}
    BY <1>1, <1>2, <1>5
  <2> QED BY <1>3, <2>1 DEF ListsOnce
<1>6. CASE ~hasValue /\ hasKey
  <2>1. s = <<c>> /\ TextsOf(h, b) = {c}
    BY <1>1, <1>2, <1>6
  <2> QED BY <1>3, <2>1 DEF ListsOnce
<1>7. CASE ~hasValue /\ ~hasKey
  <2>1. s = <<>> /\ TextsOf(h, b) = {}
    BY <1>1, <1>2, <1>7
  <2> QED BY <2>1 DEF ListsOnce
<1> QED BY <1>4, <1>5, <1>6, <1>7

(* A block is a text of the item, or a child of it. *)
OwnedBy(lists, b, x) ==
  x \in TextsOf(heap, b) \/ (b \in DOMAIN lists /\ \E j \in DOMAIN lists[b] : lists[b][j] = x)

(* No entry of two sequences without common entries is there twice. *)
LEMMA JoinedOnce ==
  ASSUME NEW S, NEW s \in Seq(S), NEW t \in Seq(S), NEW u, u = s \o t,
         \A k, l \in DOMAIN s : s[k] = s[l] => k = l,
         \A k, l \in DOMAIN t : t[k] = t[l] => k = l,
         \A k \in DOMAIN s, l \in DOMAIN t : s[k] # t[l],
         NEW k \in DOMAIN u, NEW l \in DOMAIN u, u[k] = u[l]
  PROVE  k = l
<1>1. /\ DOMAIN u = 1 .. Len(s) + Len(t)
      /\ Len(s) \in Nat /\ Len(t) \in Nat /\ DOMAIN s = 1 .. Len(s) /\ DOMAIN t = 1 .. Len(t)
      /\ \A j \in 1 .. Len(s) : u[j] = s[j]
      /\ \A j \in 1 .. Len(t) : u[Len(s) + j] = t[j]
  BY Joined
<1>2. \A j \in DOMAIN u : \/ j \in DOMAIN s /\ u[j] = s[j]
                          \/ j - Len(s) \in DOMAIN t /\ u[j] = t[j - Len(s)]
  <2> SUFFICES ASSUME NEW j \in DOMAIN u
               PROVE  \/ j \in DOMAIN s /\ u[j] = s[j]
                      \/ j - Len(s) \in DOMAIN t /\ u[j] = t[j - Len(s)]
    OBVIOUS
  <2>1. CASE j <= Len(s)
    BY <1>1, <2>1
  <2>2. CASE j > Len(s)
    <3>1. j \in 1 .. Len(s) + Len(t) /\ Len(s) \in Nat /\ Len(t) \in Nat
      BY <1>1
    <3>2. j - Len(s) \in 1 .. Len(t) /\ Len(s) + (j - Len(s)) = j
      BY ONLY <2>2, <3>1
    <3> QED BY <1>1, <3>2
  <2> QED BY <1>1, <2>1, <2>2
<1>3. k \in Int /\ l \in Int /\ Len(s) \in Int
  BY <1>1
<1>4. CASE k \in DOMAIN s /\ u[k] = s[k]
  BY <1>2, <1>4
<1>5. CASE k - Len(s) \in DOMAIN t /\ u[k] = t[k - Len(s)]
  <2>1. l - Len(s) \in DOMAIN t /\ u[l] = t[l - Len(s)]
    BY <1>2, <1>5
  <2>2. k - Len(s) = l - Len(s)
    BY <1>5, <2>1
  <2> QED BY <1>3, <2>2
<1> QED BY <1>2, <1>4, <1>5

(* The entries of Owns(b) are what the item owns, each once. *)
LEMMA OwnsAre ==
  ASSUME NEW lists, NEW held, MemoryIs(heap, lists, held, {}), NEW b \in ItemsOf(heap),
         NEW u, u = Owns(b)
  PROVE  /\ \A k \in DOMAIN u : OwnedBy(lists, b, u[k])
         /\ \A x : OwnedBy(lists, b, x) => \E k \in DOMAIN u : u[k] = x
         /\ \A k, l \in DOMAIN u : u[k] = u[l] => k = l
<1> DEFINE s == Owned(heap[b])
           t == IF heap[b].IsReference THEN <<>> ELSE lists[b]
<1>1. \A x \in DOMAIN heap : heap[x] \in ItemRecord \cup [chars : Seq(Byte)]
  BY DEF MemoryIs
<1>2. /\ heap[b].valuestring \in Int /\ heap[b].string \in Int
      /\ heap[b].IsReference \in BOOLEAN /\ heap[b].StringIsConst \in BOOLEAN
  BY <1>1, ItemFields
<1>3. /\ DOMAIN lists = Owners(heap)
      /\ \A c \in DOMAIN lists : lists[c] \in Seq(ItemsOf(heap))
      /\ \A k, l : b \in DOMAIN lists /\ k \in DOMAIN lists[b] /\ l \in DOMAIN lists[b]
           /\ lists[b][k] = lists[b][l] => k = l
      /\ DOMAIN heap \subseteq Blocks
  BY DEF MemoryIs, ListsAre, ItemsOf
<1>4. /\ TextsOf(heap, b) \subseteq DOMAIN heap \ ItemsOf(heap)
      /\ heap[b].IsReference \/ heap[b].StringIsConst \/ heap[b].valuestring = NULL
           \/ heap[b].valuestring # heap[b].string
  BY DEF MemoryIs, TextsAre
<1>5. b \in DOMAIN lists <=> ~heap[b].IsReference
  BY <1>3 DEF Owners
<1>6. u = s \o t
  <2>1. IsItem(heap, b)
    BY DEF ItemsOf
  <2>2. b \in DOMAIN lists => Children(heap, b) = lists[b]
    BY ChildrenAre
  <2> QED BY <1>5, <2>1, <2>2 DEF Owns
<1>7. /\ s \in Seq(Int)
      /\ \A k \in DOMAIN s : s[k] \in TextsOf(heap, b)
      /\ \A x \in TextsOf(heap, b) : \E k \in DOMAIN s : s[k] = x
      /\ \A k, l \in DOMAIN s : s[k] = s[l] => k = l
  <2> HIDE DEF s
  <2>1. PICK h : h = heap
    OBVIOUS
  <2>2. s = Owned(h[b])
    BY <2>1 DEF s
  <2>3. TextsApart(h, b)
    BY <1>2, <1>4, <2>1 DEF TextsApart
  <2>4. ListsOnce(s, TextsOf(h, b))
    BY ONLY <2>2, <2>3, OwnedAre
  <2> QED BY <2>1, <2>4 DEF ListsOnce
<1>8. ItemsOf(heap) \subseteq Int
  <2>1. \A x \in Blocks : x \in Int
    BY BlocksAssumption
  <2> QED BY <1>3, <2>1 DEF ItemsOf
<1> HIDE DEF s
<1>9. t \in Seq(ItemsOf(heap)) /\ t \in Seq(Int)
  <2>1. t \in Seq(ItemsOf(heap))
    BY <1>3, <1>5
  <2> HIDE DEF t
  <2> QED BY <1>8, <2>1
<1>10. /\ \A j \in DOMAIN t : b \in DOMAIN lists /\ j \in DOMAIN lists[b] /\ t[j] = lists[b][j]
       /\ b \in DOMAIN lists => t = lists[b]
  BY <1>5
<1> HIDE DEF t
<1>11. /\ DOMAIN u = 1 .. Len(s) + Len(t)
       /\ Len(s) \in Nat /\ Len(t) \in Nat /\ DOMAIN s = 1 .. Len(s) /\ DOMAIN t = 1 .. Len(t)
       /\ \A k \in 1 .. Len(s) : u[k] = s[k]
       /\ \A k \in 1 .. Len(t) : u[Len(s) + k] = t[k]
  BY <1>6, <1>7, <1>9, Joined
<1>12. \A k \in DOMAIN s, l \in DOMAIN t : s[k] # t[l]
  BY <1>4, <1>7, <1>9
<1>13. \A k, l \in DOMAIN t : t[k] = t[l] => k = l
  BY <1>3, <1>10
<1>14. \A k, l \in DOMAIN u : u[k] = u[l] => k = l
  BY <1>6, <1>7, <1>9, <1>12, <1>13, JoinedOnce
<1>15. ASSUME NEW k \in DOMAIN u PROVE OwnedBy(lists, b, u[k])
  <2>1. CASE k <= Len(s)
    <3>1. k \in DOMAIN s /\ u[k] = s[k]
      BY <1>11, <2>1
    <3> QED BY <1>7, <3>1 DEF OwnedBy
  <2>2. CASE k > Len(s)
    <3>1. k - Len(s) \in 1 .. Len(t) /\ Len(s) + (k - Len(s)) = k
      BY <1>11, <2>2
    <3>2. k - Len(s) \in DOMAIN t /\ u[k] = t[k - Len(s)]
      BY <1>11, <3>1
    <3> QED BY <1>10, <3>2 DEF OwnedBy
  <2> QED BY <1>11, <2>1, <2>2
<1>16. ASSUME NEW x, OwnedBy(lists, b, x) PROVE \E k \in DOMAIN u : u[k] = x
  <2>1. CASE x \in TextsOf(heap, b)
    <3>1. PICK k \in DOMAIN s : s[k] = x
      BY <1>7, <2>1
    <3>2. k \in DOMAIN u /\ u[k] = x
      BY <1>11, <3>1
    <3> QED BY <3>2
  <2>2. CASE b \in DOMAIN lists /\ \E j \in DOMAIN lists[b] : lists[b][j] = x
    <3>1. PICK j \in DOMAIN t : t[j] = x
      BY <1>10, <2>2
    <3>2. Len(s) + j \in DOMAIN u /\ u[Len(s) + j] = x
      BY <1>11, <3>1
    <3> QED BY <3>2
  <2> QED BY <1>16, <2>1, <2>2 DEF OwnedBy
<1> QED BY <1>14, <1>15, <1>16

(* Every block that is not held has one owner. *)
LEMMA OneOwner ==
  ASSUME NEW lists, NEW held, MemoryIs(heap, lists, held, {})
  PROVE  /\ \A b, c \in ItemsOf(heap) : \A x : OwnedBy(lists, b, x) /\ OwnedBy(lists, c, x) => b = c
         /\ \A b \in ItemsOf(heap) : \A x : OwnedBy(lists, b, x) => x \in DOMAIN heap \ held
         /\ \A x \in DOMAIN heap \ held : \E b \in ItemsOf(heap) : OwnedBy(lists, b, x)
<1>1. /\ \A b \in ItemsOf(heap) : TextsOf(heap, b) \subseteq DOMAIN heap \ ItemsOf(heap)
      /\ \A b, c \in ItemsOf(heap) : b # c => TextsOf(heap, b) \cap TextsOf(heap, c) = {}
      /\ \A t \in DOMAIN heap \ ItemsOf(heap) : \E b \in ItemsOf(heap) : t \in TextsOf(heap, b)
  BY DEF MemoryIs, TextsAre
<1>2. \A b \in ItemsOf(heap) : b \in held \/ \E c \in DOMAIN lists : \E k \in DOMAIN lists[c] : lists[c][k] = b
  BY DEF MemoryIs
<1>3. \A c \in DOMAIN lists : \A k \in DOMAIN lists[c] : lists[c][k] \in ItemsOf(heap) \ held /\ c \in ItemsOf(heap)
  BY Placed
<1>4. \A c, d \in DOMAIN lists : \A k \in DOMAIN lists[c], l \in DOMAIN lists[d] :
        lists[c][k] = lists[d][l] => c = d
  BY DEF MemoryIs, ListsAre
<1>5. held \subseteq ItemsOf(heap) /\ ItemsOf(heap) \subseteq DOMAIN heap
  BY DEF MemoryIs, ListsAre, ItemsOf
<1>6. \A b, c \in ItemsOf(heap) : \A x : OwnedBy(lists, b, x) /\ OwnedBy(lists, c, x) => b = c
  BY <1>1, <1>3, <1>4 DEF OwnedBy
<1>7. \A b \in ItemsOf(heap) : \A x : OwnedBy(lists, b, x) => x \in DOMAIN heap \ held
  BY <1>1, <1>3, <1>5 DEF OwnedBy
<1>8. \A x \in DOMAIN heap \ held : \E b \in ItemsOf(heap) : OwnedBy(lists, b, x)
  <2> SUFFICES ASSUME NEW x \in DOMAIN heap \ held
               PROVE  \E b \in ItemsOf(heap) : OwnedBy(lists, b, x)
    OBVIOUS
  <2>1. CASE x \in ItemsOf(heap)
    <3>1. PICK c \in DOMAIN lists : \E k \in DOMAIN lists[c] : lists[c][k] = x
      BY <1>2, <2>1
    <3>2. c \in ItemsOf(heap)
      BY <1>3, <3>1
    <3> QED BY <3>1, <3>2 DEF OwnedBy
  <2>2. CASE x \notin ItemsOf(heap)
    BY <1>1, <2>2 DEF OwnedBy
  <2> QED BY <2>1, <2>2
<1> QED BY <1>6, <1>7, <1>8

(* Memory in order has one owner for every block. *)
LEMMA OneOwnerEach ==
  ASSUME IInv
  PROVE  EachBlockHasOneOwner
<1>1. PICK lists : MemoryIs(heap, lists, roots \cup lost, {})
  BY DEF IInv, Sound
<1> DEFINE held == roots \cup lost
           owns == [b \in DOMAIN heap |-> Owns(b)]
           slots == UNION {{b} \X DOMAIN owns[b] : b \in DOMAIN heap}
           owned == [slot \in slots |-> owns[slot[1]][slot[2]]]
<1>2. \A b \in DOMAIN heap \ ItemsOf(heap) : DOMAIN Owns(b) = {}
  BY DEF Owns, ItemsOf
<1>3. \A b \in ItemsOf(heap) :
        /\ \A k \in DOMAIN Owns(b) : OwnedBy(lists, b, Owns(b)[k])
        /\ \A x : OwnedBy(lists, b, x) => \E k \in DOMAIN Owns(b) : Owns(b)[k] = x
        /\ \A k, l \in DOMAIN Owns(b) : Owns(b)[k] = Owns(b)[l] => k = l
  <2> SUFFICES ASSUME NEW b \in ItemsOf(heap), NEW u, u = Owns(b)
               PROVE  /\ \A k \in DOMAIN u : OwnedBy(lists, b, u[k])
                      /\ \A x : OwnedBy(lists, b, x) => \E k \in DOMAIN u : u[k] = x
                      /\ \A k, l \in DOMAIN u : u[k] = u[l] => k = l
    OBVIOUS
  <2>1. MemoryIs(heap, lists, held, {})
    BY <1>1
  <2> HIDE DEF held
  <2> QED BY <2>1, OwnsAre
<1>4. /\ \A b, c \in ItemsOf(heap) : \A x : OwnedBy(lists, b, x) /\ OwnedBy(lists, c, x) => b = c
      /\ \A b \in ItemsOf(heap) : \A x : OwnedBy(lists, b, x) => x \in DOMAIN heap \ held
      /\ \A x \in DOMAIN heap \ held : \E b \in ItemsOf(heap) : OwnedBy(lists, b, x)
  <2>1. MemoryIs(heap, lists, held, {})
    BY <1>1
  <2> HIDE DEF held
  <2> QED BY <2>1, OneOwner
<1>5. ItemsOf(heap) \subseteq DOMAIN heap
  BY DEF ItemsOf
<1>6. \A slot \in slots : /\ slot[1] \in ItemsOf(heap) /\ slot[2] \in DOMAIN Owns(slot[1])
                          /\ slot = <<slot[1], slot[2]>>
                          /\ owned[slot] = Owns(slot[1])[slot[2]]
  <2> SUFFICES ASSUME NEW slot \in slots
               PROVE  /\ slot[1] \in ItemsOf(heap) /\ slot[2] \in DOMAIN Owns(slot[1])
                      /\ slot = <<slot[1], slot[2]>>
                      /\ owned[slot] = Owns(slot[1])[slot[2]]
    OBVIOUS
  <2>1. PICK b \in DOMAIN heap : slot \in {b} \X DOMAIN owns[b]
    OBVIOUS
  <2>2. slot[1] = b /\ slot[2] \in DOMAIN Owns(b) /\ slot = <<slot[1], slot[2]>>
    BY <2>1
  <2>3. owned[slot] = Owns(slot[1])[slot[2]]
    BY <2>2
  <2> QED BY <1>2, <2>2, <2>3
<1>7. \A b \in ItemsOf(heap) : \A k \in DOMAIN Owns(b) :
        <<b, k>> \in slots /\ owned[<<b, k>>] = Owns(b)[k]
  <2> SUFFICES ASSUME NEW b \in ItemsOf(heap), NEW k \in DOMAIN Owns(b)
               PROVE  <<b, k>> \in slots /\ owned[<<b, k>>] = Owns(b)[k]
    OBVIOUS
  <2>1. b \in DOMAIN heap /\ <<b, k>> \in {b} \X DOMAIN owns[b]
    BY <1>5
  <2>2. <<b, k>> \in slots
    BY <2>1
  <2> QED BY <2>1, <2>2
<1>8. DOMAIN owned = slots
  OBVIOUS
<1> HIDE DEF held, slots, owned, owns
<1>9. IsInjective(owned)
  <2> SUFFICES ASSUME NEW x \in slots, NEW y \in slots, owned[x] = owned[y]
               PROVE  x = y
    BY <1>8 DEF IsInjective
  <2>1. /\ OwnedBy(lists, x[1], owned[x]) /\ OwnedBy(lists, y[1], owned[y])
        /\ x[1] \in ItemsOf(heap) /\ y[1] \in ItemsOf(heap)
    BY <1>3, <1>6
  <2>2. x[1] = y[1]
    BY <1>4, <2>1
  <2>3. x[2] = y[2]
    BY <1>3, <1>6, <2>2
  <2> QED BY <1>6, <2>2, <2>3
<1>10. Range(owned) = DOMAIN heap \ held
  <2>1. ASSUME NEW x \in slots PROVE owned[x] \in DOMAIN heap \ held
    BY <1>3, <1>4, <1>6
  <2>2. ASSUME NEW b \in DOMAIN heap \ held PROVE \E x \in slots : owned[x] = b
    <3>1. PICK c \in ItemsOf(heap) : OwnedBy(lists, c, b)
      BY <1>4
    <3>2. PICK k \in DOMAIN Owns(c) : Owns(c)[k] = b
      BY <1>3, <3>1
    <3> QED BY <1>7, <3>2
  <2> QED BY <1>8, <2>1, <2>2 DEF Range
<1>11. ~bad
  BY DEF IInv
<1> QED BY <1>9, <1>10, <1>11, Zenon DEF EachBlockHasOneOwner, owned, slots, owns, held

(* And every list as it should be. *)
LEMMA ListsInOrder ==
  ASSUME IInv
  PROVE  ListsWellFormed
<1>1. PICK lists : MemoryIs(heap, lists, roots \cup lost, {})
  BY DEF IInv, Sound
<1> DEFINE owners == {b \in Items \ lost : ~heap[b].IsReference}
           now == [b \in owners |-> Children(heap, b)]
<1>2. owners = Owners(heap) /\ DOMAIN lists = Owners(heap)
  <2>1. \A b \in lost : heap[b].IsReference
    BY DEF IInv, Sound
  <2>2. Items = ItemsOf(heap)
    BY Passed
  <2> QED BY <1>1, <2>1, <2>2 DEF Owners, MemoryIs
<1>3. \A c \in DOMAIN lists : now[c] = lists[c]
  <2> SUFFICES ASSUME NEW c \in DOMAIN lists PROVE Children(heap, c) = lists[c]
    BY <1>2
  <2> DEFINE held == roots \cup lost
  <2>1. MemoryIs(heap, lists, held, {})
    BY <1>1
  <2> HIDE DEF held
  <2> QED BY <2>1, ChildrenAre
<1>4. DOMAIN now = DOMAIN lists
  BY <1>2
<1> HIDE DEF now
<1>5. ListsAre(heap, lists, roots \cup lost)
  BY <1>1 DEF MemoryIs
<1>6. ListsAre(heap, now, roots)
  <2>1. \A c \in DOMAIN lists : IsListOf(heap, c, now[c]) <=> IsListOf(heap, c, lists[c])
    BY <1>3
  <2> QED BY <1>3, <1>4, <1>5, <2>1 DEF ListsAre
<1> QED BY <1>6, Zenon DEF ListsWellFormed, now

(* And every pointer is to a block of its kind. *)
LEMMA TypesInOrder ==
  ASSUME IInv
  PROVE  TypeOK
<1>1. PICK lists : MemoryIs(heap, lists, roots \cup lost, {})
  BY DEF IInv, Sound
<1> DEFINE held == roots \cup lost
<1>2. MemoryIs(heap, lists, held, {})
  BY <1>1
<1>3. /\ roots \subseteq ItemsOf(heap) /\ lost \subseteq ItemsOf(heap) /\ Items = ItemsOf(heap)
      /\ bad \in BOOLEAN /\ calls \in 0 .. MaxCalls /\ parsed.text \in Seq(Byte)
  BY Passed DEF IInv
<1>4. /\ DOMAIN heap \subseteq Blocks
      /\ \A b \in DOMAIN heap : heap[b] \in ItemRecord \cup [chars : Seq(Byte)]
      /\ DOMAIN lists = Owners(heap)
      /\ \A b \in ItemsOf(heap) :
           b \in held \/ \E c \in DOMAIN lists : \E k \in DOMAIN lists[c] : lists[c][k] = b
  BY <1>2 DEF MemoryIs
<1>5. \A b \in ItemsOf(heap) :
        /\ heap[b].string = StaticKey <=> heap[b].StringIsConst /\ heap[b].string # NULL
        /\ TextsOf(heap, b) \subseteq DOMAIN heap \ ItemsOf(heap)
  BY <1>2 DEF MemoryIs, TextsAre
<1>6. \A b \in held : heap[b].next = NULL /\ heap[b].prev = NULL
  BY <1>2 DEF MemoryIs, ListsAre
<1>7. \A c \in DOMAIN lists :
        /\ heap[c].child = NULL \/ heap[c].child \in ItemsOf(heap)
        /\ \A k \in DOMAIN lists[c] :
             /\ heap[lists[c][k]].next = NULL \/ heap[lists[c][k]].next \in ItemsOf(heap)
             /\ heap[lists[c][k]].prev = NULL \/ heap[lists[c][k]].prev \in ItemsOf(heap)
  <2> SUFFICES ASSUME NEW c \in DOMAIN lists
               PROVE  /\ heap[c].child = NULL \/ heap[c].child \in ItemsOf(heap)
                      /\ \A k \in DOMAIN lists[c] :
                           /\ heap[lists[c][k]].next = NULL \/ heap[lists[c][k]].next \in ItemsOf(heap)
                           /\ heap[lists[c][k]].prev = NULL \/ heap[lists[c][k]].prev \in ItemsOf(heap)
    OBVIOUS
  <2>1. lists[c] \in Seq(ItemsOf(heap)) /\ IsListOf(heap, c, lists[c])
    BY <1>2 DEF MemoryIs, ListsAre, ItemsOf
  <2>2. heap[c].child = NULL \/ heap[c].child \in ItemsOf(heap)
    BY <2>1 DEF IsListOf
  <2> HIDE DEF held
  <2>3. ASSUME NEW k \in DOMAIN lists[c]
        PROVE  /\ heap[lists[c][k]].next = NULL \/ heap[lists[c][k]].next \in ItemsOf(heap)
               /\ heap[lists[c][k]].prev = NULL \/ heap[lists[c][k]].prev \in ItemsOf(heap)
    <3>1. IsItem(heap, heap[lists[c][k]].prev)
          /\ (heap[lists[c][k]].next = NULL \/ IsItem(heap, heap[lists[c][k]].next))
      BY <1>2, Neighbours
    <3> QED BY <3>1 DEF ItemsOf, IsItem
  <2> QED BY <2>2, <2>3
<1>8. ASSUME NEW b \in Items
      PROVE  LET n == heap[b]
                 TextOf(p) == p = NULL \/ (p \in DOMAIN heap \ Items)
                 Item(p) == p = NULL \/ p \in Items
             IN /\ n.string = StaticKey <=> n.StringIsConst /\ n.string # NULL
                /\ n.StringIsConst \/ TextOf(n.string)
                /\ Item(n.next) /\ Item(n.prev)
                /\ n.IsReference \/ (Item(n.child) /\ TextOf(n.valuestring))
  <2>1. b \in ItemsOf(heap)
    BY <1>3
  <2>2. heap[b].string = StaticKey <=> heap[b].StringIsConst /\ heap[b].string # NULL
    BY <1>5, <2>1
  <2>3. /\ heap[b].StringIsConst \/ heap[b].string = NULL \/ heap[b].string \in DOMAIN heap \ Items
        /\ heap[b].IsReference \/ heap[b].valuestring = NULL \/ heap[b].valuestring \in DOMAIN heap \ Items
    BY <1>3, <1>5, <2>1 DEF TextsOf
  <2>4. /\ heap[b].next = NULL \/ heap[b].next \in Items
        /\ heap[b].prev = NULL \/ heap[b].prev \in Items
    BY <1>3, <1>4, <1>6, <1>7, <2>1
  <2>5. heap[b].IsReference \/ heap[b].child = NULL \/ heap[b].child \in Items
    BY <1>3, <1>4, <1>7, <2>1 DEF Owners
  <2> QED BY <2>2, <2>3, <2>4, <2>5
<1> QED BY <1>3, <1>4, <1>8, Zenon DEF TypeOK

-----------------------------------------------------------------------------
(* Whatever calls a program makes, in any order, and whichever allocations *)
(* fail: every pointer is to a block of its kind.                          *)
THEOREM CallsKeepTypes == CallsSpec => []TypeOK
BY MemoryIsInOrder, TypesInOrder, PTL

(* No block is freed twice, none is left behind and none has two owners.   *)
THEOREM CallsKeepOwners == CallsSpec => []EachBlockHasOneOwner
BY MemoryIsInOrder, OneOwnerEach, PTL

(* The links of every list agree, and what the program holds is in none.   *)
THEOREM CallsKeepLists == CallsSpec => []ListsWellFormed
BY MemoryIsInOrder, ListsInOrder, PTL
=============================================================================
