----------------------------- MODULE JsonLinks -----------------------------
(***************************************************************************)
(* The doubly linked lists of cJSON.c.  Memory is a function from the ids  *)
(* of the allocated blocks to their contents; an item is a record with the *)
(* links child, next and prev, which are ids or NULL.  The children of an  *)
(* item form a list: child is the first, next leads on to NULL, prev leads *)
(* back, and the prev of the first is the last, where cJSON finds the end  *)
(* of the list without walking along it.                                   *)
(***************************************************************************)
EXTENDS Integers, FiniteSets, Sequences, SequencesExt

NULL == 0

IsItem(heap, b) == b \in DOMAIN heap /\ {"child", "next", "prev"} \subseteq DOMAIN heap[b]

(* An assignment to a link of the item b. *)
SetChild(heap, b, p) == [heap EXCEPT ![b].child = p]
SetNext(heap, b, p) == [heap EXCEPT ![b].next = p]
SetPrev(heap, b, p) == [heap EXCEPT ![b].prev = p]

-----------------------------------------------------------------------------
(* What the functions do to the links, once they found nothing amiss.      *)

(* Faulty: the first child's prev, which finds the end, is not moved on. *)
AppendLinksOldEnd(heap, array, item) ==
  LET child == heap[array].child
      last == heap[child].prev
  IN IF child = NULL
       THEN SetNext(SetPrev(SetChild(heap, array, item), item, item), item, NULL)
     ELSE SetPrev(SetNext(heap, last, item), item, last)

(* add_item_to_array; the item's own next is set for a first child only. *)
AppendLinks(heap, array, item) ==
  LET child == heap[array].child
      last == heap[child].prev
  IN IF child = NULL
       THEN SetNext(SetPrev(SetChild(heap, array, item), item, item), item, NULL)
     ELSE IF last = NULL THEN heap
     ELSE SetPrev(SetPrev(SetNext(heap, last, item), item, last), child, item)

(* cJSON_DetachItemViaPointer *)
DetachLinks(heap, parent, item) ==
  LET prev == heap[item].prev
      next == heap[item].next
      first == item = heap[parent].child
      h1 == IF first THEN heap ELSE SetNext(heap, prev, next)
      h2 == IF next = NULL THEN h1 ELSE SetPrev(h1, next, prev)
      h3 == IF first THEN SetChild(h2, parent, next)
            ELSE IF next = NULL THEN SetPrev(h2, h2[parent].child, prev)
            ELSE h2
  IN SetNext(SetPrev(h3, item, NULL), item, NULL)

(* cJSON_InsertItemInArray, before the item that is there now. *)
InsertLinks(heap, array, after, newitem) ==
  LET prev == heap[after].prev
      h1 == SetPrev(SetPrev(SetNext(heap, newitem, after), newitem, prev), after, newitem)
  IN IF after = heap[array].child THEN SetChild(h1, array, newitem)
     ELSE SetNext(h1, prev, newitem)

(* Faulty: replacing the last child leaves the first one's prev behind. *)
ReplaceLinksOldEnd(heap, parent, item, replacement) ==
  LET n == heap[item]
      first == heap[parent].child = item
      prev == IF first /\ n.prev = item THEN replacement ELSE n.prev
      h1 == SetPrev(SetNext(heap, replacement, n.next), replacement, prev)
      h2 == IF n.next = NULL THEN h1 ELSE SetPrev(h1, n.next, replacement)
      h3 == IF first THEN SetChild(h2, parent, replacement) ELSE SetNext(h2, prev, replacement)
  IN SetPrev(SetNext(h3, item, NULL), item, NULL)

(* cJSON_ReplaceItemViaPointer, of an item by another one. *)
ReplaceLinks(heap, parent, item, replacement) ==
  LET n == heap[item]
      first == heap[parent].child = item
      prev == IF first /\ n.prev = item THEN replacement ELSE n.prev
      h1 == SetPrev(SetNext(heap, replacement, n.next), replacement, prev)
      h2 == IF n.next = NULL THEN h1 ELSE SetPrev(h1, n.next, replacement)
      h3 == IF first THEN SetChild(h2, parent, replacement)
            ELSE IF prev = NULL THEN h2 ELSE SetNext(h2, prev, replacement)
      h4 == IF first \/ n.next # NULL THEN h3 ELSE SetPrev(h3, h3[parent].child, replacement)
  IN SetPrev(SetNext(h4, item, NULL), item, NULL)

-----------------------------------------------------------------------------
(* The children of c are those of the sequence s, in its order.            *)
IsListOf(heap, c, s) ==
  /\ heap[c].child = IF Len(s) = 0 THEN NULL ELSE s[1]
  /\ \A k \in DOMAIN s :
       /\ heap[s[k]].prev = s[IF k = 1 THEN Len(s) ELSE k - 1]
       /\ heap[s[k]].next = IF k = Len(s) THEN NULL ELSE s[k + 1]

(* The links of memory are those of the lists: every container has the     *)
(* children that its sequence says, no item is a child twice, and the free *)
(* items are nobody's child and have no neighbours.                        *)
ListsAre(heap, lists, free) ==
  LET Items == {b \in DOMAIN heap : IsItem(heap, b)}
  IN /\ NULL \notin DOMAIN heap
     /\ DOMAIN lists \subseteq Items /\ free \subseteq Items
     /\ \A c \in DOMAIN lists : lists[c] \in Seq(Items) /\ IsListOf(heap, c, lists[c])
     /\ \A c, d \in DOMAIN lists : \A k \in DOMAIN lists[c], l \in DOMAIN lists[d] :
          lists[c][k] = lists[d][l] => c = d /\ k = l
     /\ \A i \in free : heap[i].next = NULL /\ heap[i].prev = NULL
     /\ \A i \in free, c \in DOMAIN lists : \A k \in DOMAIN lists[c] : lists[c][k] # i
=============================================================================
