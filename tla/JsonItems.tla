------------------------------ MODULE JsonItems ------------------------------
(***************************************************************************)
(* The data structure of cJSON.c and the functions that the others are     *)
(* made of.  Memory is a function from the ids of the allocated blocks to  *)
(* their contents: an item, or the characters of a string.  Pointers are   *)
(* ids, NULL is 0, and a constant string that a program passes for a key   *)
(* has the id StaticKey.                                                   *)
(*                                                                         *)
(* A function of the code is an operator from a machine m to a machine:    *)
(*   heap  the allocated blocks          room  the ids there may be        *)
(*   fuel  allocations that still succeed                                  *)
(*   ret   the pointer returned          ok    the boolean returned        *)
(*   bad   a block was freed twice       oom   an allocation failed        *)
(*   off, depth  the parse_buffer's fields                                 *)
(***************************************************************************)
EXTENDS JsonText, JsonLinks

CONSTANT StaticText  \* the characters at StaticKey

ASSUME StaticTextAssumption == StaticText \in Seq(Byte)

StaticKey == -1

Blank0 == [type |-> "invalid", next |-> NULL, prev |-> NULL, child |-> NULL,
           valuestring |-> NULL, valuedouble |-> 0, string |-> NULL,
           StringIsConst |-> FALSE, IsReference |-> FALSE]

Machine(heap, room, fuel) ==
  [heap |-> heap, room |-> room, fuel |-> fuel, ret |-> NULL, ok |-> TRUE,
   bad |-> FALSE, oom |-> FALSE, off |-> 0, depth |-> 0]

Chars(heap, b) == IF b = StaticKey THEN StaticText ELSE heap[b].chars

Fail(m) == [m EXCEPT !.ok = FALSE]
Return(m, p) == [m EXCEPT !.ret = p, !.ok = p # NULL]

-----------------------------------------------------------------------------
(* Memory. *)

Allocate(m, block) ==
  IF m.fuel = 0 \/ m.room \subseteq DOMAIN m.heap
  THEN Return([m EXCEPT !.oom = TRUE], NULL)
  ELSE LET id == Min(m.room \ DOMAIN m.heap)
           with == [x \in DOMAIN m.heap \union {id} |-> IF x = id THEN block ELSE m.heap[x]]
       IN Return([m EXCEPT !.heap = with, !.fuel = @ - 1], id)

Deallocate(m, b) ==
  IF b \notin DOMAIN m.heap THEN [m EXCEPT !.bad = TRUE]
  ELSE [m EXCEPT !.heap = [x \in DOMAIN @ \ {b} |-> @[x]]]

FreeIf(m, condition, b) == IF condition /\ b # NULL THEN Deallocate(m, b) ELSE m

cJSON_strdup(m, chars) == Allocate(m, [chars |-> chars])

cJSON_New_Item(m) == Allocate(m, Blank0)

(* The items of the list that starts at b, at most k of them. *)
ListFrom(heap, b, k) ==
  LET list[n \in 0 .. k] ==
        [p \in Int |-> IF n = 0 \/ ~IsItem(heap, p) THEN <<>>
                       ELSE <<p>> \o list[n - 1][heap[p].next]]
  IN list[k][b]

Children(heap, item) == ListFrom(heap, heap[item].child, Cardinality(DOMAIN heap))

-----------------------------------------------------------------------------
(* cJSON_Delete: an item, all below it, and all that follow it. *)

TextFreed(condition, b) == IF condition /\ b # NULL THEN <<b>> ELSE <<>>

(* Faulty: a reference's children and text are taken for its own. *)
FreeReferenced(heap, item) ==
  LET From(p, rest) ==
        LET n == heap[p]
        IN IF p = NULL THEN <<>>
           ELSE IF ~IsItem(heap, p) THEN <<NULL>>
           ELSE rest[n.child] \o TextFreed(TRUE, n.valuestring)
                \o TextFreed(~n.StringIsConst, n.string) \o <<p>> \o rest[n.next]
      order[k \in 0 .. Cardinality(DOMAIN heap) + 1] ==
        [p \in Int |-> IF k = 0 THEN <<>> ELSE From(p, order[k - 1])]
  IN order[Cardinality(DOMAIN heap) + 1][item]

(* The blocks in the order in which they are freed; NULL stands for a      *)
(* pointer to what is no item any more.  A walk of more steps than there   *)
(* are blocks has been somewhere twice.                                    *)
FreeOrder(heap, item) ==
  LET From(p, rest) ==
        LET n == heap[p]
        IN IF p = NULL THEN <<>>
           ELSE IF ~IsItem(heap, p) THEN <<NULL>>
           ELSE (IF n.IsReference THEN <<>> ELSE rest[n.child])
                \o TextFreed(~n.IsReference, n.valuestring)
                \o TextFreed(~n.StringIsConst, n.string) \o <<p>> \o rest[n.next]
      order[k \in 0 .. Cardinality(DOMAIN heap) + 1] ==
        [p \in Int |-> IF k = 0 THEN <<>> ELSE From(p, order[k - 1])]
  IN order[Cardinality(DOMAIN heap) + 1][item]

cJSON_Delete(m, item) ==
  LET order == FreeOrder(m.heap, item)
  IN [m EXCEPT !.heap = [x \in DOMAIN @ \ ToSet(order) |-> @[x]],
               !.bad = @ \/ ~IsInjective(order) \/ ~(ToSet(order) \subseteq DOMAIN m.heap)]
=============================================================================
