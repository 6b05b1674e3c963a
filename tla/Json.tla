-------------------------------- MODULE Json --------------------------------
(***************************************************************************)
(* A program that uses cJSON.c: it parses texts, makes arrays of numbers,  *)
(* duplicates and compares trees, besides the calls of JsonCalls.  Any     *)
(* allocation may fail.                                                    *)
(***************************************************************************)
EXTENDS JsonTree, JsonCalls

CONSTANTS
  Texts,     \* what is parsed, with memory enough
  Documents  \* bound of the model: the texts whose trees are worked on, of Texts

ASSUME TextsAssumption == Texts \subseteq Seq(Byte)
ASSUME DocumentsAssumption == Documents \subseteq Texts

-----------------------------------------------------------------------------
(* Making trees. *)

(* The loop of cJSON_CreateIntArray and the like: k numbers after p. *)
RECURSIVE CreateNumbers(_, _, _, _)
CreateNumbers(m, a, p, k) ==
  LET new == Create(m, "Number", <<>>)
      n == new.ret
      linked == IF p = NULL THEN [new EXCEPT !.heap[a].child = n]
                ELSE [new EXCEPT !.heap[p].next = n, !.heap[n].prev = p]
      head == m.heap[a].child
  IN IF k = 0 THEN Return(IF head = NULL THEN m ELSE [m EXCEPT !.heap[head].prev = p], a)
     ELSE IF n = NULL THEN Return(cJSON_Delete(new, a), NULL)
     ELSE CreateNumbers(linked, a, n, k - 1)

CreateArrayOf(m, count) ==
  LET a == Create(m, "Array", <<>>)
  IN IF a.ret = NULL THEN a ELSE CreateNumbers(a, a.ret, NULL, count)

(* The copy of one text: of none is none, and a constant key is shared. *)
CopyText(m, b, shared) ==
  IF b = NULL \/ shared THEN [m EXCEPT !.ret = b, !.ok = TRUE]
  ELSE cJSON_strdup(m, Chars(m.heap, b))

RECURSIVE cJSON_Duplicate_rec(_, _, _, _), DuplicateChildren(_, _, _, _, _)

cJSON_Duplicate_rec(m, item, depth, recurse) ==
  LET n == m.heap[item]
      new == Allocate(m, [Blank0 EXCEPT !.type = n.type, !.valuedouble = n.valuedouble,
                                        !.StringIsConst = n.StringIsConst])
      newitem == new.ret
      m1 == CopyText(new, n.valuestring, FALSE)
      m2 == CopyText([m1 EXCEPT !.heap[newitem].valuestring = m1.ret], n.string, n.StringIsConst)
      m3 == [m2 EXCEPT !.heap[newitem].string = m2.ret]
  IN IF newitem = NULL THEN new
     ELSE IF ~m1.ok THEN Return(cJSON_Delete(m1, newitem), NULL)
     ELSE IF ~m2.ok THEN Return(cJSON_Delete(m2, newitem), NULL)
     ELSE IF recurse THEN DuplicateChildren(m3, newitem, NULL, n.child, depth)
     ELSE Return(m3, newitem)

(* The walk along the children; next is the last child made so far. *)
DuplicateChildren(m, newitem, next, child, depth) ==
  LET copy == cJSON_Duplicate_rec(m, child, depth + 1, TRUE)
      n == copy.ret
      linked == IF next = NULL THEN [copy EXCEPT !.heap[newitem].child = n]
                ELSE [copy EXCEPT !.heap[next].next = n, !.heap[n].prev = next]
  IN IF child = NULL
       THEN Return(IF next = NULL THEN m
                   ELSE [m EXCEPT !.heap[m.heap[newitem].child].prev = next], newitem)
     ELSE IF depth >= CircularLimit THEN Return(cJSON_Delete(m, newitem), NULL)
     ELSE IF n = NULL THEN Return(cJSON_Delete(copy, newitem), NULL)
     ELSE DuplicateChildren(linked, newitem, n, m.heap[child].next, depth)

-----------------------------------------------------------------------------
(* Comparing items. *)

(* Faulty: members of b that a lacks are not looked for. *)
RECURSIVE CompareSubset(_, _, _)
CompareSubset(a, b, case_sensitive) ==
  LET s == Children(heap, a)
      t == Children(heap, b)
      InOther(x) ==
        LET y == get_object_item(Memory(0), b, Chars(heap, heap[x].string), case_sensitive)
        IN y # NULL /\ CompareSubset(x, y, case_sensitive)
  IN /\ heap[a].type = heap[b].type
     /\ \/ a = b
        \/ CASE heap[a].type \in {"NULL", "True", "False"} -> TRUE
             [] heap[a].type = "Number" -> heap[a].valuedouble = heap[b].valuedouble
             [] heap[a].type \in {"String", "Raw"} ->
                  Chars(heap, heap[a].valuestring) = Chars(heap, heap[b].valuestring)
             [] heap[a].type = "Array" ->
                  Len(s) = Len(t) /\ \A k \in DOMAIN s : CompareSubset(s[k], t[k], case_sensitive)
             [] heap[a].type = "Object" -> \A k \in DOMAIN s : InOther(s[k])

(* cJSON_Compare: every member of the one object has its equal in the      *)
(* other, and the other way round.                                         *)
RECURSIVE cJSON_Compare(_, _, _)
cJSON_Compare(a, b, case_sensitive) ==
  LET s == Children(heap, a)
      t == Children(heap, b)
      InOther(x, object) ==
        LET y == get_object_item(Memory(0), object, Chars(heap, heap[x].string), case_sensitive)
        IN y # NULL /\ cJSON_Compare(x, y, case_sensitive)
  IN /\ heap[a].type = heap[b].type
     /\ \/ a = b
        \/ CASE heap[a].type \in {"NULL", "True", "False"} -> TRUE
             [] heap[a].type = "Number" -> heap[a].valuedouble = heap[b].valuedouble
             [] heap[a].type \in {"String", "Raw"} ->
                  Chars(heap, heap[a].valuestring) = Chars(heap, heap[b].valuestring)
             [] heap[a].type = "Array" ->
                  Len(s) = Len(t) /\ \A k \in DOMAIN s : cJSON_Compare(s[k], t[k], case_sensitive)
             [] heap[a].type = "Object" ->
                  /\ \A k \in DOMAIN s : InOther(s[k], b)
                  /\ \A k \in DOMAIN t : InOther(t[k], a)

-----------------------------------------------------------------------------
(* The calls of the program. *)

(* The bytes of a text are read once, as the first call. *)
Parse(text, require_null_terminated, fuel) ==
  LET m == cJSON_ParseWithLengthOpts(text, Memory(fuel), require_null_terminated)
  IN /\ calls = 0 /\ calls' = IF text \in Documents THEN 1 ELSE MaxCalls
     /\ Finish("parse", NULL, 0, NULL, NoKey, m)
     /\ roots' = New(m) /\ lost' = lost
     /\ parsed' = [text |-> text, end |-> m.off, oom |-> m.oom,
                   terminated |-> require_null_terminated]

CreateArray(count, fuel) == Made("create", CreateArrayOf(Memory(fuel), count))

Duplicate(i, recurse, fuel) ==
  RefFree(i) /\ Made("duplicate", cJSON_Duplicate_rec(Memory(fuel), i, 0, recurse))

Next ==
  /\ calls < MaxCalls
  /\ \/ \E require \in BOOLEAN :
          \/ \E text \in Texts : Parse(text, require, Max(Fuels))
          \/ \E text \in Documents, fuel \in Fuels : Parse(text, require, fuel)
     \/ \E fuel \in Fuels :
          \/ \E count \in 0 .. 2 : CreateArray(count, fuel)
          \/ \E i \in Items \ lost, recurse \in BOOLEAN : Duplicate(i, recurse, fuel)
     \/ Rearrange

Spec == Init /\ [][Next]_vars
=============================================================================
