----------------------------- MODULE JsonCalls -----------------------------
(***************************************************************************)
(* A program that uses cJSON.c, between the calls that build whole trees:  *)
(* it makes items, puts them into arrays and objects, takes them out,      *)
(* replaces and deletes them.  The program keeps to the rules of the       *)
(* library: it passes only items that exist, adds only items that it holds *)
(* itself, and never an item to something below it.  Any allocation may    *)
(* fail.                                                                   *)
(***************************************************************************)
EXTENDS JsonPrint

CONSTANTS
  Kinds,     \* the types of item made with cJSON_Create...
  Values,    \* the texts of strings, for cJSON_CreateString and SetValuestring
  Keys,      \* names passed for a key, StaticText among them
  Blocks,    \* bound of the model: the ids of blocks
  Fuels,     \* bound of the model: how many allocations of a call succeed
  MaxCalls   \* bound of the model: calls in a behaviour

ASSUME KindsAssumption ==
  Kinds \subseteq {"NULL", "False", "True", "Number", "String", "Raw", "Array", "Object"}
ASSUME TextsPassedAssumption == Values \subseteq Seq(Byte) /\ Keys \subseteq Seq(Byte)
ASSUME KeysAssumption == StaticText \in Keys
ASSUME BlocksAssumption == Blocks \subseteq Nat \ {NULL} /\ IsFiniteSet(Blocks)
ASSUME FuelsAssumption == Fuels \subseteq Nat
ASSUME MaxCallsAssumption == MaxCalls \in Nat

VARIABLES
  heap,
  roots,   \* the items that the program holds, besides what is below them
  lost,    \* the blocks that no call can reach any more
  bad,     \* a block was freed twice
  parsed,  \* what the last call parsed and where it ended, if it did
  call,    \* the last call, as JsonForest has it
  calls

vars == <<heap, roots, lost, bad, parsed, call, calls>>

Items == {b \in DOMAIN heap : IsItem(heap, b)}
Containers(type) ==
  {b \in Items \ lost : heap[b].type = type /\ ~heap[b].IsReference}

(* An item and all that it owns below it. *)
Below(b) ==
  LET below[k \in 0 .. Cardinality(DOMAIN heap)] ==
        [p \in Int |->
          {p} \union (IF k = 0 \/ heap[p].IsReference THEN {}
                      ELSE UNION {below[k - 1][c] : c \in ToSet(Children(heap, p))})]
  IN below[Cardinality(DOMAIN heap)][b]

(* No reference at or below i: a reference may outlive what it refers to. *)
RefFree(i) == \A x \in Below(i) : ~heap[x].IsReference

NoKey == <<-1>>  \* no text: the text of a key may be empty
NotParsed == [text |-> <<>>, end |-> 0, oom |-> FALSE, terminated |-> FALSE]

Init ==
  /\ heap = <<>> /\ roots = {} /\ lost = {} /\ bad = FALSE
  /\ parsed = NotParsed /\ call = [op |-> "none"] /\ calls = 0

Memory(fuel) == Machine(heap, Blocks, fuel)

Finish(op, c, at, i, key, m) ==
  /\ heap' = m.heap /\ bad' = (bad \/ m.bad)
  /\ call' = [op |-> op, c |-> c, at |-> at, i |-> i, key |-> key, ok |-> m.ok, ret |-> m.ret]

(* What most calls do besides: nothing is lost, nothing was parsed. *)
Keep == calls' = calls + 1 /\ lost' = lost /\ parsed' = NotParsed

(* An item that was added to a list is its container's from then on. *)
Held(m, i) == IF m.ok THEN roots \ {i} ELSE roots
New(m) == IF m.ret = NULL THEN roots ELSE roots \union {m.ret}
Void(m) == [m EXCEPT !.ret = NULL, !.ok = TRUE]

-----------------------------------------------------------------------------
(* Looking up children. *)

cJSON_GetArraySize(array) == Len(Children(heap, array))

get_array_item(m, array, index) ==
  LET s == Children(m.heap, array) IN IF index < Len(s) THEN s[index + 1] ELSE NULL

(* The first child with that name; the case sensitive search stops at a    *)
(* child without a name.                                                   *)
get_object_item(m, object, name, case_sensitive) ==
  LET s == Children(m.heap, object)
      string(k) == m.heap[s[k]].string
      matches == {k \in DOMAIN s : string(k) # NULL /\
                    SameName(name, Chars(m.heap, string(k)), case_sensitive)}
      nameless == {k \in DOMAIN s : string(k) = NULL}
  IN IF matches = {} \/ (case_sensitive /\ \E k \in nameless : k < Min(matches))
     THEN NULL ELSE s[Min(matches)]

IndexOf(object, item) ==
  LET s == Children(heap, object)
  IN IF item = NULL THEN Len(s) ELSE Min({k \in DOMAIN s : s[k] = item}) - 1

-----------------------------------------------------------------------------
(* The functions that link items into a list and out of it. *)

add_item_to_array(m, array, item) ==
  IF item = NULL \/ array = item THEN Fail(m)
  ELSE [m EXCEPT !.heap = AppendLinks(@, array, item), !.ok = TRUE]

(* Faulty: the item's old key is not freed. *)
add_item_to_objectKeepKey(m, object, key, item, constant_key) ==
  LET m1 == IF constant_key THEN Return(m, StaticKey) ELSE cJSON_strdup(m, key)
      m3 == [m1 EXCEPT !.heap[item].string = m1.ret, !.heap[item].StringIsConst = constant_key]
  IN IF item = NULL \/ object = item THEN Fail(m)
     ELSE IF m1.ret = NULL THEN Fail(m1)
     ELSE [add_item_to_array(m3, object, item) EXCEPT !.ret = NULL]

(* The key is copied, unless it is constant, before the old one is freed. *)
add_item_to_object(m, object, key, item, constant_key) ==
  LET m1 == IF constant_key THEN Return(m, StaticKey) ELSE cJSON_strdup(m, key)
      m2 == FreeIf(m1, ~m1.heap[item].StringIsConst, m1.heap[item].string)
      m3 == [m2 EXCEPT !.heap[item].string = m1.ret, !.heap[item].StringIsConst = constant_key]
  IN IF item = NULL \/ object = item THEN Fail(m)
     ELSE IF m1.ret = NULL THEN Fail(m1)
     ELSE [add_item_to_array(m3, object, item) EXCEPT !.ret = NULL]

(* cJSON_DetachItemViaPointer *)
Detach(m, parent, item) ==
  IF item = NULL \/ (item # m.heap[parent].child /\ m.heap[item].prev = NULL) THEN Return(m, NULL)
  ELSE Return([m EXCEPT !.heap = DetachLinks(@, parent, item)], item)

(* cJSON_InsertItemInArray *)
Insert(m, array, which, newitem) ==
  LET after == get_array_item(m, array, which)
  IN IF after = NULL THEN add_item_to_array(m, array, newitem)
     ELSE IF after # m.heap[array].child /\ m.heap[after].prev = NULL THEN Fail(m)
     ELSE [m EXCEPT !.heap = InsertLinks(@, array, after, newitem), !.ok = TRUE]

(* cJSON_ReplaceItemViaPointer, of an item by another one. *)
ReplaceItem(m, parent, item, replacement) ==
  LET linked == [m EXCEPT !.heap = ReplaceLinks(@, parent, item, replacement)]
  IN IF item = NULL THEN Fail(m)
     ELSE IF item = replacement THEN [m EXCEPT !.ok = TRUE]
     ELSE [cJSON_Delete(linked, item) EXCEPT !.ok = TRUE]

(* The replacement gets its new key before the old item is looked for. *)
replace_item_in_object(m, object, key, replacement, case_sensitive) ==
  LET m1 == FreeIf(m, ~m.heap[replacement].StringIsConst, m.heap[replacement].string)
      m2 == cJSON_strdup(m1, key)
      m3 == [m2 EXCEPT !.heap[replacement].string = m2.ret]
      m4 == [m3 EXCEPT !.heap[replacement].StringIsConst = FALSE, !.ret = NULL]
  IN IF m2.ret = NULL THEN Fail(m3)
     ELSE ReplaceItem(m4, object, get_object_item(m4, object, key, case_sensitive), replacement)

-----------------------------------------------------------------------------
(* Making items. *)

(* The cJSON_Create... functions; a string or raw item has a text. *)
Create(m, type, chars) ==
  LET new == cJSON_New_Item(m)
      typed == [new EXCEPT !.heap[new.ret].type = type]
      text == cJSON_strdup(typed, chars)
  IN IF new.ret = NULL THEN new
     ELSE IF type \notin {"String", "Raw"} THEN typed
     ELSE IF text.ret = NULL THEN Return(cJSON_Delete(text, new.ret), NULL)
     ELSE Return([text EXCEPT !.heap[new.ret].valuestring = text.ret], new.ret)

(* create_reference: a copy of the item that shares what is below it. *)
create_reference(m, item) ==
  Allocate(m, [m.heap[item] EXCEPT !.string = NULL, !.next = NULL, !.prev = NULL,
                                   !.IsReference = TRUE])

(* A text that is not longer than the old one is written over it. *)
cJSON_SetValuestring(m, object, chars) ==
  LET old == m.heap[object].valuestring
      copy == cJSON_strdup(m, chars)
      m1 == Deallocate(copy, old)
  IN IF old = NULL THEN Fail(m)
     ELSE IF Len(chars) <= Len(Chars(m.heap, old)) THEN [m EXCEPT !.heap[old].chars = chars]
     ELSE IF copy.ret = NULL THEN copy
     ELSE [m1 EXCEPT !.heap[object].valuestring = copy.ret]

-----------------------------------------------------------------------------
(* The calls of the program. *)

Made(op, m) == Finish(op, NULL, 0, NULL, NoKey, m) /\ roots' = New(m) /\ Keep

CreateItem(type, chars, fuel) == Made("create", Create(Memory(fuel), type, chars))

(* An item that the program holds may be added where it does not itself belong. *)
Free(i, c) == c \notin Below(i)

AddToArray(c, i) ==
  LET m == add_item_to_array(Memory(0), c, i)
  IN /\ Free(i, c) /\ Finish("insert", c, cJSON_GetArraySize(c), i, NoKey, m)
     /\ roots' = Held(m, i) /\ Keep

AddToObject(c, i, key, constant_key, fuel) ==
  LET m == add_item_to_object(Memory(fuel), c, key, i, constant_key)
  IN /\ Free(i, c) /\ (constant_key => key = StaticText)
     /\ Finish("put", c, cJSON_GetArraySize(c), i, key, m)
     /\ roots' = Held(m, i) /\ Keep

(* cJSON_AddNullToObject and the like. *)
AddNewToObject(c, type, chars, key, fuel) ==
  LET new == Create(Memory(fuel), type, chars)
      m == add_item_to_object(new, c, key, new.ret, FALSE)
      done == IF m.ok THEN Return(m, new.ret) ELSE Return(cJSON_Delete(m, new.ret), NULL)
  IN Finish("new", c, 0, NULL, key, done) /\ UNCHANGED roots /\ Keep

AddReferenceToArray(c, i, fuel) ==
  LET new == create_reference(Memory(fuel), i)
      m == add_item_to_array(new, c, new.ret)
  IN /\ Finish("refer", c, 0, NULL, NoKey, [m EXCEPT !.ret = NULL])
     /\ UNCHANGED roots /\ Keep

(* A reference whose key cannot be copied is not deleted. *)
AddReferenceToObject(c, i, key, fuel) ==
  LET new == create_reference(Memory(fuel), i)
      m == add_item_to_object(new, c, key, new.ret, FALSE)
  IN /\ calls' = calls + 1 /\ parsed' = NotParsed
     /\ Finish("refer", c, 0, NULL, key, [m EXCEPT !.ret = NULL]) /\ UNCHANGED roots
     /\ lost' = lost \union (IF m.ok \/ new.ret = NULL THEN {} ELSE {new.ret})

(* cJSON_DetachItemFromArray, ...FromObject; cJSON_DeleteItemFromArray,    *)
(* ...FromObject.                                                          *)
TakeOut(c, item) ==
  LET m == Detach(Memory(0), c, item)
  IN Finish("detach", c, IndexOf(c, item), NULL, NoKey, m) /\ roots' = New(m) /\ Keep

DeleteFrom(c, item) ==
  LET m == Detach(Memory(0), c, item)
  IN /\ Finish("deleteAt", c, IndexOf(c, item), NULL, NoKey, Void(cJSON_Delete(m, m.ret)))
     /\ UNCHANGED roots /\ Keep

InsertInArray(c, which, i) ==
  LET m == Insert(Memory(0), c, which, i)
  IN /\ Free(i, c) /\ Finish("insert", c, which, i, NoKey, m)
     /\ roots' = Held(m, i) /\ Keep

ReplaceInArray(c, which, i) ==
  LET m == ReplaceItem(Memory(0), c, get_array_item(Memory(0), c, which), i)
  IN /\ Free(i, c) /\ Finish("replace", c, which, i, NoKey, m)
     /\ roots' = Held(m, i) /\ Keep

ReplaceInObject(c, i, key, case_sensitive, fuel) ==
  LET m == replace_item_in_object(Memory(fuel), c, key, i, case_sensitive)
      old == get_object_item(Memory(0), c, key, case_sensitive)
  IN /\ Free(i, c) /\ Finish("replace", c, IndexOf(c, old), i, key, m)
     /\ roots' = Held(m, i) /\ Keep

SetValuestring(i, chars, fuel) ==
  /\ heap[i].type = "String" /\ ~heap[i].IsReference
  /\ LET m == cJSON_SetValuestring(Memory(fuel), i, chars)
     IN Finish("set", NULL, 0, i, chars, [m EXCEPT !.ret = NULL])
  /\ UNCHANGED roots /\ Keep

Delete(i) ==
  /\ Finish("delete", NULL, 0, i, NoKey, Void(cJSON_Delete(Memory(0), i)))
  /\ roots' = roots \ {i} /\ Keep

Found(c, key, case_sensitive) == get_object_item(Memory(0), c, key, case_sensitive)

(* All calls but those that build a whole tree. *)
Rearrange ==
  \/ \E fuel \in Fuels :
       \/ \E type \in Kinds, chars \in Values : CreateItem(type, chars, fuel)
       \/ \E i \in Items \ lost :
            \/ \E chars \in Values : SetValuestring(i, chars, fuel)
            \/ \E c \in Containers("Array") : AddReferenceToArray(c, i, fuel)
            \/ \E c \in Containers("Object"), key \in Keys : AddReferenceToObject(c, i, key, fuel)
       \/ \E c \in Containers("Object"), key \in Keys :
            \/ \E type \in Kinds, chars \in Values : AddNewToObject(c, type, chars, key, fuel)
            \/ \E i \in roots, flag \in BOOLEAN :
                 AddToObject(c, i, key, flag, fuel) \/ ReplaceInObject(c, i, key, flag, fuel)
  \/ \E c \in Containers("Array"), i \in roots :
       \/ AddToArray(c, i)
       \/ \E which \in 0 .. cJSON_GetArraySize(c) :
            InsertInArray(c, which, i) \/ ReplaceInArray(c, which, i)
  \/ \E c \in Containers("Array") \union Containers("Object") :
       \E which \in 0 .. cJSON_GetArraySize(c) :
         LET item == get_array_item(Memory(0), c, which)
         IN TakeOut(c, item) \/ DeleteFrom(c, item)
  \/ \E c \in Containers("Object"), key \in Keys, flag \in BOOLEAN :
       TakeOut(c, Found(c, key, flag)) \/ DeleteFrom(c, Found(c, key, flag))
  \/ \E i \in roots : Delete(i)

(* The program that makes only these calls, in any number and order. *)
CallsSpec == Init /\ [][calls < MaxCalls /\ Rearrange]_vars
=============================================================================
