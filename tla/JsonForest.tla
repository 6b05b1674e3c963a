----------------------------- MODULE JsonForest -----------------------------
(***************************************************************************)
(* What cJSON's functions promise a program that uses them, without        *)
(* pointers: the program holds trees, an item has a type, a key, a value   *)
(* and a sequence of children, and every call does all of what it is asked *)
(* for, or nothing.  call says which call was made last, with its          *)
(* arguments and its result:                                               *)
(*   op   the kind of call          c, at  the container, a place in it    *)
(*   i    the item passed           key    the key passed, or NoKey        *)
(*   ok   whether it succeeded      ret    the item returned, or NULL      *)
(***************************************************************************)
EXTENDS Integers, FiniteSets, Sequences, SequencesExt

CONSTANTS Keys, Values  \* the names and the texts that the program passes

VARIABLES items, call

vars == <<items, call>>

NULL == 0
NoKey == <<-1>>  \* no text: the text of a key may be empty

Kids(its, p) == {its[p].kids[k] : k \in DOMAIN its[p].kids}

(* An item and all below it, in at most as many steps as there are items. *)
Below(b) ==
  LET n == Cardinality(DOMAIN items)
      within[k \in 0 .. n] ==
        IF k = 0 THEN {b}
        ELSE within[k - 1] \union UNION {Kids(items, p) : p \in within[k - 1]}
  IN within[n]

(* S is a tree with root r: no child outside, every other item the child   *)
(* of exactly one place.                                                   *)
IsTree(its, S, r) ==
  /\ r \in S
  /\ \A p \in S : Kids(its, p) \subseteq S \ {r}
  /\ \A x \in S \ {r} :
       \E p \in S : \E k \in DOMAIN its[p].kids :
         \A q \in S : \A l \in DOMAIN its[q].kids :
           its[q].kids[l] = x <=> q = p /\ l = k

Without(its, S) == [x \in DOMAIN its \ S |-> its[x]]

(* items' has one new tree besides what was there. *)
Grows(r) ==
  LET new == DOMAIN items' \ DOMAIN items
  IN Without(items', new) = items /\ IsTree(items', new, r)

Init == items = <<>> /\ call = [op |-> "none"]

Result(op, c, at, i, key, ok, ret) ==
  call' = [op |-> op, c |-> c, at |-> at, i |-> i, key |-> key, ok |-> ok, ret |-> ret]

(* Parse, Create..., Duplicate: a new tree, or nothing. *)
Make(op) ==
  \/ \E r \in DOMAIN items' : Result(op, NULL, 0, NULL, NoKey, TRUE, r) /\ Grows(r)
  \/ Result(op, NULL, 0, NULL, NoKey, FALSE, NULL) /\ UNCHANGED items

(* Append or insert an item at a place of an array or object.  Only an     *)
(* object gives it a key.                                                  *)
Attach(c, at, i, key, inObject) ==
  LET op == IF inObject THEN "put" ELSE "insert"
  IN \/ /\ Result(op, c, at, i, key, TRUE, NULL)
        /\ items' = [items EXCEPT ![c].kids = InsertAt(@, at + 1, i),
                                  ![i].key = IF inObject THEN key ELSE @]
     \/ Result(op, c, at, i, key, FALSE, NULL) /\ UNCHANGED items

(* Add...ToObject and the references: a new leaf at the end of a list.  A  *)
(* reference that cannot get its key stays behind, held by nobody.         *)
AttachNew(op, c, key) ==
  \/ \E r \in DOMAIN items' \ DOMAIN items :
       /\ Result(op, c, 0, NULL, key, TRUE, IF op = "new" THEN r ELSE NULL)
       /\ DOMAIN items' = DOMAIN items \union {r}
       /\ items'[r].kids = <<>> /\ items'[r].key = key
       /\ Without(items', {r}) = [items EXCEPT ![c].kids = Append(@, r)]
  \/ Result(op, c, 0, NULL, key, FALSE, NULL) /\ UNCHANGED items
  \/ /\ Result(op, c, 0, NULL, key, FALSE, NULL)
     /\ op = "refer" /\ key # NoKey /\ \E r \in DOMAIN items' : Grows(r)

Detach(c, at) ==
  \/ /\ at < Len(items[c].kids)
     /\ Result("detach", c, at, NULL, NoKey, TRUE, items[c].kids[at + 1])
     /\ items' = [items EXCEPT ![c].kids = RemoveAt(@, at + 1)]
  \/ /\ at = Len(items[c].kids)
     /\ Result("detach", c, at, NULL, NoKey, FALSE, NULL) /\ UNCHANGED items

DeleteAt(c, at) ==
  /\ Result("deleteAt", c, at, NULL, NoKey, TRUE, NULL)
  /\ \/ /\ at < Len(items[c].kids)
        /\ items' = Without([items EXCEPT ![c].kids = RemoveAt(@, at + 1)],
                            Below(items[c].kids[at + 1]))
     \/ at = Len(items[c].kids) /\ UNCHANGED items

(* The new item is in the old one's place, and the old one is gone.  A     *)
(* replacement in an object that fails may have changed the item's key.    *)
Replace(c, at, i, key) ==
  \/ /\ Result("replace", c, at, i, key, TRUE, NULL)
     /\ at < Len(items[c].kids)
     /\ items' = Without([items EXCEPT ![c].kids = ReplaceAt(@, at + 1, i),
                                       ![i].key = IF key = NoKey THEN @ ELSE key],
                         Below(items[c].kids[at + 1]))
  \/ /\ Result("replace", c, at, i, key, FALSE, NULL)
     /\ \/ UNCHANGED items
        \/ key # NoKey /\ \E k \in {key, NoKey} : items' = [items EXCEPT ![i].key = k]

SetValue(i, value) ==
  \/ /\ Result("set", NULL, 0, i, value, TRUE, NULL)
     /\ items' = [items EXCEPT ![i].value = value]
  \/ Result("set", NULL, 0, i, value, FALSE, NULL) /\ UNCHANGED items

Delete(i) ==
  /\ Result("delete", NULL, 0, i, NoKey, TRUE, NULL)
  /\ items' = Without(items, Below(i))

Next ==
  \/ \E op \in {"parse", "create", "duplicate"} : Make(op)
  \/ \E i \in DOMAIN items : Delete(i) \/ \E value \in Values : SetValue(i, value)
  \/ \E c \in DOMAIN items :
       \/ \E op \in {"new", "refer"}, key \in Keys \union {NoKey} : AttachNew(op, c, key)
       \/ \E at \in 0 .. Len(items[c].kids) :
            \/ Detach(c, at) \/ DeleteAt(c, at)
            \/ \E i \in DOMAIN items, key \in Keys \union {NoKey} :
                 \/ \E inObject \in BOOLEAN : Attach(c, at, i, key, inObject)
                 \/ Replace(c, at, i, key)

Spec == Init /\ [][Next]_vars
=============================================================================
