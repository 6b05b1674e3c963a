--------------------------- MODULE JsonInvariants ---------------------------
(***************************************************************************)
(* What the memory of a program that uses cJSON.c is like after every      *)
(* call, what its texts and buffers can rely on, and the trees that the    *)
(* memory stands for: calls do to it what those of JsonForest do to trees. *)
(***************************************************************************)
EXTENDS JsonCalls

-----------------------------------------------------------------------------
(* Memory. *)

Owned(n) ==
  (IF n.IsReference \/ n.valuestring = NULL THEN <<>> ELSE <<n.valuestring>>)
  \o (IF n.StringIsConst \/ n.string = NULL THEN <<>> ELSE <<n.string>>)

(* The blocks that an item owns directly, one entry for each time. *)
Owns(b) ==
  IF ~IsItem(heap, b) THEN <<>>
  ELSE Owned(heap[b]) \o (IF heap[b].IsReference THEN <<>> ELSE Children(heap, b))

Types == {"NULL", "False", "True", "Number", "String", "Raw", "Array", "Object"}
ItemRecord ==
  [type : Types, next : Int, prev : Int, child : Int, valuestring : Int, valuedouble : Int,
   string : Int, StringIsConst : BOOLEAN, IsReference : BOOLEAN]

(* Every pointer is to a block of its kind, except that a reference may    *)
(* have outlived what it refers to.                                        *)
TypeOK ==
  /\ roots \subseteq Items /\ lost \subseteq Items /\ bad \in BOOLEAN /\ calls \in 0 .. MaxCalls
  /\ parsed.text \in Seq(Byte)
  /\ DOMAIN heap \subseteq Blocks
  /\ \A b \in DOMAIN heap : heap[b] \in ItemRecord \union [chars : Seq(Byte)]
  /\ \A b \in Items :
       LET n == heap[b]
           TextOf(p) == p = NULL \/ (p \in DOMAIN heap \ Items)
           Item(p) == p = NULL \/ p \in Items
       IN /\ n.string = StaticKey <=> n.StringIsConst /\ n.string # NULL
          /\ n.StringIsConst \/ TextOf(n.string)
          /\ Item(n.next) /\ Item(n.prev)
          /\ n.IsReference \/ (Item(n.child) /\ TextOf(n.valuestring))

(* Whatever the program did, and whichever allocations failed on the way,  *)
(* no block was freed twice and every block has exactly one owner: it is   *)
(* held by the program, or one item has it as its child, its text or its   *)
(* key.  So cJSON_Delete of what the program holds frees everything, once. *)
(* The only exception is the reference that                                *)
(* cJSON_AddItemReferenceToObject leaves behind when its key cannot be     *)
(* copied.                                                                 *)
EachBlockHasOneOwner ==
  LET owns == [b \in DOMAIN heap |-> Owns(b)]
      slots == UNION {{b} \X DOMAIN owns[b] : b \in DOMAIN heap}
      owned == [slot \in slots |-> owns[slot[1]][slot[2]]]
  IN ~bad /\ IsInjective(owned) /\ Range(owned) = DOMAIN heap \ (roots \union lost)

(* The links of all lists agree: prev undoes next, the first one's prev is *)
(* the last, where the next add will append, no item is in two places, and *)
(* an item that the program holds is in no list and has no neighbours.     *)
ListsWellFormed ==
  LET owners == {b \in Items \ lost : ~heap[b].IsReference}
  IN ListsAre(heap, [b \in owners |-> Children(heap, b)], roots)

-----------------------------------------------------------------------------
(* Texts and buffers. *)

(* Every string fits into the buffer that was measured for it. *)
StringsFit ==
  \A o \in 0 .. Len(parsed.text) - 1 : At(parsed.text, o) = Quote => StringFits(parsed.text, o)

(* Every \u escape of a text becomes the character it stands for. *)
EscapesKeepTheirMeaning ==
  LET t == parsed.text
  IN \A o \in 0 .. Len(t) - 2 :
       At(t, o) = Backslash /\ At(t, o + 1) = LowerU => EscapeKeepsItsMeaning(t, o, Len(t) - 1)

(* However long its buffer is, a print never writes past it, and           *)
(* cJSON_PrintPreallocated succeeds whenever the text, its 0 and one byte  *)
(* more have room, of the 5 that cJSON.h asks for.                         *)
PrintFits ==
  \A i \in {r \in roots : RefFree(r)}, format \in BOOLEAN :
    LET pieces == Pieces(heap, format, i)
        whole == cJSON_PrintPreallocated(pieces, INT_MAX)
    IN /\ ~print(pieces, 40).over
       /\ \A length \in 0 .. Len(whole.out) + 2 :
            LET p == cJSON_PrintPreallocated(pieces, length)
            IN /\ ~p.over
               /\ whole.ok /\ length = Len(whole.out) + 2 => p.ok /\ p.out = whole.out

-----------------------------------------------------------------------------
(* The trees that memory stands for. *)

KeyOf(h, b) == IF h[b].string = NULL THEN NoKey ELSE Chars(h, h[b].string)

(* A reference shares the text and the children of another item, which may *)
(* be gone.                                                                *)
ValueOf(h, b) ==
  IF h[b].IsReference THEN <<>>
  ELSE IF h[b].valuestring # NULL THEN Chars(h, h[b].valuestring)
  ELSE <<h[b].valuedouble>>

KidsOf(h, b) == IF h[b].IsReference THEN <<>> ELSE Children(h, b)

Trees(h) ==
  [b \in {x \in DOMAIN h : IsItem(h, x)} |->
    [type |-> h[b].type, key |-> KeyOf(h, b), value |-> ValueOf(h, b), kids |-> KidsOf(h, b)]]

Forest == INSTANCE JsonForest WITH items <- Trees(heap)

(* Every call does to the trees what its name says, or nothing: an         *)
(* allocation that fails in the middle leaves no half-made or half-moved   *)
(* tree behind, and only what is deleted disappears.                       *)
ImplementsForest == Forest!Spec
=============================================================================
