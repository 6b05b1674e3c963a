------------------------------ MODULE JsonPrint ------------------------------
(***************************************************************************)
(* The printer of cJSON.c.  A printbuffer p holds                          *)
(*   out      the bytes written so far; offset is their number             *)
(*   length   the size of the buffer     fuel   reallocations that succeed *)
(*   noalloc  it may not grow            over   a byte went past length    *)
(*   ok       no print function failed                                     *)
(* A print function asks for room and writes, again and again; depth is    *)
(* how deep an item is nested in the one that is printed.                  *)
(***************************************************************************)
EXTENDS JsonItems

CONSTANTS
  INT_MAX,
  DefaultBufferSize  \* default_buffer_size of print

ASSUME IntMaxAssumption == INT_MAX \in Nat
ASSUME DefaultBufferSizeAssumption == DefaultBufferSize \in Nat \ {0}

PrintBuffer(length, noalloc, fuel) ==
  [out |-> <<>>, length |-> length, noalloc |-> noalloc, fuel |-> fuel,
   ok |-> TRUE, over |-> FALSE]

(* Faulty: the byte for the closing 0 is forgotten. *)
ensureExact(p, needed) ==
  LET need == needed + Len(p.out)
      newsize == IF need > INT_MAX \div 2 THEN INT_MAX ELSE 2 * need
  IN IF ~p.ok \/ (p.length > 0 /\ Len(p.out) >= p.length) \/ needed > INT_MAX THEN Fail(p)
     ELSE IF need <= p.length THEN p
     ELSE IF p.noalloc \/ need > INT_MAX \/ p.fuel = 0 THEN Fail(p)
     ELSE [p EXCEPT !.length = newsize, !.fuel = @ - 1]

(* Room for needed bytes and one more; the buffer doubles, up to INT_MAX. *)
ensure(p, needed) ==
  LET need == needed + Len(p.out) + 1
      newsize == IF need > INT_MAX \div 2 THEN INT_MAX ELSE 2 * need
  IN IF ~p.ok \/ (p.length > 0 /\ Len(p.out) >= p.length) \/ needed > INT_MAX THEN Fail(p)
     ELSE IF need <= p.length THEN p
     ELSE IF p.noalloc \/ need > INT_MAX \/ p.fuel = 0 THEN Fail(p)
     ELSE [p EXCEPT !.length = newsize, !.fuel = @ - 1]

(* One call of ensure and what is written then, with a 0 after it.  The    *)
(* type of an item may leave nothing to write.                             *)
Piece(needed, text) == [needed |-> needed, text |-> text]
Refused == Piece(-1, <<>>)

Put(p, piece) ==
  LET q == IF piece = Refused THEN Fail(p) ELSE ensure(p, piece.needed)
  IN IF ~q.ok THEN q
     ELSE [q EXCEPT !.out = @ \o piece.text,
                    !.over = @ \/ Len(q.out) + Len(piece.text) + 1 > q.length]

(* After a failure nothing is written any more. *)
Write(p, pieces) ==
  LET after[k \in 0 .. Len(pieces)] == IF k = 0 THEN p ELSE Put(after[k - 1], pieces[k])
  IN after[Len(pieces)]

-----------------------------------------------------------------------------
(* What is written for an item. *)

Text(s) == Piece(Len(s) + 1, s)
Tabs(n) == [x \in 1 .. n |-> 9]

(* print_string_ptr: the room is measured before the text is written. *)
print_string_ptr(heap, string) ==
  LET s == Chars(heap, string)
  IN IF string = NULL THEN Text(<<Quote, Quote>>) ELSE Piece(StringLength(s) + 1, StringText(s))

IfFormat(format, s) == IF format THEN s ELSE <<>>

(* An array, its elements written as elements[k]. *)
print_array(format, elements) ==
  LET last == Len(elements)
      comma == <<Comma>> \o IfFormat(format, <<32>>)
      Element(k) == elements[k] \o (IF k = last THEN <<>> ELSE <<Text(comma)>>)
  IN <<Piece(1, <<OpenArray>>)>> \o FlattenSeq([k \in 1 .. last |-> Element(k)])
     \o <<Text(<<CloseArray>>)>>

(* An object at the given depth, with its members' names and values. *)
print_object(format, depth, names, values) ==
  LET last == Len(names)
      open == <<OpenObject>> \o IfFormat(format, <<10>>)
      colon == <<Colon>> \o IfFormat(format, <<9>>)
      end(k) == (IF k = last THEN <<>> ELSE <<Comma>>) \o IfFormat(format, <<10>>)
      close == IfFormat(format, Tabs(depth)) \o <<CloseObject>>
      Member(k) == IfFormat(format, <<Piece(depth + 1, Tabs(depth + 1))>>)
                   \o <<names[k], Piece(Len(colon), colon)>>
                   \o values[k] \o <<Text(end(k))>>
  IN <<Text(open)>> \o FlattenSeq([k \in 1 .. last |-> Member(k)]) \o <<Text(close)>>

(* print_value: the pieces of an item, whose children's are of[child].     *)
print_value(heap, format, depth, item, of) ==
  LET n == heap[item]
      s == Children(heap, item)
      values == [k \in 1 .. Len(s) |-> of[s[k]]]
      names == [k \in 1 .. Len(s) |-> print_string_ptr(heap, heap[s[k]].string)]
  IN CASE n.type = "NULL" -> <<Text(NullWord)>>
       [] n.type = "False" -> <<Text(FalseWord)>>
       [] n.type = "True" -> <<Text(TrueWord)>>
       [] n.type = "Number" -> <<Text(NumberText(n.valuedouble))>>
       [] n.type = "String" -> <<print_string_ptr(heap, n.valuestring)>>
       [] n.type = "Raw" /\ n.valuestring # NULL -> <<Text(Chars(heap, n.valuestring))>>
       [] n.type = "Array" -> print_array(format, values)
       [] n.type = "Object" -> print_object(format, depth, names, values)
       [] OTHER -> <<Refused>>

(* The text of an item; no item is nested deeper than there are blocks.    *)
Pieces(heap, format, item) ==
  LET deepest == Cardinality(DOMAIN heap)
      of[left \in 0 .. deepest] ==
        [p \in Int |-> IF left = 0 THEN <<>>
                       ELSE print_value(heap, format, deepest - left, p, of[left - 1])]
  IN of[deepest][item]

(* cJSON_PrintPreallocated, and cJSON_Print and cJSON_PrintUnformatted, of *)
(* an item of these pieces.                                                *)
cJSON_PrintPreallocated(pieces, length) == Write(PrintBuffer(length, TRUE, 0), pieces)

print(pieces, fuel) ==
  LET p == Write(PrintBuffer(DefaultBufferSize, FALSE, fuel - 1), pieces)
  IN IF fuel = 0 \/ p.fuel = 0 THEN Fail(p)  \* no buffer, or it cannot be cut to size
     ELSE p
=============================================================================
