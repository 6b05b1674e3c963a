------------------------------ MODULE JsonTree ------------------------------
(***************************************************************************)
(* The parser of cJSON.c, on the machines of JsonItems.                    *)
(***************************************************************************)
EXTENDS JsonItems

CONSTANTS
  NestingLimit,  \* CJSON_NESTING_LIMIT, of the parser
  CircularLimit  \* CJSON_CIRCULAR_LIMIT, of cJSON_Duplicate

ASSUME NestingLimitAssumption == NestingLimit \in Nat
ASSUME CircularLimitAssumption == CircularLimit \in Nat

-----------------------------------------------------------------------------
(* The parser. *)

Can(t, m, i) == m.off + i < Len(t)
Sees(t, m, c) == Can(t, m, 0) /\ At(t, m.off) = c
SeesWord(t, m, w) == m.off + Len(w) <= Len(t) /\ Cut(t, m.off, m.off + Len(w)) = w
Skip(t, m) == [m EXCEPT !.off = SkipWhitespace(t, @)]
Move(m, n) == [m EXCEPT !.off = @ + n]

Scalar(m, item, type, n) == Move([m EXCEPT !.ok = TRUE, !.heap[item].type = type], n)

parse_number(t, m, item) ==
  LET m1 == Allocate(m, [chars |-> <<>>])  \* the copy that strtod reads
      number == ParseNumber(t, m.off)
      m2 == Deallocate(m1, m1.ret)
  IN IF m1.ret = NULL THEN Fail(m1)
     ELSE IF number.end = m.off THEN Fail(m2)
     ELSE Scalar([m2 EXCEPT !.heap[item].valuedouble = number.num],
                 item, "Number", number.end - m.off)

(* The literal is decoded into a new block; on a bad escape it is freed. *)
TakeString(m, item, end, literal) ==
  LET m1 == Allocate(m, [chars |-> CString(literal.out)])
  IN IF m1.ret = NULL THEN Fail(Move(m1, 1))
     ELSE IF ~literal.ok THEN Fail([Deallocate(m1, m1.ret) EXCEPT !.off = literal.off])
     ELSE [m1 EXCEPT !.heap[item].type = "String", !.heap[item].valuestring = m1.ret,
                     !.off = end + 1, !.ok = TRUE]

parse_string(t, m, item) ==
  LET end == StringEnd(t, m.off + 1).end
  IN IF ~Sees(t, m, Quote) \/ end = -1 THEN Fail(Move(m, 1))
     ELSE TakeString(m, item, end, Unescape(t, m.off + 1, end))

(* The string read for a member's name becomes its key. *)
AfterName(t, m, item) ==
  LET named == Skip(t, [m EXCEPT !.heap[item].string = m.heap[item].valuestring,
                                 !.heap[item].valuestring = NULL])
  IN IF ~m.ok THEN m
     ELSE IF ~Sees(t, named, Colon) THEN Fail(named)
     ELSE Skip(t, Move(named, 1))

parse_name(t, m, item) == AfterName(t, parse_string(t, m, item), item)

(* The end of parse_array and parse_object, at their closing bracket. *)
CloseList(m, item, type, head, last) ==
  LET m1 == IF head = NULL THEN m ELSE [m EXCEPT !.heap[head].prev = last]
  IN [m1 EXCEPT !.heap[item].type = type, !.heap[item].child = head,
                !.depth = @ - 1, !.off = @ + 1, !.ok = TRUE]

RECURSIVE parse_value(_, _, _), ParseList(_, _, _, _), ParseElements(_, _, _, _, _, _),
          ParseElement(_, _, _, _), ParseNamed(_, _, _), AfterElement(_, _, _, _, _, _)

Closing(type) == IF type = "Array" THEN CloseArray ELSE CloseObject

(* parse_array and parse_object up to their first element. *)
ParseList(t, m, item, type) ==
  LET m1 == Skip(t, [m EXCEPT !.depth = @ + 1, !.off = @ + 1])
  IN IF m.depth >= NestingLimit THEN Fail(m)
     ELSE IF Sees(t, m1, Closing(type)) THEN CloseList(m1, item, type, NULL, NULL)
     ELSE IF ~Can(t, m1, 0) THEN Fail(Move(m1, -1))
     ELSE ParseElements(t, Move(m1, -1), item, type, NULL, NULL)

(* One turn of their loop: off is in front of the element, at the opening  *)
(* bracket or a comma.  An element is linked before it is parsed, so that  *)
(* the list from head holds all there is to delete when it fails.          *)
ParseElements(t, m, item, type, head, current_item) ==
  LET new == cJSON_New_Item(m)
      n == new.ret
      linked == IF head = NULL THEN new
                ELSE [new EXCEPT !.heap[current_item].next = n, !.heap[n].prev = current_item]
  IN IF n = NULL THEN Fail(cJSON_Delete(new, head))
     ELSE AfterElement(t, ParseElement(t, linked, n, type), item, type,
                       IF head = NULL THEN n ELSE head, n)

ParseElement(t, m, n, type) ==
  ParseNamed(t, IF type = "Array" THEN Skip(t, Move(m, 1))
                ELSE IF ~Can(t, m, 1) THEN Fail(m)
                ELSE parse_name(t, Skip(t, Move(m, 1)), n), n)

ParseNamed(t, m, n) == IF m.ok THEN parse_value(t, m, n) ELSE m

AfterElement(t, m, item, type, head, n) ==
  LET after == Skip(t, m)
  IN IF ~m.ok THEN Fail(cJSON_Delete(m, head))
     ELSE IF Sees(t, after, Comma) THEN ParseElements(t, after, item, type, head, n)
     ELSE IF Sees(t, after, Closing(type)) THEN CloseList(after, item, type, head, n)
     ELSE Fail(cJSON_Delete(after, head))

parse_value(t, m, item) ==
  IF SeesWord(t, m, NullWord) THEN Scalar(m, item, "NULL", 4)
  ELSE IF SeesWord(t, m, FalseWord) THEN Scalar(m, item, "False", 5)
  ELSE IF SeesWord(t, m, TrueWord) THEN Scalar(m, item, "True", 4)
  ELSE IF Sees(t, m, Quote) THEN parse_string(t, m, item)
  ELSE IF Can(t, m, 0) /\ (At(t, m.off) = Minus \/ Digit(At(t, m.off)))
       THEN parse_number(t, m, item)
  ELSE IF Sees(t, m, OpenArray) \/ Sees(t, m, OpenObject)
       THEN ParseList(t, m, item, IF Sees(t, m, OpenArray) THEN "Array" ELSE "Object")
  ELSE Fail(m)

(* A failure leaves no item behind; off is what cJSON_GetErrorPtr reports. *)
Failed(t, m) == Return([m EXCEPT !.off = IF @ < Len(t) THEN @ ELSE Max({Len(t) - 1, 0})], NULL)

AfterValue(t, m, item, require_null_terminated) ==
  LET end == IF require_null_terminated THEN Skip(t, m) ELSE m
  IN IF ~m.ok THEN Failed(t, cJSON_Delete(m, item))
     ELSE IF require_null_terminated /\ ~Sees(t, end, 0) THEN Failed(t, cJSON_Delete(end, item))
     ELSE Return(end, item)

(* The new root or NULL; off is where the value ended. *)
cJSON_ParseWithLengthOpts(t, m, require_null_terminated) ==
  LET new == cJSON_New_Item(m)
      start == Skip(t, [new EXCEPT !.off = SkipBOM(t)])
  IN IF Len(t) = 0 THEN Return(m, NULL)
     ELSE IF new.ret = NULL THEN Failed(t, new)
     ELSE AfterValue(t, parse_value(t, start, new.ret), new.ret, require_null_terminated)
=============================================================================
