------------------------------ MODULE JsonText ------------------------------
(***************************************************************************)
(* The texts of cJSON.c: how the parser reads white space and numbers, how *)
(* the printer writes numbers and strings, and cJSON_Minify.  Reading      *)
(* strings is in JsonStrings.                                              *)
(***************************************************************************)
EXTENDS JsonStrings, SequencesExt

Blank(c) == c <= 32
Digit(c) == c \in 48 .. 57
NumberByte(c) == Digit(c) \/ c \in {43, Minus, 46, 69, 101}  \* digits + - . E e

(* A C string ends at its first 0. *)
CString(s) ==
  IF \E i \in DOMAIN s : s[i] = 0
  THEN SubSeq(s, 1, Min({i \in DOMAIN s : s[i] = 0}) - 1) ELSE s

(* Faulty: skips to the end of the buffer and stays there. *)
SkipWhitespaceToEnd(t, o) == Min({Len(t)} \union {e \in o .. Len(t) - 1 : ~Blank(At(t, e))})

(* buffer_skip_whitespace: at the end it steps back onto the last byte. *)
SkipWhitespace(t, o) ==
  IF o >= Len(t) THEN o
  ELSE LET e == Min({Len(t)} \union {x \in o .. Len(t) - 1 : ~Blank(At(t, x))})
       IN IF e = Len(t) THEN e - 1 ELSE e

SkipBOM(t) == IF Len(t) > 4 /\ Cut(t, 0, 3) = ByteOrderMark THEN 3 ELSE 0

(* tolower, and strcmp or case_insensitive_strcmp on what it leaves. *)
Lower(s) == [i \in DOMAIN s |-> IF s[i] \in 65 .. 90 THEN s[i] + 32 ELSE s[i]]
SameName(s, t, case_sensitive) == IF case_sensitive THEN s = t ELSE Lower(s) = Lower(t)

-----------------------------------------------------------------------------
(* Numbers, integers only: strtod takes an optional minus and the digits   *)
(* after it from the run of number bytes that parse_number copied.         *)

(* The number that the digits of s are. *)
Decimal(s) ==
  LET value[k \in 0 .. Len(s)] == IF k = 0 THEN 0 ELSE 10 * value[k - 1] + (s[k] - 48)
  IN value[Len(s)]

RunEnd(t, o, In(_)) == Min({Len(t)} \union {e \in o .. Len(t) - 1 : ~In(At(t, e))})

(* The number at offset o: its value and where it ends, or end = o. *)
ParseNumber(t, o) ==
  LET run == Cut(t, o, RunEnd(t, o, NumberByte))
      sign == IF run # <<>> /\ run[1] = Minus THEN 1 ELSE 0
      digits == Cut(run, sign, RunEnd(run, sign, Digit))
  IN IF digits = <<>> THEN [num |-> 0, end |-> o]
     ELSE [num |-> IF sign = 1 THEN -Decimal(digits) ELSE Decimal(digits),
           end |-> o + sign + Len(digits)]

(* The digits of a natural number. *)
Digits(n) ==
  LET digits[k \in 0 .. n] ==
        IF k < 10 THEN <<48 + k>> ELSE digits[k \div 10] \o <<48 + (k % 10)>>
  IN digits[n]

(* print_number for an integer: "%d". *)
NumberText(n) == IF n < 0 THEN <<Minus>> \o Digits(-n) ELSE Digits(n)

-----------------------------------------------------------------------------
(* Writing strings. *)

(* print_string_ptr: "u%04x", for a byte. *)
Hex4(c) == LET h(n) == IF n < 10 THEN 48 + n ELSE 87 + n
           IN <<LowerU, 48, 48, h(c \div 16), h(c % 16)>>

(* Faulty: a backslash is not escaped. *)
EscapeOfQuoteOnly(c) ==
  IF c > 31 /\ c # Quote THEN <<c>>
  ELSE IF \E e \in DOMAIN Escapes \ {Slash} : Escapes[e] = c
       THEN <<Backslash, CHOOSE e \in DOMAIN Escapes \ {Slash} : Escapes[e] = c>>
  ELSE <<Backslash>> \o Hex4(c)

EscapeOf(c) ==
  IF c > 31 /\ c \notin {Quote, Backslash} THEN <<c>>
  ELSE IF \E e \in DOMAIN Escapes \ {Slash} : Escapes[e] = c
       THEN <<Backslash, CHOOSE e \in DOMAIN Escapes \ {Slash} : Escapes[e] = c>>
  ELSE <<Backslash>> \o Hex4(c)

EscapeAll(s) == FlattenSeq([k \in 1 .. Len(s) |-> EscapeOf(s[k])])
StringText(s) == <<Quote>> \o EscapeAll(s) \o <<Quote>>

(* The first loop of print_string_ptr, before any byte is written: the     *)
(* bytes that the escapes of a character add, and the text's length.       *)
EscapeRoom(c) == IF c \in {Quote, Backslash, 8, 12, 10, 13, 9} THEN 1 ELSE IF c < 32 THEN 5 ELSE 0
StringLength(s) ==
  LET length[k \in 0 .. Len(s)] == IF k = 0 THEN 2 ELSE length[k - 1] + 1 + EscapeRoom(s[k])
  IN length[Len(s)]

-----------------------------------------------------------------------------
(* cJSON_Minify, of a C string s: from each offset on, what is left of it. *)

After(s, o, word) ==
  Min({Len(s)} \union {e \in o + Len(word) .. Len(s) : Cut(s, e - Len(word), e) = word})

(* Where the string literal whose first byte is at o ends for Minify,      *)
(* which knows no escape but \".                                           *)
StringStop(s, o) ==
  LET stop[p \in o .. Len(s)] ==
        IF p = Len(s) THEN Len(s)
        ELSE IF At(s, p) = Quote THEN p + 1
        ELSE IF At(s, p) = Backslash /\ p + 1 < Len(s) /\ At(s, p + 1) = Quote THEN stop[p + 2]
        ELSE stop[p + 1]
  IN stop[o]

(* Faulty: the escaped quote of a string is taken for its end. *)
MinifyPlain(s) ==
  LET rest[o \in 0 .. Len(s)] ==
        LET e == After(s, o + 1, <<Quote>>)
        IN IF o = Len(s) THEN <<>>
           ELSE IF At(s, o) \in {32, 9, 10, 13} THEN rest[o + 1]
           ELSE IF At(s, o) = Quote THEN Cut(s, o, e) \o rest[e]
           ELSE <<At(s, o)>> \o rest[o + 1]
  IN rest[0]

Minify(s) ==
  LET rest[o \in 0 .. Len(s)] ==
        LET follows(c) == o + 1 < Len(s) /\ At(s, o + 1) = c
            e == StringStop(s, o + 1)
        IN IF o = Len(s) THEN <<>>
           ELSE IF At(s, o) \in {32, 9, 10, 13} THEN rest[o + 1]
           ELSE IF At(s, o) = Quote THEN Cut(s, o, e) \o rest[e]
           ELSE IF At(s, o) # Slash THEN <<At(s, o)>> \o rest[o + 1]
           ELSE IF follows(Slash) THEN rest[After(s, o + 2, <<10>>)]
           ELSE IF follows(42) THEN rest[After(s, o + 2, <<42, Slash>>)]
           ELSE rest[o + 1]
  IN rest[0]
=============================================================================
