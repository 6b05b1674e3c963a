---------------------------- MODULE JsonStrings ----------------------------
(***************************************************************************)
(* How cJSON.c reads a string: it looks for the closing quote, allocates   *)
(* room for what the string can become, and decodes the escapes into it.   *)
(* A text is a sequence of bytes; offsets count from 0 as in the code, so  *)
(* the byte at offset o of t is t[o + 1], and Len(t) is the length of the  *)
(* buffer, which for cJSON_Parse includes the terminating 0.               *)
(***************************************************************************)
EXTENDS Integers, Sequences, FiniteSets, FiniteSetsExt

Byte == 0 .. 255

At(t, o) == t[o + 1]
Cut(t, from, to) == SubSeq(t, from + 1, to)  \* the bytes at offsets from .. to - 1

Quote == 34    Backslash == 92    Comma == 44    Colon == 58
OpenArray == 91    CloseArray == 93    OpenObject == 123    CloseObject == 125
Minus == 45    Slash == 47    LowerU == 117
NullWord == <<110, 117, 108, 108>>
TrueWord == <<116, 114, 117, 101>>
FalseWord == <<102, 97, 108, 115, 101>>
ByteOrderMark == <<239, 187, 191>>

-----------------------------------------------------------------------------
(* Escapes. *)

NotHex == -1
HexDigit(c) ==
  IF c \in 48 .. 57 THEN c - 48
  ELSE IF c \in 65 .. 70 THEN c - 55
  ELSE IF c \in 97 .. 102 THEN c - 87 ELSE NotHex

(* parse_hex4: four characters that are not all hexadecimal count as 0. *)
parse_hex4(t, o) ==
  LET h == [k \in 0 .. 3 |-> HexDigit(At(t, o + k))]
  IN IF \E k \in 0 .. 3 : h[k] = NotHex THEN 0
     ELSE 4096 * h[0] + 256 * h[1] + 16 * h[2] + h[3]

(* Faulty: the last code point of each length is taken for a longer one. *)
Utf8Late(cp) ==
  LET tail(n) == 128 + ((cp \div n) % 64)
  IN IF cp < 127 THEN <<cp>>
     ELSE IF cp < 2047 THEN <<192 + cp \div 64, tail(1)>>
     ELSE IF cp < 65535 THEN <<224 + cp \div 4096, tail(64), tail(1)>>
     ELSE <<240 + cp \div 262144, tail(4096), tail(64), tail(1)>>

Utf8(cp) ==
  LET tail(n) == 128 + ((cp \div n) % 64)
  IN IF cp < 128 THEN <<cp>>
     ELSE IF cp < 2048 THEN <<192 + cp \div 64, tail(1)>>
     ELSE IF cp < 65536 THEN <<224 + cp \div 4096, tail(64), tail(1)>>
     ELSE <<240 + cp \div 262144, tail(4096), tail(64), tail(1)>>

Surrogate1 == 55296 .. 56319  \* 0xD800 .. 0xDBFF
Surrogate2 == 56320 .. 57343  \* 0xDC00 .. 0xDFFF

(* What one \uXXXX or a pair of them stands for: the bytes it consumes, 0  *)
(* for a failure, and the bytes it becomes.  The string ends at end.       *)
utf16_literal_to_utf8(t, o, end) ==
  LET fail == [used |-> 0, out |-> <<>>]
      first == parse_hex4(t, o + 2)
      second == parse_hex4(t, o + 8)
  IN IF end - o < 6 \/ first \in Surrogate2 THEN fail
     ELSE IF first \notin Surrogate1 THEN [used |-> 6, out |-> Utf8(first)]
     ELSE IF end - o < 12 \/ At(t, o + 6) # Backslash \/ At(t, o + 7) # LowerU
             \/ second \notin Surrogate2 THEN fail
     ELSE [used |-> 12,
           out |-> Utf8(65536 + 1024 * (first - 55296) + (second - 56320))]

(* The escapes of one letter: what follows the backslash, and what it is. *)
Escapes == [c \in {98, 102, 110, 114, 116, Quote, Backslash, Slash} |->
              CASE c = 98 -> 8 [] c = 102 -> 12 [] c = 110 -> 10
                [] c = 114 -> 13 [] c = 116 -> 9 [] OTHER -> c]

(* What the byte or the escape at o becomes, and how many bytes it takes.  *)
Escape(t, o, end) ==
  LET letter == At(t, o + 1)
  IN IF At(t, o) # Backslash THEN [used |-> 1, out |-> <<At(t, o)>>]
     ELSE IF letter \in DOMAIN Escapes THEN [used |-> 2, out |-> <<Escapes[letter]>>]
     ELSE IF letter = LowerU THEN utf16_literal_to_utf8(t, o, end)
     ELSE [used |-> 0, out |-> <<>>]

-----------------------------------------------------------------------------
(* The two loops of parse_string. *)

(* Whether each byte from o on is a backslash that the first loop skips,   *)
(* together with the byte after it.                                        *)
Skipping(t, o) ==
  LET skip[e \in o .. Len(t) - 1] == At(t, e) = Backslash /\ (e = o \/ ~skip[e - 1])
  IN skip

(* Where the string whose first byte is at o ends: the offset of its       *)
(* closing quote, with the number of backslashes skipped, or end = -1.     *)
StringEnd(t, o) ==
  LET skip == Skipping(t, o)
      quotes == {e \in o .. Len(t) - 1 : At(t, e) = Quote /\ (e = o \/ ~skip[e - 1])}
      end == Min(quotes)
  IN IF quotes = {} THEN [end |-> -1, skipped |-> 0]
     ELSE [end |-> end, skipped |-> Cardinality({e \in o .. end - 1 : skip[e]})]

(* The loop through the literal, from every offset it can be at; on a      *)
(* failure off is at the bad escape.                                       *)
Decoding(t, o, end) ==
  LET from[p \in o .. end + 1] ==
        LET e == Escape(t, p, end)
        IN IF p >= end THEN [ok |-> TRUE, off |-> p, out |-> <<>>]
           ELSE IF e.used = 0 THEN [ok |-> FALSE, off |-> p, out |-> <<>>]
           ELSE [from[p + e.used] EXCEPT !.out = e.out \o @]
  IN from

Unescape(t, o, end) == Decoding(t, o, end)[o]

(* Faulty: an escape is taken to save both its bytes. *)
StringRoomShort(o, scan) == scan.end - o - 2 * scan.skipped + 1

(* The bytes parse_string allocates: the closing 0 included. *)
StringRoom(o, scan) == scan.end - o - scan.skipped + 1

-----------------------------------------------------------------------------
(* A string is written into the buffer that was measured for it before its *)
(* escapes were decoded, and fits there with its closing 0; so does what   *)
(* is decoded of it before a bad escape.                                   *)
StringFits(t, o) ==
  LET scan == StringEnd(t, o + 1)
  IN scan.end # -1 => Len(Unescape(t, o + 1, scan.end).out) + 1 <= StringRoom(o, scan)

(* UTF-8, read back by its definition: shortest forms only. *)

Low6(b) == b % 64
Continues(s, from) == \A k \in from .. Len(s) : s[k] \in 128 .. 191
CodePoint(s) ==
  CASE Len(s) = 1 /\ s[1] < 128 -> s[1]
    [] Len(s) = 2 /\ s[1] \in 194 .. 223 /\ Continues(s, 2) -> (s[1] % 32) * 64 + Low6(s[2])
    [] Len(s) = 3 /\ s[1] \in 224 .. 239 /\ Continues(s, 2) /\ (s[1] = 224 => s[2] >= 160) ->
         ((s[1] % 16) * 64 + Low6(s[2])) * 64 + Low6(s[3])
    [] Len(s) = 4 /\ s[1] \in 240 .. 244 /\ Continues(s, 2) /\ (s[1] = 240 => s[2] >= 144) ->
         (((s[1] % 8) * 64 + Low6(s[2])) * 64 + Low6(s[3])) * 64 + Low6(s[4])
    [] OTHER -> -1

(* The UTF-16 units of a code point. *)
Units(cp) == IF cp < 65536 THEN <<cp>>
             ELSE <<55296 + (cp - 65536) \div 1024, 56320 + ((cp - 65536) % 1024)>>

(* The bytes that a \u escape or a pair of them becomes are well-formed    *)
(* UTF-8 of the very character whose UTF-16 units the escapes spell.       *)
EscapeKeepsItsMeaning(t, o, end) ==
  LET u == utf16_literal_to_utf8(t, o, end)
      unit(k) == parse_hex4(t, o + 6 * k + 2)
  IN u.used > 0 => Units(CodePoint(u.out)) = IF u.used = 6 THEN <<unit(0)>> ELSE <<unit(0), unit(1)>>
=============================================================================
