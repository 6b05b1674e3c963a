--------------------------- MODULE JsonTextProofs ---------------------------
(***************************************************************************)
(* Proofs about what cJSON.c reads and writes, for texts and trees of      *)
(* every size: the decoded string fits in the room that was measured for   *)
(* it, what a \u escape becomes is UTF-8 of the character it spells, and a *)
(* print never writes past its buffer.                                     *)
(***************************************************************************)
EXTENDS JsonMemoryProofs

-----------------------------------------------------------------------------
(* \u escapes. *)

(* Four hexadecimal digits are less than 2^16. *)
LEMMA HexDigits ==
  ASSUME NEW a \in 0 .. 15, NEW b \in 0 .. 15, NEW c \in 0 .. 15, NEW d \in 0 .. 15
  PROVE  /\ 4096 * a + 256 * b + 16 * c + d \in Nat
         /\ 4096 * a + 256 * b + 16 * c + d < 65536
  BY SMT

(* Four characters are a number of 16 bits, hexadecimal or not. *)
LEMMA ParseHex4Type ==
  ASSUME NEW t, NEW o
  PROVE  parse_hex4(t, o) \in Nat /\ parse_hex4(t, o) < 65536
<1> DEFINE h == [k \in 0 .. 3 |-> HexDigit(At(t, o + k))]
<1>1. \A k \in 0 .. 3 : h[k] \in 0 .. 15 \/ h[k] = NotHex
  <2>1. \A c : HexDigit(c) \in 0 .. 15 \/ HexDigit(c) = NotHex
    BY SMT DEF HexDigit, NotHex
  <2> QED BY <2>1
<1>2. CASE \E k \in 0 .. 3 : h[k] = NotHex
  <2>1. parse_hex4(t, o) = 0
    BY <1>2, SMT DEF parse_hex4
  <2> QED BY <2>1, SMT
<1>3. CASE ~ \E k \in 0 .. 3 : h[k] = NotHex
  <2>1. parse_hex4(t, o) = 4096 * h[0] + 256 * h[1] + 16 * h[2] + h[3]
    BY <1>3, SMT DEF parse_hex4
  <2> DEFINE a == h[0]   b == h[1]   c == h[2]   d == h[3]
  <2>2. a \in 0 .. 15 /\ b \in 0 .. 15 /\ c \in 0 .. 15 /\ d \in 0 .. 15
    BY <1>1, <1>3, SMT
  <2>3. parse_hex4(t, o) = 4096 * a + 256 * b + 16 * c + d
    BY <2>1, SMT
  <2> HIDE DEF a, b, c, d
  <2>4. /\ 4096 * a + 256 * b + 16 * c + d \in Nat
        /\ 4096 * a + 256 * b + 16 * c + d < 65536
    BY <2>2, HexDigits, SMT
  <2> QED BY <2>3, <2>4, SMT
<1> HIDE DEF h
<1> QED BY <1>2, <1>3, SMT

(* What is written for a character reads back as that character.           *)
LEMMA Utf8Decodes ==
  ASSUME NEW cp \in Nat, cp < 1114112
  PROVE  CodePoint(Utf8(cp)) = cp
<1>1. CASE cp < 128
  <2>1. Utf8(cp) = <<cp>>
    BY <1>1, SMT DEF Utf8
  <2> QED BY <1>1, <2>1, SMT DEF CodePoint
<1>2. CASE cp >= 128 /\ cp < 2048
  <2> DEFINE a == 192 + cp \div 64   b == 128 + ((cp \div 1) % 64)
  <2>1. Utf8(cp) = <<a, b>>
    BY <1>2, SMT DEF Utf8
  <2>2. a \in 194 .. 223 /\ b \in 128 .. 191
    BY <1>2, SMT
  <2>3. (a % 32) * 64 + (b % 64) = cp
    BY <1>2, SMT
  <2> HIDE DEF a, b
  <2> QED BY <2>1, <2>2, <2>3, SMT DEF CodePoint, Continues, Low6
<1>3. CASE cp >= 2048 /\ cp < 65536
  <2> DEFINE a == 224 + cp \div 4096   b == 128 + ((cp \div 64) % 64)
             c == 128 + ((cp \div 1) % 64)
  <2>1. Utf8(cp) = <<a, b, c>>
    BY <1>3, SMT DEF Utf8
  <2>2. a \in 224 .. 239 /\ b \in 128 .. 191 /\ c \in 128 .. 191 /\ (a = 224 => b >= 160)
    BY <1>3, SMT
  <2>3. ((a % 16) * 64 + (b % 64)) * 64 + (c % 64) = cp
    BY <1>3, SMT
  <2> HIDE DEF a, b, c
  <2> QED BY <2>1, <2>2, <2>3, SMT DEF CodePoint, Continues, Low6
<1>4. CASE cp >= 65536
  <2> DEFINE a == 240 + cp \div 262144   b == 128 + ((cp \div 4096) % 64)
             c == 128 + ((cp \div 64) % 64)   d == 128 + ((cp \div 1) % 64)
  <2>1. Utf8(cp) = <<a, b, c, d>>
    BY <1>4, SMT DEF Utf8
  <2>2. /\ a \in 240 .. 244 /\ b \in 128 .. 191 /\ c \in 128 .. 191 /\ d \in 128 .. 191
        /\ a = 240 => b >= 144
    BY <1>4, SMT
  <2>3. (((a % 8) * 64 + (b % 64)) * 64 + (c % 64)) * 64 + (d % 64) = cp
    BY <1>4, SMT
  <2> HIDE DEF a, b, c, d
  <2> QED BY <2>1, <2>2, <2>3, SMT DEF CodePoint, Continues, Low6
<1> QED BY <1>1, <1>2, <1>3, <1>4, SMT

(* A \u escape, or a pair of them, becomes UTF-8 of the character whose    *)
(* UTF-16 units it spells, wherever it stands in whatever text.            *)
THEOREM EscapesMean ==
  ASSUME NEW t, NEW o \in Nat, NEW end \in Nat
  PROVE  EscapeKeepsItsMeaning(t, o, end)
<1> DEFINE u == utf16_literal_to_utf8(t, o, end)
           first == parse_hex4(t, o + 2)
           second == parse_hex4(t, o + 8)
           cp == 65536 + 1024 * (first - 55296) + (second - 56320)
<1>1. first \in Nat /\ first < 65536 /\ second \in Nat
  BY ParseHex4Type, SMT
<1>2. \/ u.used = 0
      \/ u = [used |-> 6, out |-> Utf8(first)]
      \/ first \in Surrogate1 /\ second \in Surrogate2 /\ u = [used |-> 12, out |-> Utf8(cp)]
  BY SMT DEF utf16_literal_to_utf8
<1>3. u.used > 0 => u.used # 0
  BY SMT
<1>4. \A k \in {0, 1} : o + 6 * k + 2 = IF k = 0 THEN o + 2 ELSE o + 8
  BY SMT
<1>5. EscapeKeepsItsMeaning(t, o, end)
      <=> (u.used > 0 => Units(CodePoint(u.out)) =
                           IF u.used = 6 THEN <<first>> ELSE <<first, second>>)
  BY <1>4, SMT DEF EscapeKeepsItsMeaning
<1> HIDE DEF u, first, second
<1>6. CASE u = [used |-> 6, out |-> Utf8(first)]
  <2>1. CodePoint(Utf8(first)) = first
    BY <1>1, Utf8Decodes, SMT
  <2>2. Units(first) = <<first>>
    BY <1>1, SMT DEF Units
  <2>3. u.used = 6 /\ u.out = Utf8(first)
    BY <1>6, SMT
  <2>4. Units(CodePoint(u.out)) = <<first>>
    BY <2>1, <2>2, <2>3, Zenon
  <2> QED BY <1>5, <2>3, <2>4, Zenon
<1>7. CASE first \in Surrogate1 /\ second \in Surrogate2 /\ u = [used |-> 12, out |-> Utf8(cp)]
  <2>1. cp \in Nat /\ cp >= 65536 /\ cp < 1114112
    BY <1>7, SMT DEF Surrogate1, Surrogate2
  <2>2. 55296 + (cp - 65536) \div 1024 = first /\ 56320 + ((cp - 65536) % 1024) = second
    BY <1>7, SMT DEF Surrogate1, Surrogate2
  <2> HIDE DEF cp
  <2>3. CodePoint(Utf8(cp)) = cp
    BY <2>1, Utf8Decodes, SMT
  <2>4. Units(cp) = <<first, second>>
    BY <2>1, <2>2, SMT DEF Units
  <2>5. u.used = 12 /\ u.out = Utf8(cp)
    BY <1>7, SMT
  <2>6. Units(CodePoint(u.out)) = <<first, second>>
    BY <2>3, <2>4, <2>5, SMT
  <2> QED BY <1>5, <2>5, <2>6, SMT
<1>8. CASE u.used = 0
  BY <1>3, <1>5, <1>8, Zenon
<1> HIDE DEF cp
<1> QED BY <1>2, <1>6, <1>7, <1>8, SMT

-----------------------------------------------------------------------------
(* The two loops are functions that meet their equations. *)

(* The first loop: a backslash skips the byte after it unless it was       *)
(* skipped itself.                                                         *)
LEMMA SkippingIs ==
  ASSUME NEW t \in Seq(Byte), NEW o \in Nat
  PROVE  \A e \in o .. Len(t) - 1 :
           Skipping(t, o)[e] = (At(t, e) = Backslash /\ (e = o \/ ~Skipping(t, o)[e - 1]))
<1> DEFINE F(f, n) == [e \in o .. o + n - 1 |-> At(t, e) = Backslash /\ (e = o \/ ~f[e - 1])]
           T == {n \in Nat : \E f : f = F(f, n)}
<1>1. 0 \in T
  <2> DEFINE f == [e \in {} |-> TRUE]
  <2>1. o .. o + 0 - 1 = {}
    OBVIOUS
  <2>2. f = F(f, 0)
    BY <2>1
  <2> QED BY <2>2
<1>2. \A n \in T : n + 1 \in T
  <2> SUFFICES ASSUME NEW n \in Nat, NEW f, f = F(f, n) PROVE \E g : g = F(g, n + 1)
    OBVIOUS
  <2> DEFINE g == [e \in o .. o + n |-> IF e = o + n THEN At(t, e) = Backslash /\ (e = o \/ ~f[e - 1])
                                        ELSE f[e]]
  <2>1. \A e \in o .. o + n : e # o => g[e - 1] = f[e - 1]
    OBVIOUS
  <2>2. \A e \in o .. o + n - 1 : f[e] = (At(t, e) = Backslash /\ (e = o \/ ~f[e - 1]))
    OBVIOUS
  <2>3. \A e \in o .. o + n : g[e] = (At(t, e) = Backslash /\ (e = o \/ ~f[e - 1]))
    BY <2>2
  <2>4. o + (n + 1) - 1 = o + n
    OBVIOUS
  <2>5. g = [e \in o .. o + n |-> g[e]]
    OBVIOUS
  <2> HIDE DEF g
  <2>6. \A e \in o .. o + n : g[e] = (At(t, e) = Backslash /\ (e = o \/ ~g[e - 1]))
    BY <2>1, <2>3
  <2>7. g = F(g, n + 1)
    BY <2>4, <2>5, <2>6
  <2> QED BY <2>7
<1> HIDE DEF T
<1>3. T = Nat
  <2>1. T \in SUBSET Nat
    BY DEF T
  <2> QED BY <1>1, <1>2, <2>1, InductionStep
<1>4. SUFFICES ASSUME NEW e \in o .. Len(t) - 1
               PROVE  Skipping(t, o)[e] = (At(t, e) = Backslash /\ (e = o \/ ~Skipping(t, o)[e - 1]))
  OBVIOUS
<1>5. Len(t) - o \in Nat /\ o + (Len(t) - o) - 1 = Len(t) - 1
  OBVIOUS
<1>6. PICK f : f = [x \in o .. Len(t) - 1 |-> At(t, x) = Backslash /\ (x = o \/ ~f[x - 1])]
  <2>1. Len(t) - o \in T
    BY <1>3, <1>5
  <2>2. PICK f : f = F(f, Len(t) - o)
    BY <2>1 DEF T
  <2>3. F(f, Len(t) - o) = [x \in o .. Len(t) - 1 |-> At(t, x) = Backslash /\ (x = o \/ ~f[x - 1])]
    BY <1>5
  <2> QED BY <2>2, <2>3
<1> DEFINE skip == CHOOSE h : h = [x \in o .. Len(t) - 1 |-> At(t, x) = Backslash /\ (x = o \/ ~h[x - 1])]
<1>7. skip = [x \in o .. Len(t) - 1 |-> At(t, x) = Backslash /\ (x = o \/ ~skip[x - 1])]
  BY <1>6
<1>8. Skipping(t, o) = skip
  BY DEF Skipping
<1> HIDE DEF skip
<1> QED BY <1>7, <1>8

(* A character becomes at most four bytes, three if it is of 16 bits.      *)
LEMMA Utf8Type ==
  \A c \in Int : Utf8(c) \in Seq(Int) /\ Len(Utf8(c)) <= 4 /\ (c < 65536 => Len(Utf8(c)) <= 3)
<1> TAKE c \in Int
<1>1. /\ c \div 64 \in Int /\ c \div 4096 \in Int /\ c \div 262144 \in Int
      /\ (c \div 1) % 64 \in Int /\ (c \div 64) % 64 \in Int /\ (c \div 4096) % 64 \in Int
  BY SMT
<1> QED BY <1>1, SMT DEF Utf8

(* A character or an escape takes bytes of the literal, at most the        *)
(* closing quote with them, and becomes at most half as many bytes if they *)
(* are more than two.                                                      *)
LEMMA EscapeType ==
  ASSUME NEW t \in Seq(Byte), NEW p \in Nat, NEW end \in 0 .. Len(t), p < end
  PROVE  /\ Escape(t, p, end).out \in Seq(Int)
         /\ \/ Escape(t, p, end).used = 0
            \/ /\ Escape(t, p, end).used = 1
               /\ At(t, p) # Backslash /\ Len(Escape(t, p, end).out) = 1
            \/ Escape(t, p, end).used = 2 /\ Len(Escape(t, p, end).out) = 1
            \/ /\ Escape(t, p, end).used = 6
               /\ p + 6 <= end /\ Len(Escape(t, p, end).out) <= 3
            \/ /\ Escape(t, p, end).used = 12
               /\ p + 12 <= end /\ Len(Escape(t, p, end).out) <= 4
<1> DEFINE E == Escape(t, p, end)
           first == parse_hex4(t, p + 2)
           second == parse_hex4(t, p + 8)
           cp == 65536 + 1024 * (first - 55296) + (second - 56320)
<1>1. At(t, p) \in Int
  <2>1. p + 1 \in 1 .. Len(t)
    OBVIOUS
  <2>2. t[p + 1] \in Byte
    BY <2>1
  <2>3. Byte \subseteq Int
    BY DEF Byte
  <2> QED BY <2>2, <2>3, Zenon DEF At
<1>2. \/ E = [used |-> 0, out |-> <<>>]
      \/ E = [used |-> 1, out |-> <<At(t, p)>>] /\ At(t, p) # Backslash
      \/ /\ At(t, p + 1) \in DOMAIN Escapes
         /\ E = [used |-> 2, out |-> <<Escapes[At(t, p + 1)]>>]
      \/ E = utf16_literal_to_utf8(t, p, end)
  BY Zenon DEF Escape
<1>3. \A c \in DOMAIN Escapes : Escapes[c] \in Int
  BY SMT DEF Escapes, Quote, Backslash, Slash
<1>5. cp \in Int
  <2>1. first \in Nat /\ second \in Nat
    BY ParseHex4Type, SMT
  <2> HIDE DEF first, second
  <2> QED BY <2>1, SMT
<1>6. first \in Int /\ first < 65536
  BY ParseHex4Type, SMT
<1>7. \/ utf16_literal_to_utf8(t, p, end) = [used |-> 0, out |-> <<>>]
      \/ p + 6 <= end /\ utf16_literal_to_utf8(t, p, end) = [used |-> 6, out |-> Utf8(first)]
      \/ p + 12 <= end /\ utf16_literal_to_utf8(t, p, end) = [used |-> 12, out |-> Utf8(cp)]
  BY SMT DEF utf16_literal_to_utf8
<1> HIDE DEF E, first, cp
<1>8. CASE E = [used |-> 0, out |-> <<>>]
  BY <1>8, SMT DEF E
<1>9. CASE E = [used |-> 1, out |-> <<At(t, p)>>] /\ At(t, p) # Backslash
  BY <1>1, <1>9, SMT DEF E
<1>10. CASE /\ At(t, p + 1) \in DOMAIN Escapes
            /\ E = [used |-> 2, out |-> <<Escapes[At(t, p + 1)]>>]
  BY <1>3, <1>10, SMT DEF E
<1>11. CASE p + 6 <= end /\ E = [used |-> 6, out |-> Utf8(first)]
  BY Utf8Type, <1>6, <1>11, SMT DEF E
<1>12. CASE p + 12 <= end /\ E = [used |-> 12, out |-> Utf8(cp)]
  BY Utf8Type, <1>5, <1>12, SMT DEF E
<1> QED BY <1>2, <1>7, <1>8, <1>9, <1>10, <1>11, <1>12, SMT

(* The second loop, from the offset p on: what the character or the escape *)
(* at p becomes, and then the rest.                                        *)
DecodeStep(f, t, p, end) ==
  LET e == Escape(t, p, end)
  IN IF p >= end THEN [ok |-> TRUE, off |-> p, out |-> <<>>]
     ELSE IF e.used = 0 THEN [ok |-> FALSE, off |-> p, out |-> <<>>]
     ELSE [f[p + e.used] EXCEPT !.out = e.out \o @]

LEMMA DecodingIs ==
  ASSUME NEW t \in Seq(Byte), NEW o \in Nat, NEW end \in 0 .. Len(t)
  PROVE  \A p \in o .. end + 1 :
           Decoding(t, o, end)[p] = DecodeStep(Decoding(t, o, end), t, p, end)
<1> DEFINE D(n) == {p \in o .. end + 1 : p >= end + 1 - n}
           F(f, n) == [p \in D(n) |-> DecodeStep(f, t, p, end)]
           T == {n \in Nat : \E f : f = F(f, n)}
<1>1. \A p \in o .. end : p < end /\ Escape(t, p, end).used # 0 =>
        /\ p + Escape(t, p, end).used \in o .. end + 1
        /\ p + Escape(t, p, end).used > p
  <2> SUFFICES ASSUME NEW p \in o .. end, p < end, Escape(t, p, end).used # 0
               PROVE  /\ p + Escape(t, p, end).used \in o .. end + 1
                      /\ p + Escape(t, p, end).used > p
    OBVIOUS
  <2>1. p \in Nat
    OBVIOUS
  <2>2. \/ Escape(t, p, end).used = 1
        \/ Escape(t, p, end).used = 2
        \/ Escape(t, p, end).used = 6 /\ p + 6 <= end
        \/ Escape(t, p, end).used = 12 /\ p + 12 <= end
    BY <2>1, EscapeType
  <2> QED BY <2>2
<1>2. \A f, g, p, n : /\ n \in Nat /\ p \in o .. end + 1 /\ p >= end - n
                      /\ \A q \in D(n) : f[q] = g[q]
                      => DecodeStep(f, t, p, end) = DecodeStep(g, t, p, end)
  <2> SUFFICES ASSUME NEW f, NEW g, NEW n \in Nat, NEW p \in o .. end + 1, p >= end - n,
                      \A q \in D(n) : f[q] = g[q]
               PROVE  DecodeStep(f, t, p, end) = DecodeStep(g, t, p, end)
    BY Zenon
  <2>1. CASE p >= end \/ Escape(t, p, end).used = 0
    BY <2>1, Zenon DEF DecodeStep
  <2>2. CASE ~(p >= end) /\ Escape(t, p, end).used # 0
    <3>1. p + Escape(t, p, end).used \in D(n)
      BY <1>1, <2>2
    <3>2. f[p + Escape(t, p, end).used] = g[p + Escape(t, p, end).used]
      BY <3>1
    <3> QED BY <3>2, Zenon DEF DecodeStep
  <2> QED BY <2>1, <2>2, Zenon
<1>3. 0 \in T
  <2> DEFINE f == [p \in D(0) |-> [ok |-> TRUE, off |-> p, out |-> <<>>]]
  <2>1. \A p \in D(0) : DecodeStep(f, t, p, end) = [ok |-> TRUE, off |-> p, out |-> <<>>]
    <3>1. \A p \in D(0) : p >= end
      OBVIOUS
    <3> QED BY <3>1, Zenon DEF DecodeStep
  <2>2. f = F(f, 0)
    BY <2>1, Zenon
  <2> QED BY <2>2
<1>4. \A n \in T : n + 1 \in T
  <2> TAKE n \in T
  <2> n \in Nat
    BY Zenon
  <2> PICK f : f = F(f, n)
    BY Zenon
  <2> DEFINE g == F(f, n + 1)
  <2>1. D(n) \subseteq D(n + 1)
    OBVIOUS
  <2>2. \A p \in D(n + 1) : p \in o .. end + 1 /\ p >= end - n
    OBVIOUS
  <2>3. \A q \in D(n) : f[q] = g[q]
    <3> HIDE DEF D
    <3>1. \A q \in D(n) : f[q] = DecodeStep(f, t, q, end)
      BY Zenon
    <3> QED BY <2>1, <3>1, Zenon
  <2> HIDE DEF g
  <2>4. \A p \in D(n + 1) : DecodeStep(f, t, p, end) = DecodeStep(g, t, p, end)
    BY <1>2, <2>2, <2>3
  <2> HIDE DEF D
  <2>5. g = F(g, n + 1)
    BY <2>4, Zenon DEF g
  <2>6. n + 1 \in Nat
    OBVIOUS
  <2> QED BY <2>5, <2>6, Zenon
<1>5. T = Nat
  <2> HIDE DEF T
  <2>1. T \in SUBSET Nat
    BY DEF T
  <2> QED BY <1>3, <1>4, <2>1, InductionStep
<1>6. D(end + 1) = o .. end + 1
  OBVIOUS
<1> HIDE DEF D
<1>7. PICK f : f = [p \in o .. end + 1 |-> DecodeStep(f, t, p, end)]
  <2>1. end + 1 \in T
    BY <1>5
  <2>2. PICK f : f = F(f, end + 1)
    BY <2>1
  <2> QED BY <1>6, <2>2
<1> DEFINE from == CHOOSE h : h = [p \in o .. end + 1 |-> DecodeStep(h, t, p, end)]
<1>8. from = [p \in o .. end + 1 |-> DecodeStep(from, t, p, end)]
  BY <1>7, Zenon
<1>9. Decoding(t, o, end) = from
  BY DEF Decoding, DecodeStep
<1> HIDE DEF from
<1> QED BY <1>8, <1>9, Zenon

-----------------------------------------------------------------------------
(* The room. *)

(* The bytes from p up to end that the first loop did not count away.      *)
Kept(K, p, end) == Cardinality((p .. end - 1) \ K)

(* Every byte that is not counted away keeps its place.                    *)
LEMMA KeptStep ==
  ASSUME NEW K, NEW p \in Int, NEW end \in Int
  PROVE  /\ Kept(K, p, end) \in Nat
         /\ p < end => Kept(K, p, end) = Kept(K, p + 1, end) + (IF p \in K THEN 0 ELSE 1)
<1> DEFINE S == (p .. end - 1) \ K
           R == (p + 1 .. end - 1) \ K
<1>1. IsFiniteSet(S) /\ IsFiniteSet(R)
  <2>1. p + 1 \in Int /\ end - 1 \in Int
    OBVIOUS
  <2>2. IsFiniteSet(p .. end - 1) /\ IsFiniteSet(p + 1 .. end - 1)
    BY <2>1, FS_Interval
  <2> QED BY <2>2, FS_Difference
<1>2. Cardinality(S) \in Nat
  BY <1>1, FS_CardinalityType
<1>3. ASSUME p < end, p \in K PROVE S = R
  BY <1>3
<1>4. ASSUME p < end, p \notin K PROVE S = R \cup {p} /\ p \notin R
  BY <1>4
<1> HIDE DEF S, R
<1>5. p \notin R => Cardinality(R \cup {p}) = Cardinality(R) + 1
  BY <1>1, FS_AddElement
<1>6. Cardinality(R) \in Nat
  BY <1>1, FS_CardinalityType
<1>7. Kept(K, p, end) = Cardinality(S) /\ Kept(K, p + 1, end) = Cardinality(R)
  BY DEF Kept, S, R
<1> QED BY <1>2, <1>3, <1>4, <1>5, <1>6, <1>7

(* No two bytes in a row are counted away, so of n bytes at least half are *)
(* kept.                                                                   *)
LEMMA KeptHalf ==
  ASSUME NEW K, NEW p \in Int, NEW end \in Int, \A q \in K : q + 1 \notin K
  PROVE  /\ p + 2 <= end => Kept(K, p, end) >= Kept(K, p + 2, end) + 1
         /\ p + 6 <= end => Kept(K, p, end) >= Kept(K, p + 6, end) + 3
         /\ p + 12 <= end => Kept(K, p, end) >= Kept(K, p + 12, end) + 6
<1> DEFINE N(q) == Kept(K, q, end)
<1>1. \A q \in Int : N(q) \in Nat
  BY KeptStep, Zenon
<1>2. \A q \in Int : q + 2 <= end => N(q) >= N(q + 2) + 1
  <2> TAKE q \in Int
  <2> HAVE q + 2 <= end
  <2>1. N(q) = N(q + 1) + (IF q \in K THEN 0 ELSE 1)
    BY KeptStep
  <2>2. N(q + 1) = N(q + 1 + 1) + (IF q + 1 \in K THEN 0 ELSE 1)
    BY KeptStep
  <2>3. q + 1 + 1 = q + 2 /\ N(q + 2) \in Nat
    BY <1>1
  <2>4. q \notin K \/ q + 1 \notin K
    OBVIOUS
  <2> HIDE DEF N
  <2> QED BY <2>1, <2>2, <2>3, <2>4
<1> HIDE DEF N
<1>3. \A q \in Int : q + 6 <= end => N(q) >= N(q + 6) + 3
  <2> TAKE q \in Int
  <2> HAVE q + 6 <= end
  <2>1. N(q) >= N(q + 2) + 1
    BY <1>2
  <2>2. N(q + 2) >= N(q + 4) + 1
    <3>1. (q + 2) + 2 = q + 4
      OBVIOUS
    <3> QED BY <1>2, <3>1
  <2>3. N(q + 4) >= N(q + 6) + 1
    <3>1. (q + 4) + 2 = q + 6
      OBVIOUS
    <3> QED BY <1>2, <3>1
  <2>4. N(q) \in Nat /\ N(q + 2) \in Nat /\ N(q + 4) \in Nat /\ N(q + 6) \in Nat
    BY <1>1
  <2> QED BY <2>1, <2>2, <2>3, <2>4
<1>4. \A q \in Int : q + 12 <= end => N(q) >= N(q + 12) + 6
  <2> TAKE q \in Int
  <2> HAVE q + 12 <= end
  <2>1. N(q) >= N(q + 6) + 3
    BY <1>3
  <2>2. N(q + 6) >= N(q + 12) + 3
    <3>1. (q + 6) + 6 = q + 12
      OBVIOUS
    <3> QED BY <1>3, <3>1
  <2>3. N(q) \in Nat /\ N(q + 6) \in Nat /\ N(q + 12) \in Nat
    BY <1>1
  <2> QED BY <2>1, <2>2, <2>3
<1> QED BY <1>2, <1>3, <1>4 DEF N

(* What a loop is to return, with bytes put before it. *)
LEMMA PrependOut ==
  ASSUME NEW r \in [ok : BOOLEAN, off : Int, out : Seq(Int)], NEW s \in Seq(Int)
  PROVE  /\ [r EXCEPT !.out = s \o @] \in [ok : BOOLEAN, off : Int, out : Seq(Int)]
         /\ Len([r EXCEPT !.out = s \o @].out) = Len(s) + Len(r.out)
         /\ Len(s) \in Nat /\ Len(r.out) \in Nat
<1>1. r.out \in Seq(Int)
  OBVIOUS
<1> DEFINE w == s \o r.out
<1>2. w \in Seq(Int) /\ Len(w) = Len(s) + Len(r.out)
  BY <1>1
<1>3. [r EXCEPT !.out = s \o @] = [r EXCEPT !.out = w]
  OBVIOUS
<1> HIDE DEF w
<1>4. /\ [r EXCEPT !.out = w] \in [ok : BOOLEAN, off : Int, out : Seq(Int)]
      /\ [r EXCEPT !.out = w].out = w
  BY <1>2
<1>5. Len(s) \in Nat /\ Len(r.out) \in Nat
  BY <1>1
<1> QED BY <1>2, <1>3, <1>4, <1>5

(* From every offset on, what is decoded is not longer than what is kept:  *)
(* by induction from the closing quote back.                               *)
LEMMA DecodedIsKept ==
  ASSUME NEW t \in Seq(Byte), NEW o \in Nat, NEW end \in 0 .. Len(t), NEW K,
         \A q \in K : q + 1 \notin K,
         \A q \in K \cap (o .. end - 1) : At(t, q) = Backslash,
         end - 1 \notin K
  PROVE  \A p \in o .. end + 1 : /\ Decoding(t, o, end)[p].out \in Seq(Int)
                                 /\ Len(Decoding(t, o, end)[p].out) <= Kept(K, p, end)
<1> DEFINE from == Decoding(t, o, end)
           N(p) == Kept(K, p, end)
           Type == [ok : BOOLEAN, off : Int, out : Seq(Int)]
           Good(p) == from[p] \in Type /\ Len(from[p].out) <= N(p)
           T == {n \in Nat : \A p \in o .. end + 1 : p >= end + 1 - n => Good(p)}
<1>0. end \in Nat /\ end \in Int
  OBVIOUS
<1>1. \A p \in Int : N(p) \in Nat
  BY <1>0, KeptStep, Zenon
<1>2. \A p \in o .. end + 1 : p >= end => Good(p)
  <2> TAKE p \in o .. end + 1
  <2> HAVE p >= end
  <2>1. from[p] = [ok |-> TRUE, off |-> p, out |-> <<>>]
    <3>1. from[p] = DecodeStep(from, t, p, end)
      BY DecodingIs, Zenon
    <3> QED BY <3>1, Zenon DEF DecodeStep
  <2> HIDE DEF from, N
  <2>2. p \in Int
    OBVIOUS
  <2>3. N(p) \in Nat
    BY <1>1, <2>2, Zenon
  <2> QED BY <2>1, <2>2, <2>3
<1>3. \A p \in o .. end + 1 : p < end /\ (\A q \in o .. end + 1 : q > p => Good(q)) => Good(p)
  <2>0. SUFFICES ASSUME NEW p \in o .. end + 1, p < end, \A q \in o .. end + 1 : q > p => Good(q)
                 PROVE  Good(p)
    BY Zenon
  <2> DEFINE e == Escape(t, p, end)
  <2>1. p \in Nat /\ p \in Int /\ p >= o /\ p < end /\ p \in o .. end + 1
    BY <2>0
  <2>2. /\ e.out \in Seq(Int)
        /\ \/ e.used = 0
           \/ e.used = 1 /\ At(t, p) # Backslash /\ Len(e.out) = 1
           \/ e.used = 2 /\ Len(e.out) = 1
           \/ e.used = 6 /\ p + 6 <= end /\ Len(e.out) <= 3
           \/ e.used = 12 /\ p + 12 <= end /\ Len(e.out) <= 4
    BY <2>1, EscapeType
  <2>3. from[p] = IF e.used = 0 THEN [ok |-> FALSE, off |-> p, out |-> <<>>]
                  ELSE [from[p + e.used] EXCEPT !.out = e.out \o @]
    <3>1. ~(p >= end)
      BY <2>1
    <3>2. from[p] = DecodeStep(from, t, p, end)
      BY DecodingIs, Zenon
    <3> QED BY <3>1, <3>2, Zenon DEF DecodeStep
  <2>4. \/ e.used = 0
        \/ \E u \in {1, 2, 6, 12} : /\ e.used = u /\ p + u \in o .. end + 1
                                    /\ Len(e.out) + N(p + u) <= N(p)
    <3>1. N(p + 1) \in Nat /\ N(p + 2) \in Nat /\ N(p + 6) \in Nat /\ N(p + 12) \in Nat /\ N(p) \in Nat
      <4>1. p + 1 \in Int /\ p + 2 \in Int /\ p + 6 \in Int /\ p + 12 \in Int
        BY <2>1
      <4> HIDE DEF N
      <4> QED BY <1>1, <2>1, <4>1, Zenon
    <3>2. CASE e.used = 1 /\ At(t, p) # Backslash /\ Len(e.out) = 1
      <4>1. p \in o .. end - 1 /\ p + 1 \in o .. end + 1
        BY <2>1
      <4>2. p \notin K
        BY <3>2, <4>1
      <4>3. N(p) = N(p + 1) + 1
        BY <2>1, <4>2, KeptStep
      <4> HIDE DEF N, e
      <4>4. Len(e.out) + N(p + 1) <= N(p)
        BY <3>1, <3>2, <4>3
      <4> QED BY <3>2, <4>1, <4>4, Zenon
    <3>3. CASE e.used = 2 /\ Len(e.out) = 1
      <4>1. N(p) >= N(p + 2) + 1
        <5>1. CASE p + 2 <= end
          BY <2>1, <5>1, KeptHalf
        <5>2. CASE p = end - 1
          <6>1. N(p) = N(p + 1) + 1
            BY <2>1, <5>2, KeptStep
          <6>2. (p + 2 .. end - 1) = {}
            BY <2>1, <5>2
          <6>3. {} \ K = {}
            OBVIOUS
          <6>4. N(p + 2) = 0
            BY <6>2, <6>3, FS_EmptySet DEF Kept
          <6> HIDE DEF N
          <6> QED BY <3>1, <6>1, <6>4
        <5> QED BY <2>1, <5>1, <5>2
      <4>2. p + 2 \in o .. end + 1
        BY <2>1
      <4> HIDE DEF N, e
      <4>3. Len(e.out) + N(p + 2) <= N(p)
        BY <3>1, <3>3, <4>1
      <4> QED BY <3>3, <4>2, <4>3, Zenon
    <3>4. CASE e.used = 6 /\ p + 6 <= end /\ Len(e.out) <= 3
      <4>1. N(p) >= N(p + 6) + 3
        BY <2>1, <3>4, KeptHalf
      <4>2. Len(e.out) \in Nat
        BY <2>2
      <4> HIDE DEF N, e
      <4>3. p + 6 \in o .. end + 1
        BY <2>1, <3>4
      <4>4. Len(e.out) + N(p + 6) <= N(p)
        BY <3>1, <3>4, <4>1, <4>2, SMTT(20)
      <4> QED BY <3>4, <4>3, <4>4, Zenon
    <3>5. CASE e.used = 12 /\ p + 12 <= end /\ Len(e.out) <= 4
      <4>1. N(p) >= N(p + 12) + 6
        BY <2>1, <3>5, KeptHalf
      <4>2. Len(e.out) \in Nat
        BY <2>2
      <4> HIDE DEF N, e
      <4>3. p + 12 \in o .. end + 1
        BY <2>1, <3>5
      <4>4. Len(e.out) + N(p + 12) <= N(p)
        BY <3>1, <3>5, <4>1, <4>2, SMTT(20)
      <4> QED BY <3>5, <4>3, <4>4, Zenon
    <3> HIDE DEF N, e
    <3> QED BY <2>2, <3>2, <3>3, <3>4, <3>5, Zenon
  <2>5. CASE e.used = 0
    <3>1. from[p] = [ok |-> FALSE, off |-> p, out |-> <<>>]
      BY <2>3, <2>5
    <3>2. N(p) \in Nat
      BY <1>1, <2>1
    <3> HIDE DEF from, N
    <3> QED BY <2>1, <3>1, <3>2
  <2>6. CASE e.used # 0
    <3>0. PICK u \in {1, 2, 6, 12} : /\ e.used = u /\ p + u \in o .. end + 1
                                     /\ Len(e.out) + N(p + u) <= N(p)
      <4> HIDE DEF N, e
      <4> QED BY <2>4, <2>6, Zenon
    <3> DEFINE q == p + u
    <3>1. q \in o .. end + 1 /\ q > p /\ Len(e.out) + N(q) <= N(p)
      <4>1. q > p
        BY <2>1
      <4> QED BY <3>0, <4>1, Zenon
    <3>2. Good(q)
      BY <2>0, <3>1, Zenon
    <3>3. from[p] = [from[q] EXCEPT !.out = e.out \o @]
      BY <2>3, <2>6, <3>0, Zenon
    <3>4. q \in Int /\ N(q) \in Nat /\ N(p) \in Nat
      <4> HIDE DEF N, q
      <4>1. q \in Int /\ p \in Int
        BY <2>1, <3>1
      <4> QED BY <1>1, <4>1, Zenon
    <3> HIDE DEF from, N, q, e
    <3>5. from[q] \in Type /\ Len(from[q].out) <= N(q)
      BY <3>2
    <3>6. /\ from[p] \in Type
          /\ Len(from[p].out) = Len(e.out) + Len(from[q].out)
          /\ Len(e.out) \in Nat /\ Len(from[q].out) \in Nat
      <4> DEFINE f == from[p]   g == from[q]   x == e.out
      <4>1. f = [g EXCEPT !.out = x \o @]
        BY <3>3
      <4>2. g \in Type /\ x \in Seq(Int)
        BY <2>2, <3>5
      <4> HIDE DEF f, g, x
      <4>3. f \in Type /\ Len(f.out) = Len(x) + Len(g.out) /\ Len(x) \in Nat /\ Len(g.out) \in Nat
        BY <4>1, <4>2, PrependOut
      <4> QED BY <4>3 DEF f, g, x
    <3>7. Len(from[p].out) <= N(p)
      <4> DEFINE a == Len(from[p].out)   b == Len(e.out)   c == Len(from[q].out)
                 d == N(q)   n == N(p)
      <4>1. /\ a = b + c /\ b \in Nat /\ c \in Nat /\ d \in Nat /\ n \in Nat
            /\ c <= d /\ b + d <= n
        BY <3>1, <3>4, <3>5, <3>6, Zenon
      <4> HIDE DEF a, b, c, d, n
      <4>2. a <= n
        BY <4>1
      <4> QED BY <4>2 DEF a, n
    <3> QED BY <3>6, <3>7
  <2> QED BY <2>5, <2>6
<1> HIDE DEF Good
<1>4. 0 \in T
  BY <1>2
<1>5. \A n \in T : n + 1 \in T
  <2> TAKE n \in T
  <2>1. n \in Nat /\ \A p \in o .. end + 1 : p >= end + 1 - n => Good(p)
    OBVIOUS
  <2> HIDE DEF T
  <2>2. \A p \in o .. end + 1 : p >= end + 1 - (n + 1) => Good(p)
    <3> TAKE p \in o .. end + 1
    <3> HAVE p >= end + 1 - (n + 1)
    <3>1. CASE p >= end + 1 - n \/ p >= end
      BY <1>2, <2>1, <3>1
    <3>2. CASE p = end - n /\ p < end
      <4>1. \A q \in o .. end + 1 : q > p => Good(q)
        BY <2>1, <3>2
      <4> QED BY <1>3, <3>2, <4>1
    <3> QED BY <2>1, <3>1, <3>2
  <2> QED BY <2>1, <2>2 DEF T
<1>6. T = Nat
  <2>1. T \in SUBSET Nat
    OBVIOUS
  <2> HIDE DEF T
  <2> QED BY <1>4, <1>5, <2>1, InductionStep
<1>7. \A p \in o .. end + 1 : Good(p)
  <2>1. end + 1 \in T
    <3> HIDE DEF T
    <3> QED BY <1>0, <1>6
  <2>2. \A p \in o .. end + 1 : p >= end + 1 - (end + 1)
    BY <1>0
  <2> QED BY <2>1, <2>2
<1>8. \A p \in o .. end + 1 : from[p].out \in Seq(Int) /\ Len(from[p].out) <= N(p)
  BY <1>7 DEF Good
<1> QED BY <1>8

(* What parse_string decodes of a string, its closing 0 included, is never *)
(* longer than the room it measured for it, for texts of every length: not *)
(* even what it has decoded when it comes upon a bad escape.               *)
THEOREM StringsFitAlways ==
  ASSUME NEW t \in Seq(Byte), NEW o \in 0 .. Len(t) - 1
  PROVE  StringFits(t, o)
<1> DEFINE a == o + 1
           skip == Skipping(t, a)
           quotes == {e \in a .. Len(t) - 1 : At(t, e) = Quote /\ (e = a \/ ~skip[e - 1])}
           end == Min(quotes)
           K == {e \in a .. end - 1 : skip[e]}
<1>1. CASE quotes = {}
  <2>1. StringEnd(t, o + 1).end = -1
    BY <1>1 DEF StringEnd
  <2> QED BY <2>1 DEF StringFits
<1>2. CASE quotes # {}
  <2>1. a \in Nat
    OBVIOUS
  <2>2. end \in quotes
    <3>1. quotes \in SUBSET Nat
      BY <2>1
    <3> HIDE DEF quotes
    <3> QED BY <1>2, <3>1, MinExists
  <2>3. StringEnd(t, a) = [end |-> end, skipped |-> Cardinality(K)]
    BY <1>2 DEF StringEnd
  <2> HIDE DEF end
  <2>4. end \in a .. Len(t) - 1 /\ (end = a \/ ~skip[end - 1])
    BY <2>2
  <2>5. \A e \in a .. Len(t) - 1 : skip[e] = (At(t, e) = Backslash /\ (e = a \/ ~skip[e - 1]))
    BY <2>1, SkippingIs
  <2> HIDE DEF skip, quotes
  <2>6. \A q \in K : q + 1 \notin K
    <3> SUFFICES ASSUME NEW q \in K, q + 1 \in K PROVE FALSE
      OBVIOUS
    <3>1. q + 1 \in a .. Len(t) - 1 /\ q + 1 # a /\ (q + 1) - 1 = q
      BY <2>1, <2>4
    <3> QED BY <2>5, <3>1
  <2>7. \A q \in K \cap (a .. end - 1) : At(t, q) = Backslash
    <3> TAKE q \in K \cap (a .. end - 1)
    <3>1. q \in a .. Len(t) - 1 /\ skip[q]
      BY <2>1, <2>4
    <3> QED BY <2>5, <3>1, Zenon
  <2>8. end - 1 \notin K
    BY <2>1, <2>4
  <2>9. end \in 0 .. Len(t)
    BY <2>1, <2>4
  <2>10. Len(Unescape(t, a, end).out) <= Kept(K, a, end) /\ Unescape(t, a, end).out \in Seq(Int)
    <3>1. a \in a .. end + 1
      BY <2>1, <2>4
    <3> HIDE DEF K, a
    <3> QED BY <2>1, <2>6, <2>7, <2>8, <2>9, <3>1, DecodedIsKept, Zenon DEF Unescape
  <2>11. Kept(K, a, end) = end - a - Cardinality(K) /\ Cardinality(K) \in Nat
    <3> DEFINE I == a .. end - 1
    <3>1. IsFiniteSet(I) /\ Cardinality(I) = end - a
      <4>1. a \in Int /\ end - 1 \in Int /\ end \in Int /\ a <= end
        BY <2>1, <2>4
      <4> HIDE DEF a
      <4>2. IsFiniteSet(I) /\ Cardinality(I) = IF a > end - 1 THEN 0 ELSE (end - 1) - a + 1
        BY <4>1, FS_Interval, Zenon
      <4> QED BY <4>1, <4>2
    <3>2. I \cap K = K
      OBVIOUS
    <3>3. K \in SUBSET I
      OBVIOUS
    <3> HIDE DEF I, K
    <3>4. Cardinality(I \ K) = Cardinality(I) - Cardinality(K)
      <4>1. Cardinality(I \ K) = Cardinality(I) - Cardinality(I \cap K)
        BY <3>1, FS_Difference
      <4> QED BY <3>2, <4>1
    <3>5. Cardinality(K) \in Nat
      BY <3>1, <3>3, FS_Subset, FS_CardinalityType
    <3> QED BY <3>1, <3>4, <3>5 DEF Kept, I
  <2> HIDE DEF K
  <2>12. StringRoom(o, StringEnd(t, a)) = end - o - Cardinality(K) + 1
    BY <2>3 DEF StringRoom
  <2>13. StringEnd(t, a).end = end
    BY <2>3
  <2>14. Len(Unescape(t, a, end).out) + 1 <= StringRoom(o, StringEnd(t, a))
    <3>1. Len(Unescape(t, a, end).out) \in Nat
      BY <2>10
    <3> QED BY <2>4, <2>10, <2>11, <2>12, <3>1
  <2> QED BY <2>13, <2>14, Zenon DEF StringFits
<1> QED BY <1>1, <1>2

-----------------------------------------------------------------------------
(* Sequences of sequences, one after the other. *)

(* FlattenSeq puts the sequences one after the other, from the first on.   *)
LEMMA FlattenIs ==
  ASSUME NEW S, NEW seqs \in Seq(Seq(S))
  PROVE  \E f \in [0 .. Len(seqs) -> Seq(S)] :
           /\ f[0] = <<>>
           /\ \A k \in 1 .. Len(seqs) : f[k] = f[k - 1] \o seqs[k]
           /\ FlattenSeq(seqs) = f[Len(seqs)]
<1> DEFINE n == Len(seqs)
           step == [k \in 1 .. n |-> [x \in Seq(S) |-> x \o seqs[k]]]
           G(f) == [k \in 1 .. n |-> IF k = 1 THEN seqs[k] ELSE f[k - 1] \o seqs[k]]
<1>0. n \in Nat /\ \A k \in 1 .. n : seqs[k] \in Seq(S)
  OBVIOUS
<1>1. <<>> \in Seq(S)
  OBVIOUS
<1>2. step \in [1 .. n -> [Seq(S) -> Seq(S)]]
  BY <1>0
<1>3. PICK f \in [0 .. n -> Seq(S)] :
        f[0] = <<>> /\ \A k \in 1 .. n : f[k] = step[k][f[k - 1]]
  <2> DEFINE A == Seq(S)   a == <<>>
  <2>1. n \in Nat /\ a \in A /\ step \in [1 .. n -> [A -> A]]
    BY <1>0, <1>1, <1>2
  <2> HIDE DEF n, step, A, a
  <2>2. \E f \in [0 .. n -> A] : f[0] = a /\ \A k \in 1 .. n : f[k] = step[k][f[k - 1]]
    BY <2>1, Iterates, Z3T(60)
  <2> QED BY <2>2 DEF A, a
<1>4. f[0] = <<>> /\ \A k \in 1 .. n : f[k] = f[k - 1] \o seqs[k]
  <2>1. \A k \in 1 .. n : k - 1 \in 0 .. n
    BY <1>0
  <2> HIDE DEF n
  <2>2. \A k \in 1 .. n : step[k][f[k - 1]] = f[k - 1] \o seqs[k]
    BY <2>1
  <2> QED BY <1>3, <2>2
<1>5. CASE n = 0
  <2>1. seqs = <<>> /\ FlattenSeq(seqs) = seqs
    BY <1>5 DEF FlattenSeq
  <2> QED BY <1>4, <1>5, <2>1
<1>6. CASE n # 0
  <2>1. f[1] = seqs[1] /\ 1 \in 1 .. n
    <3>1. 1 \in 1 .. n /\ 1 - 1 = 0
      BY <1>0, <1>6
    <3>2. f[1] = <<>> \o seqs[1]
      BY <1>4, <3>1
    <3> QED BY <1>0, <3>1, <3>2, ConcatEmptySeq
  <2>2. \E g : g = G(g)
    <3> DEFINE g == [k \in 1 .. n |-> f[k]]
    <3>1. \A k \in 1 .. n : k = 1 \/ k - 1 \in 1 .. n
      BY <1>0
    <3>2. \A k \in 1 .. n : g[k] = IF k = 1 THEN seqs[k] ELSE g[k - 1] \o seqs[k]
      BY <1>4, <2>1, <3>1
    <3> HIDE DEF n
    <3>3. g = G(g)
      BY <3>2
    <3> QED BY <3>3
  <2> DEFINE h == CHOOSE g : g = G(g)
  <2>3. h = G(h)
    BY <2>2
  <2>4. FlattenSeq(seqs) = h[n]
    BY <1>6, Zenon DEF FlattenSeq
  <2>5. \A k \in 1 .. n : h[k] = IF k = 1 THEN seqs[k] ELSE h[k - 1] \o seqs[k]
    <3> HIDE DEF h, n
    <3> QED BY <2>3
  <2> HIDE DEF h
  <2> DEFINE T == {k \in 0 .. n : k # 0 => h[k] = f[k]}
  <2>6. \A k \in 0 .. n : k \in T
    <3>1. 0 \in T
      BY <1>0
    <3>2. ASSUME NEW k \in 0 .. n - 1, k \in T PROVE k + 1 \in T
      <4>1. k + 1 \in 1 .. n /\ k + 1 \in 0 .. n /\ k + 1 - 1 = k /\ (k = 0 <=> k + 1 = 1)
        BY <1>0
      <4>2. h[k + 1] = IF k = 0 THEN seqs[k + 1] ELSE h[k] \o seqs[k + 1]
        <5> HIDE DEF n, T
        <5> QED BY <2>5, <4>1
      <4>3. f[k + 1] = f[k] \o seqs[k + 1]
        <5> HIDE DEF n, T
        <5>1. \A j \in 1 .. n : f[j] = f[j - 1] \o seqs[j]
          BY <1>4
        <5>2. PICK j \in 1 .. n : j = k + 1 /\ j - 1 = k
          BY <4>1
        <5>3. f[j] = f[j - 1] \o seqs[j]
          BY <5>1, Zenon
        <5> QED BY <5>2, <5>3, Zenon
      <4>4. h[k + 1] = f[k + 1]
        <5>1. k # 0 => h[k] = f[k]
          BY <3>2
        <5>2. CASE k = 0
          BY <2>1, <4>1, <4>2, <5>2
        <5>3. CASE k # 0
          <6> HIDE DEF n, T
          <6> QED BY <4>2, <4>3, <5>1, <5>3
        <5> QED BY <5>2, <5>3
      <4> QED BY <4>1, <4>4
    <3> HIDE DEF T, n
    <3> QED BY <1>0, <3>1, <3>2, UpTo
  <2>7. h[n] = f[n]
    <3>1. n \in T
      <4> HIDE DEF T
      <4> QED BY <1>0, <2>6
    <3> QED BY <1>6, <3>1
  <2> QED BY <1>4, <2>4, <2>7
<1> QED BY <1>5, <1>6

(* So what it makes is a sequence of the same elements. *)
LEMMA FlattenType ==
  ASSUME NEW S, NEW seqs \in Seq(Seq(S))
  PROVE  FlattenSeq(seqs) \in Seq(S)
<1>1. PICK f \in [0 .. Len(seqs) -> Seq(S)] : FlattenSeq(seqs) = f[Len(seqs)]
  BY FlattenIs
<1>2. Len(seqs) \in 0 .. Len(seqs)
  OBVIOUS
<1> QED BY <1>1, <1>2

-----------------------------------------------------------------------------
(* The text of a string and its length. *)

(* What an escape becomes when it is read: each letter has one.            *)
LEMMA EscapesAre ==
  /\ DOMAIN Escapes = {98, 102, 110, 114, 116, 34, 92, 47}
  /\ Escapes[98] = 8 /\ Escapes[102] = 12 /\ Escapes[110] = 10 /\ Escapes[114] = 13
  /\ Escapes[116] = 9 /\ Escapes[34] = 34 /\ Escapes[92] = 92 /\ Escapes[47] = 47
BY DEF Escapes, Quote, Backslash, Slash

(* A byte is written as as many bytes as were measured for it.             *)
LEMMA EscapeOfIs ==
  ASSUME NEW c \in Byte
  PROVE  EscapeOf(c) \in Seq(Byte) /\ Len(EscapeOf(c)) = 1 + EscapeRoom(c)
<1> DEFINE L == {98, 102, 110, 114, 116, 34, 92}
           letter == CHOOSE e \in L : Escapes[e] = c
<1>1. DOMAIN Escapes \ {Slash} = L
  BY EscapesAre DEF Slash
<1>2. {e \in L : Escapes[e] = c} # {} <=> c \in {8, 12, 10, 13, 9, 34, 92}
  BY EscapesAre
<1>3. c \in Int /\ 0 <= c /\ c <= 255
  BY DEF Byte
<1>4. CASE c > 31 /\ c \notin {Quote, Backslash}
  BY <1>3, <1>4 DEF EscapeOf, EscapeRoom, Quote, Backslash
<1>5. CASE ~(c > 31 /\ c \notin {Quote, Backslash}) /\ c \in {8, 12, 10, 13, 9, 34, 92}
  <2>1. \E e \in L : Escapes[e] = c
    BY <1>2, <1>5
  <2>2. letter \in L
    BY <2>1
  <2> HIDE DEF letter
  <2>3. EscapeOf(c) = <<Backslash, letter>>
    BY <1>1, <1>5, <2>1 DEF EscapeOf, letter
  <2>4. EscapeRoom(c) = 1
    BY <1>3, <1>5 DEF EscapeRoom, Quote, Backslash
  <2>5. letter \in Byte /\ Backslash \in Byte
    BY <2>2 DEF Byte, Backslash
  <2>6. <<Backslash, letter>> \in Seq(Byte) /\ Len(<<Backslash, letter>>) = 2
    BY <2>5
  <2> QED BY <2>3, <2>4, <2>6
<1>6. CASE ~(c > 31 /\ c \notin {Quote, Backslash}) /\ c \notin {8, 12, 10, 13, 9, 34, 92}
  <2>1. ~ \E e \in L : Escapes[e] = c
    BY <1>2, <1>6
  <2>2. EscapeOf(c) = <<Backslash>> \o Hex4(c)
    BY <1>1, <1>6, <2>1 DEF EscapeOf
  <2>3. EscapeRoom(c) = 5
    BY <1>3, <1>6 DEF EscapeRoom, Quote, Backslash
  <2>4. Hex4(c) \in Seq(Byte) /\ Len(Hex4(c)) = 5
    <3>1. c \div 16 \in 0 .. 15 /\ c % 16 \in 0 .. 15
      BY <1>3
    <3> DEFINE h(n) == IF n < 10 THEN 48 + n ELSE 87 + n
    <3>2. h(c \div 16) \in Byte /\ h(c % 16) \in Byte
      BY <3>1 DEF Byte
    <3>3. Hex4(c) = <<LowerU, 48, 48, h(c \div 16), h(c % 16)>>
      BY DEF Hex4
    <3> HIDE DEF h
    <3>4. LowerU \in Byte /\ 48 \in Byte
      BY DEF LowerU, Byte
    <3> QED BY <3>2, <3>3, <3>4
  <2>5. Backslash \in Byte
    BY DEF Backslash, Byte
  <2>6. <<Backslash>> \in Seq(Byte) /\ Len(<<Backslash>>) = 1
    BY <2>5
  <2>7. ASSUME NEW u \in Seq(Byte), NEW v \in Seq(Byte)
        PROVE  u \o v \in Seq(Byte) /\ Len(u \o v) = Len(u) + Len(v)
    BY ConcatProperties
  <2>8. /\ <<Backslash>> \o Hex4(c) \in Seq(Byte)
        /\ Len(<<Backslash>> \o Hex4(c)) = Len(<<Backslash>>) + Len(Hex4(c))
    BY <2>4, <2>6, <2>7, Zenon
  <2> QED BY <2>2, <2>3, <2>4, <2>6, <2>8
<1> QED BY <1>4, <1>5, <1>6

(* The first loop of print_string_ptr counts the bytes that the second one *)
(* writes.                                                                 *)
THEOREM StringLengthIsExact ==
  ASSUME NEW s \in Seq(Byte)
  PROVE  StringText(s) \in Seq(Byte) /\ Len(StringText(s)) = StringLength(s)
<1> DEFINE n == Len(s)
           seqs == [k \in 1 .. Len(s) |-> EscapeOf(s[k])]
           G(f) == [k \in 0 .. n |-> IF k = 0 THEN 2 ELSE f[k - 1] + 1 + EscapeRoom(s[k])]
<1>1. n \in Nat /\ \A k \in 1 .. n : s[k] \in Byte
  OBVIOUS
<1>2. \A k \in 1 .. n : /\ EscapeOf(s[k]) \in Seq(Byte)
                        /\ Len(EscapeOf(s[k])) = 1 + EscapeRoom(s[k])
                        /\ EscapeRoom(s[k]) \in Nat
  <2>1. \A c \in Byte : EscapeRoom(c) \in Nat
    BY DEF EscapeRoom
  <2> QED BY <1>1, <2>1, EscapeOfIs
<1>3. seqs \in Seq(Seq(Byte)) /\ Len(seqs) = n /\ \A k \in 1 .. n : seqs[k] = EscapeOf(s[k])
  <2>1. seqs \in [1 .. n -> Seq(Byte)]
    BY <1>2
  <2> QED BY <1>1, <2>1
<1> HIDE DEF seqs
<1>4. PICK f \in [0 .. n -> Seq(Byte)] :
        f[0] = <<>> /\ (\A k \in 1 .. n : f[k] = f[k - 1] \o seqs[k]) /\ EscapeAll(s) = f[n]
  <2> HIDE DEF n
  <2>1. FlattenSeq(seqs) = EscapeAll(s)
    BY DEF seqs, EscapeAll
  <2> QED BY <1>3, <2>1, FlattenIs
<1> DEFINE length == [k \in 0 .. n |-> 2 + Len(f[k])]
<1>5. length = G(length)
  <2>1. ASSUME NEW k \in 1 .. n PROVE length[k] = length[k - 1] + 1 + EscapeRoom(s[k])
    <3>1. k - 1 \in 0 .. n /\ k \in 0 .. n
      BY <1>1
    <3>2. f[k] = f[k - 1] \o EscapeOf(s[k]) /\ f[k - 1] \in Seq(Byte)
      BY <1>3, <1>4, <3>1
    <3>3. Len(f[k]) = Len(f[k - 1]) + Len(EscapeOf(s[k]))
      BY <1>2, <3>2, ConcatProperties
    <3>4. length[k] = 2 + Len(f[k]) /\ length[k - 1] = 2 + Len(f[k - 1])
      BY <3>1
    <3>5. Len(f[k - 1]) \in Nat
      BY <3>2, LenProperties
    <3>6. Len(f[k]) = Len(f[k - 1]) + (1 + EscapeRoom(s[k]))
      BY <1>2, <3>3, Zenon
    <3> HIDE DEF length
    <3> QED BY <1>2, <3>4, <3>5, <3>6
  <2>2. length[0] = 2
    BY <1>1, <1>4
  <2>3. \A k \in 0 .. n : k = 0 \/ k \in 1 .. n
    BY <1>1
  <2> HIDE DEF n
  <2>4. length = [k \in 0 .. n |-> length[k]]
    OBVIOUS
  <2> HIDE DEF length
  <2> QED BY <2>1, <2>2, <2>3, <2>4
<1> DEFINE h == CHOOSE g : g = G(g)
<1>6. h = G(h)
  <2> HIDE DEF length, G
  <2> QED BY <1>5
<1>7. StringLength(s) = h[n]
  BY Zenon DEF StringLength
<1> HIDE DEF h
<1>8. h[n] = length[n]
  <2> DEFINE T == {k \in 0 .. n : h[k] = length[k]}
  <2>1. 0 \in T
    <3>1. 0 \in 0 .. n
      BY <1>1
    <3>2. h[0] = 2 /\ length[0] = 2
      BY <1>5, <1>6, <3>1
    <3> QED BY <3>1, <3>2
  <2>2. ASSUME NEW k \in 0 .. n - 1, k \in T PROVE k + 1 \in T
    <3>1. PICK j \in 0 .. n : j = k + 1 /\ j # 0 /\ j - 1 = k
      BY <1>1
    <3> HIDE DEF length, n
    <3>2. h[j] = h[j - 1] + 1 + EscapeRoom(s[j]) /\ length[j] = length[j - 1] + 1 + EscapeRoom(s[j])
      BY <1>5, <1>6, <3>1
    <3> QED BY <2>2, <3>1, <3>2
  <2>3. \A k \in 0 .. n : k \in T
    <3> HIDE DEF T, n
    <3> QED BY <1>1, <2>1, <2>2, UpTo
  <2>4. n \in T
    <3> HIDE DEF T
    <3> QED BY <1>1, <2>3
  <2> QED BY <2>4
<1>9. EscapeAll(s) \in Seq(Byte) /\ length[n] = 2 + Len(EscapeAll(s))
  BY <1>1, <1>4
<1>10. Quote \in Byte
  BY DEF Quote, Byte
<1> HIDE DEF length
<1>11. StringText(s) \in Seq(Byte) /\ Len(StringText(s)) = 2 + Len(EscapeAll(s))
  BY <1>9, <1>10 DEF StringText
<1> QED BY <1>7, <1>8, <1>9, <1>11

-----------------------------------------------------------------------------
(* Numbers. *)

(* A natural number is written as digits, one at least.                    *)
LEMMA DigitsType ==
  ASSUME NEW n \in Nat
  PROVE  Digits(n) \in Seq(48 .. 57) /\ Len(Digits(n)) > 0
<1> DEFINE D == 48 .. 57
           Step(k, x) == IF k < 10 THEN <<48 + k>> ELSE x \o <<48 + (k % 10)>>
           F(f, m) == [k \in 0 .. m |-> Step(k, f[k \div 10])]
           T == {m \in Nat : \E f : f = F(f, m)}
<1>1. \A k \in Nat : (k < 10 \/ k \div 10 < k) /\ k \div 10 \in Nat /\ k % 10 \in 0 .. 9
  OBVIOUS
<1>2. 0 \in T
  <2> DEFINE f == [k \in 0 .. 0 |-> <<48 + k>>]
  <2>1. f = F(f, 0)
    OBVIOUS
  <2> QED BY <2>1
<1>3. \A m \in T : m + 1 \in T
  <2> HIDE DEF Step, F
  <2> SUFFICES ASSUME NEW m \in Nat, NEW f, f = F(f, m) PROVE \E g : g = F(g, m + 1)
    OBVIOUS
  <2> USE DEF F
  <2> DEFINE g == F(f, m + 1)
  <2>1. \A k \in 0 .. m + 1 : k < 10 \/ k \div 10 \in 0 .. m
    BY <1>1
  <2>2. \A k \in 0 .. m : g[k] = f[k]
    OBVIOUS
  <2> HIDE DEF g
  <2>3. \A k \in 0 .. m + 1 : Step(k, f[k \div 10]) = Step(k, g[k \div 10])
    BY <2>1, <2>2 DEF Step
  <2>4. g = F(g, m + 1)
    BY <2>3 DEF g
  <2> QED BY <2>4
<1>4. T = Nat
  <2>1. T \in SUBSET Nat
    OBVIOUS
  <2> HIDE DEF T
  <2> QED BY <1>2, <1>3, <2>1, InductionStep
<1> DEFINE h == CHOOSE f : f = F(f, n)
<1>5. h = F(h, n)
  <2>1. \E f : f = F(f, n)
    <3>1. n \in T
      <4> HIDE DEF T
      <4> QED BY <1>4
    <3> HIDE DEF F
    <3> QED BY <3>1
  <2> HIDE DEF F
  <2> QED BY <2>1
<1>6. Digits(n) = h[n]
  BY Zenon DEF Digits
<1> HIDE DEF h
<1>7. \A k \in 0 .. n : h[k] = Step(k, h[k \div 10])
  <2> HIDE DEF Step
  <2> QED BY <1>5
<1> DEFINE Good(x) == x \in Seq(D) /\ Len(x) > 0
           U == {k \in 0 .. n : \A j \in 0 .. k : Good(h[j])}
<1>8. \A k \in Nat : \A x : (k < 10 \/ Good(x)) => Good(Step(k, x))
  <2> SUFFICES ASSUME NEW k \in Nat, NEW x, k < 10 \/ Good(x) PROVE Good(Step(k, x))
    OBVIOUS
  <2>1. CASE k < 10
    BY <2>1
  <2>2. CASE ~(k < 10)
    <3> DEFINE y == <<48 + (k % 10)>>
    <3>1. y \in Seq(D) /\ Len(y) = 1
      BY <1>1
    <3>2. x \in Seq(D) /\ Len(x) > 0 /\ Step(k, x) = x \o y
      BY <2>2
    <3> HIDE DEF y, D, Step
    <3>3. x \o y \in Seq(D) /\ Len(x \o y) = Len(x) + Len(y)
      BY <3>1, <3>2, ConcatProperties
    <3>4. Len(x) \in Nat
      BY <3>2
    <3> QED BY <3>1, <3>2, <3>3, <3>4
  <2> QED BY <2>1, <2>2
<1>9. 0 \in U
  <2> HIDE DEF Good, Step
  <2>1. 0 \in 0 .. n /\ \A j \in 0 .. 0 : j = 0
    OBVIOUS
  <2>2. Good(h[0])
    BY <1>7, <1>8, <2>1
  <2> QED BY <2>1, <2>2
<1>10. ASSUME NEW k \in 0 .. n - 1, k \in U PROVE k + 1 \in U
  <2> HIDE DEF Good, Step
  <2>1. k + 1 \in 0 .. n /\ k + 1 \in Nat /\ \A j \in 0 .. k + 1 : j \in 0 .. k \/ j = k + 1
    OBVIOUS
  <2>2. k + 1 < 10 \/ (k + 1) \div 10 \in 0 .. k
    BY <1>1, <2>1
  <2>3. k + 1 < 10 \/ Good(h[(k + 1) \div 10])
    BY <1>10, <2>2
  <2>4. Good(h[k + 1])
    BY <1>7, <1>8, <2>1, <2>3
  <2> QED BY <1>10, <2>1, <2>4
<1>11. \A k \in 0 .. n : k \in U
  <2> HIDE DEF U
  <2> QED BY <1>9, <1>10, UpTo
<1>12. Good(h[n])
  <2>1. n \in U
    <3> HIDE DEF U
    <3> QED BY <1>11
  <2>2. n \in 0 .. n
    OBVIOUS
  <2> HIDE DEF Good
  <2> QED BY <2>1, <2>2
<1> QED BY <1>6, <1>12

-----------------------------------------------------------------------------
(* The pieces that are printed. *)

(* A piece whose room was asked for with at most one byte to spare.        *)
GoodPieces ==
  {Refused} \union
  {q \in [needed : Nat, text : Seq(Int)] : Len(q.text) <= q.needed /\ q.needed <= Len(q.text) + 1}

(* So is a piece whose text has that length.                               *)
LEMMA PieceIsGood ==
  ASSUME NEW needed \in Nat, NEW text \in Seq(Int),
         Len(text) <= needed, needed <= Len(text) + 1
  PROVE  Piece(needed, text) \in GoodPieces
BY DEF Piece, GoodPieces

(* The room for a constant text has one byte to spare.                     *)
LEMMA TextIsGood ==
  ASSUME NEW s \in Seq(Int)
  PROVE  Text(s) \in GoodPieces
<1>1. Len(s) \in Nat
  OBVIOUS
<1> QED BY <1>1 DEF Text, Piece, GoodPieces

(* So has that for a string, which is as long as it was measured.          *)
LEMMA PrintStringIsGood ==
  ASSUME NEW h, NEW b, b = NULL \/ Chars(h, b) \in Seq(Byte)
  PROVE  print_string_ptr(h, b) \in GoodPieces
<1>1. CASE b = NULL
  <2>1. <<Quote, Quote>> \in Seq(Int)
    BY DEF Quote
  <2> QED BY <1>1, <2>1, TextIsGood DEF print_string_ptr
<1>2. CASE b # NULL
  <2> DEFINE s == Chars(h, b)
  <2>1. StringText(s) \in Seq(Byte) /\ Len(StringText(s)) = StringLength(s)
    BY <1>2, StringLengthIsExact
  <2>2. StringText(s) \in Seq(Int) /\ Len(StringText(s)) \in Nat
    <3> DEFINE t == StringText(s)
    <3>1. Byte \subseteq Int
      BY DEF Byte
    <3>2. Seq(Byte) \subseteq Seq(Int)
      BY <3>1, SeqMonotonic
    <3>3. t \in Seq(Int)
      BY <2>1, <3>2
    <3> HIDE DEF t
    <3>4. Len(t) \in Nat
      BY <3>3
    <3> QED BY <3>3, <3>4 DEF t
  <2>3. print_string_ptr(h, b) = Piece(StringLength(s) + 1, StringText(s))
    BY <1>2 DEF print_string_ptr
  <2> HIDE DEF s
  <2> QED BY <2>1, <2>2, <2>3 DEF Piece, GoodPieces
<1> QED BY <1>1, <1>2

(* A sequence of one.                                                      *)
LEMMA OneIn ==
  ASSUME NEW S, NEW x \in S
  PROVE  <<x>> \in Seq(S)
OBVIOUS

(* An array of what is printed well is printed well. *)
LEMMA ArrayIsGood ==
  ASSUME NEW format \in BOOLEAN, NEW elements \in Seq(Seq(GoodPieces))
  PROVE  print_array(format, elements) \in Seq(GoodPieces)
<1> DEFINE last == Len(elements)
           comma == <<Comma>> \o IfFormat(format, <<32>>)
           Element(k) == elements[k] \o (IF k = last THEN <<>> ELSE <<Text(comma)>>)
           seqs == [k \in 1 .. last |-> Element(k)]
<1>1. last \in Nat /\ \A k \in 1 .. last : elements[k] \in Seq(GoodPieces)
  OBVIOUS
<1>2. comma \in Seq(Int) /\ <<CloseArray>> \in Seq(Int) /\ <<OpenArray>> \in Seq(Int)
  BY DEF IfFormat, Comma, CloseArray, OpenArray
<1>3. Text(comma) \in GoodPieces /\ Text(<<CloseArray>>) \in GoodPieces
  <2> HIDE DEF comma
  <2> QED BY <1>2, TextIsGood
<1>4. Piece(1, <<OpenArray>>) \in GoodPieces
  <2> DEFINE t == <<OpenArray>>
  <2>1. t \in Seq(Int) /\ Len(t) = 1
    BY <1>2
  <2>2. 1 \in Nat /\ Len(t) <= 1 /\ 1 <= Len(t) + 1
    BY <2>1
  <2> HIDE DEF t
  <2>3. Piece(1, t) \in GoodPieces
    BY <2>1, <2>2, PieceIsGood
  <2> QED BY <2>3 DEF t
<1>5. \A k \in 1 .. last : Element(k) \in Seq(GoodPieces)
  <2> HIDE DEF last, comma
  <2> TAKE k \in 1 .. last
  <2>1. (IF k = last THEN <<>> ELSE <<Text(comma)>>) \in Seq(GoodPieces)
    BY <1>3, OneIn
  <2> QED BY <1>1, <2>1, ConcatProperties
<1> HIDE DEF Element, comma
<1>6. seqs \in Seq(Seq(GoodPieces))
  BY <1>1, <1>5
<1> HIDE DEF seqs, last
<1>7. FlattenSeq(seqs) \in Seq(GoodPieces)
  BY <1>6, FlattenType
<1> DEFINE head == <<Piece(1, <<OpenArray>>)>>   foot == <<Text(<<CloseArray>>)>>
<1>8. head \in Seq(GoodPieces) /\ foot \in Seq(GoodPieces)
  BY <1>3, <1>4, OneIn
<1>9. print_array(format, elements) = head \o FlattenSeq(seqs) \o foot
  BY Zenon DEF print_array, seqs, Element, comma, last
<1> HIDE DEF head, foot
<1> QED BY <1>7, <1>8, <1>9, ConcatProperties

(* An object of what is printed well is printed well. *)
LEMMA ObjectIsGood ==
  ASSUME NEW format \in BOOLEAN, NEW depth \in Nat, NEW names \in Seq(GoodPieces),
         NEW values \in Seq(Seq(GoodPieces)), Len(values) = Len(names)
  PROVE  print_object(format, depth, names, values) \in Seq(GoodPieces)
<1> DEFINE last == Len(names)
           open == <<OpenObject>> \o IfFormat(format, <<10>>)
           colon == <<Colon>> \o IfFormat(format, <<9>>)
           end(k) == (IF k = last THEN <<>> ELSE <<Comma>>) \o IfFormat(format, <<10>>)
           close == IfFormat(format, Tabs(depth)) \o <<CloseObject>>
           tabs == IfFormat(format, <<Piece(depth + 1, Tabs(depth + 1))>>)
           Member(k) == tabs \o <<names[k], Piece(Len(colon), colon)>> \o values[k] \o <<Text(end(k))>>
           seqs == [k \in 1 .. last |-> Member(k)]
<1>1. /\ last \in Nat
      /\ \A k \in 1 .. last : values[k] \in Seq(GoodPieces) /\ names[k] \in GoodPieces
  <2>1. Len(names) \in Nat /\ \A k \in 1 .. Len(names) : names[k] \in GoodPieces
    OBVIOUS
  <2>2. \A k \in 1 .. Len(values) : values[k] \in Seq(GoodPieces)
    OBVIOUS
  <2> QED BY <2>1, <2>2
<1>2. \A m \in Nat : Tabs(m) \in Seq(Int) /\ Len(Tabs(m)) = m
  BY DEF Tabs
<1>3. open \in Seq(Int) /\ colon \in Seq(Int)
  BY DEF IfFormat, OpenObject, Colon
<1>4. \A k : end(k) \in Seq(Int)
  BY DEF IfFormat, Comma
<1>5. close \in Seq(Int)
  <2>1. IfFormat(format, Tabs(depth)) \in Seq(Int) /\ <<CloseObject>> \in Seq(Int)
    BY <1>2 DEF IfFormat, CloseObject
  <2> QED BY <2>1, ConcatProperties
<1> HIDE DEF open, colon, end, close, last
<1>6. Text(open) \in GoodPieces /\ Text(close) \in GoodPieces /\ \A k : Text(end(k)) \in GoodPieces
  BY <1>3, <1>4, <1>5, TextIsGood
<1>7. Piece(Len(colon), colon) \in GoodPieces
  <2>1. Len(colon) \in Nat
    BY <1>3
  <2> QED BY <1>3, <2>1 DEF Piece, GoodPieces
<1>8. tabs \in Seq(GoodPieces)
  <2>1. Piece(depth + 1, Tabs(depth + 1)) \in GoodPieces
    BY <1>2 DEF Piece, GoodPieces
  <2> QED BY <2>1 DEF IfFormat
<1> HIDE DEF tabs
<1>9. \A k \in 1 .. last : Member(k) \in Seq(GoodPieces)
  <2> TAKE k \in 1 .. last
  <2> DEFINE middle == <<names[k], Piece(Len(colon), colon)>>   rest == <<Text(end(k))>>
  <2>1. middle \in Seq(GoodPieces) /\ rest \in Seq(GoodPieces) /\ values[k] \in Seq(GoodPieces)
    BY <1>1, <1>6, <1>7
  <2> HIDE DEF middle, rest
  <2>2. tabs \o middle \o values[k] \o rest \in Seq(GoodPieces)
    BY <1>8, <2>1, ConcatProperties
  <2> QED BY <2>2 DEF middle, rest
<1> HIDE DEF Member
<1>10. seqs \in Seq(Seq(GoodPieces))
  BY <1>1, <1>9
<1> HIDE DEF seqs
<1>11. FlattenSeq(seqs) \in Seq(GoodPieces)
  BY <1>10, FlattenType
<1> DEFINE head == <<Text(open)>>   foot == <<Text(close)>>
<1>12. head \in Seq(GoodPieces) /\ foot \in Seq(GoodPieces)
  BY <1>6, OneIn
<1>13. print_object(format, depth, names, values) = head \o FlattenSeq(seqs) \o foot
  BY Zenon DEF print_object, seqs, Member, open, close, colon, end, last, tabs
<1> HIDE DEF head, foot
<1> QED BY <1>11, <1>12, <1>13, ConcatProperties

-----------------------------------------------------------------------------
(* The pieces of an item. *)

(* The memory can be printed from: every pointer of an item that is no     *)
(* reference is to a block of its kind.                                    *)
Printable(h) ==
  /\ IsFiniteSet(DOMAIN h) /\ DOMAIN h \subseteq Int
  /\ \A b \in ItemsOf(h) :
       /\ h[b].next \in Int /\ h[b].valuedouble \in Int
       /\ h[b].string = NULL \/ Chars(h, h[b].string) \in Seq(Byte)
       /\ ~h[b].IsReference =>
            /\ h[b].child \in Int
            /\ h[b].valuestring = NULL \/ Chars(h, h[b].valuestring) \in Seq(Byte)

(* What print_value writes for an item is good if it is for its children.  *)
LEMMA PrintValueIsGood ==
  ASSUME NEW h, Printable(h), NEW format \in BOOLEAN, NEW depth \in Nat,
         NEW p \in ItemsOf(h), ~h[p].IsReference, NEW of,
         \A c \in ToSet(Children(h, p)) : of[c] \in Seq(GoodPieces)
  PROVE  print_value(h, format, depth, p, of) \in Seq(GoodPieces)
<1> DEFINE n == h[p]
           s == Children(h, p)
           values == [k \in 1 .. Len(s) |-> of[s[k]]]
           names == [k \in 1 .. Len(s) |-> print_string_ptr(h, h[s[k]].string)]
<1>1. s \in Seq(ItemsOf(h))
  <2>1. Cardinality(DOMAIN h) \in Nat
    BY FS_CardinalityType DEF Printable
  <2> QED BY <2>1, ListType DEF Children, Printable
<1>2. Len(s) \in Nat /\ \A k \in 1 .. Len(s) : s[k] \in ItemsOf(h) /\ s[k] \in ToSet(s)
  <2> HIDE DEF s
  <2> QED BY <1>1 DEF ToSet
<1>3. values \in Seq(Seq(GoodPieces)) /\ Len(values) = Len(s)
  <2>1. \A k \in 1 .. Len(s) : of[s[k]] \in Seq(GoodPieces)
    BY <1>2
  <2> HIDE DEF s
  <2> QED BY <1>2, <2>1
<1>4. names \in Seq(GoodPieces) /\ Len(names) = Len(s)
  <2>1. \A k \in 1 .. Len(s) : print_string_ptr(h, h[s[k]].string) \in GoodPieces
    <3> HIDE DEF s
    <3> QED BY <1>2, PrintStringIsGood DEF Printable
  <2> HIDE DEF s
  <2> QED BY <1>2, <2>1
<1>5. /\ <<Text(NullWord)>> \in Seq(GoodPieces) /\ <<Text(FalseWord)>> \in Seq(GoodPieces)
      /\ <<Text(TrueWord)>> \in Seq(GoodPieces) /\ <<Refused>> \in Seq(GoodPieces)
  <2>1. NullWord \in Seq(Int) /\ FalseWord \in Seq(Int) /\ TrueWord \in Seq(Int)
    BY DEF NullWord, FalseWord, TrueWord
  <2>2. Refused \in GoodPieces
    BY DEF GoodPieces
  <2> QED BY <2>1, <2>2, TextIsGood, OneIn
<1>6. <<Text(NumberText(n.valuedouble))>> \in Seq(GoodPieces)
  <2> DEFINE d == n.valuedouble
  <2>1. d \in Int
    BY DEF Printable
  <2> HIDE DEF d
  <2>2. \A m \in Nat : Digits(m) \in Seq(Int)
    <3>1. 48 .. 57 \subseteq Int
      OBVIOUS
    <3> QED BY <3>1, DigitsType, SeqMonotonic
  <2>3. <<Minus>> \in Seq(Int)
    BY DEF Minus
  <2>4. NumberText(d) \in Seq(Int)
    <3>1. CASE d < 0
      <4>1. Digits(-d) \in Seq(Int)
        BY <2>1, <2>2, <3>1
      <4> QED BY <2>3, <3>1, <4>1, ConcatProperties DEF NumberText
    <3>2. CASE ~(d < 0)
      <4>1. d \in Nat
        BY <2>1, <3>2
      <4> QED BY <2>2, <3>2, <4>1 DEF NumberText
    <3> QED BY <3>1, <3>2
  <2> QED BY <2>4, TextIsGood, OneIn DEF d
<1>7. <<print_string_ptr(h, n.valuestring)>> \in Seq(GoodPieces)
  BY PrintStringIsGood, OneIn DEF Printable
<1>8. n.valuestring # NULL => <<Text(Chars(h, n.valuestring))>> \in Seq(GoodPieces)
  <2>1. Byte \subseteq Int
    BY DEF Byte
  <2>2. n.valuestring # NULL => Chars(h, n.valuestring) \in Seq(Int)
    BY <2>1, SeqMonotonic DEF Printable
  <2> QED BY <2>2, TextIsGood, OneIn
<1>9. print_array(format, values) \in Seq(GoodPieces)
  <2> HIDE DEF values
  <2> QED BY <1>3, ArrayIsGood
<1>10. print_object(format, depth, names, values) \in Seq(GoodPieces)
  <2> HIDE DEF names, values
  <2> QED BY <1>3, <1>4, ObjectIsGood
<1> HIDE DEF n, names, values
<1> QED BY <1>5, <1>6, <1>7, <1>8, <1>9, <1>10, Zenon DEF print_value, n, names, values

BelowLevel(h, k, prev) ==
  [p \in Int |-> {p} \union (IF k = 0 \/ h[p].IsReference THEN {}
                             ELSE UNION {prev[c] : c \in ToSet(Children(h, p))})]
PiecesLevel(h, format, deepest, k, prev) ==
  [p \in Int |-> IF k = 0 THEN <<>> ELSE print_value(h, format, deepest - k, p, prev)]

BelowUpTo(h, n) == CHOOSE f : f = [k \in 0 .. n |-> BelowLevel(h, k, f[k - 1])]

(* What is below an item are its children and what is below them.         *)
LEMMA BelowUpToIs ==
  ASSUME NEW h, NEW n \in Nat
  PROVE  LET g == BelowUpTo(h, n) IN \A k \in 0 .. n : g[k] = BelowLevel(h, k, g[k - 1])
<1> DEFINE F(f, m) == [k \in 0 .. m |-> BelowLevel(h, k, f[k - 1])]
           T == {m \in Nat : \E f : f = F(f, m)}
<1>1. \A a, b : BelowLevel(h, 0, a) = BelowLevel(h, 0, b)
  BY DEF BelowLevel
<1>2. 0 \in T
  <2> DEFINE f == [k \in 0 .. 0 |-> BelowLevel(h, 0, 0)]
  <2>1. \A k \in 0 .. 0 : k = 0
    OBVIOUS
  <2>2. f = F(f, 0)
    BY <1>1, <2>1
  <2> QED BY <2>2
<1>3. \A m \in T : m + 1 \in T
  <2> SUFFICES ASSUME NEW m \in Nat, NEW f, f = F(f, m) PROVE \E g : g = F(g, m + 1)
    OBVIOUS
  <2> DEFINE g == F(f, m + 1)
  <2>1. \A k \in 0 .. m : g[k] = f[k]
    OBVIOUS
  <2>2. \A k \in 0 .. m + 1 : k = 0 \/ k - 1 \in 0 .. m
    OBVIOUS
  <2> HIDE DEF g
  <2>3. \A k \in 0 .. m + 1 : BelowLevel(h, k, f[k - 1]) = BelowLevel(h, k, g[k - 1])
    BY <1>1, <2>1, <2>2
  <2>4. g = F(g, m + 1)
    BY <2>3 DEF g
  <2> QED BY <2>4
<1>4. T = Nat
  <2>1. T \in SUBSET Nat
    OBVIOUS
  <2> HIDE DEF T
  <2> QED BY <1>2, <1>3, <2>1, InductionStep
<1>5. n \in T
  <2> HIDE DEF T
  <2> QED BY <1>4
<1> DEFINE g == CHOOSE f : f = F(f, n)
<1>6. g = F(g, n)
  <2> HIDE DEF F
  <2> QED BY <1>5, Zenon
<1>7. g = BelowUpTo(h, n)
  BY Zenon DEF BelowUpTo
<1> HIDE DEF g
<1>8. \A k \in 0 .. n : g[k] = BelowLevel(h, k, g[k - 1])
  BY <1>6
<1> QED BY <1>7, <1>8, Zenon

PiecesUpTo(h, format, deepest, n) == CHOOSE f : f = [k \in 0 .. n |-> PiecesLevel(h, format, deepest, k, f[k - 1])]

(* The pieces of an item are those of a depth and of its children's.       *)
LEMMA PiecesUpToIs ==
  ASSUME NEW h, NEW format, NEW deepest, NEW n \in Nat
  PROVE  LET g == PiecesUpTo(h, format, deepest, n) IN \A k \in 0 .. n : g[k] = PiecesLevel(h, format, deepest, k, g[k - 1])
<1> DEFINE F(f, m) == [k \in 0 .. m |-> PiecesLevel(h, format, deepest, k, f[k - 1])]
           T == {m \in Nat : \E f : f = F(f, m)}
<1>1. \A a, b : PiecesLevel(h, format, deepest, 0, a) = PiecesLevel(h, format, deepest, 0, b)
  BY DEF PiecesLevel
<1>2. 0 \in T
  <2> DEFINE f == [k \in 0 .. 0 |-> PiecesLevel(h, format, deepest, 0, 0)]
  <2>1. \A k \in 0 .. 0 : k = 0
    OBVIOUS
  <2>2. f = F(f, 0)
    BY <1>1, <2>1
  <2> QED BY <2>2
<1>3. \A m \in T : m + 1 \in T
  <2> SUFFICES ASSUME NEW m \in Nat, NEW f, f = F(f, m) PROVE \E g : g = F(g, m + 1)
    OBVIOUS
  <2> DEFINE g == F(f, m + 1)
  <2>1. \A k \in 0 .. m : g[k] = f[k]
    OBVIOUS
  <2>2. \A k \in 0 .. m + 1 : k = 0 \/ k - 1 \in 0 .. m
    OBVIOUS
  <2> HIDE DEF g
  <2>3. \A k \in 0 .. m + 1 : PiecesLevel(h, format, deepest, k, f[k - 1]) = PiecesLevel(h, format, deepest, k, g[k - 1])
    BY <1>1, <2>1, <2>2
  <2>4. g = F(g, m + 1)
    BY <2>3 DEF g
  <2> QED BY <2>4
<1>4. T = Nat
  <2>1. T \in SUBSET Nat
    OBVIOUS
  <2> HIDE DEF T
  <2> QED BY <1>2, <1>3, <2>1, InductionStep
<1>5. n \in T
  <2> HIDE DEF T
  <2> QED BY <1>4
<1> DEFINE g == CHOOSE f : f = F(f, n)
<1>6. g = F(g, n)
  <2> HIDE DEF F
  <2> QED BY <1>5, Zenon
<1>7. g = PiecesUpTo(h, format, deepest, n)
  BY Zenon DEF PiecesUpTo
<1> HIDE DEF g
<1>8. \A k \in 0 .. n : g[k] = PiecesLevel(h, format, deepest, k, g[k - 1])
  BY <1>6
<1> QED BY <1>7, <1>8, Zenon

(* An item that has no reference at or below it is printed well. *)
LEMMA PiecesAreGood ==
  ASSUME Printable(heap), NEW format \in BOOLEAN, NEW item \in ItemsOf(heap), RefFree(item)
  PROVE  Pieces(heap, format, item) \in Seq(GoodPieces)
<1> DEFINE n == Cardinality(DOMAIN heap)
           below == BelowUpTo(heap, n)
           of == PiecesUpTo(heap, format, n, n)
<1>1. n \in Nat
  BY FS_CardinalityType DEF Printable
<1>2. \A k \in 0 .. n : below[k] = BelowLevel(heap, k, below[k - 1])
  <2> HIDE DEF n
  <2> QED BY <1>1, BelowUpToIs
<1>3. \A k \in 0 .. n : of[k] = PiecesLevel(heap, format, n, k, of[k - 1])
  <2> HIDE DEF n
  <2> QED BY <1>1, PiecesUpToIs
<1>4. Below(item) = below[n][item]
  BY Zenon DEF Below, BelowUpTo, BelowLevel
<1>5. Pieces(heap, format, item) = of[n][item]
  BY Zenon DEF Pieces, PiecesUpTo, PiecesLevel
<1> HIDE DEF below, of
<1>6. \A k \in 0 .. n : /\ below[k] = BelowLevel(heap, k, below[k - 1])
                        /\ of[k] = PiecesLevel(heap, format, n, k, of[k - 1])
  <2> HIDE DEF n
  <2> QED BY <1>2, <1>3
<1> DEFINE Clear(k, p) == \A x \in below[k][p] : ~heap[x].IsReference
           T == {k \in 0 .. n : \A p \in ItemsOf(heap) :
                   Clear(k, p) => of[k][p] \in Seq(GoodPieces)}
<1>7. 0 \in T
  <2>1. 0 \in 0 .. n
    BY <1>1
  <2>2. of[0] = PiecesLevel(heap, format, n, 0, of[0 - 1])
    BY <1>6, <2>1
  <2>3. \A p \in Int : of[0][p] = <<>>
    BY <2>2 DEF PiecesLevel
  <2>4. \A p \in ItemsOf(heap) : of[0][p] = <<>>
    BY <2>3 DEF Printable, ItemsOf
  <2>5. <<>> \in Seq(GoodPieces)
    OBVIOUS
  <2> QED BY <2>1, <2>4, <2>5
<1>8. ASSUME NEW j \in 0 .. n - 1, j \in T PROVE j + 1 \in T
  <2>1. PICK k \in 1 .. n : k = j + 1 /\ k - 1 = j /\ k \in 0 .. n /\ k # 0 /\ n - k \in Nat
    BY <1>1
  <2> SUFFICES ASSUME NEW p \in ItemsOf(heap), Clear(k, p)
               PROVE  of[k][p] \in Seq(GoodPieces)
    BY <2>1
  <2> HIDE DEF n
  <2>a. below[k] = BelowLevel(heap, k, below[j]) /\ of[k] = PiecesLevel(heap, format, n, k, of[j])
    BY <1>6, <2>1
  <2>b. p \in Int
    BY DEF Printable, ItemsOf
  <2>2. below[k][p] = {p} \union (IF heap[p].IsReference THEN {}
                                  ELSE UNION {below[j][c] : c \in ToSet(Children(heap, p))})
    BY <2>1, <2>a, <2>b DEF BelowLevel
  <2>3. ~heap[p].IsReference
    BY <2>2
  <2>4. \A c \in ToSet(Children(heap, p)) : Clear(j, c)
    BY <2>2, <2>3
  <2>5. ToSet(Children(heap, p)) \subseteq ItemsOf(heap)
    <3>1. Children(heap, p) \in Seq(ItemsOf(heap))
      BY <1>1, <2>3, ListType DEF Children, Printable, n
    <3> DEFINE s == Children(heap, p)
    <3>2. \A x \in DOMAIN s : s[x] \in ItemsOf(heap)
      <4> HIDE DEF s
      <4> QED BY <3>1 DEF s
    <3> QED BY <3>2 DEF ToSet
  <2>6. \A c \in ToSet(Children(heap, p)) : of[j][c] \in Seq(GoodPieces)
    BY <1>8, <2>4, <2>5
  <2>7. of[k][p] = print_value(heap, format, n - k, p, of[j])
    BY <2>1, <2>a, <2>b DEF PiecesLevel
  <2> QED BY <2>1, <2>3, <2>6, <2>7, PrintValueIsGood
<1>9. n \in T
  <2>1. \A k \in 0 .. n : k \in T
    <3> HIDE DEF T, n
    <3> QED BY <1>1, <1>7, <1>8, UpTo
  <2> HIDE DEF T
  <2> QED BY <1>1, <2>1
<1>10. Clear(n, item)
  BY <1>4 DEF RefFree
<1> HIDE DEF n
<1> QED BY <1>5, <1>9, <1>10

-----------------------------------------------------------------------------
(* Writing the pieces. *)

Buffers ==
  [out : Seq(Int), length : Nat, noalloc : BOOLEAN, fuel : Int, ok : BOOLEAN, over : BOOLEAN]

(* A buffer that was made large enough has the room that was asked for,    *)
(* and a piece that was written is at the end of what was written before.  *)
LEMMA PutIs ==
  ASSUME NEW p \in Buffers, NEW piece \in GoodPieces
  PROVE  /\ Put(p, piece) \in Buffers
         /\ ~p.over => ~Put(p, piece).over
         /\ Put(p, piece).ok =>
              p.ok /\ piece # Refused /\ Put(p, piece).out = p.out \o piece.text
         /\ p.noalloc => Put(p, piece).noalloc /\ Put(p, piece).length = p.length
<1> DEFINE e == ensure(p, piece.needed)
<1>0. p.out \in Seq(Int) /\ Len(p.out) \in Nat /\ p.length \in Nat /\ p.fuel \in Int
  BY DEF Buffers
<1>1. CASE piece = Refused
  BY <1>1 DEF Put, Fail, Buffers
<1>2. CASE piece # Refused
  <2>1. /\ piece.needed \in Nat /\ piece.text \in Seq(Int) /\ Len(piece.text) \in Nat
        /\ Len(piece.text) <= piece.needed
    BY <1>2 DEF GoodPieces
  <2>2. /\ e \in Buffers /\ e.out = p.out /\ e.over = p.over
        /\ p.noalloc => e.noalloc /\ e.length = p.length
        /\ e.ok => p.ok /\ piece.needed + Len(p.out) + 1 <= e.length
    <3> DEFINE need == piece.needed + Len(p.out) + 1
               newsize == IF need > INT_MAX \div 2 THEN INT_MAX ELSE 2 * need
    <3>1. need \in Nat
      BY <1>0, <2>1
    <3>2. need <= INT_MAX => newsize \in Nat /\ need <= newsize
      BY <3>1, IntMaxAssumption
    <3>3. \/ e = Fail(p)
          \/ p.ok /\ need <= p.length /\ e = p
          \/ /\ p.ok /\ ~p.noalloc /\ need <= INT_MAX
             /\ e = [p EXCEPT !.length = newsize, !.fuel = @ - 1]
      <4> HIDE DEF newsize
      <4> QED BY <3>1, IntMaxAssumption DEF ensure, newsize
    <3> HIDE DEF need, newsize, e
    <3>4. CASE e = Fail(p)
      BY <3>4 DEF Fail, Buffers
    <3>5. CASE p.ok /\ need <= p.length /\ e = p
      BY <3>5 DEF need
    <3>6. CASE /\ p.ok /\ ~p.noalloc /\ need <= INT_MAX
               /\ e = [p EXCEPT !.length = newsize, !.fuel = @ - 1]
      <4>1. e.length = newsize /\ e.out = p.out /\ e.over = p.over /\ e.noalloc = p.noalloc /\ e.ok = p.ok
        BY <3>6 DEF Buffers
      <4>2. newsize \in Nat /\ p.fuel - 1 \in Int
        BY <1>0, <3>2, <3>6
      <4>3. e \in Buffers
        BY <3>6, <4>2 DEF Buffers
      <4> QED BY <3>2, <3>6, <4>1, <4>3 DEF need
    <3> QED BY <3>3, <3>4, <3>5, <3>6
  <2>3. Put(p, piece) = IF ~e.ok THEN e
                        ELSE [e EXCEPT !.out = @ \o piece.text,
                                       !.over = @ \/ Len(e.out) + Len(piece.text) + 1 > e.length]
    BY <1>2 DEF Put
  <2> HIDE DEF e
  <2>4. CASE ~e.ok
    BY <2>2, <2>3, <2>4
  <2>5. CASE e.ok
    <3>1. ~(Len(e.out) + Len(piece.text) + 1 > e.length)
      BY <1>0, <2>1, <2>2, <2>5 DEF Buffers
    <3>2. p.out \o piece.text \in Seq(Int)
      BY <1>0, <2>1, ConcatProperties
    <3>3. Put(p, piece) = [e EXCEPT !.out = p.out \o piece.text, !.over = p.over]
      <4>1. (e.over \/ Len(e.out) + Len(piece.text) + 1 > e.length) = p.over
        BY <2>2, <3>1 DEF Buffers
      <4> QED BY <2>2, <2>3, <2>5, <4>1
    <3> QED BY <1>2, <2>2, <2>5, <3>2, <3>3 DEF Buffers
  <2> QED BY <2>4, <2>5
<1> QED BY <1>1, <1>2

(* So, if the piece was written: *)
LEMMA PutWrites ==
  ASSUME NEW p \in Buffers, NEW piece \in GoodPieces, Put(p, piece).ok
  PROVE  p.ok /\ piece # Refused /\ Put(p, piece).out = p.out \o piece.text
<1>1. Put(p, piece).ok => p.ok /\ piece # Refused /\ Put(p, piece).out = p.out \o piece.text
  BY PutIs
<1> QED BY <1>1

(* And a buffer that may not grow stays as it is. *)
LEMMA PutKeepsLength ==
  ASSUME NEW p \in Buffers, NEW piece \in GoodPieces, p.noalloc
  PROVE  Put(p, piece).noalloc /\ Put(p, piece).length = p.length
<1>1. p.noalloc => Put(p, piece).noalloc /\ Put(p, piece).length = p.length
  BY PutIs
<1> QED BY <1>1

(* What Write does, piece by piece.                                        *)
LEMMA WriteIs ==
  ASSUME NEW p \in Buffers, NEW pieces \in Seq(GoodPieces)
  PROVE  \E f \in [0 .. Len(pieces) -> Buffers] :
           /\ f[0] = p /\ Write(p, pieces) = f[Len(pieces)]
           /\ \A k \in 1 .. Len(pieces) : f[k] = Put(f[k - 1], pieces[k])
<1> DEFINE n == Len(pieces)
           G(f) == [k \in 0 .. n |-> IF k = 0 THEN p ELSE Put(f[k - 1], pieces[k])]
           step == [k \in 1 .. n |-> [x \in Buffers |-> Put(x, pieces[k])]]
<1>1. n \in Nat /\ \A k \in 1 .. n : pieces[k] \in GoodPieces
  OBVIOUS
<1>2. step \in [1 .. n -> [Buffers -> Buffers]]
  <2> HIDE DEF n
  <2> QED BY <1>1, PutIs
<1>3. PICK f \in [0 .. n -> Buffers] : f[0] = p /\ \A k \in 1 .. n : f[k] = step[k][f[k - 1]]
  <2> HIDE DEF n, step
  <2> QED BY <1>1, <1>2, Iterates, Z3T(60)
<1>4. \A k \in 1 .. n : f[k] = Put(f[k - 1], pieces[k])
  <2>1. \A k \in 1 .. n : k - 1 \in 0 .. n
    BY <1>1
  <2> HIDE DEF n
  <2> QED BY <1>3, <2>1
<1>5. f = G(f)
  <2>1. \A k \in 0 .. n : k = 0 \/ k \in 1 .. n
    BY <1>1
  <2> HIDE DEF n
  <2>2. f = [k \in 0 .. n |-> f[k]]
    OBVIOUS
  <2>3. \A k \in 0 .. n : f[k] = IF k = 0 THEN p ELSE Put(f[k - 1], pieces[k])
    BY <1>3, <1>4, <2>1
  <2> QED BY <2>2, <2>3
<1> DEFINE g == CHOOSE g : g = G(g)
<1>6. g = G(g)
  <2> HIDE DEF n, G
  <2> QED BY <1>5
<1>7. Write(p, pieces) = g[n]
  BY Zenon DEF Write
<1> HIDE DEF g
<1>8. g[0] = p /\ \A k \in 1 .. n : g[k] = Put(g[k - 1], pieces[k])
  <2>1. 0 \in 0 .. n /\ \A k \in 1 .. n : k \in 0 .. n /\ k # 0
    BY <1>1
  <2> HIDE DEF n
  <2> QED BY <1>6, <2>1
<1>9. g \in [0 .. n -> Buffers]
  <2> DEFINE T == {k \in 0 .. n : g[k] \in Buffers}
  <2>1. 0 \in T
    BY <1>1, <1>8
  <2>2. ASSUME NEW k \in 0 .. n - 1, k \in T PROVE k + 1 \in T
    <3>1. PICK j \in 1 .. n : j = k + 1 /\ j - 1 = k /\ j \in 0 .. n
      BY <1>1
    <3> HIDE DEF n
    <3>2. g[j] = Put(g[k], pieces[j])
      BY <1>8, <3>1
    <3> QED BY <1>1, <2>2, <3>1, <3>2, PutIs
  <2>3. \A k \in 0 .. n : k \in T
    <3> HIDE DEF n, T
    <3> QED BY <1>1, <2>1, <2>2, UpTo
  <2>4. \A k \in 0 .. n : g[k] \in Buffers
    BY <2>3
  <2> HIDE DEF n
  <2>5. g = [k \in 0 .. n |-> g[k]]
    BY <1>6
  <2> QED BY <2>4, <2>5
<1> QED BY <1>7, <1>8, <1>9

(* Nothing is written past the end of a buffer.                            *)
LEMMA WriteNeverOver ==
  ASSUME NEW p \in Buffers, ~p.over, NEW pieces \in Seq(GoodPieces)
  PROVE  ~Write(p, pieces).over /\ Write(p, pieces) \in Buffers
<1> DEFINE n == Len(pieces)
<1>1. n \in Nat /\ \A k \in 1 .. n : pieces[k] \in GoodPieces
  OBVIOUS
<1>2. PICK f \in [0 .. n -> Buffers] :
        f[0] = p /\ Write(p, pieces) = f[n] /\ \A k \in 1 .. n : f[k] = Put(f[k - 1], pieces[k])
  BY WriteIs
<1> DEFINE T == {k \in 0 .. n : ~f[k].over}
<1>3. 0 \in T
  BY <1>1, <1>2
<1>4. ASSUME NEW k \in 0 .. n - 1, k \in T PROVE k + 1 \in T
  <2>1. PICK j \in 1 .. n : j = k + 1 /\ j - 1 = k /\ j \in 0 .. n /\ k \in 0 .. n
    BY <1>1
  <2> HIDE DEF n
  <2>2. f[j] = Put(f[k], pieces[j]) /\ f[k] \in Buffers
    BY <1>2, <2>1
  <2> QED BY <1>1, <1>4, <2>1, <2>2, PutIs
<1>5. \A k \in 0 .. n : k \in T
  <2> HIDE DEF n, T
  <2> QED BY <1>1, <1>3, <1>4, UpTo
<1>6. n \in 0 .. n
  BY <1>1
<1> HIDE DEF n
<1> QED BY <1>2, <1>5, <1>6

(* A piece that was written into one buffer is written into another one    *)
(* with the same text, when there is room for all of it and two bytes.     *)
LEMMA PutFits ==
  ASSUME NEW p \in Buffers, NEW w \in Buffers, NEW piece \in GoodPieces,
         p.ok, p.out = w.out, Put(w, piece).ok, Len(Put(w, piece).out) + 2 <= p.length
  PROVE  Put(p, piece).ok /\ Put(p, piece).out = Put(w, piece).out
<1>1. piece # Refused /\ w.ok /\ Put(w, piece).out = w.out \o piece.text
  BY PutWrites
<1>2. /\ piece.needed \in Nat /\ piece.text \in Seq(Int) /\ Len(piece.text) \in Nat
      /\ piece.needed <= Len(piece.text) + 1
  BY <1>1 DEF GoodPieces
<1>3. p.out \in Seq(Int) /\ w.out \in Seq(Int) /\ Len(p.out) \in Nat /\ p.length \in Nat
  BY DEF Buffers
<1>4. Len(p.out) + Len(piece.text) + 2 <= p.length
  <2>1. Len(w.out \o piece.text) = Len(w.out) + Len(piece.text)
    BY <1>2, <1>3, ConcatProperties
  <2> QED BY <1>1, <2>1
<1>5. piece.needed <= INT_MAX
  <2>1. CASE piece.needed > INT_MAX
    <3>1. ensure(w, piece.needed) = Fail(w)
      BY <2>1 DEF ensure
    <3> QED BY <1>1, <3>1 DEF Put, Fail, Buffers
  <2> QED BY <1>2, <2>1, IntMaxAssumption
<1>6. ensure(p, piece.needed) = p
  <2> DEFINE a == Len(p.out)   b == Len(piece.text)   c == p.length   d == piece.needed
  <2>0. /\ a \in Nat /\ b \in Nat /\ c \in Nat /\ d \in Nat
        /\ a + b + 2 <= c /\ d <= b + 1 /\ d <= INT_MAX
    BY <1>2, <1>3, <1>4, <1>5
  <2> HIDE DEF a, b, c, d
  <2>a. ~(c > 0 /\ a >= c) /\ ~(d > INT_MAX) /\ d + a + 1 <= c
    BY <2>0, IntMaxAssumption
  <2>1. ~(p.length > 0 /\ Len(p.out) >= p.length) /\ ~(piece.needed > INT_MAX)
    BY <2>a DEF a, c, d
  <2>2. piece.needed + Len(p.out) + 1 <= p.length
    BY <2>a DEF a, c, d
  <2> QED BY <2>1, <2>2 DEF ensure
<1>7. Put(p, piece).ok /\ Put(p, piece).out = p.out \o piece.text
  BY <1>1, <1>6 DEF Put, Buffers
<1> QED BY <1>1, <1>7

(* What one buffer has room for, any other that is two bytes longer than   *)
(* the text has, too.                                                      *)
LEMMA WriteFits ==
  ASSUME NEW p \in Buffers, NEW w \in Buffers, NEW pieces \in Seq(GoodPieces),
         p.ok, p.noalloc, p.out = w.out,
         Write(w, pieces).ok, Len(Write(w, pieces).out) + 2 <= p.length
  PROVE  Write(p, pieces).ok /\ Write(p, pieces).out = Write(w, pieces).out
<1> DEFINE n == Len(pieces)
<1>1. n \in Nat /\ \A k \in 1 .. n : pieces[k] \in GoodPieces
  OBVIOUS
<1>2. PICK f \in [0 .. n -> Buffers] :
        f[0] = p /\ Write(p, pieces) = f[n] /\ \A k \in 1 .. n : f[k] = Put(f[k - 1], pieces[k])
  BY WriteIs
<1>3. PICK g \in [0 .. n -> Buffers] :
        g[0] = w /\ Write(w, pieces) = g[n] /\ \A k \in 1 .. n : g[k] = Put(g[k - 1], pieces[k])
  BY WriteIs
<1>4. \A k \in 0 .. n : g[k].out \in Seq(Int) /\ Len(g[k].out) \in Nat
  <2> HIDE DEF n
  <2>1. \A k \in 0 .. n : g[k].out \in Seq(Int)
    BY DEF Buffers
  <2> QED BY <2>1
<1> DEFINE T == {k \in 0 .. n : g[n - k].ok /\ Len(g[n - k].out) + 2 <= p.length}
<1>5. \A k \in 0 .. n : k \in T
  <2>1. 0 \in T
    <3>1. 0 \in 0 .. n /\ n - 0 = n
      BY <1>1
    <3> HIDE DEF n
    <3> QED BY <1>3, <3>1
  <2>2. ASSUME NEW k \in 0 .. n - 1, k \in T PROVE k + 1 \in T
    <3>1. PICK j \in 1 .. n : j = n - k /\ j - 1 = n - (k + 1) /\ j \in 0 .. n /\ j - 1 \in 0 .. n
                              /\ k + 1 \in 0 .. n
      <4>1. /\ n - k \in 1 .. n /\ n - k - 1 = n - (k + 1) /\ n - k \in 0 .. n
            /\ n - k - 1 \in 0 .. n /\ k + 1 \in 0 .. n
        BY <1>1
      <4> HIDE DEF n, T
      <4> QED BY <4>1
    <3> HIDE DEF n
    <3>2. g[j] = Put(g[j - 1], pieces[j]) /\ g[j - 1] \in Buffers /\ g[j].ok
      BY <1>3, <2>2, <3>1
    <3>3. /\ pieces[j] \in GoodPieces /\ pieces[j] # Refused /\ g[j - 1].ok
          /\ g[j].out = g[j - 1].out \o pieces[j].text
      <4>1. pieces[j] \in GoodPieces
        BY <1>1
      <4> DEFINE x == g[j - 1]   y == pieces[j]
      <4>2. Put(x, y).ok /\ x \in Buffers /\ y \in GoodPieces
        BY <3>2, <4>1
      <4> HIDE DEF x, y
      <4>3. x.ok /\ y # Refused /\ Put(x, y).out = x.out \o y.text
        BY <4>2, PutWrites
      <4> QED BY <3>2, <4>2, <4>3 DEF x, y
    <3>4. pieces[j].text \in Seq(Int) /\ Len(pieces[j].text) \in Nat
      BY <3>3 DEF GoodPieces
    <3>5. Len(g[j].out) = Len(g[j - 1].out) + Len(pieces[j].text)
      BY <1>4, <3>1, <3>3, <3>4, ConcatProperties
    <3>6. Len(g[j].out) + 2 <= p.length
      BY <2>2, <3>1
    <3>7. p.length \in Nat
      BY DEF Buffers
    <3>8. Len(g[j - 1].out) + 2 <= p.length
      <4> DEFINE a == Len(g[j - 1].out)   b == Len(pieces[j].text)   c == Len(g[j].out)   l == p.length
      <4>1. a \in Nat /\ b \in Nat /\ c = a + b /\ c + 2 <= l /\ l \in Nat
        BY <1>4, <3>1, <3>4, <3>5, <3>6, <3>7
      <4> HIDE DEF a, b, c, l
      <4>2. a + 2 <= l
        BY <4>1
      <4> QED BY <4>2 DEF a, l
    <3> QED BY <3>1, <3>3, <3>8
  <2> HIDE DEF n, T
  <2> QED BY <1>1, <2>1, <2>2, UpTo
<1>6. \A k \in 0 .. n : g[k].ok /\ Len(g[k].out) + 2 <= p.length
  <2> TAKE k \in 0 .. n
  <2>1. n - k \in 0 .. n /\ n - (n - k) = k
    BY <1>1
  <2>2. n - k \in T
    <3> HIDE DEF T, n
    <3> QED BY <1>5, <2>1
  <2> HIDE DEF n
  <2> QED BY <2>1, <2>2
<1> HIDE DEF T
<1> DEFINE U == {k \in 0 .. n : f[k].ok /\ f[k].out = g[k].out /\ f[k].noalloc /\ f[k].length = p.length}
<1>7. 0 \in U
  BY <1>1, <1>2, <1>3
<1>8. ASSUME NEW k \in 0 .. n - 1, k \in U PROVE k + 1 \in U
  <2>1. PICK j \in 1 .. n : j = k + 1 /\ j - 1 = k /\ j \in 0 .. n /\ k \in 0 .. n
    BY <1>1
  <2> HIDE DEF n
  <2>2. /\ f[j] = Put(f[k], pieces[j]) /\ f[k] \in Buffers /\ pieces[j] \in GoodPieces
        /\ g[j] = Put(g[k], pieces[j]) /\ g[k] \in Buffers
    BY <1>1, <1>2, <1>3, <2>1
  <2>3. f[k].ok /\ f[k].out = g[k].out /\ f[k].noalloc /\ f[k].length = p.length
    BY <1>8
  <2>4. Put(g[k], pieces[j]).ok /\ Len(Put(g[k], pieces[j]).out) + 2 <= f[k].length
    BY <1>6, <2>1, <2>2, <2>3
  <2>5. f[j].ok /\ f[j].out = g[j].out
    BY <2>2, <2>3, <2>4, PutFits
  <2>6. f[j].noalloc /\ f[j].length = p.length
    BY <2>2, <2>3, PutKeepsLength, Zenon
  <2> QED BY <2>1, <2>5, <2>6
<1>9. n \in U
  <2>1. \A k \in 0 .. n : k \in U
    <3> HIDE DEF n, U
    <3> QED BY <1>1, <1>7, <1>8, UpTo
  <2> HIDE DEF U
  <2> QED BY <1>1, <2>1
<1> HIDE DEF n
<1> QED BY <1>2, <1>3, <1>9

-----------------------------------------------------------------------------
(* The memory of a program can be printed from when its pointers are of    *)
(* their kinds.                                                            *)
LEMMA MemoryIsPrintable ==
  ASSUME TypeOK
  PROVE  Printable(heap) /\ roots \subseteq ItemsOf(heap)
<1>1. Items = ItemsOf(heap)
  BY DEF Items, ItemsOf
<1>2. IsFiniteSet(DOMAIN heap) /\ DOMAIN heap \subseteq Int /\ NULL \notin DOMAIN heap
  <2>1. DOMAIN heap \subseteq Blocks
    BY DEF TypeOK
  <2>2. Blocks \subseteq Nat \ {0} /\ IsFiniteSet(Blocks)
    BY BlocksAssumption DEF NULL
  <2>3. IsFiniteSet(DOMAIN heap)
    BY <2>1, <2>2, FS_Subset
  <2>4. DOMAIN heap \subseteq Int /\ 0 \notin DOMAIN heap
    <3>1. \A x \in Nat \ {0} : x \in Int /\ x # 0
      OBVIOUS
    <3> HIDE DEF TypeOK
    <3> DEFINE N == Nat \ {0}
    <3>2. Blocks \subseteq N /\ \A x \in N : x \in Int /\ x # 0
      BY <2>2, <3>1
    <3> HIDE DEF N
    <3> QED BY <2>1, <3>2
  <2> QED BY <2>3, <2>4 DEF NULL
<1>3. \A b \in DOMAIN heap \ Items : heap[b] \in [chars : Seq(Byte)]
  <2>1. \A n \in ItemRecord : {"child", "next", "prev"} \subseteq DOMAIN n
    BY DEF ItemRecord
  <2> QED BY <2>1 DEF TypeOK, Items, IsItem
<1>4. \A b \in Items : heap[b] \in ItemRecord
  <2>1. \A n \in [chars : Seq(Byte)] : "child" \notin DOMAIN n
    OBVIOUS
  <2> QED BY <2>1 DEF TypeOK, Items, IsItem
<1>5. \A b \in DOMAIN heap \ Items : Chars(heap, b) \in Seq(Byte)
  <2>1. StaticKey \notin DOMAIN heap
    BY BlocksAssumption DEF TypeOK, StaticKey
  <2> QED BY <1>3, <2>1 DEF Chars
<1>6. Chars(heap, StaticKey) \in Seq(Byte)
  BY StaticTextAssumption DEF Chars
<1>7. ASSUME NEW b \in Items
      PROVE  /\ heap[b].next \in Int /\ heap[b].valuedouble \in Int
             /\ heap[b].string = NULL \/ Chars(heap, heap[b].string) \in Seq(Byte)
             /\ ~heap[b].IsReference =>
                  /\ heap[b].child \in Int
                  /\ heap[b].valuestring = NULL \/ Chars(heap, heap[b].valuestring) \in Seq(Byte)
  <2>1. heap[b].next \in Int /\ heap[b].valuedouble \in Int /\ heap[b].child \in Int
    BY <1>4 DEF ItemRecord
  <2>2. heap[b].string = NULL \/ heap[b].string = StaticKey \/ heap[b].string \in DOMAIN heap \ Items
    BY DEF TypeOK
  <2>3. ~heap[b].IsReference => heap[b].valuestring = NULL \/ heap[b].valuestring \in DOMAIN heap \ Items
    BY DEF TypeOK
  <2> QED BY <1>5, <1>6, <2>1, <2>2, <2>3
<1> QED BY <1>1, <1>2, <1>7 DEF Printable, TypeOK

(* A new buffer holds nothing.                                             *)
LEMMA PrintBufferIs ==
  ASSUME NEW length \in Nat, NEW noalloc \in BOOLEAN, NEW fuel \in Int
  PROVE  /\ PrintBuffer(length, noalloc, fuel) \in Buffers
         /\ PrintBuffer(length, noalloc, fuel).ok /\ ~PrintBuffer(length, noalloc, fuel).over
         /\ PrintBuffer(length, noalloc, fuel).noalloc = noalloc
         /\ PrintBuffer(length, noalloc, fuel).out = <<>>
         /\ PrintBuffer(length, noalloc, fuel).length = length
BY DEF PrintBuffer, Buffers

(* A print never writes past the end of its buffer, and                    *)
(* cJSON_PrintPreallocated succeeds when the text, its 0 and one byte more *)
(* have room: for items of every shape in every memory whose pointers are  *)
(* of their kinds, and for every INT_MAX and every size of the buffer.     *)
THEOREM PrintAlwaysFits == TypeOK => PrintFits
<1> SUFFICES ASSUME TypeOK, NEW i \in {r \in roots : RefFree(r)}, NEW format \in BOOLEAN
             PROVE  LET pieces == Pieces(heap, format, i)
                        whole == cJSON_PrintPreallocated(pieces, INT_MAX)
                    IN /\ ~print(pieces, 40).over
                       /\ \A length \in 0 .. Len(whole.out) + 2 :
                            LET p == cJSON_PrintPreallocated(pieces, length)
                            IN /\ ~p.over
                               /\ whole.ok /\ length = Len(whole.out) + 2 => p.ok /\ p.out = whole.out
  BY DEF PrintFits
<1> DEFINE pieces == Pieces(heap, format, i)
<1>1. pieces \in Seq(GoodPieces)
  BY MemoryIsPrintable, PiecesAreGood
<1> HIDE DEF pieces
<1>4. ~print(pieces, 40).over
  <2> DEFINE p == Write(PrintBuffer(DefaultBufferSize, FALSE, 40 - 1), pieces)
  <2>1. ~p.over /\ p \in Buffers
    <3>1. DefaultBufferSize \in Nat /\ FALSE \in BOOLEAN /\ 40 - 1 \in Int
      BY DefaultBufferSizeAssumption
    <3> QED BY <1>1, <3>1, PrintBufferIs, WriteNeverOver
  <2>2. print(pieces, 40) \in {p, Fail(p)}
    BY DEF print
  <2> HIDE DEF p
  <2>3. Fail(p).over = p.over
    BY <2>1 DEF Fail, Buffers
  <2> QED BY <2>1, <2>2, <2>3
<1> DEFINE whole == cJSON_PrintPreallocated(pieces, INT_MAX)
<1>5. whole \in Buffers
  <2>1. INT_MAX \in Nat /\ TRUE \in BOOLEAN /\ 0 \in Int
    BY IntMaxAssumption
  <2> QED BY <1>1, <2>1, PrintBufferIs, WriteNeverOver DEF cJSON_PrintPreallocated
<1>6. whole.out \in Seq(Int) /\ Len(whole.out) \in Nat
  <2> HIDE DEF whole
  <2>1. whole.out \in Seq(Int)
    BY <1>5 DEF Buffers
  <2> QED BY <2>1
<1>7. ASSUME NEW length \in 0 .. Len(whole.out) + 2
      PROVE  LET p == cJSON_PrintPreallocated(pieces, length)
             IN /\ ~p.over
                /\ whole.ok /\ length = Len(whole.out) + 2 => p.ok /\ p.out = whole.out
  <2> DEFINE b == PrintBuffer(length, TRUE, 0)
             w == PrintBuffer(INT_MAX, TRUE, 0)
  <2>1. length \in Nat
    <3> HIDE DEF whole
    <3> QED BY <1>6
  <2>2. /\ b \in Buffers /\ b.ok /\ b.noalloc /\ b.out = <<>> /\ b.length = length
        /\ w \in Buffers /\ w.out = <<>>
    <3>1. INT_MAX \in Nat /\ TRUE \in BOOLEAN /\ 0 \in Int
      BY IntMaxAssumption
    <3> QED BY <2>1, <3>1, PrintBufferIs
  <2>3. ~Write(b, pieces).over
    <3>1. ~b.over /\ b \in Buffers
      <4>1. TRUE \in BOOLEAN /\ 0 \in Int
        OBVIOUS
      <4> QED BY <2>1, <4>1, PrintBufferIs
    <3> HIDE DEF b
    <3> QED BY <1>1, <3>1, WriteNeverOver
  <2> HIDE DEF b, w
  <2>4. whole = Write(w, pieces) /\ cJSON_PrintPreallocated(pieces, length) = Write(b, pieces)
    BY DEF cJSON_PrintPreallocated, b, w
  <2> HIDE DEF whole
  <2>5. ASSUME whole.ok, length = Len(whole.out) + 2
        PROVE  Write(b, pieces).ok /\ Write(b, pieces).out = whole.out
    <3>1. Write(w, pieces).ok /\ Len(Write(w, pieces).out) + 2 <= b.length
      BY <1>6, <2>1, <2>2, <2>4, <2>5
    <3> QED BY <1>1, <2>2, <2>4, <3>1, WriteFits
  <2> QED BY <2>3, <2>4, <2>5
<1> QED BY <1>4, <1>7 DEF pieces

-----------------------------------------------------------------------------
(* What the texts that a program passed rely on. *)

(* Every string of the text fits into the buffer that was measured for it. *)
THEOREM StringsOfTextFit == TypeOK => StringsFit
<1> SUFFICES ASSUME TypeOK, NEW o \in 0 .. Len(parsed.text) - 1
             PROVE  StringFits(parsed.text, o)
  BY DEF StringsFit
<1>1. parsed.text \in Seq(Byte)
  BY DEF TypeOK
<1> QED BY <1>1, StringsFitAlways

(* Every \u escape of the text becomes the character it stands for. *)
THEOREM EscapesOfTextMean == TypeOK => EscapesKeepTheirMeaning
<1> SUFFICES ASSUME TypeOK, NEW o \in 0 .. Len(parsed.text) - 2
             PROVE  EscapeKeepsItsMeaning(parsed.text, o, Len(parsed.text) - 1)
  BY DEF EscapesKeepTheirMeaning
<1>1. Len(parsed.text) \in Nat
  BY DEF TypeOK
<1>2. o \in Nat /\ Len(parsed.text) - 1 \in Nat
  BY <1>1
<1> QED BY <1>2, EscapesMean
=============================================================================
