--------------------------- MODULE JsonProperties ---------------------------
(***************************************************************************)
(* What cJSON.c is for: the texts it accepts are the JSON texts, printing  *)
(* a tree and parsing it again gives the tree back, and a configuration    *)
(* is taken or refused as a whole.                                         *)
(***************************************************************************)
EXTENDS ReadConfig, JsonInvariants

-----------------------------------------------------------------------------
(* The texts that are JSON, with cJSON's latitude: any byte up to 32 is a  *)
(* blank, numbers may have leading zeros, a string may hold any byte, and  *)
(* \u takes any four bytes.                                                *)

TrimLeft(s) == SubSeq(s, Min({Len(s) + 1} \union {k \in DOMAIN s : ~Blank(s[k])}), Len(s))
TrimBoth(s) == Reverse(TrimLeft(Reverse(TrimLeft(s))))
From(s, k) == SubSeq(s, k, Len(s))

IsNumber(s) ==
  LET d == IF s # <<>> /\ s[1] = Minus THEN Tail(s) ELSE s
  IN d # <<>> /\ \A k \in DOMAIN d : Digit(d[k])

HighUnit(s) == Len(s) >= 6 /\ s[1] = Backslash /\ s[2] = LowerU /\ parse_hex4(s, 2) \in Surrogate1
LowUnit(s) == Len(s) >= 6 /\ s[1] = Backslash /\ s[2] = LowerU /\ parse_hex4(s, 2) \in Surrogate2

(* What may stand between two quotes. *)
RECURSIVE IsLiteral(_)
IsLiteral(s) ==
  \/ s = <<>>
  \/ s[1] \notin {Quote, Backslash} /\ IsLiteral(Tail(s))
  \/ s[1] = Backslash /\ Len(s) >= 2 /\ s[2] \in DOMAIN Escapes /\ IsLiteral(From(s, 3))
  \/ /\ Len(s) >= 6 /\ s[1] = Backslash /\ s[2] = LowerU
     /\ \A k \in 3 .. 6 : s[k] \notin {Quote, Backslash}
     /\ IF HighUnit(s) THEN LowUnit(From(s, 7)) /\ IsLiteral(From(s, 13))
        ELSE ~LowUnit(s) /\ IsLiteral(From(s, 7))

IsString(s) ==
  Len(s) >= 2 /\ s[1] = Quote /\ s[Len(s)] = Quote /\ IsLiteral(SubSeq(s, 2, Len(s) - 1))

(* A value whose arrays and objects nest at most depth deep. *)
RECURSIVE IsValue(_, _), AreElements(_, _), AreMembers(_, _)
IsValue(s, depth) ==
  LET Encloses(open, close) == Len(s) >= 2 /\ s[1] = open /\ s[Len(s)] = close /\ depth > 0
      inner == TrimBoth(SubSeq(s, 2, Len(s) - 1))
  IN \/ s \in {NullWord, TrueWord, FalseWord} \/ IsNumber(s) \/ IsString(s)
     \/ Encloses(OpenArray, CloseArray) /\ (inner = <<>> \/ AreElements(inner, depth - 1))
     \/ Encloses(OpenObject, CloseObject) /\ (inner = <<>> \/ AreMembers(inner, depth - 1))

AreElements(s, depth) ==
  \/ IsValue(TrimBoth(s), depth)
  \/ \E k \in DOMAIN s : s[k] = Comma /\ IsValue(TrimBoth(SubSeq(s, 1, k - 1)), depth)
                         /\ AreElements(From(s, k + 1), depth)

IsMember(s, depth) ==
  \E k \in DOMAIN s : s[k] = Colon /\ IsString(TrimBoth(SubSeq(s, 1, k - 1)))
                      /\ IsValue(TrimBoth(From(s, k + 1)), depth)

AreMembers(s, depth) ==
  \/ IsMember(s, depth)
  \/ \E k \in DOMAIN s : s[k] = Comma /\ IsMember(SubSeq(s, 1, k - 1), depth)
                         /\ AreMembers(From(s, k + 1), depth)

(* Where a value that starts the text may end. *)
Ends(t) ==
  LET start == SkipBOM(t)
  IN {e \in start .. Len(t) :
        LET s == TrimLeft(Cut(t, start, e))
        IN s # <<>> /\ ~Blank(s[Len(s)]) /\ IsValue(s, NestingLimit)}

(* Only blanks follow offset e, up to the 0 that ends the text. *)
Terminated(t, e) ==
  e < Len(t) /\ t[Len(t)] = 0 /\ \A o \in e .. Len(t) - 1 : Blank(At(t, o))

(* The parser takes a text exactly when it starts with a JSON value, whose *)
(* arrays and objects nest no deeper than the limit, and when the caller   *)
(* asks for it, nothing but blanks and a 0 follows; it takes all of the    *)
(* value and reports where it ended.  Only a failed allocation makes it    *)
(* refuse a text it should take.                                           *)
ParserExact ==
  LET t == parsed.text
      ends == Ends(t)
      accepts == ends # {} /\ (parsed.terminated => Terminated(t, Max(ends)))
  IN parsed # NotParsed =>
       /\ call.ok => accepts
       /\ accepts /\ ~parsed.oom => call.ok
       /\ call.ok /\ ~parsed.terminated => parsed.end = Max(ends)

-----------------------------------------------------------------------------
(* Trees without pointers. *)

RECURSIVE TreeOf(_, _), Depth(_)
TreeOf(h, i) ==
  LET n == h[i]
      s == Children(h, i)
  IN [type |-> n.type,
      value |-> IF n.valuestring # NULL THEN Chars(h, n.valuestring) ELSE <<n.valuedouble>>,
      names |-> IF n.type = "Object" THEN [k \in DOMAIN s |-> Chars(h, h[s[k]].string)] ELSE <<>>,
      kids |-> [k \in DOMAIN s |-> TreeOf(h, s[k])]]

Depth(tree) == IF tree.type \notin {"Array", "Object"} THEN 0
               ELSE 1 + Max({0} \union {Depth(tree.kids[k]) : k \in DOMAIN tree.kids})

Plenty == Machine(<<>>, 1 .. 40, 40)  \* a memory of its own to parse into
ParsesTo(text, tree) ==
  LET m == cJSON_ParseWithLengthOpts(text \o <<0>>, Plenty, TRUE)
  IN m.ok /\ TreeOf(m.heap, m.ret) = tree

HasRaw(i) == \E x \in Below(i) : heap[x].type = "Raw"

(* The trees that the program may print: whole, and not deeper than the    *)
(* parser takes.                                                           *)
Printable == {i \in roots : RefFree(i) /\ ~HasRaw(i) /\ Depth(TreeOf(heap, i)) <= NestingLimit}

(* What cJSON_Print and cJSON_PrintUnformatted write, cJSON_Parse reads    *)
(* back to the same tree.  A text that INT_MAX bytes do not hold is not    *)
(* written at all.                                                         *)
PrintRestores ==
  \A i \in Printable, format \in BOOLEAN :
    LET p == print(Pieces(heap, format, i), 40) IN p.ok => ParsesTo(p.out, TreeOf(heap, i))

-----------------------------------------------------------------------------
(* Equality. *)

Named(tree, x, case_sensitive) ==
  {k \in DOMAIN tree.names : SameName(tree.names[k], x, case_sensitive)}

(* No two members of an object have the same name. *)
RECURSIVE UniqueNames(_, _)
UniqueNames(tree, case_sensitive) ==
  /\ \A k \in DOMAIN tree.names : Named(tree, tree.names[k], case_sensitive) = {k}
  /\ \A k \in DOMAIN tree.kids : UniqueNames(tree.kids[k], case_sensitive)

(* The same value; the order of an object's members does not matter. *)
RECURSIVE SameValue(_, _, _)
SameValue(x, y, case_sensitive) ==
  /\ x.type = y.type /\ x.value = y.value /\ Len(x.kids) = Len(y.kids)
  /\ IF x.type = "Object"
     THEN \A k \in DOMAIN x.kids : \E l \in DOMAIN y.kids :
            SameName(x.names[k], y.names[l], case_sensitive)
            /\ SameValue(x.kids[k], y.kids[l], case_sensitive)
     ELSE \A k \in DOMAIN x.kids : SameValue(x.kids[k], y.kids[k], case_sensitive)

(* cJSON_Compare says of two trees whose objects have no name twice        *)
(* exactly whether they are the same value.                                *)
CompareIsEquality ==
  \A i, j \in {x \in Items \ lost : RefFree(x)}, case_sensitive \in BOOLEAN :
    LET x == TreeOf(heap, i)
        y == TreeOf(heap, j)
    IN UniqueNames(x, case_sensitive) /\ UniqueNames(y, case_sensitive) =>
         (cJSON_Compare(i, j, case_sensitive) <=> SameValue(x, y, case_sensitive))

-----------------------------------------------------------------------------
(* Minify. *)

Comments == {<<Slash, Slash, Quote, 10>>, <<Slash, 42, Quote, 42, Slash>>}

(* cJSON_Minify drops blanks and comments from a text and leaves its value *)
(* alone, provided no string holds an escaped backslash: it takes the end  *)
(* of "\\" for an escaped quote.                                           *)
MinifyKeepsTree ==
  LET s == CString(parsed.text)
      EscapedBackslash == \E k \in 1 .. Len(s) - 1 : s[k] = Backslash /\ s[k + 1] = Backslash
  IN parsed.terminated /\ call.ok /\ ~EscapedBackslash =>
       /\ ParsesTo(Minify(s), TreeOf(heap, call.ret))
       /\ \A c \in Comments : Minify(c \o s \o c) = Minify(s)

-----------------------------------------------------------------------------
(* The configuration. *)

(* What may be said of an outcome r when the file holds the tree. *)
SoundOutcome(r, tree) ==
  LET Member(key) == Min(Named(tree, key, FALSE))  \* the first, its name in any case
      complete == \A key \in {NicknameKey, LocalIpKey} : Named(tree, key, FALSE) # {}
      strings == \A key \in {NicknameKey, LocalIpKey} : tree.kids[Member(key)].type = "String"
      left == {r.m.heap[b] : b \in DOMAIN r.m.heap}
  IN /\ ~r.m.bad
     /\ CASE r.how = "ok" ->
               complete /\ strings /\ left = {[chars |-> tree.kids[Member(NicknameKey)].value]}
          [] r.how = "crash" -> complete /\ ~strings
          [] r.how = "error" -> left = {} /\ (~complete \/ r.m.oom)

(* The configuration is taken, given the memory, exactly from an object    *)
(* with both members, and then nothing but the nickname stays in memory;   *)
(* when it is refused, nothing does.  Only where a member is not a string  *)
(* does reading it crash.                                                  *)
ConfigTakenOrRefused ==
  parsed # NotParsed /\ ~parsed.terminated /\ call.ok /\ CString(parsed.text) = Front(parsed.text) =>
    \A fuel \in Fuels :
      SoundOutcome(read_out_config(parsed.text, Machine(<<>>, Blocks, fuel)), TreeOf(heap, call.ret))
=============================================================================
