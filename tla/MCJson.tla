------------------------------- MODULE MCJson -------------------------------
EXTENDS JsonProperties

Q == <<Quote>>
A == <<Quote, 65, Quote>>  \* "A"
B == <<Quote, 66, Quote>>  \* "B"
BraceOpen == <<OpenObject>>    BraceClose == <<CloseObject>>
BracketOpen == <<OpenArray>>   BracketClose == <<CloseArray>>
Com == <<Comma>>   Col == <<Colon>>   One == <<49>>   Neg == <<Minus>>   Sp == <<32>>

Tokens == {A, One, BraceOpen, BraceClose, BracketOpen, BracketClose, Com, Col, Sp, NullWord}
Short == UNION {[1 .. n -> Tokens] : n \in 0 .. 3}

(* The trees that are worked on: a list of three, members whose names      *)
(* differ in case or order, nests as deep as the limits and deeper.        *)
WorkedOn ==
  { <<BracketOpen, One, Com, A, Com, NullWord, BracketClose>>,
    <<BraceOpen, A, Col, One, Com, B, Col, A, BraceClose>>,
    <<BracketOpen, BraceOpen, B, Col, A, Com, A, Col, One, BraceClose, Com,
      BraceOpen, A, Col, One, Com, B, Col, A, BraceClose, BracketClose>>,
    <<BracketOpen, BraceOpen, A, Col, One, BraceClose, Com,
      BraceOpen, A, Col, One, Com, B, Col, A, BraceClose, BracketClose>>,
    <<BracketOpen, BracketOpen, BracketClose, BracketClose>>,
    <<BraceOpen, A, Col, BracketOpen, One, BracketClose, BraceClose>> }

Odd ==
  { <<BraceOpen, A, Col, A, Com, B, Col, A, BraceClose>>,
    <<BraceOpen, B, Col, A, Com, A, Col, A, Com, A, Col, One, BraceClose>>,
    <<BracketOpen, BracketOpen, BracketOpen, BracketClose, BracketClose, BracketClose>>,
    <<BracketOpen, Neg, One, One, Sp, Com, Sp, TrueWord, Sp, BracketClose>>,
    <<Neg, BracketClose>>, <<One, Neg>>, <<Sp, FalseWord, Sp, Sp>>,
    <<ByteOrderMark, Sp, One>>, <<ByteOrderMark>> }

U(w, x, y, z) == <<Backslash, LowerU, w, x, y, z>>
Bs == <<Backslash>>

(* Strings: escapes, the edges of UTF-8's lengths, surrogates. *)
Literals ==
  { <<U(48, 48, 55, 102)>>, <<U(48, 48, 56, 48)>>, <<U(48, 55, 70, 70)>>, <<U(48, 56, 48, 48)>>,
    <<U(102, 102, 102, 102)>>, <<U(100, 56, 48, 48), U(100, 99, 48, 48)>>,
    <<U(68, 66, 70, 70), U(68, 70, 70, 70)>>, <<U(100, 99, 48, 48)>>, <<U(100, 56, 48, 48)>>,
    <<U(100, 56, 48, 48), U(48, 48, 52, 49)>>, <<U(48, 48, 120, 49), <<97>>>>,
    <<U(48, 48, 51, 49), Bs, <<110>>, Bs, <<110>>>>,
    <<Bs, Q, Sp, Bs, <<110>>, Sp, Bs, <<Slash>>>>, <<Bs, Bs>>, <<Bs, <<120>>>>, <<Bs, <<LowerU>>, <<48>>>>,
    <<<<9, 31, 127, 195, 169>>>> }
Quoted == {<<Q>> \o l \o <<Q>> : l \in Literals}
          \union {<<BracketOpen, Q>> \o l \o <<Q, Com, Sp, One, BracketClose>> : l \in Literals}

(* One token left out, or another one in its place. *)
Damaged(d) ==
  {RemoveAt(d, k) : k \in DOMAIN d}
  \union {[d EXCEPT ![k] = x] : k \in DOMAIN d, x \in {Com, Col, One, A, BracketClose, Sp}}

Whole == WorkedOn \union Odd \union Quoted
Sequences == Short \union Whole \union UNION {Damaged(d) : d \in Whole}

(* With the 0 that cJSON_Parse counts in, and as a bare buffer. *)
MCDocuments == {FlattenSeq(s) \o <<0>> : s \in WorkedOn}
MCTexts == {FlattenSeq(s) : s \in Sequences}
           \union {FlattenSeq(s) \o <<0>> : s \in Sequences}
           \union {FlattenSeq(s) \o <<32, 0>> : s \in Whole}

MCStaticText == <<97>>
MCKeys == {<<97>>, <<>>}  \* the first is "A" of the documents in another case
MCNicknameKey == <<65>>  \* A
MCLocalIpKey == <<66>>   \* B
MCValues == {<<65>>, <<92, 34, 10>>}
MCKinds == {"NULL", "String", "Array", "Object"}
MCBlocks == 1 .. 20
MCFuels == {0, 1, 2, 4, 20}
=============================================================================
