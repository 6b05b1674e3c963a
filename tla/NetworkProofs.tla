--------------------------- MODULE NetworkProofs ---------------------------
(***************************************************************************)
(* Proofs about Network, for any peers, names, texts and sizes.  Two       *)
(* lemmas about strtok carry them: it takes off the field that was put in  *)
(* front of a packet, and the last field is its first token.  The          *)
(* invariant says what every packet in the air is made of; it lasts        *)
(* because announced, aired, sent and said only grow.                      *)
(***************************************************************************)
EXTENDS Network, FiniteSetsExt, WellFoundedInduction, SequenceTheorems, TLAPS

(* The least element of a set of integers is what Min finds.               *)
LEMMA MinIs ==
  ASSUME NEW S \in SUBSET Int, NEW m \in S, \A x \in S : m <= x
  PROVE  Min(S) = m
<1>1. Min(S) \in S /\ \A x \in S : Min(S) <= x
  BY DEF Min
<1>2. \A x \in Int, y \in Int : x <= y /\ y <= x => x = y
  OBVIOUS
<1>3. m \in Int /\ Min(S) \in Int /\ m <= Min(S) /\ Min(S) <= m
  BY <1>1
<1> QED BY <1>2, <1>3

(* A set of naturals that is not empty has a least element. *)
LEMMA MinExists ==
  ASSUME NEW S \in SUBSET Nat, S # {}
  PROVE  Min(S) \in S /\ \A x \in S : Min(S) <= x
<1> DEFINE R == {ss \in Nat \X Nat : ss[1] < ss[2]}
<1>1. IsWellFoundedOn(R, Nat)
  BY NatLessThanWellFounded DEF OpToRel
<1> HIDE DEF R
<1>2. PICK m \in S : \A x \in S : <<x, m>> \notin R
  BY <1>1, WFMin
<1>3. \A x \in S : m <= x
  <2> SUFFICES ASSUME NEW x \in S, x < m PROVE FALSE
    OBVIOUS
  <2>1. <<x, m>> \in R
    BY DEF R
  <2> QED BY <1>2, <2>1
<1>4. Min(S) = m
  BY <1>3, MinIs
<1> QED BY <1>3, <1>4

(* strtok of a field, a tab and more: the field, and what is more. *)
LEMMA StrtokField ==
  ASSUME NEW a \in Seq(Characters), Plain(a), NEW s \in Seq(Characters)
  PROVE  /\ a \o <<Tab>> \o s \in Seq(Characters)
         /\ strtok[a \o <<Tab>> \o s] = [token |-> a, rest |-> s]
<1> DEFINE b == a \o <<Tab>>
           d == b \o s
           n == Len(a)
           L == Len(d)
           chars == {k \in DOMAIN d : d[k] # Tab}
           ends(i) == {L + 1} \union {k \in i .. L : d[k] = Tab}
<1>1. <<Tab>> \in Seq(Characters) /\ Len(<<Tab>>) = 1 /\ <<Tab>>[1] = Tab
  BY CharactersAssumption
<1>2. n \in Nat \ {0} /\ \A k \in 1 .. n : a[k] # Tab /\ a[k] \in Characters
  BY EmptySeq, LenProperties, ElementOfSeq DEF Plain
<1>3. /\ b \in Seq(Characters) /\ Len(b) = n + 1
      /\ \A k \in 1 .. n + 1 : b[k] = IF k <= n THEN a[k] ELSE Tab
  BY <1>1, <1>2, ConcatProperties
<1>4. Len(s) \in Nat
  BY LenProperties
<1> HIDE DEF b
<1>5. /\ d \in Seq(Characters) /\ L = n + 1 + Len(s) /\ DOMAIN d = 1 .. L
      /\ \A k \in 1 .. L : d[k] = IF k <= n + 1 THEN b[k] ELSE s[k - (n + 1)]
  <2>1. /\ d \in Seq(Characters) /\ L = Len(b) + Len(s)
        /\ \A k \in 1 .. Len(b) + Len(s) : d[k] = IF k <= Len(b) THEN b[k] ELSE s[k - Len(b)]
    BY <1>3, ConcatProperties
  <2>2. DOMAIN d = 1 .. L
    BY <2>1, LenProperties
  <2> QED BY <2>1, <2>2, <1>3
<1> HIDE DEF d
<1>6. \A k \in 1 .. n : d[k] = a[k]
  BY <1>2, <1>3, <1>4, <1>5
<1>7. d[n + 1] = Tab
  BY <1>2, <1>3, <1>4, <1>5
<1>8. Min(chars) = 1
  <2>1. 1 \in chars /\ chars \subseteq 1 .. L
    BY <1>2, <1>4, <1>5, <1>6
  <2>2. \A k \in 1 .. L : k \in Int /\ 1 <= k
    OBVIOUS
  <2>3. chars \in SUBSET Int /\ \A k \in chars : 1 <= k
    BY <2>1, <2>2
  <2> HIDE DEF chars
  <2> QED BY <2>1, <2>3, MinIs
<1>9. Min(ends(1)) = n + 1
  <2>1. n + 1 \in ends(1)
    BY <1>2, <1>4, <1>5, <1>7
  <2>2. \A k \in ends(1) : k \in Int /\ n + 1 <= k
    BY <1>2, <1>4, <1>5, <1>6, SMTT(20)
  <2> HIDE DEF ends
  <2> QED BY <2>1, <2>2, MinIs
<1>10. SubSeq(d, 1, n) = a
  <2>1. /\ SubSeq(d, 1, n) \in Seq(Characters) /\ Len(SubSeq(d, 1, n)) = n
        /\ \A k \in 1 .. n : SubSeq(d, 1, n)[k] = d[k]
    <3>1. \A k \in 1 .. n : d[k] \in Characters
      BY <1>2, <1>6
    <3>2. /\ SubSeq(d, 1, n) \in Seq(Characters)
          /\ Len(SubSeq(d, 1, n)) = IF 1 <= n THEN n - 1 + 1 ELSE 0
          /\ \A k \in 1 .. n - 1 + 1 : SubSeq(d, 1, n)[k] = d[1 + k - 1]
      BY <3>1, <1>2, SubSeqProperties
    <3> QED BY <3>2, <1>2
  <2> QED BY <2>1, <1>2, <1>6, SeqEqual
<1>11. SubSeq(d, n + 2, L) = s
  <2>1. /\ SubSeq(d, n + 2, L) \in Seq(Characters) /\ Len(SubSeq(d, n + 2, L)) = Len(s)
        /\ \A k \in 1 .. Len(s) : SubSeq(d, n + 2, L)[k] = d[n + 1 + k]
    <3>1. \A k \in n + 2 .. L : d[k] \in Characters
      BY <1>2, <1>4, <1>5, ElementOfSeq
    <3>2. /\ SubSeq(d, n + 2, L) \in Seq(Characters)
          /\ Len(SubSeq(d, n + 2, L)) = IF n + 2 <= L THEN L - (n + 2) + 1 ELSE 0
          /\ \A k \in 1 .. L - (n + 2) + 1 : SubSeq(d, n + 2, L)[k] = d[n + 2 + k - 1]
      BY <3>1, <1>2, <1>4, <1>5, SubSeqProperties
    <3> QED BY <3>2, <1>2, <1>4, <1>5
  <2>2. \A k \in 1 .. Len(s) : d[n + 1 + k] = s[k]
    BY <1>2, <1>4, <1>5
  <2> QED BY <2>1, <2>2, SeqEqual
<1>12. chars # {}
  <2>1. 1 \in DOMAIN d /\ 1 \in 1 .. n
    BY <1>2, <1>4, <1>5
  <2>2. d[1] # Tab
    BY <1>2, <1>6, <2>1
  <2> QED BY <2>1, <2>2, Zenon
<1>13. strtok[d] = [token |-> SubSeq(d, 1, Min(ends(1)) - 1),
                    rest |-> SubSeq(d, Min(ends(1)) + 1, L)]
  BY <1>5, <1>8, <1>12 DEF strtok
<1>14. Min(ends(1)) - 1 = n /\ Min(ends(1)) + 1 = n + 2
  BY <1>2, <1>9
<1> HIDE DEF chars, ends, L, n
<1>15. strtok[d] = [token |-> a, rest |-> s]
  BY <1>10, <1>11, <1>13, <1>14
<1>16. a \o <<Tab>> \o s = d
  BY DEF b, d
<1>17. d \in Seq(Characters)
  BY <1>5
<1> QED BY <1>15, <1>16, <1>17

(* Fields are joined in any order. *)
LEMMA Joined ==
  \A s, t, u \in Seq(Characters) : s \o t \in Seq(Characters) /\ (s \o t) \o u = s \o (t \o u)
  BY ConcatProperties, ConcatAssociative

(* A field of one character put between two tabs. *)
LEMMA Between ==
  ASSUME NEW a \in Seq(Characters), NEW x \in Characters, NEW r \in Seq(Characters)
  PROVE  /\ a \o <<Tab, x, Tab>> \o r \in Seq(Characters)
         /\ a \o <<Tab, x, Tab>> \o r = a \o <<Tab>> \o (<<x>> \o <<Tab>> \o r)
<1> DEFINE t == <<Tab>>
           u == <<x>>
<1>1. t \in Seq(Characters) /\ u \in Seq(Characters)
  BY CharactersAssumption
<1>2. <<Tab, x, Tab>> = t \o u \o t /\ <<Tab, x, Tab>> \in Seq(Characters)
  BY CharactersAssumption
<1> HIDE DEF t, u
<1> DEFINE v == t \o u \o t
           w == u \o t \o r
<1>3. /\ t \o u \in Seq(Characters) /\ u \o t \in Seq(Characters)
      /\ v \in Seq(Characters) /\ w \in Seq(Characters)
  BY <1>1, Joined, SMTT(40)
<1>4. v \o r = t \o w
  <2>1. v = t \o (u \o t)
    BY <1>1, Joined, SMTT(40)
  <2>2. t \o (u \o t) \o r = t \o w
    BY <1>1, <1>3, Joined, SMTT(40)
  <2> QED BY <2>1, <2>2, Zenon
<1> HIDE DEF v, w
<1>5. a \o v \o r = a \o (v \o r)
  BY <1>3, Joined, SMTT(40)
<1>6. a \o t \o w = a \o (t \o w)
  BY <1>1, <1>3, Joined, SMTT(40)
<1>7. a \o v \o r \in Seq(Characters)
  BY <1>3, Joined, SMTT(40)
<1> QED BY <1>2, <1>4, <1>5, <1>6, <1>7, Zenon DEF t, u, v, w

(* A name in its field is a part of the nickname, not empty, without a tab. *)
LEMMA NameIsPlain ==
  ASSUME NEW s \in Seq(Characters), Plain(s)
  PROVE  /\ Name(s) \in Seq(Characters) /\ Plain(Name(s))
         /\ Len(Name(s)) \in 1 .. NameSize /\ NameOf(s) = Name(s)
<1> DEFINE n == IF Len(s) < NameSize THEN Len(s) ELSE NameSize
<1>1. Len(s) \in Nat \ {0} /\ NameSize \in Nat \ {0}
  BY EmptySeq, LenProperties, SizesAssumption DEF Plain
<1>2. n \in Nat \ {0} /\ n <= Len(s) /\ n <= NameSize
  BY <1>1
<1> HIDE DEF n
<1>3. \A k \in 1 .. n : s[k] \in Characters /\ s[k] # Tab
  BY <1>1, <1>2, ElementOfSeq, LenProperties DEF Plain
<1>4. /\ SubSeq(s, 1, n) \in Seq(Characters) /\ Len(SubSeq(s, 1, n)) = n
      /\ \A k \in 1 .. n : SubSeq(s, 1, n)[k] = s[k]
  <2>1. /\ SubSeq(s, 1, n) \in Seq(Characters)
        /\ Len(SubSeq(s, 1, n)) = IF 1 <= n THEN n - 1 + 1 ELSE 0
        /\ \A k \in 1 .. n - 1 + 1 : SubSeq(s, 1, n)[k] = s[1 + k - 1]
    BY <1>2, <1>3, SubSeqProperties
  <2> QED BY <2>1, <1>2
<1>5. Name(s) = SubSeq(s, 1, n)
  BY DEF Name, n
<1>6. DOMAIN SubSeq(s, 1, n) = 1 .. n
  BY <1>4, LenProperties
<1>7. SubSeq(s, 1, n) # <<>>
  BY <1>2, <1>4, EmptySeq
<1> QED BY <1>2, <1>3, <1>4, <1>5, <1>6, <1>7 DEF Plain, NameOf, NULL

(* A field of one character that is not a tab. *)
LEMMA OneIsPlain ==
  ASSUME NEW x \in Characters \ {Tab}
  PROVE  <<x>> \in Seq(Characters) /\ Plain(<<x>>) /\ <<x>> # NULL /\ <<x>>[1] = x
BY DEF Plain, NULL

(* Any announcement is read as the name and the address of its sender. *)
LEMMA IdPacketRead ==
  ASSUME NEW p \in Peers, NEW ip \in Addresses,
         NEW f \in process_broadcast_data(IdPacketOf(p, ip))
  PROVE  \/ f = [name |-> Name(Nick[p]), ip |-> ip]
         \/ ip \in Long /\ f = [name |-> Name(Nick[p]), ip |-> Garbage]
<1> DEFINE second == <<ip>> \o <<Tab>> \o <<Time>>
           data == Nick[p] \o <<Tab>> \o second
<1>1. Nick[p] \in Seq(Characters) /\ Plain(Nick[p]) /\ Nick[p] # NULL
  BY CharactersAssumption, NickAssumption DEF Plain, NULL
<1>2. ip \in Characters \ {Tab} /\ Time \in Characters
  BY CharactersAssumption
<1>3. <<Time>> \in Seq(Characters)
  BY <1>2
<1>4. <<ip>> \in Seq(Characters) /\ Plain(<<ip>>) /\ <<ip>> # NULL /\ <<ip>>[1] = ip
  BY <1>2, OneIsPlain
<1>5. second \in Seq(Characters) /\ strtok[second] = [token |-> <<ip>>, rest |-> <<Time>>]
  BY <1>3, <1>4, StrtokField
<1> HIDE DEF second
<1>6. strtok[data] = [token |-> Nick[p], rest |-> second]
  BY <1>1, <1>5, StrtokField
<1>7. IdPacketOf(p, ip) = data
  <2>1. Nick[p] \o <<Tab, ip, Tab>> \o <<Time>> = Nick[p] \o <<Tab>> \o (<<ip>> \o <<Tab>> \o <<Time>>)
    BY <1>1, <1>2, <1>3, Between
  <2> QED BY <2>1 DEF IdPacketOf, second
<1> HIDE DEF data
<1>8. NameOf(Nick[p]) = Name(Nick[p])
  BY <1>1 DEF NameOf
<1> QED BY <1>4, <1>5, <1>6, <1>7, <1>8 DEF process_broadcast_data

(* Any chat packet is read as its sender's name and what can be seen of    *)
(* its text.                                                               *)
LEMMA ChatPacketRead ==
  ASSUME NEW p \in Peers, NEW ip \in Addresses, NEW name \in Seq(Characters), Plain(name),
         NEW to \in Addresses, NEW text \in Seq(Characters)
  PROVE  process_chat_data(ChatPacketOf(p, ip, name, to, text))
           = [name |-> Name(Nick[p]), content |-> Shown(text)]
<1> DEFINE fourth == <<to>> \o <<Tab>> \o text
           third == name \o <<Tab>> \o fourth
           second == <<ip>> \o <<Tab>> \o third
           data == Nick[p] \o <<Tab>> \o second
<1>1. Nick[p] \in Seq(Characters) /\ Plain(Nick[p]) /\ Nick[p] # NULL
  BY CharactersAssumption, NickAssumption DEF Plain, NULL
<1>2. ip \in Characters \ {Tab} /\ to \in Characters \ {Tab}
  BY CharactersAssumption
<1>3. /\ <<ip>> \in Seq(Characters) /\ Plain(<<ip>>)
      /\ <<to>> \in Seq(Characters) /\ Plain(<<to>>)
  BY <1>2, OneIsPlain
<1>4. fourth \in Seq(Characters) /\ strtok[fourth] = [token |-> <<to>>, rest |-> text]
  BY <1>3, StrtokField
<1> HIDE DEF fourth
<1>5. third \in Seq(Characters) /\ strtok[third] = [token |-> name, rest |-> fourth]
  BY <1>4, StrtokField
<1> HIDE DEF third
<1>6. second \in Seq(Characters) /\ strtok[second] = [token |-> <<ip>>, rest |-> third]
  BY <1>3, <1>5, StrtokField
<1> HIDE DEF second
<1>7. strtok[data] = [token |-> Nick[p], rest |-> second]
  BY <1>1, <1>6, StrtokField
<1>8. ChatPacketOf(p, ip, name, to, text) = data
  <2> DEFINE after == name \o <<Tab, to, Tab>> \o text
             head == Nick[p] \o <<Tab, ip, Tab>>
             tail == <<Tab, to, Tab>> \o text
  <2>1. after = third /\ after \in Seq(Characters)
    BY <1>2, <1>5, Between DEF third, fourth
  <2>2. Nick[p] \o <<Tab, ip, Tab>> \o after = Nick[p] \o <<Tab>> \o (<<ip>> \o <<Tab>> \o after)
    BY <1>1, <1>2, <2>1, Between
  <2>3. <<Tab, to, Tab>> \in Seq(Characters) /\ <<Tab, ip, Tab>> \in Seq(Characters)
    BY <1>2, CharactersAssumption
  <2>4. head \in Seq(Characters) /\ head \o name \in Seq(Characters) /\ tail \in Seq(Characters)
    BY <1>1, <2>3, ConcatProperties
  <2> HIDE DEF head
  <2>5. head \o name \o <<Tab, to, Tab>> \o text = head \o name \o (<<Tab, to, Tab>> \o text)
    BY <2>3, <2>4, Joined, SMTT(40)
  <2>6. head \o name \o tail = head \o (name \o tail)
    BY <2>4, Joined, SMTT(40)
  <2>7. name \o tail = after
    BY <2>3, Joined, SMTT(40)
  <2>8. head \o name \o <<Tab, to, Tab>> \o text = head \o after
    BY <2>5, <2>6, <2>7
  <2>9. ChatPacketOf(p, ip, name, to, text) = head \o name \o <<Tab, to, Tab>> \o text
    BY DEF ChatPacketOf, head
  <2>10. head \o after = Nick[p] \o <<Tab>> \o (<<ip>> \o <<Tab>> \o after)
    BY <2>2 DEF head
  <2> QED BY <2>1, <2>8, <2>9, <2>10 DEF second
<1> HIDE DEF data
<1>9. NameOf(Nick[p]) = Name(Nick[p])
  BY <1>1 DEF NameOf
<1> QED BY <1>4, <1>5, <1>6, <1>7, <1>8, <1>9 DEF process_chat_data, Shown

-----------------------------------------------------------------------------
Entry == [name : Seq(Characters), ip : Addresses \union {Garbage}]
Line == [name : Seq(Characters), content : Seq(Characters \union {Garbage})]

TypesInv ==
  /\ local_ip \in [Peers -> Addresses]
  /\ g_friends \in [Users -> Seq(Entry)] /\ g_chats \in [Users -> Seq(Line)]
  /\ announced \subseteq Peers \X Addresses /\ said \subseteq Users \X Typed
  /\ restarts \in 0 .. MaxRestarts

SizesInv == \A q \in Users : Len(g_friends[q]) <= N /\ Len(g_chats[q]) <= M

(* Every packet in the air was put together by its sender. *)
AiredInv == \A data \in aired : \E x \in announced : data = IdPacketOf(x[1], x[2])
SentInv ==
  \A packet \in sent : \E x \in said, ip, to \in Addresses, name \in Seq(Characters) :
    Plain(name) /\ packet.data = ChatPacketOf(x[1], ip, name, to, x[2])

(* An entry is a peer as it announced itself, a line is what was said. *)
Explained(e, x) ==
  e.name = Name(Nick[x[1]]) /\ (e.ip = x[2] \/ (e.ip = Garbage /\ x[2] \in Long))
Spoken(l, x) == l.name = Name(Nick[x[1]]) /\ l.content \in {x[2], Shown(x[2])}
EntriesInv ==
  \A q \in Users : \A k \in DOMAIN g_friends[q] : \E x \in announced : Explained(g_friends[q][k], x)
LinesInv ==
  \A q \in Users : \A k \in DOMAIN g_chats[q] : \E x \in said : Spoken(g_chats[q][k], x)

IInv == TypesInv /\ SizesInv /\ AiredInv /\ SentInv /\ EntriesInv /\ LinesInv

(* What push_g_friends leaves: entries that were there, and the new one. *)
LEMMA PushFriend ==
  ASSUME NEW table \in Seq(Entry), Len(table) <= N, NEW f \in Entry
  PROVE  /\ push_g_friends(table, f) \in Seq(Entry)
         /\ Len(push_g_friends(table, f)) <= N
         /\ \A k \in DOMAIN push_g_friends(table, f) :
              \/ k \in DOMAIN table /\ push_g_friends(table, f)[k] = table[k]
              \/ push_g_friends(table, f)[k] = f
<1>1. N \in Nat /\ Len(table) \in Nat /\ DOMAIN table = 1 .. Len(table)
  BY SizesAssumption, LenProperties
<1>2. /\ Append(table, f) \in Seq(Entry) /\ Len(Append(table, f)) = Len(table) + 1
      /\ DOMAIN Append(table, f) = 1 .. Len(table) + 1
      /\ \A k \in 1 .. Len(table) : Append(table, f)[k] = table[k]
      /\ Append(table, f)[Len(table) + 1] = f
  <2>1. /\ Append(table, f) \in Seq(Entry) /\ Len(Append(table, f)) = Len(table) + 1
        /\ \A k \in 1 .. Len(table) : Append(table, f)[k] = table[k]
        /\ Append(table, f)[Len(table) + 1] = f
    BY AppendProperties
  <2> QED BY <2>1, LenProperties
<1>3. CASE Len(table) >= N \/ \E k \in DOMAIN table : table[k].name = f.name
  <2>1. push_g_friends(table, f) = table
    BY <1>3 DEF push_g_friends
  <2> QED BY <2>1
<1>4. CASE ~(Len(table) >= N \/ \E k \in DOMAIN table : table[k].name = f.name)
  <2>1. push_g_friends(table, f) = Append(table, f) /\ Len(table) + 1 <= N
    BY <1>1, <1>4 DEF push_g_friends
  <2>2. \A k \in 1 .. Len(table) + 1 : k \in 1 .. Len(table) \/ k = Len(table) + 1
    BY <1>1
  <2> QED BY <1>1, <1>2, <2>1, <2>2
<1> QED BY <1>3, <1>4

(* What push_g_chats leaves: records that were there, and the new one. *)
LEMMA PushRecord ==
  ASSUME NEW log \in Seq(Line), Len(log) <= M, NEW record \in Line
  PROVE  /\ push_g_chats(log, record) \in Seq(Line)
         /\ Len(push_g_chats(log, record)) <= M
         /\ \A k \in DOMAIN push_g_chats(log, record) :
              \/ \E j \in DOMAIN log : push_g_chats(log, record)[k] = log[j]
              \/ push_g_chats(log, record)[k] = record
<1> DEFINE kept == IF Len(log) < M THEN log ELSE Tail(log)
<1>1. M \in Nat \ {0} /\ Len(log) \in Nat /\ DOMAIN log = 1 .. Len(log)
  BY SizesAssumption, LenProperties
<1>2. /\ kept \in Seq(Line) /\ Len(kept) < M
      /\ \A k \in 1 .. Len(kept) : \E j \in DOMAIN log : kept[k] = log[j]
  <2>1. CASE Len(log) < M
    BY <1>1, <2>1
  <2>2. CASE ~(Len(log) < M)
    <3>1. log # <<>>
      BY <1>1, <2>2, EmptySeq
    <3>2. /\ Tail(log) \in Seq(Line) /\ Len(Tail(log)) = Len(log) - 1
          /\ \A k \in 1 .. Len(Tail(log)) : Tail(log)[k] = log[k + 1]
      BY <3>1, HeadTailProperties
    <3>3. \A k \in 1 .. Len(Tail(log)) : k + 1 \in DOMAIN log
      BY <1>1, <3>2
    <3> QED BY <1>1, <2>2, <3>2, <3>3
  <2> QED BY <2>1, <2>2
<1> HIDE DEF kept
<1>3. push_g_chats(log, record) = Append(kept, record)
  BY DEF push_g_chats, kept
<1>4. /\ Append(kept, record) \in Seq(Line) /\ Len(Append(kept, record)) = Len(kept) + 1
      /\ \A k \in 1 .. Len(kept) : Append(kept, record)[k] = kept[k]
      /\ Append(kept, record)[Len(kept) + 1] = record
  BY <1>2, AppendProperties
<1>5. DOMAIN Append(kept, record) = 1 .. Len(kept) + 1 /\ Len(kept) \in Nat
  BY <1>2, <1>4, LenProperties
<1>6. \A k \in 1 .. Len(kept) + 1 : k \in 1 .. Len(kept) \/ k = Len(kept) + 1
  BY <1>5
<1>7. Len(kept) + 1 <= M
  BY <1>1, <1>2, <1>5
<1> QED BY <1>2, <1>3, <1>4, <1>5, <1>6, <1>7

(* In the beginning there is nothing to explain. *)
LEMMA InitInv == Init => IInv
<1> SUFFICES ASSUME Init PROVE IInv
  OBVIOUS
<1>1. Len(<<>>) = 0 /\ DOMAIN <<>> = {} /\ \A S : <<>> \in Seq(S)
  BY EmptySeq
<1> USE DEF Init
<1>2. TypesInv
  BY <1>1, PeersAssumption, SizesAssumption DEF TypesInv
<1>3. SizesInv
  BY <1>1, SizesAssumption DEF SizesInv
<1>4. AiredInv /\ SentInv /\ EntriesInv /\ LinesInv
  BY <1>1 DEF AiredInv, SentInv, EntriesInv, LinesInv
<1> QED BY <1>2, <1>3, <1>4 DEF IInv

(* An announcement is the packet of its sender's present address. *)
LEMMA BroadcastInv == \A p \in Peers : IInv /\ Broadcast(p) => IInv'
<1> SUFFICES ASSUME NEW p \in Peers, IInv, Broadcast(p) PROVE IInv'
  OBVIOUS
<1> USE DEF IInv, Broadcast
<1>1. local_ip[p] \in Addresses
  BY DEF TypesInv
<1>2. TypesInv'
  BY <1>1 DEF TypesInv
<1>3. SizesInv' /\ SentInv' /\ LinesInv'
  BY DEF SizesInv, SentInv, LinesInv
<1>4. AiredInv'
  <2>1. IdPacket(p) = IdPacketOf(p, local_ip[p])
    BY DEF IdPacket
  <2>2. <<p, local_ip[p]>> \in announced'
    OBVIOUS
  <2>3. \A data \in aired : \E x \in announced' : data = IdPacketOf(x[1], x[2])
    BY DEF AiredInv
  <2>4. \E x \in announced' : IdPacket(p) = IdPacketOf(x[1], x[2])
    BY <2>1, <2>2
  <2> QED BY <2>3, <2>4 DEF AiredInv
<1>5. EntriesInv'
  BY DEF EntriesInv
<1> QED BY <1>2, <1>3, <1>4, <1>5

(* An announcement in the air puts an explained entry into the table. *)
LEMMA RecvBroadcastInv ==
  \A q \in Users : \A data \in aired : IInv /\ RecvBroadcast(q, data) => IInv'
<1> SUFFICES ASSUME NEW q \in Users, NEW data \in aired, IInv, RecvBroadcast(q, data) PROVE IInv'
  OBVIOUS
<1> USE DEF IInv
<1>1. PICK f \in process_broadcast_data(data) :
        g_friends' = [g_friends EXCEPT ![q] = push_g_friends(@, f)]
  BY DEF RecvBroadcast
<1>2. UNCHANGED <<local_ip, g_chats, aired, sent, said, announced, restarts>>
  BY DEF RecvBroadcast
<1>3. PICK x \in announced : data = IdPacketOf(x[1], x[2])
  BY DEF AiredInv
<1>4. x[1] \in Peers /\ x[2] \in Addresses
  BY DEF TypesInv
<1>5. \/ f = [name |-> Name(Nick[x[1]]), ip |-> x[2]]
      \/ x[2] \in Long /\ f = [name |-> Name(Nick[x[1]]), ip |-> Garbage]
  BY <1>1, <1>3, <1>4, IdPacketRead
<1>6. Explained(f, x)
  BY <1>5 DEF Explained
<1>7. Nick[x[1]] \in Seq(Characters) /\ Plain(Nick[x[1]])
  BY <1>4, CharactersAssumption, NickAssumption
<1>8. Name(Nick[x[1]]) \in Seq(Characters)
  BY <1>7, NameIsPlain
<1>9. f \in Entry
  BY <1>4, <1>5, <1>8 DEF Entry
<1> DEFINE table == g_friends[q]
           pushed == push_g_friends(table, f)
<1>10. table \in Seq(Entry) /\ Len(table) <= N
  BY DEF TypesInv, SizesInv
<1>11. /\ pushed \in Seq(Entry) /\ Len(pushed) <= N
       /\ \A k \in DOMAIN pushed : (k \in DOMAIN table /\ pushed[k] = table[k]) \/ pushed[k] = f
  BY <1>9, <1>10, PushFriend
<1>12. g_friends' = [g_friends EXCEPT ![q] = pushed]
  BY <1>1
<1> HIDE DEF pushed
<1>13. TypesInv'
  BY <1>2, <1>11, <1>12 DEF TypesInv
<1>14. SizesInv'
  BY <1>2, <1>11, <1>12 DEF SizesInv, TypesInv
<1>15. AiredInv' /\ SentInv' /\ LinesInv'
  BY <1>2 DEF AiredInv, SentInv, LinesInv
<1>16. EntriesInv'
  <2> SUFFICES ASSUME NEW r \in Users, NEW k \in DOMAIN g_friends'[r]
               PROVE  \E y \in announced : Explained(g_friends'[r][k], y)
    BY <1>2 DEF EntriesInv
  <2>1. CASE r = q
    <3>1. g_friends'[r] = pushed
      BY <1>12, <2>1 DEF TypesInv
    <3>2. CASE k \in DOMAIN table /\ pushed[k] = table[k]
      BY <2>1, <3>1, <3>2 DEF EntriesInv
    <3>3. CASE pushed[k] = f
      BY <1>6, <3>1, <3>3
    <3> QED BY <1>11, <3>1, <3>2, <3>3
  <2>2. CASE r # q
    BY <1>12, <2>2 DEF EntriesInv, TypesInv
  <2> QED BY <2>1, <2>2
<1> QED BY <1>13, <1>14, <1>15, <1>16

(* A push into one user's log of a line that was said. *)
LEMMA PushKeepsLines ==
  ASSUME IInv, NEW q \in Users, NEW record \in Line, NEW x \in said', Spoken(record, x),
         g_chats' = [g_chats EXCEPT ![q] = push_g_chats(@, record)], said \subseteq said'
  PROVE  /\ g_chats' \in [Users -> Seq(Line)]
         /\ \A r \in Users : Len(g_chats'[r]) <= M
         /\ LinesInv'
<1> USE DEF IInv
<1> DEFINE log == g_chats[q]
           pushed == push_g_chats(log, record)
<1>1. log \in Seq(Line) /\ Len(log) <= M
  BY DEF TypesInv, SizesInv
<1>2. /\ pushed \in Seq(Line) /\ Len(pushed) <= M
      /\ \A k \in DOMAIN pushed : (\E j \in DOMAIN log : pushed[k] = log[j]) \/ pushed[k] = record
  BY <1>1, PushRecord
<1>3. g_chats' = [g_chats EXCEPT ![q] = pushed]
  OBVIOUS
<1> HIDE DEF pushed
<1>4. g_chats' \in [Users -> Seq(Line)]
  BY <1>2, <1>3 DEF TypesInv
<1>5. \A r \in Users : Len(g_chats'[r]) <= M
  BY <1>2, <1>3 DEF TypesInv, SizesInv
<1>6. LinesInv'
  <2> SUFFICES ASSUME NEW r \in Users, NEW k \in DOMAIN g_chats'[r]
               PROVE  \E y \in said' : Spoken(g_chats'[r][k], y)
    BY DEF LinesInv
  <2>1. CASE r = q
    <3>1. g_chats'[r] = pushed
      BY <1>3, <2>1 DEF TypesInv
    <3>2. CASE \E j \in DOMAIN log : pushed[k] = log[j]
      BY <3>1, <3>2 DEF LinesInv
    <3>3. CASE pushed[k] = record
      BY <3>1, <3>3
    <3> QED BY <1>2, <3>1, <3>2, <3>3
  <2>2. CASE r # q
    BY <1>3, <2>2 DEF LinesInv, TypesInv
  <2> QED BY <2>1, <2>2
<1> QED BY <1>4, <1>5, <1>6

(* What a friend can see of a text is a text. *)
LEMMA ShownIsText ==
  ASSUME NEW text \in Seq(Characters)
  PROVE  Shown(text) \in Seq(Characters \union {Garbage})
<1> DEFINE C == Characters \union {Garbage}
           L == Len(text)
           chars == {k \in DOMAIN text : text[k] # Tab}
           start == Min(chars)
           ends == {L + 1} \union {k \in start .. L : text[k] = Tab}
           end == Min(ends)
<1>1. <<Garbage>> \in Seq(C)
  OBVIOUS
<1>2. CASE chars = {}
  <2>1. strtok[text].token = NULL
    BY <1>2 DEF strtok
  <2> QED BY <1>1, <2>1 DEF Shown, ContentOf
<1>3. CASE chars # {}
  <2>1. L \in Nat /\ DOMAIN text = 1 .. L
    BY LenProperties
  <2>2. start \in chars
    <3>1. chars \in SUBSET Nat
      BY <2>1
    <3> HIDE DEF chars
    <3> QED BY <1>3, <3>1, MinExists
  <2>3. end \in ends /\ \A k \in ends : end <= k
    <3>1. start \in Nat /\ L + 1 \in Nat
      BY <2>1, <2>2
    <3> HIDE DEF start
    <3>2. ends \in SUBSET Nat /\ ends # {}
      BY <3>1, <2>1
    <3> HIDE DEF ends
    <3> QED BY <3>2, MinExists
  <2>4. start \in 1 .. L /\ end \in Int /\ end - 1 <= L
    BY <2>1, <2>2, <2>3
  <2>5. strtok[text].token = SubSeq(text, start, end - 1)
    BY <1>3 DEF strtok
  <2> HIDE DEF start, end
  <2>6. \A k \in start .. end - 1 : text[k] \in Characters
    BY <2>1, <2>4, ElementOfSeq
  <2>7. SubSeq(text, start, end - 1) \in Seq(Characters)
    BY <2>4, <2>6, SubSeqProperties
  <2>8. SubSeq(text, start, end - 1) \in Seq(C)
    BY <2>7, SeqMonotonic
  <2> QED BY <1>1, <2>5, <2>8 DEF Shown, ContentOf
<1> QED BY <1>2, <1>3

(* A line that somebody said has the types of a line. *)
LEMMA LineIsTyped ==
  ASSUME NEW p \in Peers, NEW text \in Typed
  PROVE  /\ [name |-> Name(Nick[p]), content |-> text] \in Line
         /\ [name |-> Name(Nick[p]), content |-> Shown(text)] \in Line
<1>1. Nick[p] \in Seq(Characters) /\ Plain(Nick[p]) /\ text \in Seq(Characters)
  BY CharactersAssumption, NickAssumption
<1>2. Name(Nick[p]) \in Seq(Characters)
  BY <1>1, NameIsPlain
<1>3. text \in Seq(Characters \union {Garbage})
  BY <1>1, SeqMonotonic
<1>4. Shown(text) \in Seq(Characters \union {Garbage})
  BY <1>1, ShownIsText
<1> QED BY <1>2, <1>3, <1>4 DEF Line

(* A packet that is sent has the name of a listed friend in it, which is   *)
(* a field of its own because it was announced.                            *)
LEMMA SendChatInv ==
  \A p \in Users : \A k \in DOMAIN g_friends[p], text \in Typed :
    IInv /\ SendChat(p, k, text) => IInv'
<1> SUFFICES ASSUME NEW p \in Users, NEW k \in DOMAIN g_friends[p], NEW text \in Typed,
                    IInv, SendChat(p, k, text)
             PROVE  IInv'
  OBVIOUS
<1> USE DEF IInv
<1> DEFINE friend == g_friends[p][k]
           record == [name |-> Name(Nick[p]), content |-> text]
           packet == [to |-> friend.ip, data |-> ChatPacket(p, friend, text)]
<1>1. /\ friend.ip \in Addresses
      /\ sent' = sent \union {packet} /\ said' = said \union {<<p, text>>}
      /\ g_chats' = [g_chats EXCEPT ![p] = push_g_chats(@, [name |-> Name(Nick[p]), content |-> text])]
      /\ UNCHANGED <<local_ip, g_friends, aired, announced, restarts>>
  BY DEF SendChat
<1>2. p \in Peers
  BY PeersAssumption
<1>3. friend.name \in Seq(Characters) /\ Plain(friend.name)
  <2>1. PICK x \in announced : friend.name = Name(Nick[x[1]])
    BY DEF EntriesInv, Explained
  <2>2. Nick[x[1]] \in Seq(Characters) /\ Plain(Nick[x[1]])
    BY CharactersAssumption, NickAssumption DEF TypesInv
  <2> QED BY <2>1, <2>2, NameIsPlain
<1>4. record \in Line /\ Spoken(record, <<p, text>>) /\ <<p, text>> \in said'
  BY <1>1, <1>2, LineIsTyped DEF Spoken
<1>5. NameOf(Nick[p]) = Name(Nick[p])
  BY <1>2, CharactersAssumption, NickAssumption, NameIsPlain
<1>6. /\ g_chats' \in [Users -> Seq(Line)]
      /\ \A r \in Users : Len(g_chats'[r]) <= M
      /\ LinesInv'
  <2>1. g_chats' = [g_chats EXCEPT ![p] = push_g_chats(@, record)] /\ said \subseteq said'
    BY <1>1
  <2> HIDE DEF record
  <2> QED BY <1>4, <2>1, PushKeepsLines
<1>7. TypesInv'
  BY <1>1, <1>6 DEF TypesInv
<1>8. SizesInv'
  BY <1>1, <1>6 DEF SizesInv
<1>9. AiredInv' /\ EntriesInv'
  BY <1>1 DEF AiredInv, EntriesInv
<1>10. SentInv'
  <2>1. packet.data = ChatPacketOf(p, local_ip[p], friend.name, friend.ip, text)
    BY DEF ChatPacket
  <2>2. local_ip[p] \in Addresses
    BY <1>2 DEF TypesInv
  <2>3. \E x \in said', ip, to \in Addresses, name \in Seq(Characters) :
          Plain(name) /\ packet.data = ChatPacketOf(x[1], ip, name, to, x[2])
    <3>1. <<p, text>>[1] = p /\ <<p, text>>[2] = text
      OBVIOUS
    <3> QED BY <1>1, <1>3, <1>4, <2>1, <2>2, <3>1
  <2> HIDE DEF packet
  <2> QED BY <1>1, <2>3 DEF SentInv
<1> QED BY <1>6, <1>7, <1>8, <1>9, <1>10

(* A packet that arrives becomes a line that its sender said. *)
LEMMA RecvChatInv ==
  \A q \in Users : \A packet \in sent : IInv /\ RecvChat(q, packet) => IInv'
<1> SUFFICES ASSUME NEW q \in Users, NEW packet \in sent, IInv, RecvChat(q, packet) PROVE IInv'
  OBVIOUS
<1> USE DEF IInv
<1> DEFINE record == process_chat_data(packet.data)
<1>1. /\ g_chats' = [g_chats EXCEPT ![q] = push_g_chats(@, record)]
      /\ UNCHANGED <<local_ip, g_friends, aired, sent, said, announced, restarts>>
  BY DEF RecvChat
<1>2. PICK x \in said, ip \in Addresses, to \in Addresses, name \in Seq(Characters) :
        Plain(name) /\ packet.data = ChatPacketOf(x[1], ip, name, to, x[2])
  BY DEF SentInv
<1>3. x[1] \in Peers /\ x[2] \in Typed /\ x[2] \in Seq(Characters)
  BY PeersAssumption, CharactersAssumption DEF TypesInv
<1>4. record = [name |-> Name(Nick[x[1]]), content |-> Shown(x[2])]
  BY <1>2, <1>3, ChatPacketRead
<1>5. record \in Line /\ Spoken(record, x) /\ x \in said' /\ said \subseteq said'
  <2>1. record \in Line
    BY <1>3, <1>4, LineIsTyped
  <2>2. Spoken(record, x)
    BY <1>4 DEF Spoken
  <2> QED BY <1>1, <2>1, <2>2
<1> HIDE DEF record
<1>6. /\ g_chats' \in [Users -> Seq(Line)]
      /\ \A r \in Users : Len(g_chats'[r]) <= M
      /\ LinesInv'
  BY <1>1, <1>5, PushKeepsLines
<1>7. TypesInv' /\ SizesInv'
  BY <1>1, <1>6 DEF TypesInv, SizesInv
<1>8. AiredInv' /\ SentInv' /\ EntriesInv'
  BY <1>1 DEF AiredInv, SentInv, EntriesInv
<1> QED BY <1>6, <1>7, <1>8

(* A restart forgets the table and the log, not what was announced. *)
LEMMA RestartInv ==
  \A q \in Users, address \in Addresses : IInv /\ Restart(q, address) => IInv'
<1> SUFFICES ASSUME NEW q \in Users, NEW address \in Addresses, IInv, Restart(q, address)
             PROVE  IInv'
  OBVIOUS
<1> USE DEF IInv, Restart
<1>1. Len(<<>>) = 0 /\ DOMAIN <<>> = {} /\ \A S : <<>> \in Seq(S)
  BY EmptySeq
<1>2. TypesInv'
  <2>1. <<>> \in Seq(Entry) /\ <<>> \in Seq(Line)
    BY <1>1
  <2>2. restarts' \in 0 .. MaxRestarts
    BY SizesAssumption DEF TypesInv
  <2>3. g_friends' \in [Users -> Seq(Entry)]
    BY <2>1 DEF TypesInv
  <2>4. g_chats' \in [Users -> Seq(Line)]
    BY <2>1 DEF TypesInv
  <2> QED BY <2>2, <2>3, <2>4, PeersAssumption DEF TypesInv
<1>3. SizesInv'
  BY <1>1, SizesAssumption DEF SizesInv, TypesInv
<1>4. AiredInv' /\ SentInv'
  BY DEF AiredInv, SentInv
<1>5. EntriesInv'
  BY <1>1 DEF EntriesInv, TypesInv
<1>6. LinesInv'
  BY <1>1 DEF LinesInv, TypesInv
<1> QED BY <1>2, <1>3, <1>4, <1>5, <1>6

(* Every packet, entry and line is explained, at any time. *)
THEOREM Invariance == Spec => []IInv
<1>1. ASSUME IInv, [Next]_vars PROVE IInv'
  <2>1. CASE \E p \in Peers : Broadcast(p)
    BY <1>1, <2>1, BroadcastInv
  <2>2. CASE \E q \in Users : \E data \in aired : RecvBroadcast(q, data)
    BY <1>1, <2>2, RecvBroadcastInv
  <2>3. CASE \E q \in Users : \E k \in DOMAIN g_friends[q], text \in Typed : SendChat(q, k, text)
    BY <1>1, <2>3, SendChatInv
  <2>4. CASE \E q \in Users : \E packet \in sent : RecvChat(q, packet)
    BY <1>1, <2>4, RecvChatInv
  <2>5. CASE \E q \in Users : \E address \in Addresses : Restart(q, address)
    BY <1>1, <2>5, RestartInv
  <2>6. CASE UNCHANGED vars
    BY <1>1, <2>6 DEF vars, IInv, TypesInv, SizesInv, AiredInv, SentInv, EntriesInv, LinesInv
  <2> QED BY <1>1, <2>1, <2>2, <2>3, <2>4, <2>5, <2>6 DEF Next
<1> QED BY <1>1, InitInv, PTL DEF Spec

(* An entry of any table is a peer as it announced itself: no loss, delay, *)
(* repetition, restart or change of addresses mixes two peers up.          *)
THEOREM EntriesCorrect == Spec => []EntriesWereAnnounced
<1>1. IInv => EntriesWereAnnounced
  BY DEF IInv, EntriesInv, Explained, EntriesWereAnnounced
<1> QED BY <1>1, Invariance, PTL

(* A line of any log was said by a peer of the name it shows. *)
THEOREM LinesCorrect == Spec => []LinesWereSaid
<1>1. IInv => LinesWereSaid
  BY DEF IInv, LinesInv, Spoken, LinesWereSaid
<1> QED BY <1>1, Invariance, PTL

(* Tables, logs and names keep to the sizes of their arrays. *)
THEOREM TypeCorrect == Spec => []TypeOK
<1>1. ASSUME IInv PROVE TypeOK
  <2> USE <1>1 DEF IInv
  <2>1. \A p \in Peers : Len(Name(Nick[p])) \in 1 .. NameSize
    BY CharactersAssumption, NickAssumption, NameIsPlain
  <2>2. ASSUME NEW q \in Users, NEW k \in DOMAIN g_friends[q]
        PROVE  /\ Len(g_friends[q][k].name) \in 1 .. NameSize
               /\ g_friends[q][k].ip \in Addresses \union {Garbage}
    <3>1. PICK x \in announced : Explained(g_friends[q][k], x)
      BY DEF EntriesInv
    <3> QED BY <2>1, <3>1 DEF Explained, TypesInv
  <2>3. ASSUME NEW q \in Users, NEW k \in DOMAIN g_chats[q]
        PROVE  Len(g_chats[q][k].name) \in 1 .. NameSize
    <3>1. PICK x \in said : Spoken(g_chats[q][k], x)
      BY DEF LinesInv
    <3>2. x[1] \in Peers
      BY PeersAssumption DEF TypesInv
    <3> QED BY <2>1, <3>1, <3>2 DEF Spoken
  <2> QED BY <2>2, <2>3 DEF TypeOK, TypesInv, SizesInv
<1> QED BY <1>1, Invariance, PTL
=============================================================================
