------------------------------- MODULE Network -------------------------------
(***************************************************************************)
(* Peers on one network.  Each announces itself (broadcast_thread.c), puts *)
(* the announcements it receives into its friend table and the chat        *)
(* packets into its log (receive_thread.c), and sends to the friends in    *)
(* its table (send_chat).  Packets are UDP datagrams: they may be lost,    *)
(* late, doubled or out of order, and reach whoever has the address when   *)
(* they arrive.  A peer may be restarted, perhaps with another address in  *)
(* its configuration; its table and its log are gone then.                 *)
(*                                                                         *)
(* A text is a sequence of characters; an address and a time are one       *)
(* character each.  The parser's calls are whole steps: MainThread and     *)
(* ChatLog take them apart.                                                *)
(***************************************************************************)
EXTENDS Integers, Sequences, FiniteSets, FiniteSetsExt

CONSTANTS
  Peers,
  Characters,
  Nick,          \* the nickname in each peer's configuration
  Addresses,
  Home,          \* the address each peer starts with
  Long,          \* the addresses of 15 characters, the longest there are
  Typed,         \* what users type: any characters, Tab included
  Tab,
  Time,          \* what "%ld" writes of a time
  Garbage,       \* what an uninitialised field holds
  NameSize,      \* the characters that a name keeps, 19 in the code
  N, M,          \* the sizes of g_friends and g_chats
  Users,         \* bound of the model: the peers whose table and log are followed
  MaxSent,       \* bound of the model: chat packets sent
  MaxRestarts    \* bound of the model

NULL == <<>>   \* of strtok, whose tokens are never empty

(* What is a field of its own between two tabs. *)
Plain(s) == s # <<>> /\ \A k \in DOMAIN s : s[k] # Tab

ASSUME SizesAssumption == {NameSize, N, M} \subseteq Nat \ {0} /\ MaxRestarts \in Nat
ASSUME PeersAssumption ==
  Users \subseteq Peers /\ Home \in [Peers -> Addresses] /\ Long \subseteq Addresses
ASSUME CharactersAssumption ==
  /\ Tab \in Characters /\ Addresses \union {Time} \subseteq Characters \ {Tab}
  /\ Nick \in [Peers -> Seq(Characters)] /\ Typed \subseteq Seq(Characters)
ASSUME NickAssumption == \A p \in Peers : Plain(Nick[p])  \* the code does not check it

VARIABLES
  local_ip,   \* each peer's address
  g_friends,  \* the listed entries of each user's table
  g_chats,    \* each user's log, oldest first
  aired,      \* history: the ID packets broadcast so far
  sent,       \* history: the chat packets sent so far, with their addresses
  said,       \* history: who typed what
  announced,  \* history: under which addresses each peer announced itself
  restarts

vars == <<local_ip, g_friends, g_chats, aired, sent, said, announced, restarts>>

Init ==
  /\ local_ip = Home
  /\ g_friends = [q \in Users |-> <<>>] /\ g_chats = [q \in Users |-> <<>>]
  /\ aired = {} /\ sent = {} /\ said = {} /\ announced = {} /\ restarts = 0

-----------------------------------------------------------------------------
(* The wire format: fields joined with tabs. *)

(* strtok: the first run of characters without a tab, and what follows the *)
(* tab that ends it.                                                       *)
strtok[s \in Seq(Characters)] ==
  LET chars == {k \in DOMAIN s : s[k] # Tab}
      start == Min(chars)
      end == Min({Len(s) + 1} \union {k \in start .. Len(s) : s[k] = Tab})
  IN IF chars = {} THEN [token |-> NULL, rest |-> <<>>]
     ELSE [token |-> SubSeq(s, start, end - 1), rest |-> SubSeq(s, end + 1, Len(s))]

(* strncpy into a field, which keeps what it held when there is no token. *)
Name(s) == SubSeq(s, 1, IF Len(s) < NameSize THEN Len(s) ELSE NameSize)
NameOf(token) == IF token = NULL THEN <<Garbage>> ELSE Name(token)
ContentOf(token) == IF token = NULL THEN <<Garbage>> ELSE token

IdPacketOf(p, ip) == Nick[p] \o <<Tab, ip, Tab>> \o <<Time>>

IdPacket(p) == IdPacketOf(p, local_ip[p])

ChatPacketOf(p, ip, name, to, text) ==
  Nick[p] \o <<Tab, ip, Tab>> \o name \o <<Tab, to, Tab>> \o text

ChatPacket(p, friend, text) == ChatPacketOf(p, local_ip[p], friend.name, friend.ip, text)

(* Faulty: the address is looked for one field too far. *)
process_broadcast_dataShifted(data) ==
  LET first == strtok[data]
      third == strtok[strtok[first.rest].rest]
  IN {[name |-> NameOf(first.token), ip |-> third.token[1]]}

(* What friend_info_local may hold afterwards.  An address of 15 characters *)
(* leaves its last byte, which should end it, uninitialised.                *)
process_broadcast_data(data) ==
  LET first == strtok[data]
      second == strtok[first.rest]
      ips == IF second.token = NULL THEN {Garbage}
             ELSE {second.token[1]} \union (IF second.token[1] \in Long THEN {Garbage} ELSE {})
  IN {[name |-> NameOf(first.token), ip |-> ip] : ip \in ips}

(* Faulty: one field less is skipped. *)
process_chat_dataShort(data) ==
  LET first == strtok[data]
      fourth == strtok[strtok[strtok[first.rest].rest].rest]
  IN [name |-> NameOf(first.token), content |-> ContentOf(fourth.token)]

(* Three fields are skipped.  When one is missing, content is what it was. *)
process_chat_data(data) ==
  LET first == strtok[data]
      fifth == strtok[strtok[strtok[strtok[first.rest].rest].rest].rest]
  IN [name |-> NameOf(first.token), content |-> ContentOf(fifth.token)]

-----------------------------------------------------------------------------
(* Faulty: the last slot is never used. *)
push_g_friendsShort(table, f) ==
  IF Len(table) >= N - 1 \/ \E k \in DOMAIN table : table[k].name = f.name
  THEN table ELSE Append(table, f)

push_g_friends(table, f) ==
  IF Len(table) >= N \/ \E k \in DOMAIN table : table[k].name = f.name
  THEN table ELSE Append(table, f)

(* Faulty: the log is taken for full one record too late. *)
push_g_chatsLate(log, record) == Append(IF Len(log) <= M THEN log ELSE Tail(log), record)

push_g_chats(log, record) == Append(IF Len(log) < M THEN log ELSE Tail(log), record)

(* One turn of broadcast_thread. *)
Broadcast(p) ==
  /\ aired' = aired \union {IdPacket(p)}
  /\ announced' = announced \union {<<p, local_ip[p]>>}
  /\ UNCHANGED <<local_ip, g_friends, g_chats, sent, said, restarts>>

(* A broadcast reaches its own sender too, and nothing keeps it out.       *)
RecvBroadcast(q, data) ==
  /\ \E f \in process_broadcast_data(data) :
       g_friends' = [g_friends EXCEPT ![q] = push_g_friends(@, f)]
  /\ UNCHANGED <<local_ip, g_chats, aired, sent, said, announced, restarts>>

(* send_chat to the friend at an index, and the sender's own record of it. *)
(* An address that is none is not sent to.                                 *)
SendChat(p, k, text) ==
  LET friend == g_friends[p][k]
  IN /\ Cardinality(sent) < MaxSent /\ friend.ip \in Addresses
     /\ sent' = sent \union {[to |-> friend.ip, data |-> ChatPacket(p, friend, text)]}
     /\ said' = said \union {<<p, text>>}
     /\ g_chats' = [g_chats EXCEPT ![p] =
                      push_g_chats(@, [name |-> Name(Nick[p]), content |-> text])]
     /\ UNCHANGED <<local_ip, g_friends, aired, announced, restarts>>

RecvChat(q, packet) ==
  /\ packet.to = local_ip[q]
  /\ g_chats' = [g_chats EXCEPT ![q] = push_g_chats(@, process_chat_data(packet.data))]
  /\ UNCHANGED <<local_ip, g_friends, aired, sent, said, announced, restarts>>

(* The program starts with empty tables; the address is free. *)
Restart(q, address) ==
  /\ restarts < MaxRestarts /\ restarts' = restarts + 1
  /\ \A p \in Peers \ {q} : local_ip[p] # address
  /\ local_ip' = [local_ip EXCEPT ![q] = address]
  /\ g_friends' = [g_friends EXCEPT ![q] = <<>>]
  /\ g_chats' = [g_chats EXCEPT ![q] = <<>>]
  /\ UNCHANGED <<aired, sent, said, announced>>

Next ==
  \/ \E p \in Peers : Broadcast(p)
  \/ \E q \in Users :
       \/ \E data \in aired : RecvBroadcast(q, data)
       \/ \E k \in DOMAIN g_friends[q], text \in Typed : SendChat(q, k, text)
       \/ \E packet \in sent : RecvChat(q, packet)
       \/ \E address \in Addresses : Restart(q, address)

(* A peer announces itself every 5 seconds for as long as it runs, so that *)
(* in the long run every other peer receives an announcement of it, though *)
(* any single one may be lost.                                             *)
Hears(q, p) == \E data \in aired : data = IdPacket(p) /\ RecvBroadcast(q, data)
Fairness ==
  /\ \A p \in Peers : WF_aired(Broadcast(p))
  /\ \A p \in Peers, q \in Users : WF_g_friends(Hears(q, p))

Spec == Init /\ [][Next]_vars /\ Fairness

-----------------------------------------------------------------------------
(* Every variable has its type: a table never exceeds N entries and a log  *)
(* M records, whatever arrives, and neither name is longer than its field. *)
TypeOK ==
  /\ local_ip \in [Peers -> Addresses] /\ restarts \in 0 .. MaxRestarts
  /\ announced \subseteq Peers \X Addresses /\ said \subseteq Users \X Typed
  /\ \A q \in Users :
       /\ Len(g_friends[q]) <= N /\ Len(g_chats[q]) <= M
       /\ \A k \in DOMAIN g_friends[q] :
            /\ Len(g_friends[q][k].name) \in 1 .. NameSize
            /\ g_friends[q][k].ip \in Addresses \union {Garbage}
       /\ \A k \in DOMAIN g_chats[q] : Len(g_chats[q][k].name) \in 1 .. NameSize

(* An entry of a table is one peer as it announced itself: its name, cut   *)
(* to the field, and an address that this same peer had, never another's,  *)
(* although two peers may have the same name and addresses change hands.   *)
(* Only an address of 15 characters may end in what was never written.     *)
EntriesWereAnnounced ==
  \A q \in Users : \A k \in DOMAIN g_friends[q] :
    \E x \in announced :
      /\ g_friends[q][k].name = Name(Nick[x[1]])
      /\ \/ g_friends[q][k].ip = x[2]
         \/ g_friends[q][k].ip = Garbage /\ x[2] \in Long

(* What a friend sees of a text: it ends at a tab, and of a text with      *)
(* nothing but tabs there is nothing to see.                               *)
Shown(text) == ContentOf(strtok[text].token)

(* Every line of a log was said by a peer of that name, however packets    *)
(* were delayed, doubled or delivered to another peer: it is the text as   *)
(* that peer typed it, or as much as a friend sees of it.  Memory that was *)
(* never written is shown only for a text without a character.             *)
LinesWereSaid ==
  \A q \in Users : \A k \in DOMAIN g_chats[q] :
    \E x \in said : /\ g_chats[q][k].name = Name(Nick[x[1]])
                    /\ g_chats[q][k].content \in {x[2], Shown(x[2])}

(* Every name that is announced is in the end in everybody's table for     *)
(* good, also after a restart, as long as there are no more names than     *)
(* entries.                                                                *)
AllListed ==
  <>[](\A q \in Users, p \in Peers :
         \E k \in DOMAIN g_friends[q] : g_friends[q][k].name = Name(Nick[p]))
=============================================================================
