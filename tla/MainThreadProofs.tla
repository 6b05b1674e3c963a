-------------------------- MODULE MainThreadProofs --------------------------
(***************************************************************************)
(* Proofs about MainThread and Friends, for tables, label sets, texts and  *)
(* announcements of any size.  IInv adds to the properties what each       *)
(* thread relies on between its steps: the receive thread, that the name   *)
(* it is copying is new; the main thread, what it has read so far.         *)
(***************************************************************************)
EXTENDS MainThread, TLAPS

Sending == {"name", "ip", "dest", "sendto", "record", "clear"}

(* Listed entries are announcements received whole, one for each name.     *)
TableInv ==
  /\ NamesUnique
  /\ \A s \in Listed : g_friends[s] \in Announcements
  /\ rpc # "recv" => friend_info_local \in Announcements
  /\ rpc = "copy" =>
       /\ g_friends_len < N
       /\ \A s \in Listed : g_friends[s].name # friend_info_local.name

(* When a send is pending or under way, and what the counters then say.    *)
PhaseInv ==
  /\ is_press_cr => ~is_press_S /\ g_bRunning /\ input_model = ORDER_MODEL
  /\ mpc = "key" => ~is_press_cr
  /\ mpc \in Sending => is_press_cr /\ friend_now # NULL_FRIEND
  /\ own = IF mpc = "record" THEN sent - 1 ELSE sent

(* What send_chat has read of a friend that was in the table is still so.  *)
PacketInv ==
  /\ mpc \in {"dest", "sendto", "record", "clear"} => packet.text = buf_input
  /\ mpc \in Sending /\ known =>
       /\ Index \in Listed
       /\ mpc # "name" => packet.name = g_friends[Index].name
       /\ mpc \in {"dest", "sendto"} => packet.ip = g_friends[Index].ip
       /\ mpc = "sendto" => dest = g_friends[Index].ip

IInv == TypeOK /\ TableInv /\ PhaseInv /\ PacketInv

-----------------------------------------------------------------------------
(* Every label stands for an entry of the array, the one past the length   *)
(* included.                                                               *)
LEMMA IndexInArray ==
  ASSUME TypeOK, friend_now # NULL_FRIEND
  PROVE  Index \in Entries
BY NAssumption, LabelsAssumption DEF TypeOK, Index, Entries, NULL_FRIEND

(* An announcement fits into an entry of the table. *)
LEMMA AnnouncementTypes ==
  ASSUME NEW f \in Announcements
  PROVE  f \in TableFields /\ f.name \in Names /\ f.ip \in Ips
BY AnnouncementsAssumption DEF TableFields, Names, Ips

(* The packet before any is built has the type of a packet. *)
LEMMA NoPacketTypes ==
  NoPacket \in [name : Names \union {Blank}, ip : Ips \union {Blank, Partial},
               text : 0 .. CHAT_INPUT_LEN]
BY LengthAssumption DEF NoPacket

(* Receiving an ID packet changes no entry. *)
LEMMA RecvBroadcastStep ==
  ASSUME IInv, NEW f \in Announcements, RecvBroadcast(f), UNCHANGED mainVars
  PROVE  IInv'
<1> USE NAssumption, LabelsAssumption, LengthAssumption, MaxSentAssumption
    DEF IInv, Entries, Listed, NULL_FRIEND, INPUT_MODEL, ORDER_MODEL, Sending
<1>1. TypeOK'
  BY DEF RecvBroadcast, mainVars, keyVars, sendVars, TypeOK, Fields
<1>2. TableInv'
  BY DEF RecvBroadcast, mainVars, keyVars, sendVars, TypeOK, TableInv, NamesUnique
<1>3. PhaseInv'
  BY DEF RecvBroadcast, mainVars, keyVars, sendVars, TypeOK, PhaseInv
<1>4. PacketInv'
  BY DEF RecvBroadcast, mainVars, keyVars, sendVars, TypeOK, PhaseInv, PacketInv, Index
<1> QED BY <1>1, <1>2, <1>3, <1>4

(* A full table refuses without a change. *)
LEMMA PushFullStep ==
  ASSUME IInv, PushFull, UNCHANGED mainVars
  PROVE  IInv'
<1> USE NAssumption, LabelsAssumption, LengthAssumption, MaxSentAssumption
    DEF IInv, Entries, Listed, NULL_FRIEND, INPUT_MODEL, ORDER_MODEL, Sending
<1>1. TypeOK'
  BY DEF PushFull, mainVars, keyVars, sendVars, TypeOK, TableFields, Fields
<1>2. TableInv'
  BY DEF PushFull, mainVars, keyVars, sendVars, TypeOK, TableInv, NamesUnique
<1>3. PhaseInv'
  BY DEF PushFull, mainVars, keyVars, sendVars, TypeOK, PhaseInv
<1>4. PacketInv'
  BY DEF PushFull, mainVars, keyVars, sendVars, TypeOK, PhaseInv, PacketInv, Index
<1> QED BY <1>1, <1>2, <1>3, <1>4

(* A known name is not entered again. *)
LEMMA PushKnownStep ==
  ASSUME IInv, PushKnown, UNCHANGED mainVars
  PROVE  IInv'
<1> USE NAssumption, LabelsAssumption, LengthAssumption, MaxSentAssumption
    DEF IInv, Entries, Listed, NULL_FRIEND, INPUT_MODEL, ORDER_MODEL, Sending
<1>1. TypeOK'
  BY DEF PushKnown, mainVars, keyVars, sendVars, TypeOK, TableFields, Fields
<1>2. TableInv'
  BY DEF PushKnown, mainVars, keyVars, sendVars, TypeOK, TableInv, NamesUnique
<1>3. PhaseInv'
  BY DEF PushKnown, mainVars, keyVars, sendVars, TypeOK, PhaseInv
<1>4. PacketInv'
  BY DEF PushKnown, mainVars, keyVars, sendVars, TypeOK, PhaseInv, PacketInv, Index
<1> QED BY <1>1, <1>2, <1>3, <1>4

(* The scan shows that the name is new and that there is room. *)
LEMMA PushNewStep ==
  ASSUME IInv, PushNew, UNCHANGED mainVars
  PROVE  IInv'
<1> USE NAssumption, LabelsAssumption, LengthAssumption, MaxSentAssumption
    DEF IInv, Entries, Listed, NULL_FRIEND, INPUT_MODEL, ORDER_MODEL, Sending
<1>1. TypeOK'
  BY DEF PushNew, mainVars, keyVars, sendVars, TypeOK, TableFields, Fields
<1>2. TableInv'
  BY DEF PushNew, mainVars, keyVars, sendVars, TypeOK, TableInv, NamesUnique
<1>3. PhaseInv'
  BY DEF PushNew, mainVars, keyVars, sendVars, TypeOK, PhaseInv
<1>4. PacketInv'
  BY DEF PushNew, mainVars, keyVars, sendVars, TypeOK, PhaseInv, PacketInv, Index
<1> QED BY <1>1, <1>2, <1>3, <1>4

(* The name is written behind the listed entries. *)
LEMMA CopyNameStep ==
  ASSUME IInv, CopyName, UNCHANGED mainVars
  PROVE  IInv'
<1> USE NAssumption, LabelsAssumption, LengthAssumption, MaxSentAssumption
    DEF IInv, Entries, Listed, NULL_FRIEND, INPUT_MODEL, ORDER_MODEL, Sending
<1>1. TypeOK'
  <2>1. friend_info_local.name \in Names
    BY AnnouncementTypes DEF CopyName, TableInv
  <2> QED
    BY <2>1 DEF CopyName, mainVars, keyVars, sendVars, TypeOK, TableInv, TableFields
<1>2. TableInv'
  BY DEF CopyName, New, mainVars, keyVars, sendVars, TypeOK, TableInv, NamesUnique
<1>3. PhaseInv'
  BY DEF CopyName, New, mainVars, keyVars, sendVars, TypeOK, PhaseInv
<1>4. PacketInv'
  BY DEF CopyName, New, mainVars, keyVars, sendVars, TypeOK, PhaseInv, PacketInv, Index
<1> QED BY <1>1, <1>2, <1>3, <1>4

(* So is the address, in one piece or in two. *)
LEMMA CopyIpStep ==
  ASSUME IInv, CopyIp, UNCHANGED mainVars
  PROVE  IInv'
<1> USE NAssumption, LabelsAssumption, LengthAssumption, MaxSentAssumption
    DEF IInv, Entries, Listed, NULL_FRIEND, INPUT_MODEL, ORDER_MODEL, Sending
<1>1. TypeOK'
  <2>1. friend_info_local.ip \in Ips
    BY AnnouncementTypes DEF CopyIp, TableInv
  <2>2. PICK bytes \in Ips \union {Partial} :
          g_friends' = [g_friends EXCEPT ![g_friends_len].ip = bytes]
    BY <2>1 DEF CopyIp
  <2>3. g_friends' \in [Entries -> TableFields]
    BY <2>2 DEF TypeOK, TableFields
  <2> QED
    BY <2>3 DEF CopyIp, mainVars, keyVars, sendVars, TypeOK
<1>2. TableInv'
  BY DEF CopyIp, New, mainVars, keyVars, sendVars, TypeOK, TableInv, NamesUnique
<1>3. PhaseInv'
  BY DEF CopyIp, New, mainVars, keyVars, sendVars, TypeOK, PhaseInv
<1>4. PacketInv'
  BY DEF CopyIp, New, mainVars, keyVars, sendVars, TypeOK, PhaseInv, PacketInv, Index
<1> QED BY <1>1, <1>2, <1>3, <1>4

(* An entry is counted once it is whole, and it is the only one of its name. *)
LEMMA GrowFriendsStep ==
  ASSUME IInv, GrowFriends, UNCHANGED mainVars
  PROVE  IInv'
<1> USE NAssumption, LabelsAssumption, LengthAssumption, MaxSentAssumption
    DEF IInv, Entries, Listed, NULL_FRIEND, INPUT_MODEL, ORDER_MODEL, Sending
<1>1. TypeOK'
  BY DEF GrowFriends, New, mainVars, keyVars, sendVars, TypeOK, TableInv
<1>2. TableInv'
  BY DEF GrowFriends, New, mainVars, keyVars, sendVars, TypeOK, TableInv, NamesUnique
<1>3. PhaseInv'
  BY DEF GrowFriends, New, mainVars, keyVars, sendVars, TypeOK, PhaseInv
<1>4. PacketInv'
  BY DEF GrowFriends, New, mainVars, keyVars, sendVars, TypeOK, PhaseInv, PacketInv, Index
<1> QED BY <1>1, <1>2, <1>3, <1>4

(* Without a key the iteration goes on to the check. *)
LEMMA NoKeyStep ==
  ASSUME IInv, NoKey
  PROVE  IInv'
<1> USE NAssumption, LabelsAssumption, LengthAssumption, MaxSentAssumption
    DEF IInv, Entries, Listed, NULL_FRIEND, INPUT_MODEL, ORDER_MODEL, Sending
<1>1. TypeOK'
  BY DEF NoKey, GetKey, friendVars, keyVars, sendVars, TypeOK, TableFields, Fields
<1>2. TableInv'
  BY DEF NoKey, GetKey, friendVars, keyVars, sendVars, TypeOK, TableInv, NamesUnique
<1>3. PhaseInv'
  BY DEF NoKey, GetKey, friendVars, keyVars, sendVars, TypeOK, PhaseInv
<1>4. PacketInv'
  BY DEF NoKey, GetKey, friendVars, keyVars, sendVars, TypeOK, PhaseInv, PacketInv, Index
<1> QED BY <1>1, <1>2, <1>3, <1>4

(* Esc changes the mode only. *)
LEMMA EscStep ==
  ASSUME IInv, Esc
  PROVE  IInv'
<1> USE NAssumption, LabelsAssumption, LengthAssumption, MaxSentAssumption
    DEF IInv, Entries, Listed, NULL_FRIEND, INPUT_MODEL, ORDER_MODEL, Sending
<1>1. TypeOK'
  BY DEF Esc, GetKey, friendVars, keyVars, sendVars, TypeOK, TableFields, Fields
<1>2. TableInv'
  BY DEF Esc, GetKey, friendVars, keyVars, sendVars, TypeOK, TableInv, NamesUnique
<1>3. PhaseInv'
  BY DEF Esc, GetKey, friendVars, keyVars, sendVars, TypeOK, PhaseInv
<1>4. PacketInv'
  BY DEF Esc, GetKey, friendVars, keyVars, sendVars, TypeOK, PhaseInv, PacketInv, Index
<1> QED BY <1>1, <1>2, <1>3, <1>4

(* Backspace stops at the empty text. *)
LEMMA BackspaceStep ==
  ASSUME IInv, Backspace
  PROVE  IInv'
<1> USE NAssumption, LabelsAssumption, LengthAssumption, MaxSentAssumption
    DEF IInv, Entries, Listed, NULL_FRIEND, INPUT_MODEL, ORDER_MODEL, Sending
<1>1. TypeOK'
  BY DEF Backspace, GetKey, friendVars, keyVars, sendVars, TypeOK, TableFields, Fields
<1>2. TableInv'
  BY DEF Backspace, GetKey, friendVars, keyVars, sendVars, TypeOK, TableInv, NamesUnique
<1>3. PhaseInv'
  BY DEF Backspace, GetKey, friendVars, keyVars, sendVars, TypeOK, PhaseInv
<1>4. PacketInv'
  BY DEF Backspace, GetKey, friendVars, keyVars, sendVars, TypeOK, PhaseInv, PacketInv, Index
<1> QED BY <1>1, <1>2, <1>3, <1>4

(* Typing stops at CHAT_INPUT_LEN. *)
LEMMA TypeStep ==
  ASSUME IInv, Type
  PROVE  IInv'
<1> USE NAssumption, LabelsAssumption, LengthAssumption, MaxSentAssumption
    DEF IInv, Entries, Listed, NULL_FRIEND, INPUT_MODEL, ORDER_MODEL, Sending
<1>1. TypeOK'
  BY DEF Type, GetKey, friendVars, keyVars, sendVars, TypeOK, TableFields, Fields
<1>2. TableInv'
  BY DEF Type, GetKey, friendVars, keyVars, sendVars, TypeOK, TableInv, NamesUnique
<1>3. PhaseInv'
  BY DEF Type, GetKey, friendVars, keyVars, sendVars, TypeOK, PhaseInv
<1>4. PacketInv'
  BY DEF Type, GetKey, friendVars, keyVars, sendVars, TypeOK, PhaseInv, PacketInv, Index
<1> QED BY <1>1, <1>2, <1>3, <1>4

(* 's' arms; no Enter is pending when a key is read. *)
LEMMA PressSStep ==
  ASSUME IInv, PressS
  PROVE  IInv'
<1> USE NAssumption, LabelsAssumption, LengthAssumption, MaxSentAssumption
    DEF IInv, Entries, Listed, NULL_FRIEND, INPUT_MODEL, ORDER_MODEL, Sending
<1>1. TypeOK'
  BY DEF PressS, GetKey, friendVars, keyVars, sendVars, TypeOK, TableFields, Fields
<1>2. TableInv'
  BY DEF PressS, GetKey, friendVars, keyVars, sendVars, TypeOK, TableInv, NamesUnique
<1>3. PhaseInv'
  BY DEF PressS, GetKey, friendVars, keyVars, sendVars, TypeOK, PhaseInv
<1>4. PacketInv'
  BY DEF PressS, GetKey, friendVars, keyVars, sendVars, TypeOK, PhaseInv, PacketInv, Index
<1> QED BY <1>1, <1>2, <1>3, <1>4

(* 'i' changes the mode only. *)
LEMMA PressIStep ==
  ASSUME IInv, PressI
  PROVE  IInv'
<1> USE NAssumption, LabelsAssumption, LengthAssumption, MaxSentAssumption
    DEF IInv, Entries, Listed, NULL_FRIEND, INPUT_MODEL, ORDER_MODEL, Sending
<1>1. TypeOK'
  BY DEF PressI, GetKey, friendVars, keyVars, sendVars, TypeOK, TableFields, Fields
<1>2. TableInv'
  BY DEF PressI, GetKey, friendVars, keyVars, sendVars, TypeOK, TableInv, NamesUnique
<1>3. PhaseInv'
  BY DEF PressI, GetKey, friendVars, keyVars, sendVars, TypeOK, PhaseInv
<1>4. PacketInv'
  BY DEF PressI, GetKey, friendVars, keyVars, sendVars, TypeOK, PhaseInv, PacketInv, Index
<1> QED BY <1>1, <1>2, <1>3, <1>4

(* 'q' is read when no Enter is pending. *)
LEMMA PressQStep ==
  ASSUME IInv, PressQ
  PROVE  IInv'
<1> USE NAssumption, LabelsAssumption, LengthAssumption, MaxSentAssumption
    DEF IInv, Entries, Listed, NULL_FRIEND, INPUT_MODEL, ORDER_MODEL, Sending
<1>1. TypeOK'
  BY DEF PressQ, GetKey, friendVars, keyVars, sendVars, TypeOK, TableFields, Fields
<1>2. TableInv'
  BY DEF PressQ, GetKey, friendVars, keyVars, sendVars, TypeOK, TableInv, NamesUnique
<1>3. PhaseInv'
  BY DEF PressQ, GetKey, friendVars, keyVars, sendVars, TypeOK, PhaseInv
<1>4. PacketInv'
  BY DEF PressQ, GetKey, friendVars, keyVars, sendVars, TypeOK, PhaseInv, PacketInv, Index
<1> QED BY <1>1, <1>2, <1>3, <1>4

(* Enter disarms as it becomes pending. *)
LEMMA PressEnterStep ==
  ASSUME IInv, PressEnter
  PROVE  IInv'
<1> USE NAssumption, LabelsAssumption, LengthAssumption, MaxSentAssumption
    DEF IInv, Entries, Listed, NULL_FRIEND, INPUT_MODEL, ORDER_MODEL, Sending
<1>1. TypeOK'
  BY DEF PressEnter, GetKey, friendVars, keyVars, sendVars, TypeOK, TableFields, Fields
<1>2. TableInv'
  BY DEF PressEnter, GetKey, friendVars, keyVars, sendVars, TypeOK, TableInv, NamesUnique
<1>3. PhaseInv'
  BY DEF PressEnter, GetKey, friendVars, keyVars, sendVars, TypeOK, PhaseInv
<1>4. PacketInv'
  BY DEF PressEnter, GetKey, friendVars, keyVars, sendVars, TypeOK, PhaseInv, PacketInv, Index
<1> QED BY <1>1, <1>2, <1>3, <1>4

(* A digit or letter selects a label that exists, or none. *)
LEMMA SelectStep ==
  ASSUME IInv, NEW label \in 0 .. Labels - 1, Select(label)
  PROVE  IInv'
<1> USE NAssumption, LabelsAssumption, LengthAssumption, MaxSentAssumption
    DEF IInv, Entries, Listed, NULL_FRIEND, INPUT_MODEL, ORDER_MODEL, Sending
<1>1. TypeOK'
  BY DEF Select, GetKey, friendVars, keyVars, sendVars, TypeOK, TableFields, Fields
<1>2. TableInv'
  BY DEF Select, GetKey, friendVars, keyVars, sendVars, TypeOK, TableInv, NamesUnique
<1>3. PhaseInv'
  BY DEF Select, GetKey, friendVars, keyVars, sendVars, TypeOK, PhaseInv
<1>4. PacketInv'
  BY DEF Select, GetKey, friendVars, keyVars, sendVars, TypeOK, PhaseInv, PacketInv, Index
<1> QED BY <1>1, <1>2, <1>3, <1>4

(* Every refusal consumes the Enter. *)
LEMMA RefuseStep ==
  ASSUME IInv, Refuse
  PROVE  IInv'
<1> USE NAssumption, LabelsAssumption, LengthAssumption, MaxSentAssumption
    DEF IInv, Entries, Listed, NULL_FRIEND, INPUT_MODEL, ORDER_MODEL, Sending
<1>1. TypeOK'
  BY DEF Refuse, friendVars, keyVars, sendVars, TypeOK, TableFields, Fields
<1>2. TableInv'
  BY DEF Refuse, friendVars, keyVars, sendVars, TypeOK, TableInv, NamesUnique
<1>3. PhaseInv'
  BY DEF Refuse, friendVars, keyVars, sendVars, TypeOK, PhaseInv
<1>4. PacketInv'
  BY DEF Refuse, friendVars, keyVars, sendVars, TypeOK, PhaseInv, PacketInv, Index
<1> QED BY <1>1, <1>2, <1>3, <1>4

(* A send starts with a friend selected; known says if it is listed. *)
LEMMA AcceptStep ==
  ASSUME IInv, Accept
  PROVE  IInv'
<1> USE NAssumption, LabelsAssumption, LengthAssumption, MaxSentAssumption
    DEF IInv, Entries, Listed, NULL_FRIEND, INPUT_MODEL, ORDER_MODEL, Sending
<1>1. TypeOK'
  BY DEF Accept, friendVars, keyVars, sendVars, TypeOK, TableFields, Fields
<1>2. TableInv'
  BY DEF Accept, friendVars, keyVars, sendVars, TypeOK, TableInv, NamesUnique
<1>3. PhaseInv'
  BY DEF Accept, friendVars, keyVars, sendVars, TypeOK, PhaseInv
<1>4. PacketInv'
  BY DEF Accept, friendVars, keyVars, sendVars, TypeOK, PhaseInv, PacketInv, Index
<1> QED BY <1>1, <1>2, <1>3, <1>4

(* The name read of a listed friend is its own. *)
LEMMA ReadNameStep ==
  ASSUME IInv, ReadName
  PROVE  IInv'
<1> USE NAssumption, LabelsAssumption, LengthAssumption, MaxSentAssumption
    DEF IInv, Entries, Listed, NULL_FRIEND, INPUT_MODEL, ORDER_MODEL, Sending
<1>1. TypeOK'
  <2>1. g_friends[Index] \in TableFields
    BY IndexInArray DEF ReadName, PhaseInv, TypeOK
  <2> QED
    BY <2>1 DEF ReadName, friendVars, keyVars, TypeOK, TableFields
<1>2. TableInv'
  BY DEF ReadName, friendVars, keyVars, sendVars, TypeOK, TableInv, NamesUnique
<1>3. PhaseInv'
  BY DEF ReadName, friendVars, keyVars, sendVars, TypeOK, PhaseInv
<1>4. PacketInv'
  BY DEF ReadName, friendVars, keyVars, sendVars, TypeOK, PhaseInv, PacketInv, Index
<1> QED BY <1>1, <1>2, <1>3, <1>4

(* So is the address put into the packet. *)
LEMMA ReadIpStep ==
  ASSUME IInv, ReadIp
  PROVE  IInv'
<1> USE NAssumption, LabelsAssumption, LengthAssumption, MaxSentAssumption
    DEF IInv, Entries, Listed, NULL_FRIEND, INPUT_MODEL, ORDER_MODEL, Sending
<1>1. TypeOK'
  <2>1. g_friends[Index] \in TableFields
    BY IndexInArray DEF ReadIp, PhaseInv, TypeOK
  <2> QED
    BY <2>1 DEF ReadIp, friendVars, keyVars, TypeOK, TableFields
<1>2. TableInv'
  BY DEF ReadIp, friendVars, keyVars, sendVars, TypeOK, TableInv, NamesUnique
<1>3. PhaseInv'
  BY DEF ReadIp, friendVars, keyVars, sendVars, TypeOK, PhaseInv
<1>4. PacketInv'
  BY DEF ReadIp, friendVars, keyVars, sendVars, TypeOK, PhaseInv, PacketInv, Index
<1> QED BY <1>1, <1>2, <1>3, <1>4

(* And the address the packet is sent to. *)
LEMMA ReadDestStep ==
  ASSUME IInv, ReadDest
  PROVE  IInv'
<1> USE NAssumption, LabelsAssumption, LengthAssumption, MaxSentAssumption
    DEF IInv, Entries, Listed, NULL_FRIEND, INPUT_MODEL, ORDER_MODEL, Sending
<1>1. TypeOK'
  <2>1. g_friends[Index] \in TableFields
    BY IndexInArray DEF ReadDest, PhaseInv, TypeOK
  <2> QED
    BY <2>1 DEF ReadDest, friendVars, keyVars, TypeOK, TableFields
<1>2. TableInv'
  BY DEF ReadDest, friendVars, keyVars, sendVars, TypeOK, TableInv, NamesUnique
<1>3. PhaseInv'
  BY DEF ReadDest, friendVars, keyVars, sendVars, TypeOK, PhaseInv
<1>4. PacketInv'
  BY DEF ReadDest, friendVars, keyVars, sendVars, TypeOK, PhaseInv, PacketInv, Index
<1> QED BY <1>1, <1>2, <1>3, <1>4

(* A packet that left is counted before it is recorded. *)
LEMMA SendOkStep ==
  ASSUME IInv, SendOk
  PROVE  IInv'
<1> USE NAssumption, LabelsAssumption, LengthAssumption, MaxSentAssumption
    DEF IInv, Entries, Listed, NULL_FRIEND, INPUT_MODEL, ORDER_MODEL, Sending
<1>1. TypeOK'
  BY DEF SendOk, friendVars, keyVars, sendVars, TypeOK, TableFields, Fields
<1>2. TableInv'
  BY DEF SendOk, friendVars, keyVars, sendVars, TypeOK, TableInv, NamesUnique
<1>3. PhaseInv'
  BY DEF SendOk, friendVars, keyVars, sendVars, TypeOK, PhaseInv
<1>4. PacketInv'
  BY DEF SendOk, friendVars, keyVars, sendVars, TypeOK, PhaseInv, PacketInv, Index
<1> QED BY <1>1, <1>2, <1>3, <1>4

(* A failed send ends with nothing to record. *)
LEMMA SendFailsStep ==
  ASSUME IInv, SendFails
  PROVE  IInv'
<1> USE NAssumption, LabelsAssumption, LengthAssumption, MaxSentAssumption
    DEF IInv, Entries, Listed, NULL_FRIEND, INPUT_MODEL, ORDER_MODEL, Sending
<1>1. TypeOK'
  BY NoPacketTypes DEF SendFails, Return, friendVars, keyVars, sendVars, TypeOK
<1>2. TableInv'
  BY DEF SendFails, Return, NoPacket, friendVars, keyVars, sendVars, TypeOK, TableInv, NamesUnique
<1>3. PhaseInv'
  BY DEF SendFails, Return, NoPacket, friendVars, keyVars, sendVars, TypeOK, PhaseInv
<1>4. PacketInv'
  BY DEF SendFails, Return, NoPacket, friendVars, keyVars, sendVars, TypeOK, PhaseInv, PacketInv, Index
<1> QED BY <1>1, <1>2, <1>3, <1>4

(* The record makes up for the packet that left. *)
LEMMA RecordStep ==
  ASSUME IInv, Record
  PROVE  IInv'
<1> USE NAssumption, LabelsAssumption, LengthAssumption, MaxSentAssumption
    DEF IInv, Entries, Listed, NULL_FRIEND, INPUT_MODEL, ORDER_MODEL, Sending
<1>1. TypeOK'
  BY DEF Record, friendVars, keyVars, TypeOK, PhaseInv
<1>2. TableInv'
  BY DEF Record, friendVars, keyVars, sendVars, TypeOK, TableInv, NamesUnique
<1>3. PhaseInv'
  BY DEF Record, friendVars, keyVars, sendVars, TypeOK, PhaseInv
<1>4. PacketInv'
  BY DEF Record, friendVars, keyVars, sendVars, TypeOK, PhaseInv, PacketInv, Index
<1> QED BY <1>1, <1>2, <1>3, <1>4

(* A completed send ends with an empty text and no Enter pending. *)
LEMMA ClearInputStep ==
  ASSUME IInv, ClearInput
  PROVE  IInv'
<1> USE NAssumption, LabelsAssumption, LengthAssumption, MaxSentAssumption
    DEF IInv, Entries, Listed, NULL_FRIEND, INPUT_MODEL, ORDER_MODEL, Sending
<1>1. TypeOK'
  <2>1. buf_input' \in 0 .. CHAT_INPUT_LEN
    BY DEF ClearInput
  <2> QED
    BY <2>1, NoPacketTypes DEF ClearInput, Return, friendVars, keyVars, TypeOK
<1>2. TableInv'
  BY DEF ClearInput, Return, NoPacket, friendVars, keyVars, sendVars, TypeOK, TableInv, NamesUnique
<1>3. PhaseInv'
  BY DEF ClearInput, Return, NoPacket, friendVars, keyVars, sendVars, TypeOK, PhaseInv
<1>4. PacketInv'
  BY DEF ClearInput, Return, NoPacket, friendVars, keyVars, sendVars, TypeOK, PhaseInv, PacketInv, Index
<1> QED BY <1>1, <1>2, <1>3, <1>4

(* The empty table and the initial flags satisfy the invariant. *)
LEMMA InitIInv == Init => IInv
<1> SUFFICES ASSUME Init PROVE IInv
  OBVIOUS
<1> USE NAssumption, LabelsAssumption, LengthAssumption, MaxSentAssumption
    DEF Init, FriendsInit, Entries, Listed, NULL_FRIEND, INPUT_MODEL, ORDER_MODEL, Sending,
        BlankEntry
<1>1. TypeOK
  <2>1. g_friends \in [Entries -> TableFields] /\ friend_info_local \in Fields
    BY DEF TableFields, Fields
  <2>2. buf_input \in 0 .. CHAT_INPUT_LEN /\ sent \in 0 .. MaxSent /\ own \in 0 .. MaxSent
    OBVIOUS
  <2>3. /\ g_friends_len \in 0 .. N /\ friend_now \in 0 .. Labels - 1 \union {NULL_FRIEND}
        /\ dest \in Ips \union {Blank, Partial}
    OBVIOUS
  <2>4. /\ is_press_S \in BOOLEAN /\ is_press_cr \in BOOLEAN
        /\ g_bRunning \in BOOLEAN /\ known \in BOOLEAN
    BY Zenon
  <2>5. /\ input_model \in {INPUT_MODEL, ORDER_MODEL}
        /\ rpc \in {"recv", "push", "copy"}
        /\ mpc \in {"key", "check", "name", "ip", "dest", "sendto", "record", "clear"}
    OBVIOUS
  <2>6. packet = NoPacket
    OBVIOUS
  <2> HIDE DEF Init, FriendsInit
  <2> QED
    BY <2>1, <2>2, <2>3, <2>4, <2>5, <2>6, NoPacketTypes DEF TypeOK
<1>2. TableInv
  BY DEF TableInv, NamesUnique
<1>3. PhaseInv /\ PacketInv
  BY DEF NoPacket, PhaseInv, PacketInv
<1> QED BY <1>1, <1>2, <1>3 DEF IInv

(* The invariant depends on the variables alone. *)
LEMMA StutterStep ==
  ASSUME IInv, UNCHANGED vars
  PROVE  IInv'
BY DEF IInv, vars, friendVars, mainVars, keyVars, sendVars, TypeOK, TableInv, PhaseInv,
       PacketInv, NamesUnique, Listed, Index

(* The step of one thread, the other, or neither, preserves IInv. *)
LEMMA NextStep ==
  ASSUME IInv, [Next]_vars
  PROVE  IInv'
<1>1. CASE UNCHANGED vars \/ Stopped
  BY <1>1, StutterStep DEF Stopped
<1>2. CASE Key
  BY <1>2, NoKeyStep, EscStep, BackspaceStep, TypeStep, PressSStep, PressIStep,
     PressQStep, PressEnterStep, SelectStep DEF Key
<1>3. CASE SendStep
  BY <1>3, RefuseStep, AcceptStep, ReadNameStep, ReadIpStep, ReadDestStep, SendOkStep,
     SendFailsStep, RecordStep, ClearInputStep DEF SendStep
<1>4. CASE Receiver
  BY <1>4, RecvBroadcastStep, PushFullStep, PushKnownStep, PushNewStep, CopyNameStep,
     CopyIpStep, GrowFriendsStep DEF Receiver, ReceiveStep, PushStep
<1> QED BY <1>1, <1>2, <1>3, <1>4 DEF Next

-----------------------------------------------------------------------------
(* IInv holds in every reachable state, whatever the constants are.        *)
THEOREM Invariance == Spec => []IInv
BY InitIInv, NextStep, PTL DEF Spec

(* Every variable keeps its type: in particular neither the text nor the   *)
(* friend table outgrows its array.                                        *)
THEOREM TypeCorrect == Spec => []TypeOK
BY Invariance, PTL DEF IInv

(* No nickname is listed twice, whatever is announced and in what order.   *)
THEOREM NamesCorrect == Spec => []NamesUnique
BY Invariance, PTL DEF IInv, TableInv

(* The unlocked reads of one send agree for a friend that was listed, at   *)
(* whatever moments the receive thread adds others.                        *)
THEOREM PacketCorrect == Spec => []KnownFriendGetsIt
<1>1. IInv => KnownFriendGetsIt
  <2> SUFFICES ASSUME IInv, mpc = "sendto", known
               PROVE  /\ packet = [name |-> g_friends[Index].name, ip |-> dest,
                                   text |-> buf_input]
                      /\ dest = g_friends[Index].ip
                      /\ [name |-> packet.name, ip |-> dest] \in Fields
    BY DEF KnownFriendGetsIt
  <2>1. Index \in Listed /\ packet.text = buf_input
    BY DEF IInv, PacketInv, Sending
  <2>2. /\ packet.name = g_friends[Index].name
        /\ packet.ip = g_friends[Index].ip
        /\ dest = g_friends[Index].ip
    BY DEF IInv, PacketInv, Sending
  <2>3. g_friends[Index] \in Announcements
    BY <2>1 DEF IInv, TableInv
  <2>4. g_friends[Index] = [name |-> packet.name, ip |-> dest]
    BY <2>2, <2>3, AnnouncementsAssumption
  <2>5. packet = [name |-> packet.name, ip |-> packet.ip, text |-> packet.text]
    BY DEF IInv, TypeOK
  <2> QED BY <2>1, <2>2, <2>3, <2>4, <2>5 DEF Fields
<1> QED BY <1>1, Invariance, PTL

(* No Enter is still pending when the user quits.                          *)
THEOREM QuitCorrect == Spec => []QuitSendsNothing
<1>1. IInv => QuitSendsNothing
  BY DEF IInv, TypeOK, PhaseInv, QuitSendsNothing, Sending
<1> QED BY <1>1, Invariance, PTL

(* A valid index stays valid and keeps its entry.                          *)
THEOREM TableCorrect == Spec => AppendOnly
<1> DEFINE Kept == /\ g_friends_len' >= g_friends_len
                   /\ \A s \in Listed : g_friends'[s] = g_friends[s]
<1>1. ASSUME IInv, [Next]_vars PROVE [Kept]_friendVars
  <2> USE <1>1, NAssumption DEF Listed, Entries
  <2>1. CASE UNCHANGED vars \/ Stopped \/ Key \/ SendStep
    BY <2>1 DEF vars, Stopped, Key, GetKey, NoKey, Esc, Backspace, Type, PressS, PressI,
       PressQ, PressEnter, Select, SendStep, Refuse, Accept, ReadName, ReadIp, ReadDest,
       SendOk, SendFails, Record, ClearInput, Return
  <2>2. CASE CopyName \/ CopyIp
    BY <2>2 DEF CopyName, CopyIp, IInv, TypeOK
  <2>3. CASE ReceiveStep /\ ~(CopyName \/ CopyIp)
    BY <2>3 DEF ReceiveStep, PushStep, RecvBroadcast, PushFull, PushKnown, PushNew,
       GrowFriends, IInv, TypeOK
  <2> QED BY <2>1, <2>2, <2>3 DEF Next, Receiver
<1> QED BY <1>1, Invariance, PTL DEF Spec, AppendOnly

(* Only Backspace, or a send that succeeded, takes text away.              *)
THEOREM TextCorrect == Spec => TextKept
<1> DEFINE Kept ==
      buf_input' < buf_input =>
        \/ mpc = "key" /\ input_model = INPUT_MODEL /\ buf_input' = buf_input - 1
        \/ mpc = "clear" /\ packet.text = buf_input
<1>1. ASSUME IInv, [Next]_vars PROVE [Kept]_vars
  <2> USE <1>1, LengthAssumption DEF IInv, TypeOK
  <2>1. CASE UNCHANGED vars \/ Stopped \/ Receiver
    BY <2>1 DEF vars, Stopped, Receiver, mainVars, keyVars
  <2>2. CASE Key
    BY <2>2 DEF Key, GetKey, NoKey, Esc, Backspace, Type, PressS, PressI, PressQ, PressEnter,
       Select, keyVars
  <2>3. CASE SendStep
    BY <2>3 DEF SendStep, Refuse, Accept, ReadName, ReadIp, ReadDest, SendOk, SendFails,
       Record, ClearInput, Return, keyVars, PacketInv
  <2> QED BY <2>1, <2>2, <2>3 DEF Next
<1> QED BY <1>1, Invariance, PTL DEF Spec, TextKept

(* Every step of the code is a step of the diagrams, or invisible to them. *)
THEOREM DiagramCorrect == Spec => Diagram!Safety
<1> USE DEF INPUT_MODEL, ORDER_MODEL
<1>1. Init => Diagram!Init
  BY DEF Init, Diagram!Init, Phase
<1>2. ASSUME IInv, [Next]_vars PROVE [Diagram!Next]_(Diagram!vars)
  <2> USE <1>2 DEF IInv, TypeOK, PhaseInv, Sending, Phase, Diagram!vars, Diagram!Next,
          Diagram!Counts, Diagram!Waiting
  <2>1. CASE UNCHANGED vars \/ Stopped \/ Receiver
    BY <2>1 DEF vars, mainVars, keyVars, sendVars, Stopped, Receiver
  <2>2. CASE Key
    <3> USE DEF GetKey, sendVars
    <3>1. CASE NoKey \/ Backspace \/ Type \/ PressQ \/ \E l \in 0 .. Labels - 1 : Select(l)
      BY <3>1 DEF NoKey, Backspace, Type, PressQ, Select, keyVars
    <3>2. CASE Esc
      BY <3>2 DEF Esc, Diagram!Esc
    <3>3. CASE PressI
      BY <3>3 DEF PressI, Diagram!Insert
    <3>4. CASE PressS
      BY <3>4 DEF PressS, Diagram!Arm
    <3>5. CASE PressEnter
      BY <3>5 DEF PressEnter, Diagram!Enter
    <3> QED BY <2>2, <3>1, <3>2, <3>3, <3>4, <3>5 DEF Key
  <2>3. CASE SendStep
    <3> USE DEF keyVars, sendVars
    <3>1. CASE Accept \/ ReadName \/ ReadIp \/ ReadDest
      BY <3>1 DEF Accept, ReadName, ReadIp, ReadDest
    <3>2. CASE Refuse
      BY <3>2 DEF Refuse, Diagram!Finish
    <3>3. CASE SendOk
      BY <3>3 DEF SendOk, Diagram!Transmit
    <3>4. CASE Record
      BY <3>4 DEF Record, Diagram!Record
    <3>5. CASE SendFails \/ ClearInput
      BY <3>5 DEF SendFails, ClearInput, Return, Diagram!Finish
    <3> QED BY <2>3, <3>1, <3>2, <3>3, <3>4, <3>5 DEF SendStep
  <2> QED BY <2>1, <2>2, <2>3 DEF Next
<1> QED BY <1>1, <1>2, Invariance, PTL DEF Spec, Diagram!Safety
=============================================================================
