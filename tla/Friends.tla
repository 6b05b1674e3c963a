------------------------------ MODULE Friends ------------------------------
(***************************************************************************)
(* The friend table g_friends and its only writer, the receive thread:     *)
(* recv_broadcast_data (receive_thread.c) parses an ID packet and hands it *)
(* to push_g_friends (ui.c).  The main thread reads the table without      *)
(* g_friends_lock, so the copy of a new entry is not atomic for it: the    *)
(* fields appear one by one, in the order the memcpy happens to store      *)
(* them, an address perhaps in two pieces, and the length last.            *)
(*                                                                         *)
(* g_friends_lock has no variable: only this thread ever takes it, so it   *)
(* is held exactly while rpc is between "push" and "grow".                 *)
(***************************************************************************)
EXTENDS Integers

CONSTANTS
  N,              \* the number of slots of g_friends, ui.h's N
  Announcements,  \* what parsing an ID packet can leave in friend_info_local,
                  \* its uninitialised fields after a parse error included
  Blank,          \* the empty string: a field nothing was copied into
  Partial         \* an address of which only the first bytes are there

ASSUME NAssumption == N \in Nat \ {0}
ASSUME PartialAssumption ==
  Blank # Partial /\ \A f \in Announcements : f.name # Partial /\ f.ip # Partial
ASSUME AnnouncementsAssumption ==
  \A f \in Announcements : f = [name |-> f.name, ip |-> f.ip]

Entries == 0 .. N - 1
Names == {f.name : f \in Announcements}
Ips == {f.ip : f \in Announcements}
BlankEntry == [name |-> Blank, ip |-> Blank]

VARIABLES
  g_friends,
  g_friends_len,
  rpc,               \* what the receive thread does next
  friend_info_local  \* the announcement it is handling

friendVars == <<g_friends, g_friends_len, rpc, friend_info_local>>

FriendsInit ==
  /\ g_friends = [s \in Entries |-> BlankEntry]
  /\ g_friends_len = 0
  /\ rpc = "recv"
  /\ friend_info_local = BlankEntry

Listed == {s \in Entries : s < g_friends_len}

(* The result of process_broadcast_data is ignored: an ID packet that does *)
(* not parse is pushed with whatever the local holds.                      *)
RecvBroadcast(f) ==
  /\ rpc = "recv" /\ rpc' = "push"
  /\ friend_info_local' = f
  /\ UNCHANGED <<g_friends, g_friends_len>>

(* The capacity is tested before the names: in a full table a known friend *)
(* is an error too.                                                        *)
PushFull ==
  /\ rpc = "push" /\ g_friends_len >= N
  /\ rpc' = "recv"
  /\ UNCHANGED <<g_friends, g_friends_len, friend_info_local>>

(* Faulty: a known friend's entry follows its latest address. *)
PushKnownUpdates ==
  /\ rpc = "push" /\ g_friends_len < N
  /\ \E s \in Listed :
       /\ g_friends[s].name = friend_info_local.name
       /\ g_friends' = [g_friends EXCEPT ![s] = friend_info_local]
  /\ rpc' = "recv"
  /\ UNCHANGED <<g_friends_len, friend_info_local>>

(* A friend is its name: a second address for it is not stored. *)
PushKnown ==
  /\ rpc = "push" /\ g_friends_len < N
  /\ \E s \in Listed : g_friends[s].name = friend_info_local.name
  /\ rpc' = "recv"
  /\ UNCHANGED <<g_friends, g_friends_len, friend_info_local>>

(* Faulty: the scan leaves out the last entry. *)
PushNewShortScan ==
  /\ rpc = "push" /\ g_friends_len < N
  /\ \A s \in Listed \ {g_friends_len - 1} :
       g_friends[s].name # friend_info_local.name
  /\ rpc' = "copy"
  /\ UNCHANGED <<g_friends, g_friends_len, friend_info_local>>

(* Faulty: a full table takes one more. *)
PushNewOffByOne ==
  /\ rpc = "push" /\ g_friends_len <= N
  /\ \A s \in Listed : g_friends[s].name # friend_info_local.name
  /\ rpc' = "copy"
  /\ UNCHANGED <<g_friends, g_friends_len, friend_info_local>>

PushNew ==
  /\ rpc = "push" /\ g_friends_len < N
  /\ \A s \in Listed : g_friends[s].name # friend_info_local.name
  /\ rpc' = "copy"
  /\ UNCHANGED <<g_friends, g_friends_len, friend_info_local>>

New == g_friends[g_friends_len]

CopyName ==
  /\ rpc = "copy" /\ New.name # friend_info_local.name
  /\ g_friends' = [g_friends EXCEPT ![g_friends_len].name = friend_info_local.name]
  /\ UNCHANGED <<g_friends_len, rpc, friend_info_local>>

CopyIp ==
  /\ rpc = "copy" /\ New.ip # friend_info_local.ip
  /\ \E bytes \in {friend_info_local.ip, Partial} \ {New.ip} :
       g_friends' = [g_friends EXCEPT ![g_friends_len].ip = bytes]
  /\ UNCHANGED <<g_friends_len, rpc, friend_info_local>>

(* Faulty: the length grows before the entry is there. *)
GrowEarly ==
  /\ rpc = "copy"
  /\ g_friends_len' = g_friends_len + 1
  /\ rpc' = "recv"
  /\ UNCHANGED <<g_friends, friend_info_local>>

GrowFriends ==
  /\ rpc = "copy" /\ New = friend_info_local
  /\ g_friends_len' = g_friends_len + 1
  /\ rpc' = "recv"
  /\ UNCHANGED <<g_friends, friend_info_local>>

PushStep == PushFull \/ PushKnown \/ PushNew \/ CopyName \/ CopyIp \/ GrowFriends

ReceiveStep == PushStep \/ \E f \in Announcements : RecvBroadcast(f)

-----------------------------------------------------------------------------
(* A friend occupies one entry: the main thread's index stands for one     *)
(* nickname, however often and from however many addresses it announces    *)
(* itself.                                                                 *)
NamesUnique ==
  \A r, s \in Listed : g_friends[r].name = g_friends[s].name => r = s

(* What send_chat's comment relies on (a friend is never removed): once an *)
(* index passed the check it stays valid, and its entry never changes, so  *)
(* the three unlocked reads of one send agree.                             *)
AppendOnly ==
  [][ /\ g_friends_len' >= g_friends_len
      /\ \A s \in Listed : g_friends'[s] = g_friends[s] ]_friendVars
=============================================================================
