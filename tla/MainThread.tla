----------------------------- MODULE MainThread -----------------------------
(***************************************************************************)
(* The main thread's loop (main_thread.c): one key is read and handled,    *)
(* then check_chat_need_send and send_chat run.  The friend table changes  *)
(* under it at every step (Friends): send_chat reads the name once and the *)
(* address twice, and takes no lock.                                       *)
(*                                                                         *)
(* A label is the position of its key in 0..9a..f.  Of the typed text only *)
(* the length is kept.  The push of the sent message and the refresh of S2 *)
(* are one step here; ChatLog takes them apart.  A key is what get_char    *)
(* returned (Keyboard says which key the user pressed that is).            *)
(***************************************************************************)
EXTENDS Friends

CONSTANTS
  Labels,          \* the number of keys that select a friend, 16 in the code
  Digits,          \* how many of them are decimal digits, 10 in the code
  CHAT_INPUT_LEN,
  MaxSent          \* bound of the model: messages the network accepts

ASSUME LabelsAssumption ==
  /\ Labels \in Nat /\ Digits \in Nat /\ Digits <= Labels
  /\ Digits <= N /\ Labels - Digits <= N
ASSUME LengthAssumption == CHAT_INPUT_LEN \in Nat
ASSUME MaxSentAssumption == MaxSent \in Nat

NULL_FRIEND == -1    \* 255 in the code: no label
INPUT_MODEL == "i"
ORDER_MODEL == "e"

VARIABLES
  mpc,           \* what the main thread does next
  friend_now,
  input_model,
  is_press_S,
  is_press_cr,
  buf_input,     \* the length of the text
  g_bRunning,
  known,         \* history: the checked index was below g_friends_len
  packet,        \* name, address and text of the chat packet being sent,
  dest,          \*   and the address it is sent to
  sent, own      \* history: packets sent, and own records pushed, so far

keyVars == <<friend_now, input_model, is_press_S, is_press_cr, buf_input, g_bRunning>>
sendVars == <<known, packet, dest, sent, own>>
mainVars == <<mpc, keyVars, sendVars>>
vars == <<friendVars, mainVars>>

NoPacket == [name |-> Blank, ip |-> Blank, text |-> 0]

Init ==
  /\ FriendsInit
  /\ mpc = "key"
  /\ friend_now = NULL_FRIEND /\ input_model = INPUT_MODEL
  /\ is_press_S = FALSE /\ is_press_cr = FALSE
  /\ buf_input = 0
  /\ g_bRunning = TRUE
  /\ known = FALSE /\ packet = NoPacket /\ dest = Blank
  /\ sent = 0 /\ own = 0

-----------------------------------------------------------------------------
(* process_keyboard_input: what each key does, then on to the check.       *)

GetKey(model) ==
  /\ mpc = "key" /\ g_bRunning
  /\ input_model = model
  /\ mpc' = "check"
  /\ UNCHANGED <<friendVars, sendVars>>

NoKey ==
  /\ \E model \in {INPUT_MODEL, ORDER_MODEL} : GetKey(model)
  /\ UNCHANGED keyVars

(* In command mode Esc sets the mode it is in. *)
Esc ==
  /\ \E model \in {INPUT_MODEL, ORDER_MODEL} : GetKey(model)
  /\ input_model' = ORDER_MODEL
  /\ UNCHANGED <<friend_now, is_press_S, is_press_cr, buf_input, g_bRunning>>

(* pop_buf_input and push_buf_input do nothing at the ends of the buffer. *)
Backspace ==
  /\ GetKey(INPUT_MODEL)
  /\ buf_input' = IF buf_input > 0 THEN buf_input - 1 ELSE 0
  /\ UNCHANGED <<friend_now, input_model, is_press_S, is_press_cr, g_bRunning>>

(* Faulty: the last byte, kept for the '\0', is written to. *)
TypeOverlong ==
  /\ GetKey(INPUT_MODEL)
  /\ buf_input' = IF buf_input <= CHAT_INPUT_LEN THEN buf_input + 1 ELSE buf_input
  /\ UNCHANGED <<friend_now, input_model, is_press_S, is_press_cr, g_bRunning>>

(* Every other key is text, Enter and the command letters included. *)
Type ==
  /\ GetKey(INPUT_MODEL)
  /\ buf_input' = IF buf_input < CHAT_INPUT_LEN THEN buf_input + 1 ELSE buf_input
  /\ UNCHANGED <<friend_now, input_model, is_press_S, is_press_cr, g_bRunning>>

Select(label) ==
  /\ GetKey(ORDER_MODEL)
  /\ friend_now' = IF label = friend_now THEN NULL_FRIEND ELSE label
  /\ UNCHANGED <<input_model, is_press_S, is_press_cr, buf_input, g_bRunning>>

PressS ==
  /\ GetKey(ORDER_MODEL)
  /\ is_press_S' = TRUE
  /\ UNCHANGED <<friend_now, input_model, is_press_cr, buf_input, g_bRunning>>

PressI ==
  /\ GetKey(ORDER_MODEL)
  /\ input_model' = INPUT_MODEL
  /\ UNCHANGED <<friend_now, is_press_S, is_press_cr, buf_input, g_bRunning>>

PressQ ==
  /\ GetKey(ORDER_MODEL)
  /\ g_bRunning' = FALSE
  /\ UNCHANGED <<friend_now, input_model, is_press_S, is_press_cr, buf_input>>

(* Faulty: Enter leaves the message armed. *)
PressEnterKeepsS ==
  /\ GetKey(ORDER_MODEL)
  /\ is_press_cr' = is_press_S
  /\ UNCHANGED <<friend_now, input_model, is_press_S, buf_input, g_bRunning>>

(* Enter without 's', like any unknown key, changes nothing. *)
PressEnter ==
  /\ GetKey(ORDER_MODEL)
  /\ IF is_press_S THEN is_press_cr' = TRUE /\ is_press_S' = FALSE
                   ELSE UNCHANGED <<is_press_cr, is_press_S>>
  /\ UNCHANGED <<friend_now, input_model, buf_input, g_bRunning>>

Key ==
  \/ NoKey \/ Esc \/ Backspace \/ Type
  \/ PressS \/ PressI \/ PressQ \/ PressEnter
  \/ \E label \in 0 .. Labels - 1 : Select(label)

-----------------------------------------------------------------------------
(* check_chat_need_send and send_chat.                                     *)

(* friend_now_hex: 'a'..'f' are counted from 0, like the digits.           *)
Index == IF friend_now < Digits THEN friend_now ELSE friend_now - Digits

(* Faulty: a refused send stays pending until a friend is selected. *)
RefuseLater ==
  /\ mpc = "check" /\ mpc' = "key"
  /\ \/ ~is_press_cr /\ UNCHANGED friend_now
     \/ is_press_cr /\ friend_now = NULL_FRIEND /\ UNCHANGED friend_now
     \/ /\ is_press_cr /\ friend_now # NULL_FRIEND /\ g_friends_len < Index
        /\ friend_now' = NULL_FRIEND
  /\ UNCHANGED <<friendVars, input_model, is_press_S, is_press_cr, buf_input,
                 g_bRunning, sendVars>>

Refuse ==
  /\ mpc = "check" /\ mpc' = "key"
  /\ \/ ~is_press_cr /\ UNCHANGED friend_now
     \/ is_press_cr /\ friend_now = NULL_FRIEND /\ UNCHANGED friend_now
     \/ /\ is_press_cr /\ friend_now # NULL_FRIEND /\ g_friends_len < Index
        /\ friend_now' = NULL_FRIEND
  /\ is_press_cr' = FALSE
  /\ UNCHANGED <<friendVars, input_model, is_press_S, buf_input, g_bRunning, sendVars>>

(* The test lets Index = g_friends_len pass. *)
Accept ==
  /\ mpc = "check" /\ mpc' = "name"
  /\ is_press_cr /\ friend_now # NULL_FRIEND /\ g_friends_len >= Index
  /\ known' = (Index < g_friends_len)
  /\ UNCHANGED <<friendVars, keyVars, packet, dest, sent, own>>

ReadName ==
  /\ mpc = "name" /\ mpc' = "ip"
  /\ packet' = [packet EXCEPT !.name = g_friends[Index].name]
  /\ UNCHANGED <<friendVars, keyVars, known, dest, sent, own>>

ReadIp ==
  /\ mpc = "ip" /\ mpc' = "dest"
  /\ packet' = [packet EXCEPT !.ip = g_friends[Index].ip, !.text = buf_input]
  /\ UNCHANGED <<friendVars, keyVars, known, dest, sent, own>>

ReadDest ==
  /\ mpc = "dest" /\ mpc' = "sendto"
  /\ dest' = g_friends[Index].ip
  /\ UNCHANGED <<friendVars, keyVars, known, packet, sent, own>>

(* The empty address becomes the broadcast address, which da_tx_s may not  *)
(* send to; an incomplete one may be another host's.                       *)
SendOk ==
  /\ mpc = "sendto" /\ mpc' = "record"
  /\ dest # Blank /\ sent < MaxSent
  /\ sent' = sent + 1
  /\ UNCHANGED <<friendVars, keyVars, known, packet, dest, own>>

(* send_chat returns: its locals are gone. *)
Return ==
  /\ mpc' = "key"
  /\ is_press_cr' = FALSE
  /\ known' = FALSE /\ packet' = NoPacket /\ dest' = Blank
  /\ UNCHANGED <<friendVars, friend_now, input_model, is_press_S, g_bRunning, sent, own>>

(* Faulty: the failure path clears the text as the other path does. *)
SendFailsAndClears == mpc = "sendto" /\ buf_input' = 0 /\ Return

SendFails == mpc = "sendto" /\ UNCHANGED buf_input /\ Return

Record ==
  /\ mpc = "record" /\ mpc' = "clear"
  /\ own' = own + 1
  /\ UNCHANGED <<friendVars, keyVars, known, packet, dest, sent>>

ClearInput == mpc = "clear" /\ buf_input' = 0 /\ Return

SendStep ==
  \/ Refuse \/ Accept \/ ReadName \/ ReadIp \/ ReadDest
  \/ SendOk \/ SendFails \/ Record \/ ClearInput

-----------------------------------------------------------------------------
Receiver == ReceiveStep /\ UNCHANGED mainVars

(* The user quit: the loop of main has ended. *)
Stopped == mpc = "key" /\ ~g_bRunning /\ UNCHANGED vars

Next == Key \/ SendStep \/ Receiver \/ Stopped

(* Nothing in check_chat_need_send or send_chat waits for the user or the  *)
(* network, so the scheduler alone carries them through.                   *)
Spec == Init /\ [][Next]_vars /\ WF_vars(SendStep)

-----------------------------------------------------------------------------
Fields == Announcements \union {BlankEntry}
TableFields ==
  [name : Names \union {Blank}, ip : Ips \union {Blank, Partial}]

(* Every variable has its type: the text never reaches the byte kept for   *)
(* its '\0', and the table's length never passes N.                        *)
TypeOK ==
  /\ g_friends \in [Entries -> TableFields]
  /\ g_friends_len \in 0 .. N
  /\ rpc \in {"recv", "push", "copy"}
  /\ friend_info_local \in Fields
  /\ mpc \in {"key", "check", "name", "ip", "dest", "sendto", "record", "clear"}
  /\ friend_now \in 0 .. Labels - 1 \union {NULL_FRIEND}
  /\ input_model \in {INPUT_MODEL, ORDER_MODEL}
  /\ is_press_S \in BOOLEAN /\ is_press_cr \in BOOLEAN
  /\ buf_input \in 0 .. CHAT_INPUT_LEN
  /\ g_bRunning \in BOOLEAN /\ known \in BOOLEAN
  /\ packet \in [name : Names \union {Blank}, ip : Ips \union {Blank, Partial},
                 text : 0 .. CHAT_INPUT_LEN]
  /\ dest \in Ips \union {Blank, Partial}
  /\ sent \in 0 .. MaxSent /\ own \in 0 .. MaxSent

(* A message to a friend that was in the table when the check passed names *)
(* that friend, holds the text on the screen and goes to that friend's     *)
(* address: all read without a lock, while the receive thread adds others. *)
KnownFriendGetsIt ==
  mpc = "sendto" /\ known =>
    /\ packet = [name |-> g_friends[Index].name, ip |-> dest, text |-> buf_input]
    /\ dest = g_friends[Index].ip
    /\ [name |-> packet.name, ip |-> dest] \in Fields

(* After 'q' nothing is sent: no earlier Enter is still pending.           *)
QuitSendsNothing == ~g_bRunning => mpc \in {"key", "check"} /\ ~is_press_cr

(* Text goes away one character at a time under the user's hand, or all of *)
(* it after it was sent as it was; a refused or failed send keeps it.      *)
TextKept ==
  [][ buf_input' < buf_input =>
        \/ mpc = "key" /\ input_model = INPUT_MODEL /\ buf_input' = buf_input - 1
        \/ mpc = "clear" /\ packet.text = buf_input ]_vars

(* The code keeps the promises of the state diagrams. *)
Phase ==
  CASE mpc = "record" -> "sent"
    [] mpc = "clear" -> "recorded"
    [] mpc \notin {"record", "clear"} /\ is_press_cr -> "sending"
    [] OTHER -> IF is_press_S THEN "armed" ELSE "idle"

Diagram == INSTANCE SendDiagram WITH
  mode <- IF input_model = INPUT_MODEL THEN "data" ELSE "command",
  phase <- Phase,
  recorded <- own

ImplementsDiagram == Diagram!Spec

(* What main_thread.c:153-156 says of the check: a message to an index     *)
(* that no friend has is refused.  Its test lets one such index pass.      *)
NoUnknownFriend == mpc = "sendto" => known

(* What the screen tells the user (ui.c:24, README.md:40): label k selects *)
(* friend k of the list.  Of a choice that the check knew to be a friend's *)
(* the packet is for that friend, whatever NoUnknownFriend lets through.   *)
(* The letters select another.                                             *)
LabelSelectsFriend ==
  mpc = "sendto" /\ known /\ friend_now \in Listed =>
    packet.name = g_friends[friend_now].name
=============================================================================
