------------------------------ MODULE ChatLog ------------------------------
(***************************************************************************)
(* The chat log g_chats and the S2 area of the screen that displays it     *)
(* (ui.c).  Two threads use them: the main thread records what it sends    *)
(* and the receive thread what it receives, and each calls refresh_S2      *)
(* after its own push_g_chats.  A push holds g_chats_lock; a refresh holds *)
(* refresh_S2_lock but reads g_chats and g_chats_len without g_chats_lock, *)
(* so every read of one thread interleaves with every write of the other.  *)
(*                                                                         *)
(* A record is its number in the order in which pushes take g_chats_lock.  *)
(* The screen keeps, for each of the M lines of S2, the record whose       *)
(* rxtime was formatted (stamp) and the record whose name and content were *)
(* printed (body): the code reads them at different moments.               *)
(***************************************************************************)
EXTENDS Integers

CONSTANTS
  M,        \* the number of slots of g_chats, ui.h's M
  MaxPush   \* bound of the model: records pushed in a behaviour

ASSUME MAssumption == M \in Nat \ {0}
ASSUME MaxPushAssumption == MaxPush \in Nat

Main == "main"
Receive == "receive"
Threads == {Main, Receive}
Other(t) == IF t = Main THEN Receive ELSE Main
Nobody == "nobody"

Slots == 0 .. M - 1
Zeroed == 0      \* a slot nothing was copied into: static storage starts as 0
Outside == -1    \* whatever the memory behind g_chats[M - 1] holds
Cleared == -2    \* a line of S2 that "\033[K" erased
Line(stamp, body) == [stamp |-> stamp, body |-> body]
Empty == [r \in Slots |-> Line(Cleared, Cleared)]
Least(a, b) == IF a < b THEN a ELSE b

VARIABLES
  g_chats,          \* the records, oldest in slot 0
  g_chats_len,
  g_chats_lock,     \* the thread that holds the mutex, or Nobody
  refresh_S2_lock,  \* likewise
  pc,               \* what each thread does next
  pushed,           \* history: pushes that have taken g_chats_lock
  moved,            \* slots the memmove of the lock's holder has moved
  records_to_show,  \* this and the next three: the locals of the refresh_S2
  i,                \*   that holds refresh_S2_lock
  idx,
  stamp,
  S2                \* the M lines of S2

logVars == <<g_chats, g_chats_len, g_chats_lock, pushed, moved>>
screenVars == <<refresh_S2_lock, records_to_show, i, idx, stamp, S2>>
vars == <<logVars, screenVars, pc>>

Goto(t, from, to) == pc[t] = from /\ pc' = [pc EXCEPT ![t] = to]

(* The two threads run before main reaches its first refresh_S2 (init_all).*)
Init ==
  /\ g_chats = [s \in Slots |-> Zeroed] /\ g_chats_len = 0
  /\ g_chats_lock = Nobody /\ refresh_S2_lock = Nobody
  /\ pc = [t \in Threads |-> IF t = Main THEN "refresh" ELSE "idle"]
  /\ pushed = 0 /\ moved = 0
  /\ records_to_show = 0 /\ i = 0 /\ idx = 0 /\ stamp = Zeroed
  /\ S2 = Empty

-----------------------------------------------------------------------------
(* push_g_chats.  A thread that waits for g_chats_lock is still "idle".    *)

(* Faulty: the mutex is not waited for. *)
LockChatsNoWait(t) ==
  /\ pushed < MaxPush
  /\ Goto(t, "idle", IF g_chats_len < M THEN "append" ELSE "move")
  /\ g_chats_lock' = t /\ pushed' = pushed + 1 /\ moved' = 0
  /\ UNCHANGED <<g_chats, g_chats_len, screenVars>>

(* Faulty: the limit is off by one. *)
LockChatsOffByOne(t) ==
  /\ pushed < MaxPush /\ g_chats_lock = Nobody
  /\ Goto(t, "idle", IF g_chats_len <= M THEN "append" ELSE "move")
  /\ g_chats_lock' = t /\ pushed' = pushed + 1 /\ moved' = 0
  /\ UNCHANGED <<g_chats, g_chats_len, screenVars>>

LockChats(t) ==
  /\ pushed < MaxPush /\ g_chats_lock = Nobody
  /\ Goto(t, "idle", IF g_chats_len < M THEN "append" ELSE "move")
  /\ g_chats_lock' = t /\ pushed' = pushed + 1 /\ moved' = 0
  /\ UNCHANGED <<g_chats, g_chats_len, screenVars>>

Append(t) ==
  /\ Goto(t, "append", "grow")
  /\ g_chats' = [g_chats EXCEPT ![g_chats_len] = pushed]
  /\ UNCHANGED <<g_chats_len, g_chats_lock, pushed, moved, screenVars>>

Grow(t) ==
  /\ Goto(t, "grow", "unlock")
  /\ g_chats_len' = g_chats_len + 1
  /\ UNCHANGED <<g_chats, g_chats_lock, pushed, moved, screenVars>>

(* The overlapping memmove of the full log copies upwards from slot 0. *)
MoveSlot(t) ==
  /\ moved < M - 1
  /\ Goto(t, "move", "move")
  /\ g_chats' = [g_chats EXCEPT ![moved] = g_chats[moved + 1]]
  /\ moved' = moved + 1
  /\ UNCHANGED <<g_chats_len, g_chats_lock, pushed, screenVars>>

(* Faulty: the newest record replaces slot 0, as if readers started after it. *)
OverwriteFirst(t) ==
  /\ moved = M - 1
  /\ Goto(t, "move", "unlock")
  /\ g_chats' = [g_chats EXCEPT ![0] = pushed]
  /\ UNCHANGED <<g_chats_len, g_chats_lock, pushed, moved, screenVars>>

Overwrite(t) ==
  /\ moved = M - 1
  /\ Goto(t, "move", "unlock")
  /\ g_chats' = [g_chats EXCEPT ![M - 1] = pushed]
  /\ UNCHANGED <<g_chats_len, g_chats_lock, pushed, moved, screenVars>>

(* Faulty: the caller does not refresh S2 after its push. *)
UnlockChatsNoRefresh(t) ==
  /\ Goto(t, "unlock", "idle")
  /\ g_chats_lock' = Nobody
  /\ UNCHANGED <<g_chats, g_chats_len, pushed, moved, screenVars>>

(* push_g_chats never fails, so both callers go on to refresh_S2. *)
UnlockChats(t) ==
  /\ Goto(t, "unlock", "refresh")
  /\ g_chats_lock' = Nobody
  /\ UNCHANGED <<g_chats, g_chats_len, pushed, moved, screenVars>>

-----------------------------------------------------------------------------
(* refresh_S2.  Only the holder of refresh_S2_lock touches S2 and the      *)
(* locals; g_chats and g_chats_len are the other thread's to change.       *)

Slot(n) == IF n \in Slots THEN g_chats[n] ELSE Outside

StartRefresh(t) ==
  /\ Goto(t, "refresh", "line")
  /\ refresh_S2_lock' = t
  /\ S2' = Empty
  /\ records_to_show' = g_chats_len
  /\ i' = 0
  /\ UNCHANGED <<idx, stamp, logVars>>

(* Faulty: two refreshes may overlap. *)
LockS2NoWait(t) == StartRefresh(t)

LockS2(t) == refresh_S2_lock = Nobody /\ StartRefresh(t)

(* The loop condition and idx read g_chats_len anew for every line.  One  *)
(* step stands for these reads and that of rxtime: the one push that can   *)
(* fall among them changes either the length or slots, never both.         *)
ReadLine(t) ==
  /\ i < g_chats_len
  /\ Goto(t, "line", "print")
  /\ idx' = g_chats_len - records_to_show + i
  /\ stamp' = Slot(g_chats_len - records_to_show + i)
  /\ UNCHANGED <<refresh_S2_lock, records_to_show, i, S2, logVars>>

PrintLine(t) ==
  /\ Goto(t, "print", "line")
  /\ S2' = [S2 EXCEPT ![i] = Line(stamp, Slot(idx))]
  /\ i' = i + 1
  /\ UNCHANGED <<refresh_S2_lock, records_to_show, idx, stamp, logVars>>

UnlockS2(t) ==
  /\ i >= g_chats_len
  /\ Goto(t, "line", "idle")
  /\ refresh_S2_lock' = Nobody
  /\ UNCHANGED <<records_to_show, i, idx, stamp, S2, logVars>>

Step(t) ==
  \/ Append(t) \/ Grow(t) \/ MoveSlot(t) \/ Overwrite(t) \/ UnlockChats(t)
  \/ LockS2(t) \/ ReadLine(t) \/ PrintLine(t) \/ UnlockS2(t)

(* Neither thread has a record to push: both loops spin. *)
Quiet == (\A t \in Threads : pc[t] = "idle") /\ UNCHANGED vars

Next == Quiet \/ \E t \in Threads : LockChats(t) \/ Step(t)

(* The scheduler runs both threads, so a push or refresh that began goes   *)
(* on; that there is anything to push is up to the user and the network.   *)
Spec == Init /\ [][Next]_vars /\ \A t \in Threads : WF_vars(Step(t))

-----------------------------------------------------------------------------
Pcs == {"idle", "append", "grow", "move", "unlock", "refresh", "line", "print"}
Records == 1 .. pushed
Shown == Records \union {Zeroed, Outside, Cleared}

(* Every variable has its type; in particular g_chats_len never passes M,  *)
(* the size of the array.                                                  *)
TypeOK ==
  /\ g_chats \in [Slots -> Records \union {Zeroed}]
  /\ g_chats_len \in 0 .. M
  /\ g_chats_lock \in Threads \union {Nobody}
  /\ refresh_S2_lock \in Threads \union {Nobody}
  /\ pc \in [Threads -> Pcs]
  /\ pushed \in 0 .. MaxPush
  /\ moved \in 0 .. M - 1
  /\ records_to_show \in 0 .. M
  /\ i \in 0 .. M
  /\ idx \in 0 .. M
  /\ stamp \in Shown
  /\ S2 \in [Slots -> [stamp : Shown, body : Shown]]

(* Whenever no push is under way, g_chats holds exactly the last M records *)
(* pushed by either thread, oldest first: the memmove loses and repeats    *)
(* nothing, however the two threads' pushes and refreshes interleave.      *)
LogIsLatest ==
  g_chats_lock = Nobody =>
    /\ g_chats_len = Least(pushed, M)
    /\ \A s \in 0 .. g_chats_len - 1 : g_chats[s] = pushed - g_chats_len + s + 1

(* S2 reads from old to new at every moment, even half drawn and even when *)
(* the log moves under the refresh: a later line never shows an older      *)
(* record's text than an earlier line.                                     *)
OldestFirst ==
  \A r, s \in Slots :
    r < s /\ S2[r].body \in Records /\ S2[s].body \in Records
      => S2[r].body <= S2[s].body

(* What the unlocked reads of refresh_S2 can do wrong is bounded: the      *)
(* other thread completes at most one push while a refresh is under way,   *)
(* so idx is at most one past the line being drawn, and a line's time is   *)
(* at most one record older than its text.                                 *)
RaceIsBounded ==
  /\ refresh_S2_lock # Nobody => g_chats_len - records_to_show \in {0, 1}
  /\ \A r \in Slots : S2[r].stamp \in Records /\ S2[r].body \in Records
                        => S2[r].body - S2[r].stamp \in {0, 1}

(* When both threads are out of push_g_chats and refresh_S2, the screen    *)
(* shows the log: whatever a racing refresh drew, a later one redrew.      *)
ScreenShowsLog ==
  (\A t \in Threads : pc[t] = "idle") =>
    S2 = [r \in Slots |-> IF r < g_chats_len THEN Line(g_chats[r], g_chats[r])
                          ELSE Line(Cleared, Cleared)]

(* Every record reaches the screen, time and text together, unless M newer *)
(* ones push it out of the log first.                                      *)
RecordReachesScreen ==
  \A n \in 1 .. MaxPush :
    pushed >= n ~> \/ \E r \in Slots : S2[r] = Line(n, n)
                   \/ pushed >= n + M

(* What ui.c:37-39 says of S2: a line shows a record of the log, its name, *)
(* time and content.  The unlocked reads break it.                         *)
LinesAreRecords ==
  \A r \in Slots :
    S2[r] # Line(Cleared, Cleared) => S2[r] \in {Line(n, n) : n \in Records}
=============================================================================
