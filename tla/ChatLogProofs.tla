--------------------------- MODULE ChatLogProofs ---------------------------
(***************************************************************************)
(* Proofs about ChatLog, for every capacity M and every number of pushes.  *)
(* The four safety properties are not inductive: which of them a step can  *)
(* break depends on where the other thread is in push_g_chats.  IInv says  *)
(* what the log and the screen look like at each of those places.          *)
(***************************************************************************)
EXTENDS ChatLog, TLAPS

InPush == {"append", "grow", "move", "unlock"}
InRefresh == {"line", "print"}

(* Each mutex is held by exactly the thread inside its critical section.   *)
LocksInv ==
  \A t \in Threads :
    /\ g_chats_lock = t <=> pc[t] \in InPush
    /\ refresh_S2_lock = t <=> pc[t] \in InRefresh

Latest ==
  /\ g_chats_len = Least(pushed, M)
  /\ \A s \in 0 .. g_chats_len - 1 : g_chats[s] = pushed - g_chats_len + s + 1

(* The log at each stage of a push; moved slots already hold their new     *)
(* record, the others still hold the old one.                              *)
LogInv ==
  /\ g_chats_lock = Nobody => Latest
  /\ \A s \in Slots :
       s >= g_chats_len =>
         \/ g_chats[s] = Zeroed
         \/ s = g_chats_len /\ (\E t \in Threads : pc[t] = "grow")
  /\ \A t \in Threads :
       /\ pc[t] = "append" =>
            /\ g_chats_len = pushed - 1 /\ g_chats_len < M
            /\ \A s \in 0 .. g_chats_len - 1 : g_chats[s] = s + 1
       /\ pc[t] = "grow" =>
            /\ g_chats_len = pushed - 1 /\ g_chats_len < M
            /\ \A s \in 0 .. g_chats_len : g_chats[s] = s + 1
       /\ pc[t] = "move" =>
            /\ g_chats_len = M /\ pushed > M
            /\ \A s \in Slots :
                 g_chats[s] = pushed - M + s + (IF s < moved THEN 1 ELSE 0)
       /\ pc[t] = "unlock" => Latest

(* A refresh overlaps at most one completed push of the other thread,      *)
(* which then waits for refresh_S2_lock.                                   *)
LagInv ==
  \A t \in Threads : pc[t] \in InRefresh =>
    /\ i <= g_chats_len
    /\ g_chats_len - records_to_show \in {0, 1}
    /\ pc[Other(t)] \notin {"unlock", "refresh"} => g_chats_len = records_to_show
    /\ pc[t] = "print" =>
         /\ i < g_chats_len
         /\ idx - i \in 0 .. g_chats_len - records_to_show

(* A record read twice by a line was moved at most once between the reads. *)
TornInv ==
  /\ \A r \in Slots : S2[r].stamp \in Records /\ S2[r].body \in Records
                        => S2[r].body - S2[r].stamp \in {0, 1}
  /\ \A t \in Threads : pc[t] = "print" =>
       IF \/ pc[Other(t)] \in {"idle", "append", "grow"}
          \/ pc[Other(t)] = "move" /\ idx >= moved
       THEN Slot(idx) = stamp
       ELSE stamp \in Records /\ Slot(idx) \in Records
              => Slot(idx) - stamp \in {0, 1}

(* Lines already drawn are ordered, and no newer than what later lines of  *)
(* this refresh will read.                                                 *)
OrderInv ==
  /\ OldestFirst
  /\ \A t \in Threads : pc[t] \in InRefresh =>
       /\ \A r \in Slots : r >= i => S2[r] = Line(Cleared, Cleared)
       /\ \A r, s \in Slots :
            r < i /\ i <= s /\ S2[r].body \in Records /\ g_chats[s] \in Records
              => S2[r].body <= g_chats[s]

(* A refresh nothing interferes with draws the log, and once drawn it      *)
(* stays on the screen until the next push.                                *)
DrawInv ==
  /\ ScreenShowsLog
  /\ \A t \in Threads : pc[t] \in InRefresh /\ pc[Other(t)] = "idle" =>
       /\ \A r \in Slots : r < i => S2[r] = Line(g_chats[r], g_chats[r])
       /\ \A r \in Slots : r >= i => S2[r] = Line(Cleared, Cleared)

IInv == TypeOK /\ LocksInv /\ LogInv /\ LagInv /\ TornInv /\ OrderInv /\ DrawInv

-----------------------------------------------------------------------------
(* Helpers. *)

(* What the log holds is sorted at every stage of a push, so a refresh     *)
(* that reads slots upwards reads records upwards.                         *)
LEMMA Sorted ==
  ASSUME IInv, NEW a \in Slots, NEW b \in Slots, a <= b,
         g_chats[a] \in Records, g_chats[b] \in Records
  PROVE  g_chats[a] <= g_chats[b]
<1> USE DEF Slots, Records, Zeroed, IInv
<1>1. CASE g_chats_lock = Nobody
  <2>1. \A t \in Threads : pc[t] # "grow"
    BY <1>1 DEF LocksInv, InPush, Threads, Main, Receive, Nobody
  <2>2. a < g_chats_len /\ b < g_chats_len
    BY <2>1 DEF LogInv, TypeOK
  <2>3. Latest
    BY <1>1 DEF LogInv
  <2>4. a \in 0 .. g_chats_len - 1 /\ b \in 0 .. g_chats_len - 1
    BY <2>2, MAssumption DEF TypeOK
  <2>5. /\ g_chats[a] = pushed - g_chats_len + a + 1
        /\ g_chats[b] = pushed - g_chats_len + b + 1
    BY <2>3, <2>4 DEF Latest
  <2> QED
    BY <2>5, MAssumption DEF TypeOK
<1>2. CASE \E t \in Threads : g_chats_lock = t
  <2>1. PICK t \in Threads : pc[t] \in InPush
    BY <1>2 DEF LocksInv
  <2>2. CASE pc[t] = "append"
    <3>1. \A q \in Threads : pc[q] # "grow"
      BY <2>1, <2>2 DEF LocksInv, InPush
    <3>2. a < g_chats_len /\ b < g_chats_len
      BY <3>1 DEF LogInv, TypeOK
    <3> QED BY <2>2, <3>2, MAssumption DEF LogInv, TypeOK
  <2>3. CASE pc[t] = "grow"
    BY <2>1, <2>3, MAssumption DEF LogInv, TypeOK
  <2>4. CASE pc[t] = "move"
    BY <2>1, <2>4, MAssumption DEF LogInv, TypeOK
  <2>5. CASE pc[t] = "unlock"
    <3>1. \A q \in Threads : pc[q] # "grow"
      BY <2>1, <2>5 DEF LocksInv, InPush
    <3>2. a < g_chats_len /\ b < g_chats_len
      BY <3>1 DEF LogInv, TypeOK
    <3> QED BY <2>5, <3>2, MAssumption DEF LogInv, Latest, TypeOK
  <2> QED BY <2>1, <2>2, <2>3, <2>4, <2>5 DEF InPush
<1> QED BY <1>1, <1>2 DEF TypeOK

(* What a line of the screen can hold. *)
LEMMA LineTypes ==
  ASSUME TypeOK, NEW r \in Slots
  PROVE  S2[r].stamp \in Shown /\ S2[r].body \in Shown
BY DEF TypeOK

(* A push numbers its record after every record there is.  Nothing on the  *)
(* screen changes: it does not show the new number yet.                    *)
LEMMA NumberIsNew ==
  ASSUME TypeOK, pushed' = pushed + 1
  PROVE  \A v \in Shown : v \in Records' => v \in Records
BY DEF TypeOK, Shown, Records, Zeroed, Outside, Cleared

(* Taking g_chats_lock starts a push from a log that is up to date. *)
LEMMA LockChatsStep ==
  ASSUME IInv, NEW t \in Threads, LockChats(t)
  PROVE  IInv'
<1> USE MAssumption, MaxPushAssumption
    DEF IInv, Goto, Threads, Other, Main, Receive, Nobody, Slots, Line, Empty,
        Zeroed, Outside, Cleared, InPush, InRefresh, logVars, screenVars
<1>1. TypeOK'
  BY DEF LockChats, TypeOK, Records, Shown, Pcs
<1>2. LocksInv'
  BY DEF LockChats, TypeOK, LocksInv
<1>3. LogInv'
  <2>1. Latest /\ pushed' = pushed + 1
    BY DEF LockChats, LogInv
  <2>2. CASE g_chats_len < M
    BY <2>1, <2>2 DEF LockChats, TypeOK, LocksInv, LogInv, Latest, Least
  <2>3. CASE g_chats_len >= M
    <3>1. g_chats_len = M /\ pushed' > M
      BY <2>1, <2>3 DEF TypeOK, Latest, Least
    <3>2. \A s \in Slots : g_chats[s] = pushed' - M + s
      BY <2>1, <3>1 DEF TypeOK, Latest
    <3>3. /\ UNCHANGED <<g_chats, g_chats_len>> /\ moved' = 0 /\ g_chats_lock' = t
          /\ \A q \in Threads : pc'[q] \in InPush => pc'[q] = "move"
      BY <2>3 DEF LockChats, TypeOK, LocksInv
    <3>4. \A s \in Slots :
            g_chats'[s] = pushed' - M + s + (IF s < moved' THEN 1 ELSE 0)
      BY <2>1, <3>2, <3>3 DEF TypeOK
    <3> QED
      BY <3>1, <3>3, <3>4 DEF TypeOK, LogInv
  <2> QED BY <2>2, <2>3 DEF TypeOK
<1>4. LagInv'
  BY DEF LockChats, TypeOK, LocksInv, LagInv
<1>5. TornInv'
  <2>1. pushed' = pushed + 1 /\ UNCHANGED <<S2, stamp, idx, g_chats>>
    BY DEF LockChats
  <2>2. \A r \in Slots : S2[r].stamp \in Records' /\ S2[r].body \in Records'
                          => S2[r].body - S2[r].stamp \in {0, 1}
    BY <2>1, NumberIsNew, LineTypes DEF TornInv
  <2> QED
    BY <2>1, <2>2 DEF LockChats, TypeOK, LocksInv, TornInv, Slot
<1>6. OrderInv'
  <2>1. /\ pushed' = pushed + 1 /\ UNCHANGED <<S2, i, g_chats>>
        /\ \A q \in Threads : pc'[q] \in InRefresh => pc[q] \in InRefresh
    BY DEF LockChats, TypeOK
  <2>2. \A s \in Slots : g_chats[s] \in Shown
    BY DEF TypeOK, Shown
  <2> QED
    BY <2>1, <2>2, NumberIsNew, LineTypes DEF OrderInv, OldestFirst
<1>7. DrawInv'
  BY DEF LockChats, TypeOK, LocksInv, LagInv, DrawInv, ScreenShowsLog, Slot
<1> QED BY <1>1, <1>2, <1>3, <1>4, <1>5, <1>6, <1>7

(* The copy behind the last record touches no record that is shown. *)
LEMMA AppendStep ==
  ASSUME IInv, NEW t \in Threads, Append(t)
  PROVE  IInv'
<1> USE MAssumption, MaxPushAssumption
    DEF IInv, Goto, Threads, Other, Main, Receive, Nobody, Slots, Line, Empty,
        Zeroed, Outside, Cleared, InPush, InRefresh, logVars, screenVars
<1>1. TypeOK'
  BY DEF Append, TypeOK, LogInv, Records, Shown, Pcs
<1>2. LocksInv'
  BY DEF Append, TypeOK, LocksInv
<1>3. LogInv'
  BY DEF Append, TypeOK, LocksInv, LogInv, Latest, Least
<1>4. LagInv'
  BY DEF Append, TypeOK, LocksInv, LagInv
<1>5. TornInv'
  BY DEF Append, TypeOK, LocksInv, LogInv, LagInv, TornInv, Records, Shown, Slot
<1>6. OrderInv'
  BY DEF Append, TypeOK, LocksInv, LogInv, LagInv, OrderInv, OldestFirst, Records,
           Shown, Slot
<1>7. DrawInv'
  BY DEF Append, TypeOK, LocksInv, LagInv, DrawInv, ScreenShowsLog, Slot
<1> QED BY <1>1, <1>2, <1>3, <1>4, <1>5, <1>6, <1>7

(* Counting the copied record completes a push of a log not yet full. *)
LEMMA GrowStep ==
  ASSUME IInv, NEW t \in Threads, Grow(t)
  PROVE  IInv'
<1> USE MAssumption, MaxPushAssumption
    DEF IInv, Goto, Threads, Other, Main, Receive, Nobody, Slots, Line, Empty,
        Zeroed, Outside, Cleared, InPush, InRefresh, logVars, screenVars
<1>1. TypeOK'
  BY DEF Grow, TypeOK, LogInv, Records, Shown, Pcs
<1>2. LocksInv'
  BY DEF Grow, TypeOK, LocksInv
<1>3. LogInv'
  <2>1. Latest'
    BY DEF Grow, TypeOK, LogInv, Latest, Least
  <2>2. \A s \in Slots : s >= g_chats_len' => g_chats'[s] = Zeroed
    BY DEF Grow, TypeOK, LogInv
  <2> QED
    BY <2>1, <2>2 DEF Grow, TypeOK, LocksInv, LogInv
<1>4. LagInv'
  BY DEF Grow, TypeOK, LocksInv, LagInv
<1>5. TornInv'
  BY DEF Grow, TypeOK, LocksInv, LogInv, LagInv, TornInv, Records, Shown, Slot
<1>6. OrderInv'
  BY DEF Grow, TypeOK, LocksInv, LogInv, LagInv, OrderInv, OldestFirst, Records,
           Shown, Slot
<1>7. DrawInv'
  BY DEF Grow, TypeOK, LocksInv, LagInv, DrawInv, ScreenShowsLog, Slot
<1> QED BY <1>1, <1>2, <1>3, <1>4, <1>5, <1>6, <1>7

(* A slot is overwritten only after its record moved down. *)
LEMMA MoveSlotStep ==
  ASSUME IInv, NEW t \in Threads, MoveSlot(t)
  PROVE  IInv'
<1> USE MAssumption, MaxPushAssumption
    DEF IInv, Goto, Threads, Other, Main, Receive, Nobody, Slots, Line, Empty,
        Zeroed, Outside, Cleared, InPush, InRefresh, logVars, screenVars
<1>1. TypeOK'
  BY DEF MoveSlot, TypeOK, Records, Shown, Pcs
<1>2. LocksInv'
  BY DEF MoveSlot, TypeOK, LocksInv
<1>3. LogInv'
  <2>1. ASSUME NEW s \in Slots
        PROVE  g_chats'[s] = pushed - M + s + (IF s < moved' THEN 1 ELSE 0)
    <3>1. \A k \in Slots : g_chats[k] = pushed - M + k + (IF k < moved THEN 1 ELSE 0)
      BY DEF MoveSlot, LogInv
    <3>2. moved + 1 \in Slots /\ ~(moved + 1 < moved)
      BY DEF MoveSlot, TypeOK
    <3>3. CASE s = moved
      BY <3>1, <3>2, <3>3 DEF MoveSlot, TypeOK
    <3>4. CASE s # moved
      <4>1. s < moved' <=> s < moved
        BY <3>4 DEF MoveSlot, TypeOK
      <4> QED BY <3>1, <3>4, <4>1 DEF MoveSlot, TypeOK
    <3> QED BY <3>3, <3>4
  <2> QED
    BY <2>1 DEF MoveSlot, TypeOK, LocksInv, LogInv
<1>4. LagInv'
  BY DEF MoveSlot, TypeOK, LocksInv, LagInv
<1>5. TornInv'
  BY DEF MoveSlot, TypeOK, LocksInv, LogInv, LagInv, TornInv, Records, Shown, Slot
<1>6. OrderInv'
  BY DEF MoveSlot, TypeOK, LocksInv, LogInv, LagInv, OrderInv, OldestFirst, Records,
           Shown, Slot
<1>7. DrawInv'
  BY DEF MoveSlot, TypeOK, LocksInv, LagInv, DrawInv, ScreenShowsLog, Slot
<1> QED BY <1>1, <1>2, <1>3, <1>4, <1>5, <1>6, <1>7

(* The last slot is free for the newest record once all others moved. *)
LEMMA OverwriteStep ==
  ASSUME IInv, NEW t \in Threads, Overwrite(t)
  PROVE  IInv'
<1> USE MAssumption, MaxPushAssumption
    DEF IInv, Goto, Threads, Other, Main, Receive, Nobody, Slots, Line, Empty,
        Zeroed, Outside, Cleared, InPush, InRefresh, logVars, screenVars
<1>1. TypeOK'
  BY DEF Overwrite, TypeOK, Records, Shown, Pcs
<1>2. LocksInv'
  BY DEF Overwrite, TypeOK, LocksInv
<1>3. LogInv'
  <2>1. g_chats_len' = M /\ pushed > M /\ pushed' = pushed
    BY DEF Overwrite, LogInv
  <2>2. ASSUME NEW s \in Slots
        PROVE  g_chats'[s] = pushed - M + s + 1
    <3>1. \A k \in Slots : g_chats[k] = pushed - M + k + (IF k < M - 1 THEN 1 ELSE 0)
      BY DEF Overwrite, LogInv
    <3>2. CASE s = M - 1
      BY <3>2 DEF Overwrite, TypeOK
    <3>3. CASE s # M - 1
      <4>1. s < M - 1 /\ g_chats'[s] = g_chats[s]
        BY <3>3 DEF Overwrite, TypeOK
      <4> QED BY <3>1, <4>1 DEF TypeOK
    <3> QED BY <3>2, <3>3
  <2>3. Latest'
    BY <2>1, <2>2 DEF TypeOK, Latest, Least
  <2> QED
    BY <2>1, <2>3 DEF Overwrite, TypeOK, LocksInv, LogInv
<1>4. LagInv'
  BY DEF Overwrite, TypeOK, LocksInv, LagInv
<1>5. TornInv'
  BY DEF Overwrite, TypeOK, LocksInv, LogInv, LagInv, TornInv, Records, Shown, Slot
<1>6. OrderInv'
  BY DEF Overwrite, TypeOK, LocksInv, LogInv, LagInv, OrderInv, OldestFirst, Records,
           Shown, Slot
<1>7. DrawInv'
  BY DEF Overwrite, TypeOK, LocksInv, LagInv, DrawInv, ScreenShowsLog, Slot
<1> QED BY <1>1, <1>2, <1>3, <1>4, <1>5, <1>6, <1>7

(* The log is up to date when its mutex is released. *)
LEMMA UnlockChatsStep ==
  ASSUME IInv, NEW t \in Threads, UnlockChats(t)
  PROVE  IInv'
<1> USE MAssumption, MaxPushAssumption
    DEF IInv, Goto, Threads, Other, Main, Receive, Nobody, Slots, Line, Empty,
        Zeroed, Outside, Cleared, InPush, InRefresh, logVars, screenVars
<1>1. TypeOK'
  BY DEF UnlockChats, TypeOK, Records, Shown, Pcs
<1>2. LocksInv'
  BY DEF UnlockChats, TypeOK, LocksInv
<1>3. LogInv'
  BY DEF UnlockChats, TypeOK, LocksInv, LogInv, Latest, Least
<1>4. LagInv'
  BY DEF UnlockChats, TypeOK, LocksInv, LagInv
<1>5. TornInv'
  BY DEF UnlockChats, TypeOK, LocksInv, LogInv, LagInv, TornInv, Records, Shown, Slot
<1>6. OrderInv'
  BY DEF UnlockChats, TypeOK, LocksInv, LogInv, LagInv, OrderInv, OldestFirst, Records,
           Shown, Slot
<1>7. DrawInv'
  BY DEF UnlockChats, TypeOK, LocksInv, LagInv, DrawInv, ScreenShowsLog, Slot
<1> QED BY <1>1, <1>2, <1>3, <1>4, <1>5, <1>6, <1>7

(* A refresh starts with no line and the length it read. *)
LEMMA LockS2Step ==
  ASSUME IInv, NEW t \in Threads, LockS2(t)
  PROVE  IInv'
<1> USE MAssumption, MaxPushAssumption
    DEF IInv, Goto, Threads, Other, Main, Receive, Nobody, Slots, Line, Empty,
        Zeroed, Outside, Cleared, InPush, InRefresh, logVars, screenVars
<1>1. TypeOK'
  BY DEF LockS2, StartRefresh, TypeOK, Records, Shown, Pcs
<1>2. LocksInv'
  BY DEF LockS2, StartRefresh, TypeOK, LocksInv
<1>3. LogInv'
  BY DEF LockS2, StartRefresh, TypeOK, LocksInv, LogInv, Latest, Least
<1>4. LagInv'
  BY DEF LockS2, StartRefresh, TypeOK, LocksInv, LagInv
<1>5. TornInv'
  BY DEF LockS2, StartRefresh, TypeOK, LocksInv, LogInv, LagInv, TornInv, Records, Shown, Slot
<1>6. OrderInv'
  BY DEF LockS2, StartRefresh, TypeOK, LocksInv, LogInv, LagInv, OrderInv, OldestFirst, Records,
           Shown, Slot
<1>7. DrawInv'
  BY DEF LockS2, StartRefresh, TypeOK, LocksInv, LagInv, DrawInv, ScreenShowsLog, Slot
<1> QED BY <1>1, <1>2, <1>3, <1>4, <1>5, <1>6, <1>7

(* A line is read from the slot that belongs to it, or from the next. *)
LEMMA ReadLineStep ==
  ASSUME IInv, NEW t \in Threads, ReadLine(t)
  PROVE  IInv'
<1> USE MAssumption, MaxPushAssumption
    DEF IInv, Goto, Threads, Other, Main, Receive, Nobody, Slots, Line, Empty,
        Zeroed, Outside, Cleared, InPush, InRefresh, logVars, screenVars
<1>1. TypeOK'
  BY DEF ReadLine, TypeOK, LagInv, Slot, Records, Shown, Pcs
<1>2. LocksInv'
  BY DEF ReadLine, TypeOK, LocksInv
<1>3. LogInv'
  BY DEF ReadLine, TypeOK, LocksInv, LogInv, Latest, Least
<1>4. LagInv'
  BY DEF ReadLine, TypeOK, LocksInv, LagInv
<1>5. TornInv'
  BY DEF ReadLine, TypeOK, LocksInv, LogInv, LagInv, TornInv, Records, Shown, Slot
<1>6. OrderInv'
  BY DEF ReadLine, TypeOK, LocksInv, LogInv, LagInv, OrderInv, OldestFirst, Records,
           Shown, Slot
<1>7. DrawInv'
  BY DEF ReadLine, TypeOK, LocksInv, LagInv, DrawInv, ScreenShowsLog, Slot
<1> QED BY <1>1, <1>2, <1>3, <1>4, <1>5, <1>6, <1>7

(* A printed line keeps S2 ordered and at most one record torn. *)
LEMMA PrintLineStep ==
  ASSUME IInv, NEW t \in Threads, PrintLine(t)
  PROVE  IInv'
<1> USE MAssumption, MaxPushAssumption
    DEF IInv, Goto, Threads, Other, Main, Receive, Nobody, Slots, Line, Empty,
        Zeroed, Outside, Cleared, InPush, InRefresh, logVars, screenVars
<1>1. TypeOK'
  <2>1. Slot(idx) \in Shown
    BY DEF TypeOK, Slot, Shown
  <2> QED
    BY <2>1 DEF PrintLine, TypeOK, LagInv, Records, Shown, Pcs
<1>2. LocksInv'
  BY DEF PrintLine, TypeOK, LocksInv
<1>3. LogInv'
  BY DEF PrintLine, TypeOK, LocksInv, LogInv, Latest, Least
<1>4. LagInv'
  BY DEF PrintLine, TypeOK, LocksInv, LagInv
<1>5. TornInv'
  BY DEF PrintLine, TypeOK, LocksInv, LogInv, LagInv, TornInv, Records, Shown, Slot
<1>6. OrderInv'
  <2>1. /\ i \in Slots /\ i' = i + 1 /\ UNCHANGED <<g_chats, Records>>
        /\ S2' = [S2 EXCEPT ![i] = Line(stamp, Slot(idx))]
        /\ pc[t] \in InRefresh
        /\ \A q \in Threads : pc'[q] \in InRefresh => q = t
    BY DEF PrintLine, TypeOK, LagInv, Records, LocksInv
  <2>2. ASSUME Slot(idx) \in Records
        PROVE  idx \in Slots /\ g_chats[idx] = Slot(idx) /\ idx \in i .. i + 1
    BY <2>2 DEF PrintLine, LagInv, TypeOK, Slot, Records
  <2>3. ASSUME NEW r \in Slots, r < i, S2[r].body \in Records,
               Slot(idx) \in Records
        PROVE  S2[r].body <= Slot(idx)
    BY <2>1, <2>2, <2>3 DEF OrderInv
  <2>4. OldestFirst'
    <3> SUFFICES ASSUME NEW r \in Slots, NEW s \in Slots, r < s,
                        S2'[r].body \in Records, S2'[s].body \in Records
                 PROVE  S2'[r].body <= S2'[s].body
      BY <2>1 DEF OldestFirst
    <3>1. CASE s = i
      BY <2>1, <2>3, <3>1 DEF TypeOK
    <3>2. CASE s # i
      BY <2>1, <3>2 DEF TypeOK, OrderInv, OldestFirst, Records
    <3> QED BY <3>1, <3>2
  <2>5. ASSUME NEW s \in Slots, s > i, g_chats[s] \in Records, Slot(idx) \in Records
        PROVE  Slot(idx) <= g_chats[s]
    BY <2>2, <2>5, Sorted DEF TypeOK
  <2>6. \A r \in Slots : r >= i' => S2'[r] = Line(Cleared, Cleared)
    BY <2>1 DEF OrderInv, TypeOK
  <2>7. ASSUME NEW r \in Slots, NEW s \in Slots, r < i + 1, s > i,
               S2'[r].body \in Records, g_chats[s] \in Records
        PROVE  S2'[r].body <= g_chats[s]
    <3>1. CASE r = i
      BY <2>1, <2>5, <2>7, <3>1 DEF TypeOK
    <3>2. CASE r # i
      BY <2>1, <2>7, <3>2 DEF TypeOK, OrderInv
    <3> QED BY <3>1, <3>2
  <2>8. \A r, s \in Slots :
          r < i' /\ i' <= s /\ S2'[r].body \in Records' /\ g_chats'[s] \in Records'
            => S2'[r].body <= g_chats'[s]
    BY <2>1, <2>7 DEF TypeOK
  <2> QED BY <2>1, <2>4, <2>6, <2>8 DEF OrderInv
<1>7. DrawInv'
  BY DEF PrintLine, TypeOK, LocksInv, LagInv, TornInv, DrawInv, ScreenShowsLog,
           Slot
<1> QED BY <1>1, <1>2, <1>3, <1>4, <1>5, <1>6, <1>7

(* A refresh that no push raced with leaves the log on the screen. *)
LEMMA UnlockS2Step ==
  ASSUME IInv, NEW t \in Threads, UnlockS2(t)
  PROVE  IInv'
<1> USE MAssumption, MaxPushAssumption
    DEF IInv, Goto, Threads, Other, Main, Receive, Nobody, Slots, Line, Empty,
        Zeroed, Outside, Cleared, InPush, InRefresh, logVars, screenVars
<1>1. TypeOK'
  BY DEF UnlockS2, TypeOK, Records, Shown, Pcs
<1>2. LocksInv'
  BY DEF UnlockS2, TypeOK, LocksInv
<1>3. LogInv'
  BY DEF UnlockS2, TypeOK, LocksInv, LogInv, Latest, Least
<1>4. LagInv'
  BY DEF UnlockS2, TypeOK, LocksInv, LagInv
<1>5. TornInv'
  BY DEF UnlockS2, TypeOK, LocksInv, LogInv, LagInv, TornInv, Records, Shown, Slot
<1>6. OrderInv'
  BY DEF UnlockS2, TypeOK, LocksInv, LogInv, LagInv, OrderInv, OldestFirst, Records,
           Shown, Slot
<1>7. DrawInv'
  <2>1. ASSUME pc[Other(t)] = "idle" PROVE ScreenShowsLog'
    BY <2>1 DEF UnlockS2, TypeOK, LocksInv, LagInv, DrawInv, ScreenShowsLog, Slot
  <2> QED
    BY <2>1 DEF UnlockS2, TypeOK, LocksInv, LagInv, DrawInv, ScreenShowsLog, Slot
<1> QED BY <1>1, <1>2, <1>3, <1>4, <1>5, <1>6, <1>7

(* The empty log and screen of the start satisfy the invariant. *)
LEMMA InitIInv == Init => IInv
BY MAssumption, MaxPushAssumption
   DEF Init, IInv, TypeOK, LocksInv, LogInv, LagInv, TornInv, OrderInv, DrawInv,
       Latest, Least, OldestFirst, ScreenShowsLog, Records, Shown, Pcs, Threads, Other,
       Main, Receive, Nobody, Slots, Line, Empty, Zeroed, Outside, Cleared, InPush,
       InRefresh

(* The invariant depends on the variables alone. *)
LEMMA StutterStep ==
  ASSUME IInv, UNCHANGED vars
  PROVE  IInv'
BY DEF IInv, vars, logVars, screenVars, TypeOK, LocksInv, LogInv, LagInv, TornInv,
       OrderInv, DrawInv, Latest, OldestFirst, ScreenShowsLog, Records, Shown, Slot

-----------------------------------------------------------------------------
(* IInv holds in every reachable state, whatever M and MaxPush are.        *)
THEOREM Invariance == Spec => []IInv
<1>1. ASSUME IInv, [Next]_vars PROVE IInv'
  <2>1. CASE UNCHANGED vars
    BY <1>1, <2>1, StutterStep
  <2>2. CASE Quiet
    BY <1>1, <2>2, StutterStep DEF Quiet
  <2>3. ASSUME NEW t \in Threads, LockChats(t) \/ Step(t) PROVE IInv'
    BY <1>1, <2>3, LockChatsStep, AppendStep, GrowStep, MoveSlotStep, OverwriteStep,
       UnlockChatsStep, LockS2Step, ReadLineStep, PrintLineStep, UnlockS2Step DEF Step
  <2> QED BY <1>1, <2>1, <2>2, <2>3 DEF Next
<1> QED BY <1>1, InitIInv, PTL DEF Spec

(* Types hold, so g_chats_len, which push_g_chats uses as an index, is     *)
(* never beyond the array, whichever threads push.                         *)
THEOREM TypeCorrect == Spec => []TypeOK
BY Invariance, PTL DEF IInv

(* Between pushes the log is exactly the last M records, in order.         *)
THEOREM LogCorrect == Spec => []LogIsLatest
<1>1. IInv => LogIsLatest
  BY DEF IInv, LogInv, Latest, LogIsLatest
<1> QED BY <1>1, Invariance, PTL

(* No interleaving of the unlocked reads puts a newer text above an older. *)
THEOREM OrderCorrect == Spec => []OldestFirst
BY Invariance, PTL DEF IInv, OrderInv

(* A refresh lags the log by one push, a line's time its text by one       *)
(* record, whatever the capacity and however often the other thread runs.  *)
THEOREM RaceCorrect == Spec => []RaceIsBounded
<1>1. IInv => RaceIsBounded
  BY DEF IInv, TypeOK, LocksInv, LagInv, TornInv, RaceIsBounded, InRefresh, Threads
<1> QED BY <1>1, Invariance, PTL

(* Once both threads are out of push and refresh, the screen is the log.   *)
THEOREM ScreenCorrect == Spec => []ScreenShowsLog
BY Invariance, PTL DEF IInv, DrawInv
=============================================================================
