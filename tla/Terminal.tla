------------------------------ MODULE Terminal -------------------------------
(***************************************************************************)
(* The terminal that the threads share.  The main thread takes a key and   *)
(* redraws S3 in every iteration (main_thread.c); the receive thread       *)
(* redraws S1 or S2 (ui.c) when something arrives; these two and the       *)
(* broadcast thread log warnings and errors (log.c), on the same terminal. *)
(* A save_printf is one step, under log_mutex, and between two of them     *)
(* another thread may print, with the same cursor.                         *)
(*                                                                         *)
(* Followed are the rows of S1, each the sequence of what is printed in    *)
(* it, and whether S3 shows what refresh_S3 printed, in a terminal that    *)
(* never scrolls.  All rows below S1 are one: what is printed there by     *)
(* anything but refresh_S3 or with an absolute row may be in S3.  Which    *)
(* key does what is MainThread's subject: here a key may or may not lead   *)
(* to a send.                                                              *)
(***************************************************************************)
EXTENDS Keyboard, Integers, Sequences

CONSTANTS
  S1_ROW,   \* the rows of S1
  PerLine,  \* the names in one of them
  N,        \* the size of g_friends
  M         \* the size of g_chats

ASSUME ScreenAssumption == {S1_ROW, PerLine, N, M} \subseteq Nat \ {0}
ASSUME NamesFit == N <= S1_ROW * PerLine

Threads == {"Main", "Receive"}  \* the broadcast thread: see BroadcastFails
Other(t) == CHOOSE u \in Threads : u # t
Idle == <<"Idle", 0>>
Never == <<"none", "none">>  \* no time
Line == 0                    \* a line of text in a row of S1, where names are numbers

Below == S1_ROW + 1
BelowS1 == <<Below, 0>>  \* a cursor there

VARIABLES
  at,            \* where each thread is, and the loop's index there
  g_friends_len,
  is_press_cr,
  s1,            \* what is printed in each row of S1
  s3,            \* "blank" while refresh_S3 draws S3, "new" when it did, else "wrong"
  cursor,        \* its row, or Below, and in S1 the number of prints left of it
  refresh_S2_lock, log_mutex,  \* the holder, or "none"
  tm,            \* localtime's static result: who asked for it last, and what for
  stamp,         \* the time that a thread has formatted, or Never
  s1Alone,       \* history: Main printed nothing in this refresh_S1
  s1Clean        \* history: nobody logged in the last refresh_S1

history == <<s1Alone, s1Clean>>
drawing == <<s1, s3, cursor, history>>
clock == <<tm, stamp>>
locks == <<refresh_S2_lock, log_mutex>>
data == <<g_friends_len, is_press_cr>>
terminal == <<at, data, drawing, locks, clock>>
allVars == <<vars, terminal>>

(* The loop of main begins; nothing has arrived. *)
TerminalInit ==
  /\ Init
  /\ at = [t \in Threads |-> IF t = "Main" THEN <<"Key", 0>> ELSE Idle]
  /\ g_friends_len = 0 /\ is_press_cr = FALSE
  /\ s1 = [r \in 1 .. S1_ROW |-> <<>>] /\ s3 = "new"
  /\ cursor = BelowS1 /\ s1Alone = TRUE /\ s1Clean = TRUE
  /\ refresh_S2_lock = "none" /\ log_mutex = "none"
  /\ tm = Never /\ stamp = [t \in Threads |-> Never]

At(t, stage) == at[t][1] = stage
I(t) == at[t][2]
Goto(t, stage, i) == at' = [at EXCEPT ![t] = <<stage, i>>]
Finish(t, stage) ==
  IF t = "Main" THEN Goto(t, stage, 0) ELSE at' = [at EXCEPT ![t] = Idle]

-----------------------------------------------------------------------------
(* save_printf waits while somebody logs.  A print of Main inside a        *)
(* refresh_S1 is remembered.                                               *)
Prints(t) ==
  /\ log_mutex = "none" /\ UNCHANGED s1Clean
  /\ s1Alone' = (s1Alone /\ ~(t = "Main" /\ (At("Receive", "S1Name") \/ At("Receive", "S1Gap"))))

Newline == cursor' = <<IF cursor[1] = Below THEN Below ELSE cursor[1] + 1, 0>>

Refreshing == \E stage \in {"S1Clear", "S1Name", "S1Gap"} : At("Receive", stage)

(* A line on stderr, by stdout_callback or perror, wherever the cursor is. *)
(* Of a row of S1 with a line in it nothing else is followed.              *)
PrintsLine ==
  LET r == cursor[1]
  IN /\ s1' = [q \in DOMAIN s1 |-> IF q = r THEN <<Line>> ELSE s1[q]]
     /\ s3' = IF r = Below THEN "wrong" ELSE s3
     /\ Newline
     /\ s1Clean' = (s1Clean /\ ~Refreshing) /\ UNCHANGED s1Alone

-----------------------------------------------------------------------------
(* refresh_S1.  Its S1_ROW + 1 prints that clear a row name the rows 0 to  *)
(* S1_ROW - 1 and then 0 again, and the terminal takes 0 for 1, so that    *)
(* the last row is not cleared.  The names are printed where the cursor    *)
(* is.                                                                     *)
S1Clear(t) ==
  LET r == IF I(t) \in 1 .. S1_ROW - 1 THEN I(t) ELSE 1
  IN /\ At(t, "S1Clear") /\ log_mutex = "none"
     /\ s1Alone' = TRUE /\ s1Clean' = (s1Clean \/ I(t) = 0)
     /\ s1' = [s1 EXCEPT ![r] = <<>>]
     /\ cursor' = <<r, 0>>
     /\ IF I(t) < S1_ROW THEN Goto(t, "S1Clear", I(t) + 1) ELSE Goto(t, "S1Name", 0)
     /\ UNCHANGED <<vars, s3, data, locks, clock>>

S1Name(t) ==
  LET r == cursor[1]
      c == cursor[2]
  IN /\ At(t, "S1Name") /\ I(t) < g_friends_len /\ Prints(t)
     /\ \/ /\ r \in DOMAIN s1 /\ UNCHANGED s3
           /\ s1' = [s1 EXCEPT ![r] =
                       SubSeq(@, 1, c) \o <<I(t) + 1>> \o SubSeq(@, c + 2, Len(@))]
           /\ cursor' = <<r, c + 1>>
        \/ /\ r \notin DOMAIN s1 /\ UNCHANGED <<s1, cursor>>
           /\ s3' = "wrong"
     /\ Goto(t, "S1Gap", I(t))
     /\ UNCHANGED <<vars, data, locks, clock>>

(* Faulty: a line is ended one name late. *)
S1GapLate(t) ==
  /\ At(t, "S1Gap") /\ Prints(t)
  /\ IF (I(t) > 0 /\ I(t) % PerLine = 0) \/ I(t) = g_friends_len - 1
     THEN Newline ELSE UNCHANGED cursor
  /\ Goto(t, "S1Name", I(t) + 1)
  /\ UNCHANGED <<vars, data, s1, s3, locks, clock>>

S1Gap(t) ==
  /\ At(t, "S1Gap") /\ Prints(t)
  /\ IF (I(t) + 1) % PerLine = 0 \/ I(t) = g_friends_len - 1
     THEN Newline ELSE UNCHANGED cursor
  /\ Goto(t, "S1Name", I(t) + 1)
  /\ UNCHANGED <<vars, data, s1, s3, locks, clock>>

S1Separator(t) ==
  /\ At(t, "S1Name") /\ I(t) >= g_friends_len /\ log_mutex = "none" /\ s1Alone' = TRUE
  /\ cursor' = BelowS1
  /\ at' = [at EXCEPT ![t] = Idle]
  /\ UNCHANGED <<vars, data, s1, s3, s1Clean, locks, clock>>

refresh_S1(t) == S1Clear(t) \/ S1Name(t) \/ S1Gap(t) \/ S1Separator(t)

-----------------------------------------------------------------------------
(* refresh_S2 of a full log: the cursor and the clock.  What it reads of   *)
(* the log and prints in its rows is ChatLog's subject.                    *)

(* Faulty: the refresh does not wait for another one. *)
S2ClearNoWait(t) ==
  /\ At(t, "S2Lock") /\ refresh_S2_lock' = t /\ Prints(t)
  /\ cursor' = BelowS1
  /\ Goto(t, "S2Time", 0)
  /\ UNCHANGED <<vars, data, s1, s3, log_mutex, clock>>

S2Clear(t) ==
  /\ At(t, "S2Lock") /\ refresh_S2_lock = "none" /\ refresh_S2_lock' = t /\ Prints(t)
  /\ cursor' = BelowS1
  /\ Goto(t, "S2Time", 0)
  /\ UNCHANGED <<vars, data, s1, s3, log_mutex, clock>>

(* strftime reads what localtime wrote last.  What nobody is still to read *)
(* is forgotten.                                                           *)
strftime(t) ==
  /\ stamp' = [stamp EXCEPT ![t] = tm]
  /\ tm' = IF At(Other(t), "S2Format") \/ At(Other(t), "LogFormat") THEN tm ELSE Never

(* localtime(&t) *)
S2Time(t) ==
  /\ At(t, "S2Time") /\ I(t) < M
  /\ tm' = <<"refresh", t>>
  /\ Goto(t, "S2Format", I(t))
  /\ UNCHANGED <<vars, data, drawing, locks, stamp>>

S2Format(t) ==
  /\ At(t, "S2Format") /\ strftime(t)
  /\ Goto(t, "S2Line", I(t))
  /\ UNCHANGED <<vars, data, drawing, locks>>

S2Line(t) ==
  /\ At(t, "S2Line") /\ Prints(t)
  /\ cursor' = BelowS1
  /\ stamp' = [stamp EXCEPT ![t] = Never]
  /\ Goto(t, "S2Time", I(t) + 1)
  /\ UNCHANGED <<vars, data, s1, s3, locks, tm>>

S2Separator(t) ==
  /\ At(t, "S2Time") /\ I(t) >= M /\ Prints(t)
  /\ cursor' = BelowS1
  /\ refresh_S2_lock' = "none"
  /\ Finish(t, "S3Clear")
  /\ UNCHANGED <<vars, data, s1, s3, log_mutex, clock>>

refresh_S2(t) == S2Clear(t) \/ S2Time(t) \/ S2Format(t) \/ S2Line(t) \/ S2Separator(t)

-----------------------------------------------------------------------------
(* refresh_S3, by the main thread only: two prints that clear, and two     *)
(* that write the input line and its state.                                *)

S3Clear ==
  /\ At("Main", "S3Clear") /\ Prints("Main")
  /\ s3' = IF I("Main") = 0 THEN "blank" ELSE s3
  /\ cursor' = BelowS1
  /\ IF I("Main") = 0 THEN Goto("Main", "S3Clear", 1) ELSE Goto("Main", "S3Text", 0)
  /\ UNCHANGED <<vars, s1, data, locks, clock>>

S3Text ==
  /\ At("Main", "S3Text") /\ Prints("Main")
  /\ s3' = IF I("Main") = 1 /\ s3 = "blank" THEN "new" ELSE s3
  /\ cursor' = BelowS1
  /\ IF I("Main") = 0 THEN Goto("Main", "S3Text", 1) ELSE Goto("Main", "Check", 0)
  /\ UNCHANGED <<vars, s1, data, locks, clock>>

-----------------------------------------------------------------------------
(* log_log of warnings and errors.  The index says how many calls there    *)
(* are to make; 0 is one that ends Main's iteration.                       *)

(* Faulty: the callers do not exclude each other. *)
init_eventNoLock(t) ==
  /\ At(t, "Log") /\ log_mutex' = t
  /\ tm' = <<"log", t>>
  /\ Goto(t, "LogFormat", I(t))
  /\ UNCHANGED <<vars, data, drawing, refresh_S2_lock, stamp>>

(* lock() and localtime. *)
init_event(t) ==
  /\ At(t, "Log") /\ log_mutex = "none" /\ log_mutex' = t
  /\ tm' = <<"log", t>>
  /\ Goto(t, "LogFormat", I(t))
  /\ UNCHANGED <<vars, data, drawing, refresh_S2_lock, stamp>>

(* The time is formatted, then the line is printed. *)
stdout_callback(t) ==
  /\ At(t, "LogFormat") /\ strftime(t) /\ PrintsLine
  /\ Goto(t, "LogUnlock", I(t))
  /\ UNCHANGED <<vars, data, locks>>

LogUnlock(t) ==
  /\ At(t, "LogUnlock") /\ log_mutex' = "none"
  /\ stamp' = [stamp EXCEPT ![t] = Never]
  /\ IF I(t) > 1 THEN Goto(t, "Log", I(t) - 1)
     ELSE Finish(t, IF I(t) = 1 THEN "S3Clear" ELSE "Key")
  /\ UNCHANGED <<vars, data, drawing, refresh_S2_lock, tm>>

log_log(t) == init_event(t) \/ stdout_callback(t) \/ LogUnlock(t)

-----------------------------------------------------------------------------
(* The main thread. *)

(* The input line or its state changes: what S3 shows of them is old. *)
Changed ==
  /\ s3' = "wrong"
  /\ UNCHANGED <<s1, cursor, history>>

(* process_keyboard_input with a key.  An Enter may ask for a send; a      *)
(* character too many is answered with a warning.                          *)
TakeKey ==
  /\ At("Main", "Key") /\ GetChar
  /\ \/ Changed /\ is_press_cr' \in BOOLEAN /\ Goto("Main", "S3Clear", 0)
     \/ Goto("Main", "Log", 1) /\ UNCHANGED <<is_press_cr, drawing>>
  /\ UNCHANGED <<g_friends_len, locks, clock>>

(* Faulty: the iteration ends when there is no key. *)
TakeNoKeyReturns ==
  /\ At("Main", "Key") /\ NoKey
  /\ UNCHANGED terminal

TakeNoKey ==
  /\ At("Main", "Key") /\ NoKey
  /\ Goto("Main", "S3Clear", 0)
  /\ UNCHANGED <<data, drawing, locks, clock>>

(* check_chat_need_send refuses; of a friend that does not exist it also   *)
(* warns and drops the choice, which S3 shows.                             *)
Refuse ==
  /\ At("Main", "Check") /\ is_press_cr' = FALSE
  /\ \/ Goto("Main", "Key", 0) /\ UNCHANGED drawing
     \/ is_press_cr /\ Goto("Main", "Log", 0) /\ Changed
  /\ UNCHANGED <<vars, g_friends_len, locks, clock>>

(* send_chat, which may fail with perror, which waits for no mutex, and    *)
(* two log calls.                                                          *)
Send ==
  /\ At("Main", "Check") /\ is_press_cr /\ is_press_cr' = FALSE
  /\ \/ Changed /\ Goto("Main", "S2Lock", 0)
     \/ PrintsLine /\ Goto("Main", "Log", 2)
  /\ UNCHANGED <<vars, g_friends_len, locks, clock>>

-----------------------------------------------------------------------------
(* The receive thread. *)

(* recv_broadcast_data: push_g_friends adds the name, or knows it, or, its *)
(* table full, refuses it with an error and a warning.                     *)
HearFriend ==
  /\ at["Receive"] = Idle
  /\ IF g_friends_len >= N
     THEN Goto("Receive", "Log", 2) /\ UNCHANGED g_friends_len
     ELSE /\ g_friends_len' \in {g_friends_len + 1} \union ({g_friends_len} \ {0})
          /\ Goto("Receive", "S1Clear", 0)
  /\ UNCHANGED <<vars, is_press_cr, drawing, locks, clock>>

(* recv_chat_data *)
HearChat ==
  /\ at["Receive"] = Idle
  /\ Goto("Receive", "S2Lock", 0)
  /\ UNCHANGED <<vars, data, drawing, locks, clock>>

(* recv fails, with perror and an error, or gets an empty packet, with a   *)
(* warning.                                                                *)
HearError ==
  /\ at["Receive"] = Idle
  /\ PrintsLine \/ UNCHANGED drawing
  /\ Goto("Receive", "Log", 1)
  /\ UNCHANGED <<vars, data, locks, clock>>

-----------------------------------------------------------------------------
(* The broadcast thread prints nothing but the error of a sendto that      *)
(* failed: log_log in one step, since log_mutex keeps every other print    *)
(* out of it.  Only the time of this line itself is not followed.          *)
BroadcastFails ==
  /\ log_mutex = "none" /\ PrintsLine
  /\ tm' = IF \E t \in Threads : At(t, "S2Format") THEN <<"log", "Broadcast">> ELSE Never
  /\ UNCHANGED <<vars, at, data, locks, stamp>>

-----------------------------------------------------------------------------
(* A key that is typed while the main thread does something else is        *)
(* noticed when it asks for a key: it may as well be typed then.           *)
UserTypes == At("Main", "Key") /\ TypeKey /\ UNCHANGED terminal

MainStep ==
  \/ TakeKey \/ TakeNoKey \/ Refuse \/ Send
  \/ S3Clear \/ S3Text \/ refresh_S2("Main") \/ log_log("Main")
ReceiveStep == refresh_S1("Receive") \/ refresh_S2("Receive") \/ log_log("Receive")

TerminalNext ==
  \/ UserTypes \/ MainStep \/ ReceiveStep
  \/ HearFriend \/ HearChat \/ HearError \/ BroadcastFails

(* The scheduler runs both threads, and a thread that waits for a mutex    *)
(* which is free again and again gets it in the end.                       *)
TerminalSpec ==
  /\ TerminalInit /\ [][TerminalNext]_allVars
  /\ SF_allVars(MainStep) /\ SF_allVars(ReceiveStep)

-----------------------------------------------------------------------------
(* Every variable has its type: the cursor is never right of the texts in  *)
(* its row, so that what is printed leaves no hole, and a mutex is held    *)
(* by the thread that is inside it and by no other.                        *)
TerminalTypeOK ==
  /\ TypeOK
  /\ g_friends_len \in 0 .. N
  /\ is_press_cr \in BOOLEAN /\ cursor[1] \in 1 .. Below
  /\ cursor[1] \in DOMAIN s1 => cursor[2] \in 0 .. Len(s1[cursor[1]])
  /\ \A t \in Threads :
       /\ refresh_S2_lock = t <=> \E s \in {"S2Time", "S2Format", "S2Line"} : At(t, s)
       /\ log_mutex = t <=> \E s \in {"LogFormat", "LogUnlock"} : At(t, s)

(* What S1 is to show in a row when k friends are drawn. *)
NamesIn(r, k) ==
  LET first == (r - 1) * PerLine
      last == IF k < r * PerLine THEN k ELSE r * PerLine
  IN [n \in 1 .. (IF last > first THEN last - first ELSE 0) |-> first + n]

(* S1 shows the first k friends.  The last row is not cleared: right of    *)
(* its names something older may remain.                                   *)
Shows(k) ==
  /\ \A r \in 1 .. S1_ROW - 1 : s1[r] = NamesIn(r, k)
  /\ LET last == NamesIn(S1_ROW, k)
     IN \A n \in DOMAIN last : n <= Len(s1[S1_ROW]) /\ s1[S1_ROW][n] = last[n]

(* Nobody excludes the main thread, which moves the cursor, from a         *)
(* refresh_S1: S1 still shows the friends in their order, as many as were  *)
(* printed before the cursor was moved away, all of them when it was not.  *)
(* This race can cut the list, never misplace a name.  What can is a line  *)
(* of any thread logged between two prints of refresh_S1, which lands in   *)
(* S1 and sends the next name to another row, until the next refresh_S1    *)
(* in which nothing is logged.                                             *)
S1IsPrefix ==
  s1Clean /\ ~At("Receive", "S1Clear") =>
    \E k \in 0 .. g_friends_len :
      Shows(k) /\ (s1Alone /\ At("Receive", "S1Name") => k = I("Receive"))

(* localtime's result is shared by refresh_S2 and log_log, each under a    *)
(* mutex of its own.  A time in S2 that is not its record's is that of a   *)
(* log line of another thread, never of another record, and a wrong time   *)
(* in a log line is that of a record another thread draws.                 *)
TimesExplained ==
  \A t \in Threads :
    /\ At(t, "S2Line") =>
         stamp[t] \in {<<"refresh", t>>, <<"log", Other(t)>>, <<"log", "Broadcast">>}
    /\ At(t, "LogUnlock") => stamp[t] \in {<<"log", t>>, <<"refresh", Other(t)>>}

S3Right == s3 = "new"

(* Names of a cut S1 and log lines are printed over S3.  Once the receive  *)
(* thread stays quiet and the broadcast thread fails no more, S3 shows the *)
(* input line and its state again and again, whatever the main thread      *)
(* itself logs.                                                            *)
S3Heals ==
  <>[](at["Receive"] = Idle) /\ <>[][~BroadcastFails]_allVars => []<>S3Right
=============================================================================
