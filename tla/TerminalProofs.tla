-------------------------- MODULE TerminalProofs ---------------------------
(***************************************************************************)
(* Proofs about Terminal, for screens, tables and buffers of any size.     *)
(* The arithmetic of S1 comes first: what a name printed at the cursor     *)
(* makes of a row.  RowsInv follows a refresh_S1 in which nobody logs,     *)
(* print by print: as long as the main thread does not print, the cursor   *)
(* is where the next name belongs, and once it printed, the cursor is      *)
(* below S1 and nothing reaches S1 any more.  Of a refresh in which        *)
(* somebody logs it says nothing, and CursorInv, which holds always, is    *)
(* all that the next refresh needs.                                        *)
(***************************************************************************)
EXTENDS Terminal, SequenceTheorems, TLAPS

(* Facts about products that the provers do not find by themselves. *)
LEMMA Times ==
  ASSUME NEW a \in Nat, NEW b \in Nat, NEW p \in Nat \ {0}, a < b
  PROVE  a * p + p <= b * p
OBVIOUS

(* A smaller product has a smaller factor. *)
LEMMA TimesBack ==
  ASSUME NEW a \in Nat, NEW b \in Nat, NEW p \in Nat \ {0}, a * p < b * p
  PROVE  a < b
OBVIOUS

(* The position in its line says whether a name ends it. *)
LEMMA EndsLine ==
  ASSUME NEW q \in Nat, NEW p \in Nat \ {0}, NEW c \in 1 .. p
  PROVE  (q * p + c) % p = 0 <=> c = p
<1>1. CASE c = p
  <2>1. q * p + c = (q + 1) * p
    BY <1>1
  <2>2. ((q + 1) * p) % p = 0
    OBVIOUS
  <2> QED BY <1>1, <2>1, <2>2
<1>2. CASE c # p
  <2>1. c \in 0 .. p - 1 /\ c # 0
    BY <1>2
  <2>2. \A d \in 0 .. p - 1 : (q * p + d) % p = d
    OBVIOUS
  <2> QED BY <1>2, <2>1, <2>2
<1> QED BY <1>1, <1>2

Printed(s, c, x) == SubSeq(s, 1, c) \o <<x>> \o SubSeq(s, c + 2, Len(s))

(* What is printed at column c + 1 replaces what was there, or extends the *)
(* row when the cursor was at its end.                                     *)
LEMMA RowWith ==
  ASSUME NEW s \in Seq(Nat), NEW c \in 0 .. Len(s), NEW x \in Nat
  PROVE  /\ Printed(s, c, x) \in Seq(Nat)
         /\ Len(Printed(s, c, x)) = IF c = Len(s) THEN Len(s) + 1 ELSE Len(s)
         /\ \A n \in 1 .. Len(Printed(s, c, x)) :
              Printed(s, c, x)[n] = IF n = c + 1 THEN x ELSE s[n]
<1> DEFINE a == SubSeq(s, 1, c)
           b == SubSeq(s, c + 2, Len(s))
           t == a \o <<x>> \o b
<1> DEFINE L == Len(s)
<1>a. L \in Nat /\ c \in Nat /\ c <= L
  BY LenProperties
<1>0. \A n \in 1 .. L : s[n] \in Nat
  BY ElementOfSeq
<1>1. a \in Seq(Nat) /\ Len(a) = c /\ \A n \in 1 .. c : a[n] = s[n]
  <2>1. \A n \in 1 .. c : s[n] \in Nat
    BY <1>a, <1>0
  <2>2. /\ a \in Seq(Nat) /\ Len(a) = IF 1 <= c THEN c - 1 + 1 ELSE 0
        /\ \A n \in 1 .. c - 1 + 1 : a[n] = s[1 + n - 1]
    BY <1>a, <1>0, <2>1, SubSeqProperties
  <2> QED BY <1>a, <1>0, <2>2
<1>2. /\ b \in Seq(Nat) /\ Len(b) = IF c + 2 <= L THEN L - c - 1 ELSE 0
      /\ \A n \in 1 .. L - c - 1 : b[n] = s[c + 1 + n]
  <2>1. \A n \in c + 2 .. L : s[n] \in Nat
    BY <1>a, <1>0
  <2>2. /\ b \in Seq(Nat) /\ Len(b) = IF c + 2 <= L THEN L - (c + 2) + 1 ELSE 0
        /\ \A n \in 1 .. L - (c + 2) + 1 : b[n] = s[c + 2 + n - 1]
    BY <1>a, <1>0, <2>1, SubSeqProperties
  <2> QED BY <1>a, <1>0, <2>2
<1> HIDE DEF a, b, L
<1>3. <<x>> \in Seq(Nat) /\ Len(<<x>>) = 1 /\ <<x>>[1] = x
  OBVIOUS
<1>4. PICK u \in Seq(Nat) :
        /\ u = a \o <<x>> /\ Len(u) = c + 1
        /\ \A n \in 1 .. c + 1 : u[n] = IF n = c + 1 THEN x ELSE s[n]
  <2>1. /\ a \o <<x>> \in Seq(Nat) /\ Len(a \o <<x>>) = c + 1
        /\ \A n \in 1 .. c + 1 : (a \o <<x>>)[n] = IF n <= c THEN a[n] ELSE <<x>>[n - c]
    BY <1>a, <1>0, <1>1, <1>3, ConcatProperties
  <2>2. \A n \in 1 .. c + 1 : (a \o <<x>>)[n] = IF n = c + 1 THEN x ELSE s[n]
    BY <2>1, <1>a, <1>0, <1>1, <1>3
  <2> QED BY <2>1, <2>2
<1>5. PICK v \in Seq(Nat) :
        /\ v = u \o b /\ Len(v) = c + 1 + Len(b)
        /\ \A n \in 1 .. c + 1 + Len(b) : v[n] = IF n <= c + 1 THEN u[n] ELSE b[n - (c + 1)]
  <2>1. /\ u \o b \in Seq(Nat) /\ Len(u \o b) = Len(u) + Len(b)
        /\ \A n \in 1 .. Len(u) + Len(b) : (u \o b)[n] = IF n <= Len(u) THEN u[n] ELSE b[n - Len(u)]
    BY <1>2, ConcatProperties
  <2>2. /\ Len(u \o b) = c + 1 + Len(b)
        /\ \A n \in 1 .. c + 1 + Len(b) :
             (u \o b)[n] = IF n <= c + 1 THEN u[n] ELSE b[n - (c + 1)]
    <3>1. Len(u) = c + 1
      BY <1>4
    <3> QED BY <2>1, <3>1
  <2> QED BY <2>1, <2>2
<1>6. t = v
  BY <1>4, <1>5
<1> HIDE DEF t
<1>7. Len(v) = IF c = L THEN L + 1 ELSE L
  BY <1>a, <1>2, <1>5
<1>8. ASSUME NEW n \in 1 .. Len(v)  PROVE v[n] = IF n = c + 1 THEN x ELSE s[n]
  <2>1. CASE n <= c + 1
    BY <2>1, <1>a, <1>7, <1>4, <1>5
  <2>2. CASE n > c + 1
    <3>1. n \in 1 .. c + 1 + Len(b) /\ n - (c + 1) \in 1 .. L - c - 1
      BY <2>2, <1>a, <1>7, <1>5
    <3>2. v[n] = b[n - (c + 1)]
      BY <2>2, <3>1, <1>a, <1>5
    <3>3. b[n - (c + 1)] = s[c + 1 + (n - (c + 1))]
      BY <3>1, <1>2
    <3>4. c + 1 + (n - (c + 1)) = n /\ n # c + 1
      BY <2>2, <1>a
    <3> QED BY <3>2, <3>3, <3>4
  <2> QED BY <2>1, <2>2, <1>a, <1>7
<1>9. t \in Seq(Nat) /\ Len(t) = (IF c = L THEN L + 1 ELSE L)
      /\ \A n \in 1 .. Len(t) : t[n] = IF n = c + 1 THEN x ELSE s[n]
  BY <1>6, <1>5, <1>7, <1>8
<1> QED BY <1>9 DEF Printed, t, a, b, L
-----------------------------------------------------------------------------
(* A row of S1 that is filled with the names up to the k-th. *)
LEMMA NamesOfRow ==
  ASSUME NEW r \in Nat \ {0}, NEW k \in Nat, (r - 1) * PerLine <= k, k <= r * PerLine
  PROVE  /\ NamesIn(r, k) \in Seq(Nat)
         /\ Len(NamesIn(r, k)) = k - (r - 1) * PerLine
         /\ \A n \in 1 .. k - (r - 1) * PerLine : NamesIn(r, k)[n] = (r - 1) * PerLine + n
<1>1. (r - 1) * PerLine \in Nat /\ r * PerLine \in Nat
  BY ScreenAssumption
<1> DEFINE f == (r - 1) * PerLine
           l == r * PerLine
<1> HIDE DEF f, l
<1>2. /\ f \in Nat /\ l \in Nat /\ f <= k /\ k <= l
  BY <1>1 DEF f, l
<1>3. (IF (IF k < l THEN k ELSE l) > f THEN (IF k < l THEN k ELSE l) - f ELSE 0) = k - f
  BY <1>2
<1>4. NamesIn(r, k) = [n \in 1 .. k - f |-> f + n]
  BY <1>3 DEF NamesIn, f, l
<1>5. k - f \in Nat /\ \A n \in 1 .. k - f : f + n \in Nat
  BY <1>2
<1>6. ASSUME NEW q \in Nat, \A n \in 1 .. q : f + n \in Nat
      PROVE  /\ [n \in 1 .. q |-> f + n] \in Seq(Nat)
             /\ Len([n \in 1 .. q |-> f + n]) = q
             /\ \A n \in 1 .. q : [m \in 1 .. q |-> f + m][n] = f + n
  BY <1>6
<1> QED BY <1>4, <1>5, <1>6 DEF f

(* No name, no text. *)
LEMMA NoNames == \A r \in Nat \ {0} : NamesIn(r, 0) = <<>>
<1> SUFFICES ASSUME NEW r \in Nat \ {0} PROVE NamesIn(r, 0) = <<>>
  OBVIOUS
<1>1. \A x \in Nat \ {0} : (x - 1) * PerLine \in Nat /\ x * PerLine \in Nat
  BY ScreenAssumption
<1>2. \A g \in [1 .. 0 -> Nat] : g = <<>>
  OBVIOUS
<1>3. NamesIn(r, 0) \in [1 .. 0 -> Nat]
  BY <1>1 DEF NamesIn
<1> QED BY <1>2, <1>3

(* A new name in row r changes no other row. *)
LEMMA OtherRows ==
  ASSUME NEW r \in Nat \ {0}, NEW q \in Nat \ {0}, q # r, NEW i \in Nat,
         (r - 1) * PerLine <= i, i < r * PerLine
  PROVE  NamesIn(q, i + 1) = NamesIn(q, i)
<1>0. PerLine \in Nat \ {0}
  BY ScreenAssumption
<1> DEFINE f == (q - 1) * PerLine
           l == q * PerLine
           Size(k) == LET last == IF k < l THEN k ELSE l IN IF last > f THEN last - f ELSE 0
<1>1. f \in Nat /\ l \in Nat /\ f <= l
  BY <1>0
<1>9. (r - 1) * PerLine \in Nat /\ r * PerLine \in Nat
  BY <1>0
<1>2. l <= i \/ f >= i + 1
  <2>1. CASE q < r
    <3>1. l <= (r - 1) * PerLine
      <4>1. q = r - 1 \/ q < r - 1
        BY <2>1
      <4>2. CASE q < r - 1
        <5>1. q * PerLine + PerLine <= (r - 1) * PerLine
          BY <4>2, <1>0, Times, r - 1 \in Nat
        <5> QED BY <5>1, <1>0, <1>1, <1>9
      <4>3. CASE q = r - 1
        BY <4>3, <1>0
      <4> QED BY <4>1, <4>2, <4>3
    <3> QED BY <3>1, <1>1, <1>9
  <2>2. CASE q > r
    <3>1. f >= r * PerLine
      <4>1. q - 1 = r \/ r < q - 1
        BY <2>2
      <4>2. CASE r < q - 1
        <5>1. r * PerLine + PerLine <= (q - 1) * PerLine
          BY <4>2, <1>0, Times, q - 1 \in Nat
        <5> QED BY <5>1, <1>0, <1>1, <1>9
      <4> QED BY <4>1, <4>2, <1>1
    <3> QED BY <3>1, <1>1, <1>9
  <2> QED BY <2>1, <2>2
<1>3. Size(i + 1) = Size(i)
  <2> HIDE DEF f, l
  <2> QED BY <1>1, <1>2
<1>4. \A k : NamesIn(q, k) = [n \in 1 .. Size(k) |-> f + n]
  BY DEF NamesIn
<1> QED BY <1>3, <1>4

(* The name after the i-th, printed where it belongs in the last row,      *)
(* which begins with the names up to the i-th: it begins with one more.    *)
LEMMA NamePutOver ==
  ASSUME NEW r \in Nat \ {0}, NEW c \in 0 .. PerLine - 1, NEW i \in Nat,
         i = (r - 1) * PerLine + c,
         NEW s \in Seq(Nat), c <= Len(s),
         \A n \in DOMAIN NamesIn(r, i) : n <= Len(s) /\ s[n] = NamesIn(r, i)[n]
  PROVE  \A n \in DOMAIN NamesIn(r, i + 1) :
           /\ n <= Len(Printed(s, c, i + 1))
           /\ Printed(s, c, i + 1)[n] = NamesIn(r, i + 1)[n]
<1> DEFINE f == (r - 1) * PerLine
           t == Printed(s, c, i + 1)
           old == NamesIn(r, i)
           new == NamesIn(r, i + 1)
<1>1. f \in Nat /\ r * PerLine = f + PerLine /\ PerLine \in Nat \ {0} /\ Len(s) \in Nat
  BY ScreenAssumption, LenProperties
<1>2. f <= i /\ i + 1 <= r * PerLine /\ c \in Nat /\ i = f + c
  BY <1>1
<1>3. old \in Seq(Nat) /\ Len(old) = c /\ \A n \in 1 .. c : old[n] = f + n
  <2>1. f <= i /\ i <= r * PerLine /\ i - f = c
    BY <1>1, <1>2
  <2> QED BY <2>1, NamesOfRow
<1>4. new \in Seq(Nat) /\ Len(new) = c + 1 /\ \A n \in 1 .. c + 1 : new[n] = f + n
  <2>1. f <= i + 1 /\ i + 1 <= r * PerLine /\ (i + 1) - f = c + 1 /\ i + 1 \in Nat
    BY <1>1, <1>2
  <2> QED BY <2>1, NamesOfRow
<1>5. DOMAIN old = 1 .. c /\ DOMAIN new = 1 .. c + 1
  BY <1>3, <1>4, LenProperties
<1>6. /\ Len(t) = IF c = Len(s) THEN Len(s) + 1 ELSE Len(s)
      /\ \A n \in 1 .. Len(t) : t[n] = IF n = c + 1 THEN i + 1 ELSE s[n]
  <2>1. c \in 0 .. Len(s) /\ i + 1 \in Nat
    BY <1>1, <1>2
  <2> QED BY <2>1, RowWith
<1> HIDE DEF f, t, old, new
<1>7. \A n \in 1 .. c : n <= Len(s) /\ s[n] = old[n]
  BY <1>5 DEF old
<1>8. ASSUME NEW n \in 1 .. c + 1 PROVE n <= Len(t) /\ t[n] = new[n]
  <2>1. n \in 1 .. Len(t)
    BY <1>1, <1>2, <1>6
  <2>2. CASE n = c + 1
    <3>1. t[n] = i + 1 /\ new[n] = f + n
      BY <2>1, <2>2, <1>4, <1>6
    <3> QED BY <2>1, <2>2, <3>1, <1>1, <1>2, <1>6
  <2>3. CASE n # c + 1
    <3>1. n \in 1 .. c
      BY <2>3, <1>2
    <3>2. t[n] = s[n]
      BY <2>1, <2>3, <1>6
    <3>3. s[n] = old[n] /\ old[n] = f + n /\ new[n] = f + n
      BY <3>1, <1>3, <1>4, <1>7
    <3> QED BY <2>1, <3>2, <3>3, <1>1, <1>6
  <2> QED BY <2>2, <2>3
<1> QED BY <1>5, <1>8 DEF t, new

(* In a row of which no more than these names is printed, they are all     *)
(* that is printed then.                                                   *)
LEMMA NamePutInPlace ==
  ASSUME NEW r \in Nat \ {0}, NEW c \in 0 .. PerLine - 1, NEW i \in Nat,
         i = (r - 1) * PerLine + c
  PROVE  Printed(NamesIn(r, i), c, i + 1) = NamesIn(r, i + 1)
<1> DEFINE f == (r - 1) * PerLine
           s == NamesIn(r, i)
           t == Printed(s, c, i + 1)
           u == NamesIn(r, i + 1)
<1>1. /\ f \in Nat /\ f <= i /\ i + 1 <= r * PerLine /\ i <= r * PerLine
      /\ i - f = c /\ (i + 1) - f = c + 1 /\ f <= i + 1 /\ i + 1 \in Nat /\ c \in Nat
  BY ScreenAssumption
<1>2. s \in Seq(Nat) /\ Len(s) = c
  BY <1>1, NamesOfRow
<1>3. u \in Seq(Nat) /\ Len(u) = c + 1
  BY <1>1, NamesOfRow
<1>4. t \in Seq(Nat) /\ Len(t) = c + 1
  <2>1. c \in 0 .. Len(s)
    BY <1>1, <1>2
  <2> HIDE DEF s
  <2> QED BY <2>1, <1>1, <1>2, RowWith
<1>5. \A n \in DOMAIN s : n <= Len(s) /\ s[n] = s[n]
  BY <1>2, LenProperties
<1>6. \A n \in DOMAIN u : t[n] = u[n]
  <2>1. c <= Len(s)
    BY <1>1, <1>2
  <2> QED BY <2>1, <1>2, <1>5, NamePutOver, Zenon
<1> HIDE DEF s, t, u
<1>7. \A n \in 1 .. Len(t) : t[n] = u[n]
  BY <1>3, <1>4, <1>6, LenProperties
<1> QED BY <1>3, <1>4, <1>7, SeqEqual DEF s, t, u
-----------------------------------------------------------------------------
(* The invariant. *)

S1Stages == {"S1Clear", "S1Name", "S1Gap"}
S2Stages == {"S2Time", "S2Format", "S2Line"}  \* inside refresh_S2_lock
LogStages == {"LogFormat", "LogUnlock"}       \* inside log_mutex
Stages ==
  {"Idle", "Key", "Check", "S3Clear", "S3Text", "S2Lock", "Log"}
  \union S1Stages \union S2Stages \union LogStages

(* Where the threads are. *)
PlaceInv ==
  /\ TypeOK
  /\ at \in [Threads -> Stages \X Nat]
  /\ g_friends_len \in 0 .. N /\ is_press_cr \in BOOLEAN
  /\ at["Main"][1] \notin S1Stages
  /\ at["Receive"][1] = "S1Name" => at["Receive"][2] <= g_friends_len
  /\ at["Receive"][1] = "S1Gap" => at["Receive"][2] < g_friends_len

(* Each mutex is held by exactly the thread inside its critical section. *)
LocksInv ==
  \A t \in Threads :
    /\ refresh_S2_lock = t <=> at[t][1] \in S2Stages
    /\ log_mutex = t <=> at[t][1] \in LogStages

(* What localtime's result can be until it is formatted. *)
TimesInv ==
  /\ stamp = [t \in Threads |-> stamp[t]]
  /\ \A t \in Threads :
       /\ at[t][1] = "S2Format" =>
            tm \in {<<"refresh", t>>, <<"log", Other(t)>>, <<"log", "Broadcast">>}
       /\ at[t][1] = "LogFormat" => tm \in {<<"log", t>>, <<"refresh", Other(t)>>}
       /\ at[t][1] = "S2Line" =>
            stamp[t] \in {<<"refresh", t>>, <<"log", Other(t)>>, <<"log", "Broadcast">>}
       /\ at[t][1] = "LogUnlock" => stamp[t] \in {<<"log", t>>, <<"refresh", Other(t)>>}

(* Whatever is logged, the cursor leaves no hole in a row, and it is below *)
(* S1 unless refresh_S1 runs.                                              *)
CursorInv ==
  /\ s1 \in [1 .. S1_ROW -> Seq(Nat)]
  /\ cursor \in (1 .. Below) \X Nat
  /\ s1Alone \in BOOLEAN /\ s1Clean \in BOOLEAN
  /\ cursor[1] \in 1 .. S1_ROW => cursor[2] <= Len(s1[cursor[1]])
  /\ ~Refreshing => cursor[1] > S1_ROW

Clearing == at["Receive"][1] = "S1Clear"
Printing == at["Receive"][1] \in {"S1Name", "S1Gap"}

(* The friends drawn so far, and the place of the next. *)
Drawn == at["Receive"][2] + (IF at["Receive"][1] = "S1Gap" THEN 1 ELSE 0)

(* The rows of S1 since the last refresh began, when nobody logged in it.  *)
RowsInv ==
  s1Clean =>
    /\ Clearing => \A r \in 1 .. S1_ROW - 1 : r < at["Receive"][2] => s1[r] = <<>>
    /\ Printing /\ s1Alone => Shows(Drawn)
    /\ ~Clearing /\ ~(Printing /\ s1Alone) => \E k \in 0 .. g_friends_len : Shows(k)
    /\ Printing /\ ~s1Alone => cursor[1] > S1_ROW
    /\ Printing /\ s1Alone /\ at["Receive"][2] < g_friends_len =>
         /\ cursor[1] \in 1 .. S1_ROW
         /\ Drawn = (cursor[1] - 1) * PerLine + cursor[2]
         /\ IF at["Receive"][1] = "S1Gap" THEN cursor[2] \in 1 .. PerLine ELSE cursor[2] < PerLine

IInv == PlaceInv /\ LocksInv /\ TimesInv /\ CursorInv /\ RowsInv

(* There are two threads. *)
LEMMA TwoThreads ==
  /\ Threads = {"Main", "Receive"}
  /\ Other("Main") = "Receive" /\ Other("Receive") = "Main"
  /\ \A t \in Threads : t # "none"
BY DEF Threads, Other

(* Goto moves one thread. *)
LEMMA GotoMoves ==
  ASSUME at \in [Threads -> Stages \X Nat], NEW t \in Threads, NEW s \in Stages, NEW i \in Nat,
         Goto(t, s, i)
  PROVE  /\ at' \in [Threads -> Stages \X Nat]
         /\ at'[t] = <<s, i>> /\ at'[t][1] = s /\ at'[t][2] = i
         /\ \A u \in Threads \ {t} : at'[u] = at[u]
BY DEF Goto

(* Finish ends a main loop's part, or the receive thread's whole turn. *)
LEMMA FinishMoves ==
  ASSUME at \in [Threads -> Stages \X Nat], NEW t \in Threads, NEW s \in Stages, Finish(t, s)
  PROVE  /\ at' \in [Threads -> Stages \X Nat]
         /\ at'[t][1] = (IF t = "Main" THEN s ELSE "Idle") /\ at'[t][2] = 0
         /\ \A u \in Threads \ {t} : at'[u] = at[u]
BY DEF Finish, Goto, Idle, Stages
-----------------------------------------------------------------------------
(* Keys come and go. *)
LEMMA KeyboardSteps ==
  ASSUME TypeOK, TypeKey \/ GetChar \/ NoKey \/ UNCHANGED vars
  PROVE  TypeOK'
BY BufferSizeAssumption DEF TypeOK, TypeKey, GetChar, NoKey, OneRead, vars

(* A step of one thread to a place that is in order keeps PlaceInv. *)
LEMMA PlaceKept ==
  ASSUME PlaceInv, TypeOK', NEW t \in Threads,
         at' \in [Threads -> Stages \X Nat],
         \A u \in Threads \ {t} : at'[u] = at[u],
         g_friends_len' \in g_friends_len .. N,
         g_friends_len' = g_friends_len \/ (t = "Receive" /\ at["Receive"] = Idle),
         is_press_cr' \in BOOLEAN,
         at'[t][1] \in S1Stages => t = "Receive",
         at'[t][1] = "S1Name" => at'[t][2] <= g_friends_len',
         at'[t][1] = "S1Gap" => at'[t][2] < g_friends_len'
  PROVE  PlaceInv'
<1>1. at'["Main"][1] \notin S1Stages
  BY TwoThreads DEF PlaceInv
<1>2. g_friends_len' \in 0 .. N
  BY ScreenAssumption DEF PlaceInv
<1>3. /\ at'["Receive"][1] = "S1Name" => at'["Receive"][2] <= g_friends_len'
      /\ at'["Receive"][1] = "S1Gap" => at'["Receive"][2] < g_friends_len'
  <2>1. CASE t = "Receive"
    BY <2>1
  <2>2. CASE t # "Receive"
    BY <2>2, TwoThreads DEF PlaceInv
  <2> QED BY <2>1, <2>2
<1> QED BY <1>1, <1>2, <1>3 DEF PlaceInv

(* The same with the place spelled out. *)
LEMMA GotoKept ==
  ASSUME PlaceInv, TypeOK', NEW t \in Threads, NEW s \in Stages, NEW i \in Nat, Goto(t, s, i),
         g_friends_len' \in g_friends_len .. N,
         g_friends_len' = g_friends_len \/ (t = "Receive" /\ at["Receive"] = Idle),
         is_press_cr' \in BOOLEAN,
         s \in S1Stages => t = "Receive",
         s = "S1Name" => i <= g_friends_len',
         s = "S1Gap" => i < g_friends_len'
  PROVE  PlaceInv'
<1>1. at \in [Threads -> Stages \X Nat]
  BY DEF PlaceInv
<1>2. /\ at' \in [Threads -> Stages \X Nat] /\ at'[t][1] = s /\ at'[t][2] = i
      /\ \A u \in Threads \ {t} : at'[u] = at[u]
  BY <1>1, GotoMoves
<1> QED BY <1>2, PlaceKept

(* Every step of the main thread keeps PlaceInv. *)
LEMMA PlaceMain ==
  ASSUME PlaceInv, UserTypes \/ TakeKey \/ TakeNoKey \/ Refuse \/ Send \/ S3Clear \/ S3Text
  PROVE  PlaceInv'
<1> DEFINE t == "Main"
<1>0. t \in Threads /\ at \in [Threads -> Stages \X Nat]
  BY TwoThreads DEF PlaceInv
<1>a. g_friends_len \in g_friends_len .. N
  BY ScreenAssumption DEF PlaceInv
<1>b. {"Key", "S3Clear", "S3Text", "Check", "Log", "S2Lock"} \subseteq Stages
  BY DEF Stages
<1>1. CASE UserTypes
  BY <1>1, KeyboardSteps DEF UserTypes, PlaceInv, terminal, data
<1>2. CASE TakeKey
  <2>1. TypeOK'
    BY <1>2, KeyboardSteps DEF TakeKey, PlaceInv
  <2>2. is_press_cr' \in BOOLEAN /\ g_friends_len' = g_friends_len
    BY <1>2 DEF TakeKey, PlaceInv
  <2>3. Goto(t, "S3Clear", 0) \/ Goto(t, "Log", 1)
    BY <1>2 DEF TakeKey
  <2> QED BY <2>1, <2>2, <2>3, <1>0, <1>a, <1>b, GotoKept DEF S1Stages
<1>3. CASE TakeNoKey
  <2>1. TypeOK'
    BY <1>3, KeyboardSteps DEF TakeNoKey, PlaceInv
  <2>2. UNCHANGED data /\ Goto(t, "S3Clear", 0)
    BY <1>3 DEF TakeNoKey
  <2> QED BY <2>1, <2>2, <1>0, <1>a, <1>b, GotoKept DEF S1Stages, data, PlaceInv
<1>4. CASE Refuse \/ Send
  <2>1. TypeOK'
    BY <1>4, KeyboardSteps DEF Refuse, Send, PlaceInv
  <2>2. is_press_cr' \in BOOLEAN /\ g_friends_len' = g_friends_len
    BY <1>4 DEF Refuse, Send
  <2>3. Goto(t, "Key", 0) \/ Goto(t, "Log", 0) \/ Goto(t, "Log", 2) \/ Goto(t, "S2Lock", 0)
    BY <1>4 DEF Refuse, Send
  <2> QED BY <2>1, <2>2, <2>3, <1>0, <1>a, <1>b, GotoKept DEF S1Stages
<1>5. CASE S3Clear \/ S3Text
  <2>1. TypeOK'
    BY <1>5, KeyboardSteps DEF S3Clear, S3Text, PlaceInv
  <2>2. is_press_cr' \in BOOLEAN /\ g_friends_len' = g_friends_len
    BY <1>5 DEF S3Clear, S3Text, data, PlaceInv
  <2>3. \/ Goto(t, "S3Clear", 1) \/ Goto(t, "S3Text", 0)
        \/ Goto(t, "S3Text", 1) \/ Goto(t, "Check", 0)
    BY <1>5 DEF S3Clear, S3Text
  <2> QED BY <2>1, <2>2, <2>3, <1>0, <1>a, <1>b, GotoKept DEF S1Stages
<1> QED BY <1>1, <1>2, <1>3, <1>4, <1>5

(* Redrawing S2 and logging keep PlaceInv, whoever does it. *)
LEMMA PlaceBoth ==
  ASSUME PlaceInv, NEW t \in Threads, refresh_S2(t) \/ log_log(t)
  PROVE  PlaceInv'
<1>0. at \in [Threads -> Stages \X Nat] /\ I(t) \in Nat
  BY DEF PlaceInv, I
<1>1. TypeOK' /\ g_friends_len' = g_friends_len /\ is_press_cr' \in BOOLEAN
  BY KeyboardSteps
     DEF PlaceInv, refresh_S2, S2Clear, S2Time, S2Format, S2Line, S2Separator,
         log_log, init_event, stdout_callback, LogUnlock, data
<1>2. g_friends_len \in g_friends_len .. N
  BY ScreenAssumption DEF PlaceInv
<1>3. {"S2Time", "S2Format", "S2Line", "S3Clear", "Key", "Log", "LogFormat", "LogUnlock"} \subseteq Stages
  BY DEF Stages, S2Stages, LogStages
<1>4. CASE \/ Goto(t, "S2Time", 0) \/ Goto(t, "S2Time", I(t) + 1)
           \/ Goto(t, "S2Format", I(t)) \/ Goto(t, "S2Line", I(t))
  BY <1>4, <1>0, <1>1, <1>2, <1>3, GotoKept DEF S1Stages
<1>5. CASE \/ Goto(t, "LogFormat", I(t)) \/ Goto(t, "LogUnlock", I(t))
           \/ I(t) - 1 \in Nat /\ Goto(t, "Log", I(t) - 1)
  BY <1>5, <1>0, <1>1, <1>2, <1>3, GotoKept DEF S1Stages
<1>6. CASE Finish(t, "S3Clear") \/ Finish(t, "Key")
  BY <1>6, <1>0, <1>1, <1>2, <1>3, FinishMoves, PlaceKept DEF S1Stages
<1>7. CASE refresh_S2(t)
  <2>1. CASE S2Separator(t) BY <2>1, <1>6 DEF S2Separator
  <2>2. CASE ~S2Separator(t)
    BY <2>2, <1>4, <1>7 DEF refresh_S2, S2Clear, S2Time, S2Format, S2Line
  <2> QED BY <2>1, <2>2
<1>8. CASE log_log(t)
  <2>1. CASE init_event(t) \/ stdout_callback(t) BY <2>1, <1>5 DEF init_event, stdout_callback
  <2>2. CASE LogUnlock(t)
    <3>1. CASE I(t) > 1
      BY <2>2, <3>1, <1>0, <1>5 DEF LogUnlock
    <3>2. CASE ~(I(t) > 1)
      BY <2>2, <3>2, <1>6 DEF LogUnlock
    <3> QED BY <3>1, <3>2
  <2> QED BY <1>8, <2>1, <2>2 DEF log_log
<1> QED BY <1>7, <1>8

(* The receive thread's own steps keep PlaceInv. *)
LEMMA PlaceReceive ==
  ASSUME PlaceInv, refresh_S1("Receive") \/ HearFriend \/ HearChat \/ HearError
  PROVE  PlaceInv'
<1> DEFINE t == "Receive"
<1>0. t \in Threads /\ at \in [Threads -> Stages \X Nat] /\ I(t) \in Nat
  BY TwoThreads DEF PlaceInv, I
<1>1. TypeOK' /\ is_press_cr' \in BOOLEAN
  BY KeyboardSteps
     DEF PlaceInv, refresh_S1, S1Clear, S1Name, S1Gap, S1Separator, HearFriend, HearChat,
         HearError, data
<1>2. g_friends_len \in g_friends_len .. N /\ g_friends_len \in Nat /\ N \in Nat
  BY ScreenAssumption DEF PlaceInv
<1>3. {"S1Clear", "S1Name", "S1Gap", "Log", "S2Lock"} \subseteq Stages
  BY DEF Stages, S1Stages
<1>4. CASE S1Clear(t)
  <2>1. g_friends_len' = g_friends_len /\ (Goto(t, "S1Clear", I(t) + 1) \/ Goto(t, "S1Name", 0))
    BY <1>4 DEF S1Clear, data
  <2> QED BY <2>1, <1>0, <1>1, <1>2, <1>3, GotoKept DEF S1Stages
<1>5. CASE S1Name(t)
  <2>1. Goto(t, "S1Gap", I(t)) /\ I(t) < g_friends_len /\ g_friends_len' = g_friends_len
    BY <1>5 DEF S1Name, data
  <2> QED BY <2>1, <1>0, <1>1, <1>2, <1>3, GotoKept DEF S1Stages
<1>6. CASE S1Gap(t)
  <2>1. Goto(t, "S1Name", I(t) + 1) /\ I(t) < g_friends_len /\ g_friends_len' = g_friends_len
    BY <1>6, TwoThreads DEF S1Gap, data, PlaceInv, At, I
  <2> QED BY <2>1, <1>0, <1>1, <1>2, <1>3, GotoKept DEF S1Stages
<1>7. CASE S1Separator(t)
  <2>1. /\ at' \in [Threads -> Stages \X Nat] /\ at'[t] = <<"Idle", 0>>
        /\ \A u \in Threads \ {t} : at'[u] = at[u] /\ g_friends_len' = g_friends_len
    BY <1>7, <1>0 DEF S1Separator, Idle, Stages, data
  <2>2. g_friends_len' = g_friends_len
    BY <1>7 DEF S1Separator, data
  <2> QED BY <2>1, <2>2, <1>0, <1>1, <1>2, PlaceKept DEF S1Stages
<1>8. CASE HearFriend
  <2>1. at[t] = Idle /\ g_friends_len' \in g_friends_len .. N
    BY <1>8, <1>2 DEF HearFriend
  <2>2. Goto(t, "Log", 2) \/ Goto(t, "S1Clear", 0)
    BY <1>8 DEF HearFriend
  <2> QED BY <2>1, <2>2, <1>0, <1>1, <1>3, GotoKept DEF S1Stages
<1>9. CASE HearChat
  BY <1>9, <1>0, <1>1, <1>2, <1>3, GotoKept DEF HearChat, data, S1Stages
<1>10. CASE HearError
  BY <1>10, <1>0, <1>1, <1>2, <1>3, GotoKept DEF HearError, data, S1Stages
<1> QED BY <1>4, <1>5, <1>6, <1>7, <1>8, <1>9, <1>10 DEF refresh_S1
-----------------------------------------------------------------------------
(* A step of one thread that takes, keeps or gives back each mutex. *)
LEMMA LocksKept ==
  ASSUME LocksInv, NEW t \in Threads, \A u \in Threads \ {t} : at'[u] = at[u],
         \/ /\ refresh_S2_lock' = refresh_S2_lock
            /\ at'[t][1] \in S2Stages <=> at[t][1] \in S2Stages
         \/ refresh_S2_lock = "none" /\ refresh_S2_lock' = t /\ at'[t][1] \in S2Stages
         \/ at[t][1] \in S2Stages /\ refresh_S2_lock' = "none" /\ at'[t][1] \notin S2Stages,
         \/ /\ log_mutex' = log_mutex
            /\ at'[t][1] \in LogStages <=> at[t][1] \in LogStages
         \/ log_mutex = "none" /\ log_mutex' = t /\ at'[t][1] \in LogStages
         \/ at[t][1] \in LogStages /\ log_mutex' = "none" /\ at'[t][1] \notin LogStages
  PROVE  LocksInv'
<1> HIDE DEF S2Stages, LogStages
<1>1. ASSUME NEW u \in Threads PROVE refresh_S2_lock' = u <=> at'[u][1] \in S2Stages
  BY <1>1, TwoThreads DEF LocksInv
<1>2. ASSUME NEW u \in Threads PROVE log_mutex' = u <=> at'[u][1] \in LogStages
  BY <1>2, TwoThreads DEF LocksInv
<1> QED BY <1>1, <1>2 DEF LocksInv

(* A step that neither asks for a time nor formats one. *)
LEMMA TimesKept ==
  ASSUME TimesInv, NEW t \in Threads, \A u \in Threads \ {t} : at'[u] = at[u],
         tm' = tm, stamp' = stamp \/ stamp' = [stamp EXCEPT ![t] = Never],
         at'[t][1] \notin {"S2Format", "S2Line", "LogFormat", "LogUnlock"}
  PROVE  TimesInv'
<1>1. stamp' = [u \in Threads |-> stamp'[u]] /\ \A u \in Threads \ {t} : stamp'[u] = stamp[u]
  BY DEF TimesInv
<1> QED BY <1>1 DEF TimesInv

(* The main thread and the mutexes: its own steps take none. *)
LEMMA LocksMain ==
  ASSUME PlaceInv, LocksInv, TimesInv,
         UserTypes \/ TakeKey \/ TakeNoKey \/ Refuse \/ Send \/ S3Clear \/ S3Text
  PROVE  LocksInv' /\ TimesInv'
<1>0. "Main" \in Threads /\ at \in [Threads -> Stages \X Nat] /\ UNCHANGED <<locks, clock>>
  BY TwoThreads
     DEF PlaceInv, UserTypes, TakeKey, TakeNoKey, Refuse, Send, S3Clear, S3Text, terminal
<1>1. CASE UserTypes
  BY <1>1 DEF UserTypes, terminal, locks, clock, LocksInv, TimesInv
<1>2. CASE ~UserTypes
  <2>1. \E s \in {"Key", "S3Clear", "S3Text", "Check", "Log", "S2Lock"}, i \in {0, 1, 2} : Goto("Main", s, i)
    BY <1>2 DEF TakeKey, TakeNoKey, Refuse, Send, S3Clear, S3Text
  <2>2. PICK s \in {"Key", "S3Clear", "S3Text", "Check", "Log", "S2Lock"}, i \in {0, 1, 2} : Goto("Main", s, i)
    BY <2>1
  <2>3. s \in Stages /\ i \in Nat
    BY DEF Stages
  <2>4. at'["Main"][1] = s /\ \A u \in Threads \ {"Main"} : at'[u] = at[u]
    BY <2>2, <2>3, <1>0, GotoMoves
  <2>5. at["Main"][1] \in {"Key", "S3Clear", "S3Text", "Check"}
    BY <1>2 DEF TakeKey, TakeNoKey, Refuse, Send, S3Clear, S3Text, At
  <2>6. LocksInv'
    BY <2>4, <2>5, <1>0, LocksKept DEF locks, S2Stages, LogStages
  <2>7. TimesInv'
    BY <2>4, <1>0, TimesKept DEF clock
  <2> QED BY <2>6, <2>7
<1> QED BY <1>1, <1>2

(* refresh_S2 holds refresh_S2_lock from its clear to its separator; the   *)
(* time of a line was asked for by it, or since then by the other's log.   *)
LEMMA LocksS2 ==
  ASSUME PlaceInv, LocksInv, TimesInv, NEW t \in Threads, refresh_S2(t)
  PROVE  LocksInv' /\ TimesInv'
<1>0. at \in [Threads -> Stages \X Nat] /\ I(t) \in Nat /\ I(t) + 1 \in Nat /\ 0 \in Nat
  BY DEF PlaceInv, I
<1>1. "S2Time" \in Stages /\ "S2Format" \in Stages /\ "S2Line" \in Stages /\ "S3Clear" \in Stages
  BY DEF Stages, S2Stages
<1>2. CASE S2Clear(t)
  <2>1. at'[t][1] = "S2Time" /\ \A u \in Threads \ {t} : at'[u] = at[u]
    BY <1>0, <1>1, <1>2, GotoMoves DEF S2Clear
  <2>2. LocksInv'
    BY <2>1, <1>2, LocksKept DEF S2Clear, At, S2Stages, LogStages
  <2> QED BY <2>1, <2>2, <1>2, TimesKept DEF S2Clear, clock
<1>3. CASE S2Time(t)
  <2>1. at'[t][1] = "S2Format" /\ \A u \in Threads \ {t} : at'[u] = at[u]
    BY <1>0, <1>1, <1>3, GotoMoves DEF S2Time
  <2>2. LocksInv'
    BY <2>1, <1>3, LocksKept DEF S2Time, At, S2Stages, LogStages, locks
  <2>3. \A u \in Threads \ {t} : at[u][1] # "S2Format" /\ t = Other(u)
    BY <1>3, TwoThreads DEF S2Time, At, LocksInv, S2Stages
  <2> QED BY <2>1, <2>2, <2>3, <1>3 DEF S2Time, TimesInv
<1>4. CASE S2Format(t)
  <2>1. at'[t][1] = "S2Line" /\ \A u \in Threads \ {t} : at'[u] = at[u]
    BY <1>0, <1>1, <1>4, GotoMoves DEF S2Format
  <2>2. LocksInv'
    BY <2>1, <1>4, LocksKept DEF S2Format, At, S2Stages, LogStages, locks
  <2>3. /\ stamp' = [u \in Threads |-> stamp'[u]] /\ stamp'[t] = tm
        /\ \A u \in Threads \ {t} : stamp'[u] = stamp[u]
    BY <1>4 DEF S2Format, strftime, TimesInv
  <2>4. tm \in {<<"refresh", t>>, <<"log", Other(t)>>, <<"log", "Broadcast">>}
    BY <1>4 DEF S2Format, At, TimesInv
  <2>5. \A u \in Threads \ {t} : at[u][1] \in {"S2Format", "LogFormat"} => tm' = tm
    BY <1>4, TwoThreads DEF S2Format, strftime, At
  <2> QED BY <2>1, <2>2, <2>3, <2>4, <2>5 DEF TimesInv
<1>5. CASE S2Line(t)
  <2>1. at'[t][1] = "S2Time" /\ \A u \in Threads \ {t} : at'[u] = at[u]
    BY <1>0, <1>1, <1>5, GotoMoves DEF S2Line
  <2>2. LocksInv'
    BY <2>1, <1>5, LocksKept DEF S2Line, At, S2Stages, LogStages, locks
  <2> QED BY <2>1, <2>2, <1>5, TimesKept DEF S2Line
<1>6. CASE S2Separator(t)
  <2>1. at'[t][1] \in {"S3Clear", "Idle"} /\ \A u \in Threads \ {t} : at'[u] = at[u]
    BY <1>0, <1>1, <1>6, FinishMoves DEF S2Separator
  <2>2. LocksInv'
    BY <2>1, <1>6, LocksKept DEF S2Separator, At, S2Stages, LogStages
  <2> QED BY <2>1, <2>2, <1>6, TimesKept DEF S2Separator, clock
<1> QED BY <1>2, <1>3, <1>4, <1>5, <1>6 DEF refresh_S2

(* log_log holds log_mutex from lock() to unlock(); the time of its line   *)
(* was asked for by it, or since then by the other's refresh_S2.           *)
LEMMA LocksLog ==
  ASSUME PlaceInv, LocksInv, TimesInv, NEW t \in Threads, log_log(t)
  PROVE  LocksInv' /\ TimesInv'
<1>0. at \in [Threads -> Stages \X Nat] /\ I(t) \in Nat
  BY DEF PlaceInv, I
<1>1. {"Log", "LogFormat", "LogUnlock", "S3Clear", "Key"} \subseteq Stages
  BY DEF Stages, LogStages
<1>2. CASE init_event(t)
  <2>1. at'[t][1] = "LogFormat" /\ \A u \in Threads \ {t} : at'[u] = at[u]
    BY <1>0, <1>1, <1>2, GotoMoves DEF init_event
  <2>2. LocksInv'
    BY <2>1, <1>2, LocksKept DEF init_event, At, S2Stages, LogStages
  <2>3. \A u \in Threads \ {t} : at[u][1] # "LogFormat" /\ t = Other(u)
    BY <1>2, TwoThreads DEF init_event, At, LocksInv, LogStages
  <2> QED BY <2>1, <2>2, <2>3, <1>2 DEF init_event, TimesInv
<1>3. CASE stdout_callback(t)
  <2>1. at'[t][1] = "LogUnlock" /\ \A u \in Threads \ {t} : at'[u] = at[u]
    BY <1>0, <1>1, <1>3, GotoMoves DEF stdout_callback
  <2>2. LocksInv'
    BY <2>1, <1>3, LocksKept DEF stdout_callback, At, S2Stages, LogStages, locks
  <2>3. /\ stamp' = [u \in Threads |-> stamp'[u]] /\ stamp'[t] = tm
        /\ \A u \in Threads \ {t} : stamp'[u] = stamp[u]
    BY <1>3 DEF stdout_callback, strftime, TimesInv
  <2>4. tm \in {<<"log", t>>, <<"refresh", Other(t)>>}
    BY <1>3 DEF stdout_callback, At, TimesInv
  <2>5. \A u \in Threads \ {t} : at[u][1] \in {"S2Format", "LogFormat"} => tm' = tm
    BY <1>3, TwoThreads DEF stdout_callback, strftime, At
  <2> QED BY <2>1, <2>2, <2>3, <2>4, <2>5 DEF TimesInv
<1>4. CASE LogUnlock(t)
  <2>1. at'[t][1] \in {"Log", "S3Clear", "Key", "Idle"} /\ \A u \in Threads \ {t} : at'[u] = at[u]
    <3>1. CASE I(t) > 1
      <4>1. I(t) - 1 \in Nat /\ Goto(t, "Log", I(t) - 1)
        BY <3>1, <1>0, <1>4 DEF LogUnlock
      <4> QED BY <4>1, <1>0, <1>1, GotoMoves
    <3>2. CASE ~(I(t) > 1)
      BY <3>2, <1>0, <1>1, <1>4, FinishMoves DEF LogUnlock
    <3> QED BY <3>1, <3>2
  <2>2. LocksInv'
    BY <2>1, <1>4, LocksKept DEF LogUnlock, At, S2Stages, LogStages
  <2> QED BY <2>1, <2>2, <1>4, TimesKept DEF LogUnlock
<1> QED BY <1>2, <1>3, <1>4 DEF log_log

(* Nothing that only the receive thread does needs a mutex or a time. *)
LEMMA LocksReceive ==
  ASSUME PlaceInv, LocksInv, TimesInv,
         refresh_S1("Receive") \/ HearFriend \/ HearChat \/ HearError
  PROVE  LocksInv' /\ TimesInv'
<1> DEFINE t == "Receive"
<1>0. t \in Threads /\ at \in [Threads -> Stages \X Nat] /\ I(t) \in Nat /\ I(t) + 1 \in Nat
  BY TwoThreads DEF PlaceInv, I
<1>1. UNCHANGED <<locks, clock>>
  BY DEF refresh_S1, S1Clear, S1Name, S1Gap, S1Separator, HearFriend, HearChat, HearError
<1>2. at[t][1] \in S1Stages \union {"Idle"}
  BY DEF refresh_S1, S1Clear, S1Name, S1Gap, S1Separator, HearFriend, HearChat, HearError, At, Idle, S1Stages
<1>3. /\ at'[t][1] \in S1Stages \union {"Idle", "Log", "S2Lock"}
      /\ \A u \in Threads \ {t} : at'[u] = at[u]
  <2>1. {"S1Clear", "S1Name", "S1Gap", "Log", "S2Lock"} \subseteq Stages
    BY DEF Stages, S1Stages
  <2>2. CASE S1Separator(t)
    BY <2>2, <1>0 DEF S1Separator, Idle
  <2>3. CASE ~S1Separator(t)
    <3>1. \/ Goto(t, "S1Clear", I(t) + 1) \/ Goto(t, "S1Name", 0)
          \/ Goto(t, "S1Gap", I(t)) \/ Goto(t, "S1Name", I(t) + 1)
          \/ Goto(t, "Log", 1) \/ Goto(t, "Log", 2) \/ Goto(t, "S1Clear", 0) \/ Goto(t, "S2Lock", 0)
      BY <2>3 DEF refresh_S1, S1Clear, S1Name, S1Gap, HearFriend, HearChat, HearError
    <3> QED BY <3>1, <2>1, <1>0, GotoMoves DEF S1Stages
  <2> QED BY <2>2, <2>3
<1>4. LocksInv'
  BY <1>0, <1>1, <1>2, <1>3, LocksKept DEF locks, S1Stages, S2Stages, LogStages
<1>5. TimesInv'
  BY <1>0, <1>1, <1>3, TimesKept DEF clock, S1Stages
<1> QED BY <1>4, <1>5

(* The line of the broadcast thread: nobody else logs meanwhile, but its   *)
(* time may be what a refresh_S2 formats.                                  *)
LEMMA LocksBroadcast ==
  ASSUME PlaceInv, LocksInv, TimesInv, BroadcastFails
  PROVE  PlaceInv' /\ LocksInv' /\ TimesInv'
<1>1. UNCHANGED <<vars, at, data, locks, stamp>> /\ log_mutex = "none"
  BY DEF BroadcastFails
<1>2. PlaceInv'
  BY <1>1, KeyboardSteps DEF PlaceInv, data
<1>3. LocksInv'
  BY <1>1 DEF LocksInv, locks
<1>4. \A t \in Threads : at[t][1] # "LogFormat"
  BY <1>1, TwoThreads DEF LocksInv, LogStages
<1>5. (\E t \in Threads : at[t][1] = "S2Format") => tm' = <<"log", "Broadcast">>
  BY DEF BroadcastFails, At
<1> QED BY <1>1, <1>2, <1>3, <1>4, <1>5 DEF TimesInv
-----------------------------------------------------------------------------
(* S1 while something happens outside refresh_S1. *)

ScreenInv == CursorInv /\ RowsInv

(* What is done to the screen there: nothing, a print with an absolute     *)
(* row, or a line where the cursor is.                                     *)
Quiet == UNCHANGED <<s1, cursor, history>>
MovesBelow ==
  /\ s1' = s1 /\ cursor' = BelowS1
  /\ s1Clean' = s1Clean /\ s1Alone' = (s1Alone /\ ~Printing)

(* The receive thread stays where it is, or outside refresh_S1, or begins  *)
(* one.                                                                    *)
Outside ==
  /\ g_friends_len' \in g_friends_len .. N
  /\ g_friends_len' = g_friends_len \/ ~Refreshing
  /\ \/ at'["Receive"] = at["Receive"]
     \/ ~Refreshing /\ (~Refreshing' \/ at'["Receive"] = <<"S1Clear", 0>>)

(* When refresh_S1 runs. *)
LEMMA WhenRefreshing ==
  /\ Refreshing <=> at["Receive"][1] \in S1Stages
  /\ Refreshing' <=> at'["Receive"][1] \in S1Stages
  /\ Refreshing <=> Clearing \/ Printing
BY DEF Refreshing, At, S1Stages, Clearing, Printing

(* Numbers that the screen is made of. *)
LEMMA ScreenNumbers ==
  ASSUME PlaceInv
  PROVE  /\ S1_ROW \in Nat \ {0} /\ PerLine \in Nat \ {0} /\ Below = S1_ROW + 1
         /\ N \in Nat /\ g_friends_len \in 0 .. N
         /\ at["Receive"][2] \in Nat
         /\ BelowS1 \in (1 .. Below) \X Nat /\ BelowS1[1] = Below /\ Below > S1_ROW
         /\ Printing => Drawn \in 0 .. g_friends_len
<1>1. at["Receive"][2] \in Nat /\ at["Receive"][1] \in Stages
  BY TwoThreads DEF PlaceInv
<1> QED BY <1>1, ScreenAssumption DEF PlaceInv, Below, BelowS1, Printing, Drawn

(* No print, or one with an absolute row. *)
LEMMA ScreenBelow ==
  ASSUME PlaceInv, ScreenInv, Outside, Quiet \/ MovesBelow
  PROVE  ScreenInv'
<1>1. s1' = s1 /\ s1Clean' = s1Clean /\ (cursor' = cursor \/ cursor' = BelowS1)
  BY DEF Quiet, MovesBelow, history
<1>2. \A k : Shows(k)' = Shows(k)
  BY <1>1 DEF Shows
<1>3. s1Alone' \in BOOLEAN
  BY DEF Quiet, MovesBelow, history, ScreenInv, CursorInv
<1>4. CursorInv'
  <2>1. CASE cursor' = BelowS1
    BY <2>1, <1>1, <1>3, ScreenNumbers DEF ScreenInv, CursorInv
  <2>2. CASE cursor' = cursor
    <3>1. ~Refreshing' => ~Refreshing
      BY WhenRefreshing DEF Outside
    <3> QED BY <2>2, <3>1, <1>1, <1>3 DEF ScreenInv, CursorInv
  <2> QED BY <1>1, <2>1, <2>2
<1>5. RowsInv'
  <2> SUFFICES ASSUME s1Clean PROVE RowsInv'
    BY <1>1 DEF RowsInv
  <2>1. CASE at'["Receive"] # at["Receive"]
    <3>1. ~Refreshing /\ (~Refreshing' \/ at'["Receive"] = <<"S1Clear", 0>>)
      BY <2>1 DEF Outside
    <3>2. ~Printing /\ ~Clearing /\ ~Printing'
      BY <3>1, WhenRefreshing DEF Printing, S1Stages
    <3>3. PICK k \in 0 .. g_friends_len : Shows(k)
      BY <3>2 DEF ScreenInv, RowsInv
    <3>4. k \in 0 .. g_friends_len' /\ Shows(k)'
      BY <3>3, <1>2, ScreenNumbers DEF Outside
    <3>5. Clearing' => at'["Receive"][2] = 0
      BY <3>1, WhenRefreshing DEF Clearing, S1Stages
    <3>6. \A r \in 1 .. S1_ROW - 1 : ~(r < 0)
      BY ScreenNumbers
    <3> QED BY <3>2, <3>4, <3>5, <3>6 DEF RowsInv
  <2>2. CASE at'["Receive"] = at["Receive"]
    <3>1. Printing' = Printing /\ Clearing' = Clearing /\ Drawn' = Drawn
      BY <2>2 DEF Printing, Clearing, Drawn
    <3>2. Printing => g_friends_len' = g_friends_len
      BY WhenRefreshing DEF Outside
    <3>3. CASE Quiet
      <4>1. cursor' = cursor /\ s1Alone' = s1Alone
        BY <3>3 DEF Quiet, history
      <4>2. (\E k \in 0 .. g_friends_len : Shows(k)) => \E k \in 0 .. g_friends_len' : Shows(k)'
        <5>1. \A k \in 0 .. g_friends_len : k \in 0 .. g_friends_len'
          BY ScreenNumbers DEF Outside
        <5> QED BY <5>1, <1>2
      <4>3. Shows(Drawn)' = Shows(Drawn)
        BY <3>1, <1>1 DEF Shows
      <4> QED BY <2>2, <3>1, <3>2, <4>1, <4>2, <4>3, <1>1 DEF ScreenInv, RowsInv
    <3>4. CASE MovesBelow
      <4>1. cursor' = BelowS1 /\ ~(Printing /\ s1Alone')
        BY <3>4 DEF MovesBelow
      <4>2. ~Clearing => \E k \in 0 .. g_friends_len : Shows(k)
        <5>1. CASE Printing /\ s1Alone
          BY <5>1, ScreenNumbers DEF ScreenInv, RowsInv
        <5>2. CASE ~(Printing /\ s1Alone)
          BY <5>2 DEF ScreenInv, RowsInv
        <5> QED BY <5>1, <5>2
      <4>3. ~Clearing => \E k \in 0 .. g_friends_len' : Shows(k)'
        <5>1. \A k \in 0 .. g_friends_len : k \in 0 .. g_friends_len'
          BY ScreenNumbers DEF Outside
        <5> QED BY <4>2, <5>1, <1>2
      <4> QED BY <2>2, <3>1, <4>1, <4>3, <1>1, ScreenNumbers DEF ScreenInv, RowsInv
    <3> QED BY <3>3, <3>4
  <2> QED BY <2>1, <2>2
<1> QED BY <1>4, <1>5 DEF ScreenInv

(* A line logged while refresh_S1 does not run lands below S1; one logged  *)
(* while it runs leaves no hole, and makes the refresh one of which        *)
(* RowsInv says nothing.                                                   *)
LEMMA ScreenLine ==
  ASSUME PlaceInv, ScreenInv, Outside, PrintsLine
  PROVE  ScreenInv'
<1>0. /\ s1 \in [1 .. S1_ROW -> Seq(Nat)] /\ cursor \in (1 .. Below) \X Nat
      /\ s1Alone \in BOOLEAN /\ s1Clean \in BOOLEAN
  BY DEF ScreenInv, CursorInv
<1>1. /\ s1' = [q \in 1 .. S1_ROW |-> IF q = cursor[1] THEN <<Line>> ELSE s1[q]]
      /\ cursor' = <<IF cursor[1] = Below THEN Below ELSE cursor[1] + 1, 0>>
      /\ s1Clean' = (s1Clean /\ ~Refreshing) /\ s1Alone' = s1Alone
  BY <1>0 DEF PrintsLine, Newline
<1>2. CASE Refreshing
  <2>1. s1Clean' = FALSE /\ Refreshing'
    BY <1>1, <1>2, WhenRefreshing DEF Outside
  <2>2. s1' \in [1 .. S1_ROW -> Seq(Nat)]
    <3>1. <<Line>> \in Seq(Nat)
      BY DEF Line
    <3> QED BY <3>1, <1>0, <1>1
  <2>3. cursor' \in (1 .. Below) \X Nat /\ cursor'[2] = 0
    BY <1>0, <1>1, ScreenNumbers
  <2>4. cursor'[1] \in 1 .. S1_ROW => cursor'[2] <= Len(s1'[cursor'[1]])
    <3>1. \A r \in 1 .. S1_ROW : Len(s1'[r]) \in Nat
      BY <2>2, LenProperties
    <3> QED BY <2>3, <3>1
  <2> QED BY <2>1, <2>2, <2>3, <2>4, <1>0, <1>1 DEF ScreenInv, CursorInv, RowsInv
<1>3. CASE ~Refreshing
  <2>1. cursor[1] = Below
    BY <1>0, <1>3, ScreenNumbers DEF ScreenInv, CursorInv
  <2>2. s1' = s1
    <3>1. \A q \in 1 .. S1_ROW : q # cursor[1]
      BY <2>1, ScreenNumbers
    <3>2. s1' = [q \in 1 .. S1_ROW |-> s1[q]]
      BY <3>1, <1>1
    <3> QED BY <3>2, <1>0
  <2>3. ~Printing
    BY <1>3, WhenRefreshing
  <2>4. MovesBelow
    BY <2>1, <2>2, <2>3, <1>0, <1>1, <1>3 DEF MovesBelow, BelowS1
  <2> QED BY <2>4, ScreenBelow
<1> QED BY <1>2, <1>3

(* The main thread is never inside refresh_S1. *)
LEMMA MainOutside ==
  ASSUME PlaceInv, CursorInv, UserTypes \/ MainStep
  PROVE  Outside /\ (Quiet \/ MovesBelow \/ PrintsLine)
<1>0. "Main" \in Threads /\ "Receive" \in Threads /\ at \in [Threads -> Stages \X Nat]
  BY TwoThreads DEF PlaceInv
<1>1. Outside
  <2>1. g_friends_len' = g_friends_len
    BY DEF UserTypes, MainStep, TakeKey, TakeNoKey, Refuse, Send, S3Clear, S3Text,
           refresh_S2, S2Clear, S2Time, S2Format, S2Line, S2Separator,
           log_log, init_event, stdout_callback, LogUnlock, terminal, data
  <2>2. at'["Receive"] = at["Receive"]
    BY <1>0
       DEF UserTypes, MainStep, TakeKey, TakeNoKey, Refuse, Send, S3Clear, S3Text, terminal,
           refresh_S2, S2Clear, S2Time, S2Format, S2Line, S2Separator, Finish, Goto,
           log_log, init_event, stdout_callback, LogUnlock
  <2> QED BY <2>1, <2>2, ScreenNumbers DEF Outside
<1>2. CASE UserTypes \/ TakeKey \/ TakeNoKey \/ Refuse
  BY <1>1, <1>2 DEF UserTypes, TakeKey, TakeNoKey, Refuse, Changed, terminal, drawing, Quiet
<1>3. CASE Send
  BY <1>1, <1>3 DEF Send, Changed, Quiet
<1>4. CASE S2Time("Main") \/ S2Format("Main") \/ init_event("Main") \/ LogUnlock("Main")
  BY <1>1, <1>4 DEF S2Time, S2Format, init_event, LogUnlock, drawing, Quiet
<1>5. CASE stdout_callback("Main")
  BY <1>1, <1>5 DEF stdout_callback
<1>6. CASE S3Clear \/ S3Text \/ S2Clear("Main") \/ S2Line("Main") \/ S2Separator("Main")
  <2>1. s1Alone' = (s1Alone /\ ~Printing) /\ s1Clean' = s1Clean
    BY <1>6 DEF S3Clear, S3Text, S2Clear, S2Line, S2Separator, Prints, Printing, At
  <2>2. s1' = s1 /\ cursor' = BelowS1
    BY <1>6 DEF S3Clear, S3Text, S2Clear, S2Line, S2Separator
  <2> QED BY <2>1, <2>2, <1>1 DEF MovesBelow
<1> QED BY <1>1, <1>2, <1>3, <1>4, <1>5, <1>6 DEF MainStep, refresh_S2, log_log

(* The receive thread outside refresh_S1. *)
LEMMA ReceiveOutside ==
  ASSUME PlaceInv, CursorInv,
         \/ HearFriend \/ HearChat \/ HearError
         \/ refresh_S2("Receive") \/ log_log("Receive")
  PROVE  Outside /\ (Quiet \/ MovesBelow \/ PrintsLine)
<1> DEFINE t == "Receive"
<1>0. t \in Threads /\ at \in [Threads -> Stages \X Nat] /\ s1Alone \in BOOLEAN
  BY TwoThreads DEF PlaceInv, CursorInv
<1>1. ~Printing /\ ~Clearing
  BY DEF HearFriend, HearChat, HearError, refresh_S2, S2Clear, S2Time, S2Format, S2Line,
         S2Separator, log_log, init_event, stdout_callback, LogUnlock, Printing, Clearing, At, Idle
<1>2. Outside
  <2>1. g_friends_len' \in g_friends_len .. N
    BY ScreenNumbers
       DEF HearFriend, HearChat, HearError, refresh_S2, S2Clear, S2Time, S2Format, S2Line,
           S2Separator, log_log, init_event, stdout_callback, LogUnlock, data
  <2>2. at'[t][1] \notin S1Stages \/ at'[t] = <<"S1Clear", 0>>
    BY <1>0
       DEF HearFriend, HearChat, HearError, refresh_S2, S2Clear, S2Time, S2Format, S2Line,
           S2Separator, log_log, init_event, stdout_callback, LogUnlock, Finish, Goto, Idle, S1Stages
  <2> QED BY <2>1, <2>2, <1>1, WhenRefreshing DEF Outside
<1>3. CASE \/ HearFriend \/ HearChat \/ S2Time(t) \/ S2Format(t) \/ init_event(t) \/ LogUnlock(t)
  BY <1>2, <1>3 DEF HearFriend, HearChat, S2Time, S2Format, init_event, LogUnlock, drawing, Quiet
<1>4. CASE HearError \/ stdout_callback(t)
  BY <1>2, <1>4 DEF HearError, stdout_callback, drawing, Quiet
<1>5. CASE S2Clear(t) \/ S2Line(t) \/ S2Separator(t)
  <2>1. s1Alone' = (s1Alone /\ ~Printing) /\ s1Clean' = s1Clean
    BY <1>0, <1>1, <1>5 DEF S2Clear, S2Line, S2Separator, Prints
  <2>2. s1' = s1 /\ cursor' = BelowS1
    BY <1>5 DEF S2Clear, S2Line, S2Separator
  <2> QED BY <2>1, <2>2, <1>2 DEF MovesBelow
<1> QED BY <1>2, <1>3, <1>4, <1>5 DEF refresh_S2, log_log

(* Whatever happens outside refresh_S1, S1 stays in order. *)
LEMMA ScreenOutside ==
  ASSUME PlaceInv, ScreenInv,
         \/ UserTypes \/ MainStep \/ HearFriend \/ HearChat \/ HearError
         \/ refresh_S2("Receive") \/ log_log("Receive") \/ BroadcastFails
  PROVE  ScreenInv'
<1>1. CursorInv
  BY DEF ScreenInv
<1>2. BroadcastFails => Outside /\ PrintsLine
  BY ScreenNumbers DEF BroadcastFails, Outside, data
<1>3. Outside /\ (Quiet \/ MovesBelow \/ PrintsLine)
  BY <1>1, <1>2, MainOutside, ReceiveOutside
<1> QED BY <1>3, ScreenBelow, ScreenLine
-----------------------------------------------------------------------------
(* refresh_S1 itself. *)

(* Each print that clears leaves one more row empty, and the last one      *)
(* leaves no name, but for the last row.                                   *)
LEMMA ScreenClear ==
  ASSUME PlaceInv, ScreenInv, S1Clear("Receive")
  PROVE  ScreenInv'
<1> PICK i, r : i = at["Receive"][2] /\ r = IF i \in 1 .. S1_ROW - 1 THEN i ELSE 1
  OBVIOUS
<1>0. /\ S1_ROW \in Nat \ {0} /\ Below = S1_ROW + 1 /\ i \in Nat /\ r \in 1 .. S1_ROW
      /\ g_friends_len \in Nat /\ at \in [Threads -> Stages \X Nat] /\ "Receive" \in Threads
  BY ScreenNumbers, TwoThreads DEF PlaceInv
<1>1. /\ Clearing /\ s1' = [s1 EXCEPT ![r] = <<>>] /\ cursor' = <<r, 0>>
      /\ s1Alone' = TRUE /\ s1Clean' = (s1Clean \/ i = 0) /\ g_friends_len' = g_friends_len
      /\ at'["Receive"] = IF i < S1_ROW THEN <<"S1Clear", i + 1>> ELSE <<"S1Name", 0>>
  BY <1>0 DEF S1Clear, data, Goto, At, I, Clearing
<1>2. s1 \in [1 .. S1_ROW -> Seq(Nat)] /\ s1Clean \in BOOLEAN
  BY DEF ScreenInv, CursorInv
<1>3. s1'[r] = <<>> /\ \A q \in 1 .. S1_ROW : q # r => s1'[q] = s1[q]
  BY <1>0, <1>1, <1>2
<1>4. CursorInv'
  <2>1. <<>> \in Seq(Nat) /\ Len(<<>>) = 0
    OBVIOUS
  <2>2. s1' \in [1 .. S1_ROW -> Seq(Nat)]
    BY <2>1, <1>0, <1>1, <1>2
  <2>3. cursor' \in (1 .. Below) \X Nat /\ cursor'[1] = r /\ cursor'[2] = 0
    BY <1>0, <1>1
  <2>4. Refreshing'
    BY <1>1, WhenRefreshing DEF S1Stages
  <2> QED BY <2>1, <2>2, <2>3, <2>4, <1>1, <1>2, <1>3 DEF CursorInv
<1>5. s1Clean' => \A q \in 1 .. S1_ROW - 1 : q <= i => s1'[q] = <<>>
  <2> SUFFICES ASSUME s1Clean', NEW q \in 1 .. S1_ROW - 1, q <= i PROVE s1'[q] = <<>>
    OBVIOUS
  <2>1. CASE q = r
    BY <2>1, <1>3
  <2>2. CASE q # r
    <3>1. q # i
      BY <2>2
    <3>2. q < i /\ i # 0
      BY <3>1, <1>0
    <3>3. s1Clean
      BY <3>2, <1>1
    <3>4. s1[q] = <<>>
      BY <3>2, <3>3, <1>1 DEF ScreenInv, RowsInv
    <3> QED BY <2>2, <3>4, <1>0, <1>3
  <2> QED BY <2>1, <2>2
<1>6. CASE i < S1_ROW
  <2>1. Clearing' /\ ~Printing' /\ at'["Receive"][2] = i + 1
    BY <1>1, <1>6 DEF Clearing, Printing
  <2>2. s1Clean' => \A q \in 1 .. S1_ROW - 1 : q < i + 1 => s1'[q] = <<>>
    BY <1>0, <1>5
  <2> QED BY <2>1, <2>2, <1>4 DEF ScreenInv, RowsInv
<1>7. CASE ~(i < S1_ROW)
  <2>1. /\ ~Clearing' /\ Printing' /\ Drawn' = 0 /\ at'["Receive"] = <<"S1Name", 0>>
        /\ r = 1
    BY <1>0, <1>1, <1>7 DEF Clearing, Printing, Drawn
  <2>2. s1Clean' => Shows(0)'
    <3>1. s1Clean' => \A q \in 1 .. S1_ROW - 1 : s1'[q] = <<>>
      BY <1>0, <1>5, <1>7
    <3>2. DOMAIN <<>> = {}
      OBVIOUS
    <3> QED BY <3>1, <3>2, <1>0, NoNames DEF Shows
  <2>3. s1Clean' => Shows(Drawn)'
    BY <2>1, <2>2 DEF Shows
  <2>4. cursor'[1] \in 1 .. S1_ROW /\ 0 = (cursor'[1] - 1) * PerLine + cursor'[2] /\ cursor'[2] < PerLine
    BY <2>1, <1>0, <1>1, ScreenNumbers
  <2> QED BY <2>1, <2>3, <2>4, <1>1, <1>4 DEF ScreenInv, RowsInv
<1> QED BY <1>6, <1>7

(* A name of a refresh in which somebody logged: wherever it goes, it      *)
(* leaves no hole.                                                         *)
LEMMA NameLeavesNoHole ==
  ASSUME PlaceInv, CursorInv, S1Name("Receive")
  PROVE  CursorInv'
<1> PICK i, r, c : i = at["Receive"][2] /\ r = cursor[1] /\ c = cursor[2]
  OBVIOUS
<1>0. at \in [Threads -> Stages \X Nat] /\ "Receive" \in Threads /\ i \in Nat
  BY ScreenNumbers, TwoThreads DEF PlaceInv
<1>1. /\ s1 \in [1 .. S1_ROW -> Seq(Nat)] /\ cursor \in (1 .. Below) \X Nat
      /\ s1Alone \in BOOLEAN /\ s1Clean \in BOOLEAN
  BY DEF CursorInv
<1>2. s1Alone' = s1Alone /\ s1Clean' = s1Clean /\ Refreshing'
  BY <1>0, <1>1, TwoThreads, WhenRefreshing DEF S1Name, Prints, Goto, S1Stages
<1>3. CASE r \in 1 .. S1_ROW
  <2>1. s1' = [s1 EXCEPT ![r] = Printed(s1[r], c, i + 1)] /\ cursor' = <<r, c + 1>>
    BY <1>1, <1>3 DEF S1Name, I, Printed
  <2>2. s1[r] \in Seq(Nat) /\ c \in 0 .. Len(s1[r]) /\ Len(s1[r]) \in Nat /\ i + 1 \in Nat
    <3>1. s1[r] \in Seq(Nat) /\ c \in Nat /\ c <= Len(s1[r])
      BY <1>1, <1>3 DEF CursorInv
    <3>2. Len(s1[r]) \in Nat
      BY <3>1, LenProperties
    <3> QED BY <3>1, <3>2, <1>0
  <2>3. Printed(s1[r], c, i + 1) \in Seq(Nat) /\ c + 1 <= Len(Printed(s1[r], c, i + 1))
    BY <2>2, RowWith
  <2>4. s1' \in [1 .. S1_ROW -> Seq(Nat)] /\ s1'[r] = Printed(s1[r], c, i + 1)
    BY <2>1, <2>3, <1>1, <1>3
  <2>5. cursor' \in (1 .. Below) \X Nat /\ cursor'[1] = r /\ cursor'[2] = c + 1
    BY <2>1, <1>1
  <2> QED BY <2>3, <2>4, <2>5, <1>1, <1>2 DEF CursorInv
<1>4. CASE r \notin 1 .. S1_ROW
  <2>1. s1' = s1 /\ cursor' = cursor
    BY <1>1, <1>4 DEF S1Name
  <2> QED BY <2>1, <1>2 DEF CursorInv
<1> QED BY <1>3, <1>4

(* A name goes to its place, or, once the cursor was moved, not into S1. *)
LEMMA ScreenName ==
  ASSUME PlaceInv, ScreenInv, S1Name("Receive")
  PROVE  ScreenInv'
<1> PICK i, r, c : i = at["Receive"][2] /\ r = cursor[1] /\ c = cursor[2]
  OBVIOUS
<1>0. /\ S1_ROW \in Nat \ {0} /\ Below = S1_ROW + 1 /\ PerLine \in Nat \ {0}
      /\ g_friends_len \in 0 .. N /\ N \in Nat
      /\ at \in [Threads -> Stages \X Nat] /\ "Receive" \in Threads /\ i \in Nat
  BY ScreenNumbers, TwoThreads DEF PlaceInv
<1>1. /\ at["Receive"][1] = "S1Name" /\ i < g_friends_len /\ s1Clean' = s1Clean
      /\ s1Alone' = s1Alone /\ g_friends_len' = g_friends_len /\ at'["Receive"] = <<"S1Gap", i>>
  BY <1>0, TwoThreads DEF S1Name, data, Goto, Prints, At, I, ScreenInv, CursorInv
<1>2. /\ Printing /\ ~Clearing /\ Drawn = i
      /\ Printing' /\ ~Clearing' /\ Drawn' = i + 1
  BY <1>0, <1>1 DEF Printing, Clearing, Drawn
<1>3. s1 \in [1 .. S1_ROW -> Seq(Nat)] /\ cursor \in (1 .. Below) \X Nat /\ s1Alone \in BOOLEAN
  BY DEF ScreenInv, CursorInv
<1>4. CursorInv'
  BY NameLeavesNoHole DEF ScreenInv
<1>5. CASE s1Clean /\ ~s1Alone
  <2>1. r > S1_ROW
    BY <1>2, <1>5 DEF ScreenInv, RowsInv
  <2>2. s1' = s1 /\ cursor' = cursor
    BY <2>1, <1>0, <1>3 DEF S1Name
  <2>3. PICK k \in 0 .. g_friends_len : Shows(k)
    BY <1>2, <1>5 DEF ScreenInv, RowsInv
  <2>4. Shows(k)'
    BY <2>2, <2>3 DEF Shows
  <2> QED BY <2>1, <2>2, <2>3, <2>4, <1>1, <1>2, <1>4, <1>5 DEF ScreenInv, RowsInv
<1>6. CASE s1Clean /\ s1Alone
  <2>1. r \in 1 .. S1_ROW /\ c \in 0 .. PerLine - 1 /\ i = (r - 1) * PerLine + c
    <3>1. r \in 1 .. S1_ROW /\ i = (r - 1) * PerLine + c /\ c < PerLine
      BY <1>1, <1>2, <1>6 DEF ScreenInv, RowsInv
    <3> QED BY <3>1, <1>0, <1>3
  <2>2. Shows(i)
    BY <1>2, <1>6 DEF ScreenInv, RowsInv
  <2>3. s1' = [s1 EXCEPT ![r] = Printed(s1[r], c, i + 1)] /\ cursor' = <<r, c + 1>>
    BY <2>1, <1>3 DEF S1Name, I, Printed
  <2>4. s1'[r] = Printed(s1[r], c, i + 1) /\ \A q \in 1 .. S1_ROW : q # r => s1'[q] = s1[q]
    BY <2>1, <2>3, <1>3
  <2>5. ASSUME NEW q \in Nat \ {0}, q # r PROVE NamesIn(q, i + 1) = NamesIn(q, i)
    <3>1. (r - 1) * PerLine \in Nat /\ r * PerLine = (r - 1) * PerLine + PerLine /\ r \in Nat \ {0}
      BY <2>1, <1>0
    <3>2. (r - 1) * PerLine <= i /\ i < r * PerLine
      BY <3>1, <2>1, <1>0
    <3> QED BY <2>5, <3>1, <3>2, <1>0, OtherRows
  <2>6. ASSUME NEW q \in 1 .. S1_ROW - 1 PROVE s1'[q] = NamesIn(q, i + 1)
    <3>1. q \in Nat \ {0} /\ q \in 1 .. S1_ROW /\ s1[q] = NamesIn(q, i)
      BY <2>2, <1>0 DEF Shows
    <3>2. CASE q = r
      BY <3>1, <3>2, <2>1, <2>4, <1>0, NamePutInPlace
    <3>3. CASE q # r
      BY <3>1, <3>3, <2>4, <2>5
    <3> QED BY <3>2, <3>3
  <2>7. ASSUME NEW n \in DOMAIN NamesIn(S1_ROW, i + 1)
        PROVE  n <= Len(s1'[S1_ROW]) /\ s1'[S1_ROW][n] = NamesIn(S1_ROW, i + 1)[n]
    <3>1. /\ S1_ROW \in 1 .. S1_ROW /\ s1[S1_ROW] \in Seq(Nat)
          /\ \A m \in DOMAIN NamesIn(S1_ROW, i) :
               m <= Len(s1[S1_ROW]) /\ s1[S1_ROW][m] = NamesIn(S1_ROW, i)[m]
      BY <2>2, <1>0, <1>3 DEF Shows
    <3>2. CASE S1_ROW = r
      <4>1. c <= Len(s1[S1_ROW])
        BY <3>2, <2>1 DEF ScreenInv, CursorInv
      <4>2. \A m \in DOMAIN NamesIn(S1_ROW, i + 1) :
              /\ m <= Len(Printed(s1[S1_ROW], c, i + 1))
              /\ Printed(s1[S1_ROW], c, i + 1)[m] = NamesIn(S1_ROW, i + 1)[m]
        <5>1. /\ S1_ROW \in Nat \ {0} /\ c \in 0 .. PerLine - 1 /\ i \in Nat
              /\ i = (S1_ROW - 1) * PerLine + c
          BY <3>2, <2>1, <1>0
        <5> QED BY <5>1, <3>1, <4>1, NamePutOver, Zenon
      <4> QED BY <3>2, <4>2, <2>4
    <3>3. CASE S1_ROW # r
      BY <3>1, <3>3, <2>4, <2>5, <1>0
    <3> QED BY <3>2, <3>3
  <2>8. Shows(Drawn)'
    BY <2>6, <2>7, <1>2 DEF Shows
  <2>9. /\ cursor'[1] \in 1 .. S1_ROW /\ cursor'[2] \in 1 .. PerLine
        /\ i + 1 = (cursor'[1] - 1) * PerLine + cursor'[2]
    <3>1. (r - 1) * PerLine \in Nat
      BY <2>1, <1>0
    <3> QED BY <3>1, <2>1, <2>3, <1>0
  <2> QED BY <2>8, <2>9, <1>1, <1>2, <1>4, <1>6 DEF ScreenInv, RowsInv
<1>7. CASE ~s1Clean
  BY <1>1, <1>4, <1>7 DEF ScreenInv, RowsInv
<1> QED BY <1>3, <1>5, <1>6, <1>7

(* The tab or the end of the line takes the cursor to the next place. *)
LEMMA ScreenGap ==
  ASSUME PlaceInv, ScreenInv, S1Gap("Receive")
  PROVE  ScreenInv'
<1> PICK i, r, c : i = at["Receive"][2] /\ r = cursor[1] /\ c = cursor[2]
  OBVIOUS
<1>0. /\ S1_ROW \in Nat \ {0} /\ Below = S1_ROW + 1 /\ PerLine \in Nat \ {0}
      /\ g_friends_len \in 0 .. N /\ N \in Nat
      /\ at \in [Threads -> Stages \X Nat] /\ "Receive" \in Threads /\ i \in Nat /\ i < g_friends_len
  BY ScreenNumbers, TwoThreads DEF PlaceInv, S1Gap, At
<1>1. /\ s1Alone' = s1Alone /\ s1Clean' = s1Clean /\ s1' = s1
      /\ g_friends_len' = g_friends_len /\ at'["Receive"] = <<"S1Name", i + 1>>
      /\ at["Receive"][1] = "S1Gap"
  BY <1>0, TwoThreads DEF S1Gap, data, Goto, Prints, At, I, ScreenInv, CursorInv
<1>2. /\ Printing /\ ~Clearing /\ Drawn = i + 1
      /\ Printing' /\ ~Clearing' /\ Drawn' = i + 1
  BY <1>0, <1>1 DEF Printing, Clearing, Drawn
<1>3. s1 \in [1 .. S1_ROW -> Seq(Nat)] /\ cursor \in (1 .. Below) \X Nat /\ s1Alone \in BOOLEAN
  BY DEF ScreenInv, CursorInv
<1>4. \A k : Shows(k)' = Shows(k)
  BY <1>1 DEF Shows
<1>5. IF (i + 1) % PerLine = 0 \/ i = g_friends_len - 1
      THEN cursor' = <<IF r = Below THEN Below ELSE r + 1, 0>> ELSE cursor' = cursor
  BY DEF S1Gap, Newline, I
<1>6. CursorInv'
  <2>0. Refreshing'
    BY <1>2, WhenRefreshing DEF S1Stages, Printing
  <2>1. CASE cursor' = cursor
    BY <2>0, <2>1, <1>1 DEF ScreenInv, CursorInv
  <2>2. CASE cursor' = <<IF r = Below THEN Below ELSE r + 1, 0>>
    <3>1. cursor' \in (1 .. Below) \X Nat /\ cursor'[2] = 0
      BY <2>2, <1>0, <1>3
    <3>2. \A q \in 1 .. S1_ROW : Len(s1[q]) \in Nat
      BY <1>3, LenProperties
    <3> QED BY <2>0, <3>1, <3>2, <1>1 DEF ScreenInv, CursorInv
  <2> QED BY <2>1, <2>2, <1>5
<1>7. CASE s1Clean /\ ~s1Alone
  <2>1. r > S1_ROW
    BY <1>2, <1>7 DEF ScreenInv, RowsInv
  <2>2. cursor'[1] > S1_ROW
    BY <2>1, <1>0, <1>3, <1>5
  <2> QED BY <2>2, <1>1, <1>2, <1>4, <1>6, <1>7 DEF ScreenInv, RowsInv
<1>8. CASE s1Clean /\ s1Alone
  <2>1. r \in 1 .. S1_ROW /\ c \in 1 .. PerLine /\ i + 1 = (r - 1) * PerLine + c
    BY <1>0, <1>1, <1>2, <1>3, <1>8 DEF ScreenInv, RowsInv
  <2>2. Shows(Drawn)'
    <3>1. Shows(i + 1)
      BY <1>2, <1>8 DEF ScreenInv, RowsInv
    <3> QED BY <3>1, <1>1, <1>2 DEF Shows
  <2>3. ASSUME i + 1 < g_friends_len
        PROVE  /\ cursor'[1] \in 1 .. S1_ROW
               /\ i + 1 = (cursor'[1] - 1) * PerLine + cursor'[2] /\ cursor'[2] < PerLine
    <3>1. (i + 1) % PerLine = 0 <=> c = PerLine
      <4>1. r - 1 \in Nat /\ PerLine \in Nat \ {0} /\ c \in 1 .. PerLine
        BY <2>1, <1>0
      <4>2. ((r - 1) * PerLine + c) % PerLine = 0 <=> c = PerLine
        BY <4>1, EndsLine
      <4> QED BY <4>2, <2>1
    <3>2. CASE c = PerLine
      <4>1. i + 1 = r * PerLine /\ r * PerLine \in Nat
        BY <3>2, <2>1, <1>0
      <4>2. r * PerLine < S1_ROW * PerLine
        BY <4>1, <2>3, <1>0, NamesFit
      <4>3. r < S1_ROW
        <5> QED BY <4>2, <2>1, <1>0, TimesBack
      <4>4. cursor' = <<r + 1, 0>>
        BY <3>1, <3>2, <4>3, <1>0, <1>5, <2>1
      <4> QED BY <4>1, <4>3, <4>4, <2>1, <1>0
    <3>3. CASE c # PerLine
      <4>1. cursor' = cursor
        BY <3>1, <3>3, <2>3, <1>0, <1>5
      <4> QED BY <4>1, <3>3, <2>1, <1>0
    <3> QED BY <3>2, <3>3
  <2> QED BY <2>2, <2>3, <1>1, <1>2, <1>6, <1>8 DEF ScreenInv, RowsInv
<1>9. CASE ~s1Clean
  BY <1>1, <1>6, <1>9 DEF ScreenInv, RowsInv
<1> QED BY <1>3, <1>7, <1>8, <1>9

(* The separator is printed below S1. *)
LEMMA ScreenSeparator ==
  ASSUME PlaceInv, ScreenInv, S1Separator("Receive")
  PROVE  ScreenInv'
<1>0. at \in [Threads -> Stages \X Nat] /\ "Receive" \in Threads
  BY TwoThreads DEF PlaceInv
<1>1. /\ Printing /\ ~Clearing /\ ~Printing' /\ ~Clearing' /\ s1' = s1 /\ s1Clean' = s1Clean
      /\ g_friends_len' = g_friends_len /\ s1Alone' = TRUE /\ cursor' = BelowS1
  BY <1>0 DEF S1Separator, data, At, Printing, Clearing, Idle
<1>2. \A k : Shows(k)' = Shows(k)
  BY <1>1 DEF Shows
<1>3. CursorInv'
  BY <1>1, ScreenNumbers DEF ScreenInv, CursorInv
<1>4. s1Clean => \E k \in 0 .. g_friends_len : Shows(k)
  <2>1. CASE s1Alone
    BY <2>1, <1>1, ScreenNumbers DEF ScreenInv, RowsInv
  <2>2. CASE ~s1Alone
    BY <2>2, <1>1 DEF ScreenInv, RowsInv
  <2> QED BY <2>1, <2>2
<1>5. RowsInv'
  BY <1>1, <1>2, <1>4 DEF RowsInv
<1> QED BY <1>3, <1>5 DEF ScreenInv
-----------------------------------------------------------------------------
(* The empty screen of the start satisfies the invariant. *)
LEMMA InitIInv == TerminalInit => IInv
<1> SUFFICES ASSUME TerminalInit PROVE IInv
  OBVIOUS
<1> USE DEF TerminalInit
<1>0. S1_ROW \in Nat \ {0} /\ N \in Nat \ {0} /\ BufferSize \in Nat \ {0}
  BY ScreenAssumption, BufferSizeAssumption
<1>1. /\ at \in [Threads -> Stages \X Nat]
      /\ at["Main"] = <<"Key", 0>> /\ at["Receive"] = <<"Idle", 0>>
  BY TwoThreads DEF Idle, Stages
<1>2. PlaceInv
  <2>1. TypeOK
    BY <1>0 DEF Init, TypeOK
  <2>2. g_friends_len \in 0 .. N
    BY <1>0
  <2>3. is_press_cr \in BOOLEAN
    BY Zenon
  <2> HIDE DEF TerminalInit
  <2> QED BY <2>1, <2>2, <2>3, <1>1, TwoThreads DEF PlaceInv, S1Stages
<1>3. LocksInv /\ TimesInv
  BY <1>1, TwoThreads DEF LocksInv, TimesInv, S2Stages, LogStages
<1>4. CursorInv
  <2>1. BelowS1 \in (1 .. Below) \X Nat /\ BelowS1[1] > S1_ROW /\ <<>> \in Seq(Nat)
    BY <1>0 DEF Below, BelowS1
  <2> QED BY <2>1, <1>0 DEF CursorInv
<1>5. RowsInv
  <2>1. \A r \in 1 .. S1_ROW : s1[r] = <<>>
    OBVIOUS
  <2>2. DOMAIN <<>> = {}
    OBVIOUS
  <2>3. Shows(0)
    BY <2>1, <2>2, <1>0, NoNames DEF Shows
  <2>4. 0 \in 0 .. g_friends_len
    OBVIOUS
  <2> QED BY <2>3, <2>4, <1>1 DEF RowsInv, Printing, Clearing
<1> QED BY <1>2, <1>3, <1>4, <1>5 DEF IInv

(* IInv holds in every reachable state, for a screen of any size: of the   *)
(* rows of S1 it speaks when nobody logged since the last refresh began.   *)
THEOREM Invariance == TerminalSpec => []IInv
<1>1. ASSUME IInv, [TerminalNext]_allVars PROVE IInv'
  <2>0. PlaceInv /\ LocksInv /\ TimesInv /\ ScreenInv
    BY <1>1 DEF IInv, ScreenInv
  <2>1. CASE UNCHANGED allVars
    <3>1. UNCHANGED <<vars, at, data, drawing, locks, clock>>
      BY <2>1 DEF allVars, terminal
    <3> QED BY <1>1, <3>1
        DEF IInv, PlaceInv, LocksInv, TimesInv, CursorInv, RowsInv, Shows, Printing, Clearing,
            Drawn, Refreshing, At, vars, data, drawing, history, locks, clock, TypeOK
  <2>2. CASE UserTypes \/ MainStep
    <3>1. PlaceInv'
      BY <2>0, <2>2, PlaceMain, PlaceBoth, TwoThreads DEF MainStep
    <3>2. LocksInv' /\ TimesInv'
      BY <2>0, <2>2, LocksMain, LocksS2, LocksLog, TwoThreads DEF MainStep
    <3>3. ScreenInv'
      BY <2>0, <2>2, ScreenOutside
    <3> QED BY <3>1, <3>2, <3>3 DEF IInv, ScreenInv
  <2>3. CASE ReceiveStep \/ HearFriend \/ HearChat \/ HearError
    <3>1. PlaceInv'
      BY <2>0, <2>3, PlaceReceive, PlaceBoth, TwoThreads DEF ReceiveStep
    <3>2. LocksInv' /\ TimesInv'
      BY <2>0, <2>3, LocksReceive, LocksS2, LocksLog, TwoThreads DEF ReceiveStep
    <3>3. ScreenInv'
      BY <2>0, <2>3, ScreenOutside, ScreenClear, ScreenName, ScreenGap, ScreenSeparator
         DEF ReceiveStep, refresh_S1
    <3> QED BY <3>1, <3>2, <3>3 DEF IInv, ScreenInv
  <2>4. CASE BroadcastFails
    <3>1. PlaceInv' /\ LocksInv' /\ TimesInv'
      BY <2>0, <2>4, LocksBroadcast
    <3>2. ScreenInv'
      BY <2>0, <2>4, ScreenOutside
    <3> QED BY <3>1, <3>2 DEF IInv, ScreenInv
  <2> QED BY <1>1, <2>1, <2>2, <2>3, <2>4 DEF TerminalNext
<1> QED BY <1>1, InitIInv, PTL DEF TerminalSpec

(* Types hold on a screen of any size, whatever is logged: nothing is      *)
(* printed right of a hole, and each mutex has the holder it should have.  *)
THEOREM TypeCorrect == TerminalSpec => []TerminalTypeOK
<1>1. IInv => TerminalTypeOK
  <2> SUFFICES ASSUME IInv PROVE TerminalTypeOK
    OBVIOUS
  <2>1. TypeOK /\ g_friends_len \in 0 .. N /\ is_press_cr \in BOOLEAN /\ cursor[1] \in 1 .. Below
    BY DEF IInv, PlaceInv, CursorInv
  <2>2. cursor[1] \in DOMAIN s1 => cursor[2] \in 0 .. Len(s1[cursor[1]])
    BY LenProperties DEF IInv, CursorInv
  <2>3. \A t \in Threads :
          /\ refresh_S2_lock = t <=> \E s \in {"S2Time", "S2Format", "S2Line"} : At(t, s)
          /\ log_mutex = t <=> \E s \in {"LogFormat", "LogUnlock"} : At(t, s)
    BY DEF IInv, LocksInv, At, S2Stages, LogStages
  <2> QED BY <2>1, <2>2, <2>3 DEF TerminalTypeOK
<1> QED BY <1>1, Invariance, PTL

(* However long the list and wherever the main thread prints, after a      *)
(* refresh_S1 in which nobody logged S1 shows a prefix of the friends in   *)
(* their order, whatever was logged before that refresh or since.          *)
THEOREM NamesCorrect == TerminalSpec => []S1IsPrefix
<1>1. IInv => S1IsPrefix
  <2> SUFFICES ASSUME IInv, s1Clean, ~Clearing
               PROVE  \E k \in 0 .. g_friends_len :
                        Shows(k) /\ (s1Alone /\ At("Receive", "S1Name") => k = I("Receive"))
    BY DEF S1IsPrefix, At, Clearing
  <2>1. CASE Printing /\ s1Alone
    <3>1. Shows(Drawn) /\ Drawn \in 0 .. g_friends_len
      BY <2>1, ScreenNumbers DEF IInv, RowsInv
    <3>2. At("Receive", "S1Name") => Drawn = I("Receive")
      BY ScreenNumbers DEF At, I, Drawn, IInv
    <3> QED BY <3>1, <3>2
  <2>2. CASE ~(Printing /\ s1Alone)
    <3>1. ~(s1Alone /\ At("Receive", "S1Name"))
      BY <2>2 DEF At, Printing
    <3> QED BY <2>2, <3>1 DEF IInv, RowsInv
  <2> QED BY <2>1, <2>2
<1> QED BY <1>1, Invariance, PTL

(* However many records are drawn and lines logged, a wrong time is that   *)
(* of another thread, of the other kind.                                   *)
THEOREM TimesCorrect == TerminalSpec => []TimesExplained
<1>1. IInv => TimesExplained
  BY DEF IInv, TimesInv, TimesExplained, At
<1> QED BY <1>1, Invariance, PTL
=============================================================================
