----------------------------- MODULE Lifecycle -----------------------------
(***************************************************************************)
(* How the program starts, runs and ends: main and init_all, the loops of  *)
(* the three threads as far as they use what the others set up and tear    *)
(* down (g_bRunning, g_config, the sockets, log_mutex, the terminal), and  *)
(* end_program, which main calls at the end and which is also the handler  *)
(* of SIGINT, run on top of whichever thread the signal is delivered to.   *)
(*                                                                         *)
(* Every log_xxx and save_printf takes log_mutex, a mutex that is not      *)
(* recursive; a thread's several prints in a row are one here.  Creating a *)
(* thread, and closing the four sockets, are steps that cannot fail.       *)
(***************************************************************************)
EXTENDS Naturals

CONSTANT MaxSignals   \* bound of the model: how often SIGINT is delivered

ASSUME MaxSignalsAssumption == MaxSignals \in Nat

Main == "main"
Broadcast == "broadcast"
Receive == "receive"
Threads == {Main, Broadcast, Receive}
Nobody == "nobody"

(* The activations of end_program: the call in main, and the handler on    *)
(* top of each thread.                                                     *)
Call == "call"
Frames == Threads \union {Call}
ThreadOf(f) == IF f = Call THEN Main ELSE f

VARIABLES
  g_bRunning,
  g_config,     \* "null", "unread", "read", or "dangling" once freed
  sockets,      \* "none", "open" or "closed"
  terminal,     \* the mode of the terminal: "user", "raw", or "zero"
  oldt,         \* the mode set_input_mode saved, "zero" before it saved any
  sigint,       \* the disposition of SIGINT: "default" or "end_program"
  log_mutex,    \* the thread that holds it, or Nobody
  pc,           \* what each thread does next
  hpc,          \* what each activation of end_program does next, or "none"
  signals,      \* history: how often SIGINT was delivered
  pending,      \* Ctrl-C was typed and its SIGINT not delivered yet
  failed,       \* history: the sockets could not be created
  ended         \* "no", or how the process ended: "exit", "killed", "crash"

shared == <<g_bRunning, g_config, sockets, terminal, oldt, sigint, failed>>
control == <<log_mutex, pc, hpc, signals, pending, ended>>
vars == <<shared, control>>

Init ==
  /\ g_bRunning = FALSE
  /\ g_config = "null" /\ sockets = "none"
  /\ terminal = "user" /\ oldt = "zero"
  /\ sigint = "default"
  /\ log_mutex = Nobody
  /\ pc = [t \in Threads |-> IF t = Main THEN "signal" ELSE "new"]
  /\ hpc = [f \in Frames |-> "none"]
  /\ signals = 0 /\ pending = FALSE
  /\ failed = FALSE
  /\ ended = "no"

-----------------------------------------------------------------------------
(* A thread's own code runs while no end_program is on top of it.          *)
Runs(t) == ended = "no" /\ hpc[t] = "none" /\ (t = Main => hpc[Call] = "none")

Goto(t, from, to) ==
  /\ Runs(t)
  /\ pc[t] = from /\ pc' = [pc EXCEPT ![t] = to]
  /\ UNCHANGED <<hpc, signals, pending>>

Quietly == UNCHANGED <<log_mutex, ended>>

(* A print takes log_mutex, and gives it back. *)
LockLog(t, from, to) ==
  /\ Goto(t, from, to)
  /\ log_mutex = Nobody /\ log_mutex' = t
  /\ UNCHANGED <<shared, ended>>

UnlockLog(t, from, to) ==
  /\ Goto(t, from, to)
  /\ log_mutex' = Nobody
  /\ UNCHANGED <<shared, ended>>

(* Reading through g_config: NULL is a crash, freed memory or a nickname   *)
(* that was never read in may be one.                                      *)
UseConfig ==
  /\ UNCHANGED <<shared, log_mutex>>
  /\ \/ g_config # "null" /\ UNCHANGED ended
     \/ g_config # "read" /\ ended' = "crash"

-----------------------------------------------------------------------------
(* init_all, up to the thread creation.                                    *)

SetSignal ==
  /\ Goto(Main, "signal", "raw") /\ Quietly
  /\ sigint' = "end_program"
  /\ UNCHANGED <<g_bRunning, g_config, sockets, terminal, oldt, failed>>

(* Faulty: the mode is saved after it was changed. *)
SetRawSavesLate ==
  /\ Goto(Main, "raw", "malloc") /\ Quietly
  /\ oldt' = "raw" /\ terminal' = "raw"
  /\ UNCHANGED <<g_bRunning, g_config, sockets, sigint, failed>>

SetRaw ==
  /\ Goto(Main, "raw", "malloc") /\ Quietly
  /\ oldt' = terminal /\ terminal' = "raw"
  /\ UNCHANGED <<g_bRunning, g_config, sockets, sigint, failed>>

AllocConfig ==
  /\ Goto(Main, "malloc", "path") /\ Quietly
  /\ g_config' = "unread"
  /\ UNCHANGED <<g_bRunning, sockets, terminal, oldt, sigint, failed>>

(* read_config first prints the path of the file.  read_out_config writes  *)
(* through the pointer only once the file is read; when that fails it      *)
(* prints an error, and its result is ignored.                             *)
ReadConfig ==
  /\ Goto(Main, "config", "sockets") /\ UNCHANGED log_mutex
  /\ \/ g_config = "unread" /\ g_config' = "read" /\ UNCHANGED ended
     \/ g_config = "null" /\ ended' = "crash" /\ UNCHANGED g_config
  /\ UNCHANGED <<g_bRunning, sockets, terminal, oldt, sigint, failed>>

OpenSockets ==
  /\ Goto(Main, "sockets", "run") /\ UNCHANGED log_mutex
  /\ \/ g_config # "null" /\ sockets' = "open" /\ UNCHANGED ended
     \/ g_config = "null" /\ ended' = "crash" /\ UNCHANGED sockets
  /\ UNCHANGED <<g_bRunning, g_config, terminal, oldt, sigint, failed>>

(* Creating a socket reads the address in g_config before it can fail, and *)
(* prints the error.                                                       *)
LogSocketError == g_config # "null" /\ LockLog(Main, "sockets", "error...")

SocketsFail ==
  /\ Goto(Main, "failed", "run") /\ Quietly
  /\ failed' = TRUE /\ g_bRunning' = FALSE
  /\ UNCHANGED <<g_config, sockets, terminal, oldt, sigint>>

(* Whatever happened before: socket failure, or a SIGINT already handled.  *)
StartRunning ==
  /\ Goto(Main, "run", "broadcast") /\ Quietly
  /\ g_bRunning' = TRUE
  /\ UNCHANGED <<g_config, sockets, terminal, oldt, sigint, failed>>

CreateThread(t, from, to) ==
  /\ Runs(Main) /\ pc[Main] = from
  /\ pc' = [pc EXCEPT ![Main] = to, ![t] = "loop"]
  /\ UNCHANGED <<shared, log_mutex, hpc, signals, pending, ended>>

InitAll ==
  \/ SetSignal \/ SetRaw \/ AllocConfig
  \/ LockLog(Main, "path", "path...") \/ UnlockLog(Main, "path...", "config")
  \/ ReadConfig
  \/ LockLog(Main, "config", "config...") \/ UnlockLog(Main, "config...", "sockets")
  \/ OpenSockets
  \/ LogSocketError \/ UnlockLog(Main, "error...", "failed") \/ SocketsFail
  \/ StartRunning
  \/ CreateThread(Broadcast, "broadcast", "receive")
  \/ CreateThread(Receive, "receive", "screen")
  \/ LockLog(Main, "screen", "screen...") \/ UnlockLog(Main, "screen...", "loop")

-----------------------------------------------------------------------------
(* The loop of main and its end.  An iteration may read 'q', always prints *)
(* S3, and may send a chat message.                                        *)

(* Faulty: the broadcast thread loops for ever. *)
LoopTestIgnored(t, body, end) ==
  /\ Goto(t, "loop", IF g_bRunning \/ t = Broadcast THEN body ELSE end) /\ Quietly
  /\ UNCHANGED shared

LoopTest(t, body, end) ==
  /\ Goto(t, "loop", IF g_bRunning THEN body ELSE end) /\ Quietly
  /\ UNCHANGED shared

PressQ ==
  /\ Goto(Main, "key", "quit") /\ Quietly
  /\ g_bRunning' = FALSE
  /\ UNCHANGED <<g_config, sockets, terminal, oldt, sigint, failed>>

OtherKey == Goto(Main, "key", "log") /\ Quietly /\ UNCHANGED shared

SendChat == Goto(Main, "send", "print") /\ UseConfig

Join(t, from, to) ==
  /\ pc[t] = "done"
  /\ Goto(Main, from, to) /\ Quietly /\ UNCHANGED shared

(* Faulty: main does not wait for the broadcast thread, which may sleep.   *)
CallEndTooSoon ==
  /\ Runs(Main) /\ pc[Main] \in {"join broadcast", "end"}
  /\ pc' = [pc EXCEPT ![Main] = "return"]
  /\ hpc' = [hpc EXCEPT ![Call] = "exit"]
  /\ UNCHANGED <<shared, log_mutex, signals, pending, ended>>

CallEnd ==
  /\ Runs(Main) /\ pc[Main] = "end"
  /\ pc' = [pc EXCEPT ![Main] = "return"]
  /\ hpc' = [hpc EXCEPT ![Call] = "exit"]
  /\ UNCHANGED <<shared, log_mutex, signals, pending, ended>>

Return ==
  /\ Runs(Main) /\ pc[Main] = "return"
  /\ ended' = "exit"
  /\ UNCHANGED <<shared, log_mutex, pc, hpc, signals, pending>>

MainLoop ==
  \/ LoopTest(Main, "key", "join broadcast")
  \/ PressQ \/ LockLog(Main, "quit", "quit...") \/ UnlockLog(Main, "quit...", "loop")
  \/ OtherKey
  \/ LockLog(Main, "log", "log...")
  \/ UnlockLog(Main, "log...", "loop") \/ UnlockLog(Main, "log...", "send")
  \/ SendChat
  \/ LockLog(Main, "print", "print...") \/ UnlockLog(Main, "print...", "loop")
  \/ Join(Broadcast, "join broadcast", "join receive")
  \/ Join(Receive, "join receive", "end")
  \/ CallEnd \/ Return

BuildPacket == Goto(Broadcast, "packet", "sendto") /\ UseConfig

SendPacket ==
  /\ Goto(Broadcast, "sendto", "sleep") /\ Quietly
  /\ sockets = "open" /\ UNCHANGED shared

Sleep == Goto(Broadcast, "sleep", "loop") /\ Quietly /\ UNCHANGED shared

(* A broadcast that cannot be sent is logged; then the thread sleeps. *)
BroadcastThread ==
  \/ LoopTest(Broadcast, "packet", "done")
  \/ BuildPacket \/ SendPacket \/ Sleep
  \/ LockLog(Broadcast, "sendto", "error...")
  \/ UnlockLog(Broadcast, "error...", "sleep")

RecvNothing == Goto(Receive, "recv", "loop") /\ Quietly /\ UNCHANGED shared

(* What arrived, or an error, is logged and shown. *)
ReceiveThread ==
  \/ LoopTest(Receive, "recv", "done")
  \/ RecvNothing
  \/ LockLog(Receive, "recv", "print...")
  \/ UnlockLog(Receive, "print...", "loop")

-----------------------------------------------------------------------------
(* end_program, in frame f.                                                *)

EndGoto(f, from, to) ==
  /\ ended = "no" /\ (f = Call => hpc[Main] = "none")
  /\ hpc[f] = from /\ hpc' = [hpc EXCEPT ![f] = to]
  /\ UNCHANGED <<pc, signals, pending, failed>>

EndExit(f) ==
  /\ EndGoto(f, "exit", "log") /\ Quietly
  /\ g_bRunning' = FALSE
  /\ UNCHANGED <<g_config, sockets, terminal, oldt, sigint>>

EndLock(f) ==
  /\ EndGoto(f, "log", "log...") \/ EndGoto(f, "print", "print...")
  /\ log_mutex = Nobody /\ log_mutex' = ThreadOf(f)
  /\ UNCHANGED <<shared, ended>>

EndUnlock(f) ==
  /\ EndGoto(f, "log...", "print") \/ EndGoto(f, "print...", "terminal")
  /\ log_mutex' = Nobody
  /\ UNCHANGED <<shared, ended>>

(* Faulty: the mode of the terminal is left as it is. *)
EndTerminalSkipped(f) ==
  EndGoto(f, "terminal", "free") /\ Quietly /\ UNCHANGED shared

EndTerminal(f) ==
  /\ EndGoto(f, "terminal", "free") /\ Quietly
  /\ terminal' = oldt
  /\ UNCHANGED <<g_bRunning, g_config, sockets, oldt, sigint>>

(* Two activations can free the same memory: undefined, possibly a crash.  *)
EndFree(f) ==
  /\ EndGoto(f, "free", IF g_config = "null" THEN "close" ELSE "null")
  /\ \/ UNCHANGED ended
     \/ g_config = "dangling" /\ ended' = "crash"
  /\ g_config' = IF g_config = "null" THEN "null" ELSE "dangling"
  /\ UNCHANGED <<g_bRunning, sockets, terminal, oldt, sigint, log_mutex>>

EndNull(f) ==
  /\ EndGoto(f, "null", "close") /\ Quietly
  /\ g_config' = "null"
  /\ UNCHANGED <<g_bRunning, sockets, terminal, oldt, sigint>>

EndClose(f) ==
  /\ EndGoto(f, "close", "default") /\ Quietly
  /\ sockets' = "closed"
  /\ UNCHANGED <<g_bRunning, g_config, terminal, oldt, sigint>>

(* Faulty: the handler stays installed. *)
EndDefaultSkipped(f) ==
  EndGoto(f, "default", "none") /\ Quietly /\ UNCHANGED shared

EndDefault(f) ==
  /\ EndGoto(f, "default", "none") /\ Quietly
  /\ sigint' = "default"
  /\ UNCHANGED <<g_bRunning, g_config, sockets, terminal, oldt>>

EndProgram(f) ==
  \/ EndExit(f) \/ EndLock(f) \/ EndUnlock(f) \/ EndTerminal(f)
  \/ EndFree(f) \/ EndNull(f) \/ EndClose(f) \/ EndDefault(f)

-----------------------------------------------------------------------------
(* The user and the kernel.  SIGINT is blocked in a thread that handles it *)
(* and delivered to some other one.  Ctrl-C again while one is pending is  *)
(* the same SIGINT.                                                        *)

CtrlC ==
  /\ ended = "no" /\ signals < MaxSignals
  /\ ~pending /\ pending' = TRUE
  /\ UNCHANGED <<shared, log_mutex, pc, hpc, signals, ended>>

Deliver(t) ==
  /\ ended = "no"
  /\ pending /\ pending' = FALSE /\ signals' = signals + 1
  /\ pc[t] \notin {"new", "done"} /\ hpc[t] = "none"
  /\ IF sigint = "default" THEN ended' = "killed" /\ UNCHANGED hpc
                           ELSE hpc' = [hpc EXCEPT ![t] = "exit"] /\ UNCHANGED ended
  /\ UNCHANGED <<shared, log_mutex, pc>>

Ended == ended # "no" /\ UNCHANGED vars

MainStep == InitAll \/ MainLoop \/ EndProgram(Main) \/ EndProgram(Call)
BroadcastStep == BroadcastThread \/ EndProgram(Broadcast)
ReceiveStep == ReceiveThread \/ EndProgram(Receive)
Kernel == \E t \in Threads : Deliver(t)

(* A handler waits for the mutex that the thread it interrupted holds. *)
SelfDeadlock(t) == log_mutex = t /\ hpc[t] \in {"log", "print"}
Hung == ended = "no" /\ (\E t \in Threads : SelfDeadlock(t)) /\ UNCHANGED vars

Next == MainStep \/ BroadcastStep \/ ReceiveStep \/ Kernel \/ CtrlC \/ Ended \/ Hung

(* The scheduler runs every thread, sleep and join return, and the kernel  *)
(* delivers a signal; the user need not do anything.                       *)
Spec ==
  /\ Init /\ [][Next]_vars
  /\ WF_vars(MainStep) /\ WF_vars(BroadcastStep) /\ WF_vars(ReceiveStep)
  /\ WF_vars(Kernel)

-----------------------------------------------------------------------------
Pcs ==
  {"new", "done", "loop",
   "signal", "raw", "malloc", "path", "path...", "config", "config...", "sockets",
   "failed", "run", "broadcast", "receive",
   "screen", "screen...", "key", "quit", "quit...", "log", "log...", "send", "print",
   "print...", "join broadcast", "join receive", "end", "return",
   "packet", "sendto", "error...", "sleep", "recv"}
HandlerPcs ==
  {"none", "exit", "log", "log...", "print", "print...", "terminal", "free", "null",
   "close", "default"}

(* Every variable has its type; in particular set_input_mode never takes   *)
(* the raw mode for the one to restore.                                    *)
TypeOK ==
  /\ g_bRunning \in BOOLEAN
  /\ g_config \in {"null", "unread", "read", "dangling"}
  /\ sockets \in {"none", "open", "closed"}
  /\ terminal \in {"user", "raw", "zero"} /\ oldt \in {"user", "zero"}
  /\ sigint \in {"default", "end_program"}
  /\ log_mutex \in Threads \union {Nobody}
  /\ pc \in [Threads -> Pcs] /\ hpc \in [Frames -> HandlerPcs]
  /\ signals \in Nat /\ pending \in BOOLEAN
  /\ failed \in BOOLEAN
  /\ ended \in {"no", "exit", "killed", "crash"}

(* Without Ctrl-C no thread reads the configuration after main freed it:   *)
(* main frees it only when both other threads are past their last read.    *)
(* The one crash left is a configuration that was never read in.           *)
ConfigSafe == ended = "crash" /\ signals = 0 => g_config = "unread"

(* The program never returns to the shell with the terminal in raw mode,   *)
(* whatever handlers ran before; only a Ctrl-C that comes before           *)
(* set_input_mode saved the user's mode can lose that.                     *)
TerminalRestored ==
  ended = "exit" => terminal = "user" \/ (terminal = "zero" /\ signals > 0)

(* Once the flag is cleared with all threads there, by 'q' or a handler,   *)
(* the process ends, unless a handler waits for its own thread's log_mutex.*)
StopEnds ==
  ~g_bRunning /\ pc[Receive] # "new" ~> ended # "no" \/ \E t \in Threads : SelfDeadlock(t)

(* The same of two Ctrl-C at any moments, the start-up included, where the *)
(* first may go unnoticed (StartRunning overwrites what its handler did).  *)
TwoCtrlCEnd ==
  signals >= 2 ~> ended # "no" \/ \E t \in Threads : SelfDeadlock(t)

(* README.md:58: 'q' or two Ctrl-C end the program.  They may hang it.     *)
CtrlCTwiceEnds == signals >= 2 ~> ended # "no"

(* init.c:73-76: without its sockets the program does not run.  The next   *)
(* assignment lets it.                                                     *)
SocketFailureStops == failed => ~g_bRunning
=============================================================================
