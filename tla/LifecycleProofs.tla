-------------------------- MODULE LifecycleProofs --------------------------
(***************************************************************************)
(* Proofs about Lifecycle, for any number of Ctrl-C.  IInv follows main    *)
(* from the start-up to its last call: what the configuration, the mode of *)
(* the terminal and the other threads are at each stage, as long as no     *)
(* handler interfered, and what even a handler cannot undo.  LockInv, on   *)
(* top of it, follows log_mutex: who holds it, and who can wait for it.    *)
(***************************************************************************)
EXTENDS Lifecycle, TLAPS

(* Stages of main: before set_input_mode, before g_config exists, and once *)
(* a join has returned.                                                    *)
BeforeRaw == {"signal", "raw"}
BeforeConfig == BeforeRaw \union {"malloc"}
Joined == {"join receive", "end", "return"}

(* What end_program has left to do in frame f. *)
BeforeTerminal == {"exit", "log", "log...", "print", "print...", "terminal"}
BeforeFree == BeforeTerminal \union {"free"}

MainInv ==
  /\ hpc[Call] # "none" => pc[Main] = "return"
  /\ pc[Main] \in BeforeConfig => pc[Broadcast] = "new"
  /\ pc[Main] \in Joined => pc[Broadcast] = "done"
  /\ ended = "exit" => pc[Main] = "return" /\ hpc[Call] = "none"

(* Until Ctrl-C is typed only main frees the configuration, at its end.    *)
ConfigInv ==
  signals = 0 =>
    /\ \A t \in Threads : hpc[t] = "none"
    /\ pc[Main] \notin BeforeConfig /\ (pc[Main] = "return" => hpc[Call] \in BeforeFree)
         => g_config \in {"unread", "read"}
    /\ ConfigSafe

(* The mode set_input_mode saved is the user's, or the handler came first. *)
TerminalInv ==
  /\ signals = 0 => /\ pc[Main] \in BeforeRaw => terminal = "user"
                    /\ pc[Main] \notin BeforeRaw => oldt = "user"
  /\ pc[Main] \in BeforeRaw => terminal # "raw"
  /\ pc[Main] = "return" /\ hpc[Call] \notin BeforeTerminal => terminal = oldt

IInv == TypeOK /\ MainInv /\ ConfigInv /\ TerminalInv

-----------------------------------------------------------------------------
(* set_input_mode saves the user's mode when no handler came before it. *)
LEMMA ActionsOfInit ==
  ASSUME IInv,
         SetSignal \/ SetRaw \/ AllocConfig
  PROVE  IInv'
<1> USE MaxSignalsAssumption
    DEF IInv, shared, Threads, Main, Broadcast, Receive, Nobody, Frames, Call, ThreadOf,
        BeforeRaw, BeforeConfig, Joined, BeforeTerminal, BeforeFree, Goto, Runs, Quietly
<1>1. TypeOK'
  <2>1. CASE SetSignal
    <3>1. pc' \in [Threads -> Pcs] /\ hpc' \in [Frames -> HandlerPcs]
      BY <2>1 DEF SetSignal, TypeOK, Pcs, HandlerPcs
    <3> QED BY <2>1, <3>1 DEF SetSignal, TypeOK
  <2>2. CASE SetRaw
    <3>1. pc' \in [Threads -> Pcs] /\ hpc' \in [Frames -> HandlerPcs]
      BY <2>2 DEF SetRaw, TerminalInv, TypeOK, Pcs, HandlerPcs
    <3> QED BY <2>2, <3>1 DEF SetRaw, TerminalInv, TypeOK
  <2>3. CASE AllocConfig
    <3>1. pc' \in [Threads -> Pcs] /\ hpc' \in [Frames -> HandlerPcs]
      BY <2>3 DEF AllocConfig, TypeOK, Pcs, HandlerPcs
    <3> QED BY <2>3, <3>1 DEF AllocConfig, TypeOK
  <2> QED BY <2>1, <2>2, <2>3
<1>2. MainInv'
  BY DEF SetSignal, SetRaw, AllocConfig, TypeOK, MainInv
<1>3. ConfigInv'
  BY DEF SetSignal, SetRaw, AllocConfig, TypeOK, MainInv, ConfigInv, ConfigSafe
<1>4. TerminalInv'
  BY DEF SetSignal, SetRaw, AllocConfig, TypeOK, MainInv, ConfigInv, TerminalInv
<1> QED BY <1>1, <1>2, <1>3, <1>4

(* The rest of init_all, its ignored failures included. *)
LEMMA ActionsOfSetup ==
  ASSUME IInv,
         ReadConfig \/ OpenSockets \/ SocketsFail \/ StartRunning
  PROVE  IInv'
<1> USE MaxSignalsAssumption
    DEF IInv, shared, Threads, Main, Broadcast, Receive, Nobody, Frames, Call, ThreadOf,
        BeforeRaw, BeforeConfig, Joined, BeforeTerminal, BeforeFree, Goto, Runs, Quietly
<1>1. TypeOK'
  BY ZenonT(60) DEF ReadConfig, OpenSockets, SocketsFail, StartRunning, TypeOK, Pcs, HandlerPcs
<1>2. MainInv'
  BY DEF ReadConfig, OpenSockets, SocketsFail, StartRunning, TypeOK, MainInv
<1>3. ConfigInv'
  BY DEF ReadConfig, OpenSockets, SocketsFail, StartRunning, TypeOK, MainInv, ConfigInv, ConfigSafe
<1>4. TerminalInv'
  BY DEF ReadConfig, OpenSockets, SocketsFail, StartRunning, TypeOK, MainInv, ConfigInv, TerminalInv
<1> QED BY <1>1, <1>2, <1>3, <1>4

(* A thread is created after the configuration exists. *)
LEMMA Creations ==
  ASSUME IInv,
         \/ CreateThread(Broadcast, "broadcast", "receive")
         \/ CreateThread(Receive, "receive", "screen")
  PROVE  IInv'
<1> USE MaxSignalsAssumption
    DEF IInv, shared, Threads, Main, Broadcast, Receive, Nobody, Frames, Call, ThreadOf,
        BeforeRaw, BeforeConfig, Joined, BeforeTerminal, BeforeFree, Goto, Runs, Quietly
<1>1. TypeOK'
  BY DEF CreateThread, TypeOK, Pcs, HandlerPcs
<1>2. MainInv'
  BY DEF CreateThread, TypeOK, MainInv
<1>3. ConfigInv'
  BY DEF CreateThread, TypeOK, MainInv, ConfigInv, ConfigSafe
<1>4. TerminalInv'
  BY DEF CreateThread, TypeOK, MainInv, ConfigInv, TerminalInv
<1> QED BY <1>1, <1>2, <1>3, <1>4

(* What main prints changes only log_mutex. *)
LEMMA PrintsOfMain ==
  ASSUME IInv,
         \/ LockLog(Main, "screen", "screen...")
         \/ UnlockLog(Main, "screen...", "loop")
         \/ LockLog(Main, "quit", "quit...")
         \/ UnlockLog(Main, "quit...", "loop")
         \/ LockLog(Main, "log", "log...")
         \/ UnlockLog(Main, "log...", "loop")
         \/ UnlockLog(Main, "log...", "send")
         \/ LockLog(Main, "print", "print...")
         \/ UnlockLog(Main, "print...", "loop")
  PROVE  IInv'
<1> USE MaxSignalsAssumption
    DEF IInv, shared, Threads, Main, Broadcast, Receive, Nobody, Frames, Call, ThreadOf,
        BeforeRaw, BeforeConfig, Joined, BeforeTerminal, BeforeFree, Goto, Runs, Quietly
<1>1. TypeOK'
  <2>1. CASE LockLog(Main, "screen", "screen...")
    <3>1. pc' \in [Threads -> Pcs] /\ hpc' \in [Frames -> HandlerPcs]
      BY <2>1 DEF LockLog, TypeOK, Pcs, HandlerPcs
    <3> QED BY <2>1, <3>1 DEF LockLog, TypeOK
  <2>2. CASE UnlockLog(Main, "screen...", "loop")
    <3>1. pc' \in [Threads -> Pcs] /\ hpc' \in [Frames -> HandlerPcs]
      BY <2>2 DEF UnlockLog, TypeOK, Pcs, HandlerPcs
    <3> QED BY <2>2, <3>1 DEF UnlockLog, TypeOK
  <2>3. CASE LockLog(Main, "quit", "quit...")
    <3>1. pc' \in [Threads -> Pcs] /\ hpc' \in [Frames -> HandlerPcs]
      BY <2>3 DEF LockLog, TypeOK, Pcs, HandlerPcs
    <3> QED BY <2>3, <3>1 DEF LockLog, TypeOK
  <2>4. CASE UnlockLog(Main, "quit...", "loop")
    <3>1. pc' \in [Threads -> Pcs] /\ hpc' \in [Frames -> HandlerPcs]
      BY <2>4 DEF UnlockLog, TypeOK, Pcs, HandlerPcs
    <3> QED BY <2>4, <3>1 DEF UnlockLog, TypeOK
  <2>5. CASE LockLog(Main, "log", "log...")
    <3>1. pc' \in [Threads -> Pcs] /\ hpc' \in [Frames -> HandlerPcs]
      BY <2>5 DEF LockLog, TypeOK, Pcs, HandlerPcs
    <3> QED BY <2>5, <3>1 DEF LockLog, TypeOK
  <2>6. CASE UnlockLog(Main, "log...", "loop")
    <3>1. pc' \in [Threads -> Pcs] /\ hpc' \in [Frames -> HandlerPcs]
      BY <2>6 DEF UnlockLog, TypeOK, Pcs, HandlerPcs
    <3> QED BY <2>6, <3>1 DEF UnlockLog, TypeOK
  <2>7. CASE UnlockLog(Main, "log...", "send")
    <3>1. pc' \in [Threads -> Pcs] /\ hpc' \in [Frames -> HandlerPcs]
      BY <2>7 DEF UnlockLog, TypeOK, Pcs, HandlerPcs
    <3> QED BY <2>7, <3>1 DEF UnlockLog, TypeOK
  <2>8. CASE LockLog(Main, "print", "print...")
    <3>1. pc' \in [Threads -> Pcs] /\ hpc' \in [Frames -> HandlerPcs]
      BY <2>8 DEF LockLog, TypeOK, Pcs, HandlerPcs
    <3> QED BY <2>8, <3>1 DEF LockLog, TypeOK
  <2>9. CASE UnlockLog(Main, "print...", "loop")
    <3>1. pc' \in [Threads -> Pcs] /\ hpc' \in [Frames -> HandlerPcs]
      BY <2>9 DEF UnlockLog, TypeOK, Pcs, HandlerPcs
    <3> QED BY <2>9, <3>1 DEF UnlockLog, TypeOK
  <2> QED BY <2>1, <2>2, <2>3, <2>4, <2>5, <2>6, <2>7, <2>8, <2>9
<1>2. MainInv'
  BY DEF LockLog, UnlockLog, TypeOK, MainInv
<1>3. ConfigInv'
  BY DEF LockLog, UnlockLog, TypeOK, MainInv, ConfigInv, ConfigSafe
<1>4. TerminalInv'
  BY DEF LockLog, UnlockLog, TypeOK, MainInv, ConfigInv, TerminalInv
<1> QED BY <1>1, <1>2, <1>3, <1>4

(* What the start-up prints changes only log_mutex too. *)
LEMMA PrintsOfStartUp ==
  ASSUME IInv,
         \/ LockLog(Main, "path", "path...")
         \/ UnlockLog(Main, "path...", "config")
         \/ LockLog(Main, "config", "config...")
         \/ UnlockLog(Main, "config...", "sockets")
         \/ LogSocketError
         \/ UnlockLog(Main, "error...", "failed")
  PROVE  IInv'
<1> USE MaxSignalsAssumption
    DEF IInv, shared, Threads, Main, Broadcast, Receive, Nobody, Frames, Call, ThreadOf,
        BeforeRaw, BeforeConfig, Joined, BeforeTerminal, BeforeFree, Goto, Runs, Quietly
<1>1. TypeOK'
  <2>1. CASE LockLog(Main, "path", "path...")
    <3>1. pc' \in [Threads -> Pcs] /\ hpc' \in [Frames -> HandlerPcs]
      BY <2>1 DEF LockLog, TypeOK, Pcs, HandlerPcs
    <3> QED BY <2>1, <3>1 DEF LockLog, TypeOK
  <2>2. CASE UnlockLog(Main, "path...", "config")
    <3>1. pc' \in [Threads -> Pcs] /\ hpc' \in [Frames -> HandlerPcs]
      BY <2>2 DEF UnlockLog, TypeOK, Pcs, HandlerPcs
    <3> QED BY <2>2, <3>1 DEF UnlockLog, TypeOK
  <2>3. CASE LockLog(Main, "config", "config...")
    <3>1. pc' \in [Threads -> Pcs] /\ hpc' \in [Frames -> HandlerPcs]
      BY <2>3 DEF LockLog, TypeOK, Pcs, HandlerPcs
    <3> QED BY <2>3, <3>1 DEF LockLog, TypeOK
  <2>4. CASE UnlockLog(Main, "config...", "sockets")
    <3>1. pc' \in [Threads -> Pcs] /\ hpc' \in [Frames -> HandlerPcs]
      BY <2>4 DEF UnlockLog, TypeOK, Pcs, HandlerPcs
    <3> QED BY <2>4, <3>1 DEF UnlockLog, TypeOK
  <2>5. CASE LogSocketError
    <3>1. pc' \in [Threads -> Pcs] /\ hpc' \in [Frames -> HandlerPcs]
      BY <2>5 DEF LogSocketError, LockLog, TypeOK, Pcs, HandlerPcs
    <3> QED BY <2>5, <3>1 DEF LogSocketError, LockLog, TypeOK
  <2>6. CASE UnlockLog(Main, "error...", "failed")
    <3>1. pc' \in [Threads -> Pcs] /\ hpc' \in [Frames -> HandlerPcs]
      BY <2>6 DEF UnlockLog, TypeOK, Pcs, HandlerPcs
    <3> QED BY <2>6, <3>1 DEF UnlockLog, TypeOK
  <2> QED BY <2>1, <2>2, <2>3, <2>4, <2>5, <2>6
<1>2. MainInv'
  BY DEF LogSocketError, LockLog, UnlockLog, TypeOK, MainInv
<1>3. ConfigInv'
  BY DEF LogSocketError, LockLog, UnlockLog, TypeOK, MainInv, ConfigInv, ConfigSafe
<1>4. TerminalInv'
  BY DEF LogSocketError, LockLog, UnlockLog, TypeOK, MainInv, ConfigInv, TerminalInv
<1> QED BY <1>1, <1>2, <1>3, <1>4

(* So for the broadcast thread, *)
LEMMA PrintsOfBroadcast ==
  ASSUME IInv,
         \/ LockLog(Broadcast, "sendto", "error...")
         \/ UnlockLog(Broadcast, "error...", "sleep")
  PROVE  IInv'
<1> USE MaxSignalsAssumption
    DEF IInv, shared, Threads, Main, Broadcast, Receive, Nobody, Frames, Call, ThreadOf,
        BeforeRaw, BeforeConfig, Joined, BeforeTerminal, BeforeFree, Goto, Runs, Quietly
<1>1. TypeOK'
  BY ZenonT(60) DEF LockLog, UnlockLog, TypeOK, Pcs, HandlerPcs
<1>2. MainInv'
  BY DEF LockLog, UnlockLog, TypeOK, MainInv
<1>3. ConfigInv'
  BY DEF LockLog, UnlockLog, TypeOK, MainInv, ConfigInv, ConfigSafe
<1>4. TerminalInv'
  BY DEF LockLog, UnlockLog, TypeOK, MainInv, ConfigInv, TerminalInv
<1> QED BY <1>1, <1>2, <1>3, <1>4

(* and for the receive thread. *)
LEMMA PrintsOfReceive ==
  ASSUME IInv,
         \/ LockLog(Receive, "recv", "print...")
         \/ UnlockLog(Receive, "print...", "loop")
  PROVE  IInv'
<1> USE MaxSignalsAssumption
    DEF IInv, shared, Threads, Main, Broadcast, Receive, Nobody, Frames, Call, ThreadOf,
        BeforeRaw, BeforeConfig, Joined, BeforeTerminal, BeforeFree, Goto, Runs, Quietly
<1>1. TypeOK'
  BY ZenonT(60) DEF LockLog, UnlockLog, TypeOK, Pcs, HandlerPcs
<1>2. MainInv'
  BY DEF LockLog, UnlockLog, TypeOK, MainInv
<1>3. ConfigInv'
  BY DEF LockLog, UnlockLog, TypeOK, MainInv, ConfigInv, ConfigSafe
<1>4. TerminalInv'
  BY DEF LockLog, UnlockLog, TypeOK, MainInv, ConfigInv, TerminalInv
<1> QED BY <1>1, <1>2, <1>3, <1>4

(* Leaving a loop is for good: no thread that is done uses g_config. *)
LEMMA LoopTests ==
  ASSUME IInv,
         \/ LoopTest(Main, "key", "join broadcast")
         \/ LoopTest(Broadcast, "packet", "done")
         \/ LoopTest(Receive, "recv", "done")
  PROVE  IInv'
<1> USE MaxSignalsAssumption
    DEF IInv, shared, Threads, Main, Broadcast, Receive, Nobody, Frames, Call, ThreadOf,
        BeforeRaw, BeforeConfig, Joined, BeforeTerminal, BeforeFree, Goto, Runs, Quietly
<1>1. TypeOK'
  BY ZenonT(60) DEF LoopTest, TypeOK, Pcs, HandlerPcs
<1>2. MainInv'
  BY DEF LoopTest, TypeOK, MainInv
<1>3. ConfigInv'
  BY DEF LoopTest, TypeOK, MainInv, ConfigInv, ConfigSafe
<1>4. TerminalInv'
  BY DEF LoopTest, TypeOK, MainInv, ConfigInv, TerminalInv
<1> QED BY <1>1, <1>2, <1>3, <1>4

(* A key changes at most the flag. *)
LEMMA Keys ==
  ASSUME IInv,
         PressQ \/ OtherKey
  PROVE  IInv'
<1> USE MaxSignalsAssumption
    DEF IInv, shared, Threads, Main, Broadcast, Receive, Nobody, Frames, Call, ThreadOf,
        BeforeRaw, BeforeConfig, Joined, BeforeTerminal, BeforeFree, Goto, Runs, Quietly
<1>1. TypeOK'
  BY ZenonT(60) DEF PressQ, OtherKey, TypeOK, Pcs, HandlerPcs
<1>2. MainInv'
  BY DEF PressQ, OtherKey, TypeOK, MainInv
<1>3. ConfigInv'
  BY DEF PressQ, OtherKey, TypeOK, MainInv, ConfigInv, ConfigSafe
<1>4. TerminalInv'
  BY DEF PressQ, OtherKey, TypeOK, MainInv, ConfigInv, TerminalInv
<1> QED BY <1>1, <1>2, <1>3, <1>4

(* Without Ctrl-C a reader of g_config finds it allocated. *)
LEMMA Uses ==
  ASSUME IInv,
         SendChat \/ BuildPacket
  PROVE  IInv'
<1> USE MaxSignalsAssumption
    DEF IInv, shared, Threads, Main, Broadcast, Receive, Nobody, Frames, Call, ThreadOf,
        BeforeRaw, BeforeConfig, Joined, BeforeTerminal, BeforeFree, Goto, Runs, Quietly
<1>1. TypeOK'
  BY ZenonT(60) DEF SendChat, BuildPacket, UseConfig, TypeOK, Pcs, HandlerPcs
<1>2. MainInv'
  BY DEF SendChat, BuildPacket, UseConfig, TypeOK, MainInv
<1>3. ConfigInv'
  BY DEF SendChat, BuildPacket, UseConfig, TypeOK, MainInv, ConfigInv, ConfigSafe
<1>4. TerminalInv'
  BY DEF SendChat, BuildPacket, UseConfig, TypeOK, MainInv, ConfigInv, TerminalInv
<1> QED BY <1>1, <1>2, <1>3, <1>4

(* main passes a join when that thread is done, and then ends. *)
LEMMA Joins ==
  ASSUME IInv,
         \/ Join(Broadcast, "join broadcast", "join receive")
         \/ Join(Receive, "join receive", "end")
         \/ CallEnd
         \/ Return
  PROVE  IInv'
<1> USE MaxSignalsAssumption
    DEF IInv, shared, Threads, Main, Broadcast, Receive, Nobody, Frames, Call, ThreadOf,
        BeforeRaw, BeforeConfig, Joined, BeforeTerminal, BeforeFree, Goto, Runs, Quietly
<1>1. TypeOK'
  <2>1. CASE Join(Broadcast, "join broadcast", "join receive")
    <3>1. pc' \in [Threads -> Pcs] /\ hpc' \in [Frames -> HandlerPcs]
      BY <2>1 DEF Join, TypeOK, Pcs, HandlerPcs
    <3> QED BY <2>1, <3>1, ZenonT(60) DEF Join, TypeOK
  <2>2. CASE Join(Receive, "join receive", "end")
    <3>1. pc' \in [Threads -> Pcs] /\ hpc' \in [Frames -> HandlerPcs]
      BY <2>2 DEF Join, TypeOK, Pcs, HandlerPcs
    <3> QED BY <2>2, <3>1, ZenonT(60) DEF Join, TypeOK
  <2>3. CASE CallEnd
    <3>1. pc' \in [Threads -> Pcs] /\ hpc' \in [Frames -> HandlerPcs]
      BY <2>3 DEF CallEnd, TypeOK, Pcs, HandlerPcs
    <3> QED BY <2>3, <3>1, ZenonT(60) DEF CallEnd, TypeOK
  <2>4. CASE Return
    <3>1. pc' \in [Threads -> Pcs] /\ hpc' \in [Frames -> HandlerPcs]
      BY <2>4 DEF Return, TypeOK, Pcs, HandlerPcs
    <3> QED BY <2>4, <3>1, ZenonT(60) DEF Return, TypeOK
  <2> QED BY <2>1, <2>2, <2>3, <2>4
<1>2. MainInv'
  BY DEF Join, CallEnd, Return, TypeOK, MainInv
<1>3. ConfigInv'
  BY DEF Join, CallEnd, Return, TypeOK, MainInv, ConfigInv, ConfigSafe
<1>4. TerminalInv'
  BY DEF Join, CallEnd, Return, TypeOK, MainInv, ConfigInv, TerminalInv
<1> QED BY <1>1, <1>2, <1>3, <1>4

(* Steps that touch nothing shared. *)
LEMMA Plain ==
  ASSUME IInv,
         SendPacket \/ Sleep \/ RecvNothing
  PROVE  IInv'
<1> USE MaxSignalsAssumption
    DEF IInv, shared, Threads, Main, Broadcast, Receive, Nobody, Frames, Call, ThreadOf,
        BeforeRaw, BeforeConfig, Joined, BeforeTerminal, BeforeFree, Goto, Runs, Quietly
<1>1. TypeOK'
  <2>1. CASE SendPacket
    <3>1. pc' \in [Threads -> Pcs] /\ hpc' \in [Frames -> HandlerPcs]
      BY <2>1 DEF SendPacket, TypeOK, Pcs, HandlerPcs
    <3> QED BY <2>1, <3>1 DEF SendPacket, TypeOK
  <2>2. CASE Sleep
    <3>1. pc' \in [Threads -> Pcs] /\ hpc' \in [Frames -> HandlerPcs]
      BY <2>2 DEF Sleep, TypeOK, Pcs, HandlerPcs
    <3> QED BY <2>2, <3>1 DEF Sleep, TypeOK
  <2>3. CASE RecvNothing
    <3>1. pc' \in [Threads -> Pcs] /\ hpc' \in [Frames -> HandlerPcs]
      BY <2>3 DEF RecvNothing, TypeOK, Pcs, HandlerPcs
    <3> QED BY <2>3, <3>1 DEF RecvNothing, TypeOK
  <2> QED BY <2>1, <2>2, <2>3
<1>2. MainInv'
  BY DEF SendPacket, Sleep, RecvNothing, TypeOK, MainInv
<1>3. ConfigInv'
  BY DEF SendPacket, Sleep, RecvNothing, TypeOK, MainInv, ConfigInv, ConfigSafe
<1>4. TerminalInv'
  BY DEF SendPacket, Sleep, RecvNothing, TypeOK, MainInv, ConfigInv, TerminalInv
<1> QED BY <1>1, <1>2, <1>3, <1>4

(* The steps of end_program that leave the terminal's mode and g_config's
   memory alone, in any activation. *)
LEMMA EndSteps ==
  ASSUME IInv,
         NEW f \in Frames,
         \/ EndExit(f)
         \/ EndLock(f)
         \/ EndUnlock(f)
         \/ EndNull(f)
         \/ EndClose(f)
         \/ EndDefault(f)
  PROVE  IInv'
<1> USE MaxSignalsAssumption
    DEF IInv, shared, Threads, Main, Broadcast, Receive, Nobody, Frames, Call, ThreadOf,
        BeforeRaw, BeforeConfig, Joined, BeforeTerminal, BeforeFree, Goto, Runs, Quietly
<1>1. TypeOK'
  BY DEF EndGoto, EndExit, EndLock, EndUnlock, EndNull, EndClose,
         EndDefault, TypeOK, Pcs, HandlerPcs
<1>2. MainInv'
  BY DEF EndGoto, EndExit, EndLock, EndUnlock, EndNull, EndClose,
         EndDefault, TypeOK, MainInv
<1>3. ConfigInv'
  BY DEF EndGoto, EndExit, EndLock, EndUnlock, EndNull, EndClose,
         EndDefault, TypeOK, MainInv, ConfigInv, ConfigSafe
<1>4. TerminalInv'
  BY DEF EndGoto, EndExit, EndLock, EndUnlock, EndNull, EndClose,
         EndDefault, TypeOK, MainInv, ConfigInv, TerminalInv
<1> QED BY <1>1, <1>2, <1>3, <1>4

(* end_program restores the saved mode, then frees the configuration. *)
LEMMA EndTerminals ==
  ASSUME IInv,
         NEW f \in Frames,
         EndTerminal(f) \/ EndFree(f)
  PROVE  IInv'
<1> USE MaxSignalsAssumption
    DEF IInv, shared, Threads, Main, Broadcast, Receive, Nobody, Frames, Call, ThreadOf,
        BeforeRaw, BeforeConfig, Joined, BeforeTerminal, BeforeFree, Goto, Runs, Quietly
<1>1. TypeOK'
  BY DEF EndGoto, EndTerminal, EndFree, TypeOK, Pcs, HandlerPcs
<1>2. MainInv'
  BY DEF EndGoto, EndTerminal, EndFree, TypeOK, MainInv
<1>3. ConfigInv'
  BY DEF EndGoto, EndTerminal, EndFree, TypeOK, MainInv, ConfigInv, ConfigSafe
<1>4. TerminalInv'
  BY DEF EndGoto, EndTerminal, EndFree, TypeOK, MainInv, ConfigInv, TerminalInv
<1> QED BY <1>1, <1>2, <1>3, <1>4

(* A SIGINT may start a handler on top of any thread. *)
LEMMA Signals ==
  ASSUME IInv,
         NEW t \in Threads,
         CtrlC \/ Deliver(t)
  PROVE  IInv'
<1> USE MaxSignalsAssumption
    DEF IInv, shared, Threads, Main, Broadcast, Receive, Nobody, Frames, Call, ThreadOf,
        BeforeRaw, BeforeConfig, Joined, BeforeTerminal, BeforeFree, Goto, Runs, Quietly
<1>1. TypeOK'
  <2>1. pc' \in [Threads -> Pcs] /\ hpc' \in [Frames -> HandlerPcs]
    BY DEF CtrlC, Deliver, TypeOK, HandlerPcs
  <2>2. signals' \in Nat
    BY DEF CtrlC, Deliver, TypeOK
  <2>3. CASE CtrlC
    BY <2>1, <2>2, <2>3 DEF CtrlC, TypeOK
  <2>4. CASE Deliver(t)
    BY <2>1, <2>2, <2>4 DEF Deliver, TypeOK
  <2> QED BY <2>3, <2>4
<1>2. MainInv'
  BY DEF CtrlC, Deliver, TypeOK, MainInv
<1>3. ConfigInv'
  <2>1. CASE CtrlC
    BY <2>1 DEF CtrlC, TypeOK, ConfigInv, ConfigSafe
  <2>2. CASE Deliver(t)
    <3>1. signals' # 0
      BY <2>2 DEF Deliver, TypeOK
    <3> QED BY <3>1 DEF ConfigInv
  <2> QED BY <2>1, <2>2
<1>4. TerminalInv'
  <2>1. CASE CtrlC
    BY <2>1 DEF CtrlC, TypeOK, TerminalInv
  <2>2. CASE Deliver(t)
    <3>1. signals' # 0 /\ hpc'[Call] = hpc[Call] /\ UNCHANGED <<pc, terminal, oldt>>
      BY <2>2 DEF Deliver, TypeOK
    <3> QED BY <3>1 DEF TerminalInv
  <2> QED BY <2>1, <2>2
<1> QED BY <1>1, <1>2, <1>3, <1>4

(* The state in which main starts satisfies the invariant. *)
LEMMA InitIInv ==
  ASSUME Init
  PROVE  IInv
<1> USE MaxSignalsAssumption
    DEF Init, Threads, Main, Broadcast, Receive, Nobody, Frames, Call, BeforeRaw,
        BeforeConfig, Joined, BeforeTerminal, BeforeFree
<1>1. pc \in [Threads -> Pcs] /\ hpc \in [Frames -> HandlerPcs]
  BY DEF Pcs, HandlerPcs
<1>2. /\ g_bRunning \in BOOLEAN /\ pending \in BOOLEAN /\ failed \in BOOLEAN
  BY Zenon
<1>3. TypeOK
  BY <1>1, <1>2 DEF TypeOK
<1>4. MainInv /\ ConfigInv /\ TerminalInv
  BY DEF MainInv, ConfigInv, TerminalInv, ConfigSafe
<1> QED BY <1>3, <1>4 DEF IInv

(* The invariant depends on the variables alone. *)
LEMMA StutterStep ==
  ASSUME IInv, UNCHANGED vars
  PROVE  IInv'
BY DEF IInv, vars, shared, control, TypeOK, MainInv, ConfigInv, TerminalInv, ConfigSafe

(* Every step preserves the invariant. *)
LEMMA NextStep ==
  ASSUME IInv, [Next]_vars
  PROVE  IInv'
<1>1. CASE UNCHANGED vars \/ Ended \/ Hung
  BY <1>1, StutterStep DEF Ended, Hung
<1>2. CASE InitAll
  BY <1>2, ActionsOfInit, ActionsOfSetup, Creations, PrintsOfMain, PrintsOfStartUp
     DEF InitAll
<1>3. CASE MainLoop
  BY <1>3, LoopTests, Keys, PrintsOfMain, Uses, Joins DEF MainLoop
<1>4. CASE BroadcastThread
  BY <1>4, LoopTests, Uses, Plain, PrintsOfBroadcast DEF BroadcastThread
<1>5. CASE ReceiveThread
  BY <1>5, LoopTests, Plain, PrintsOfReceive DEF ReceiveThread
<1>6. ASSUME NEW f \in Frames, EndProgram(f) PROVE IInv'
  BY <1>6, EndSteps, EndTerminals DEF EndProgram
<1>7. CASE Kernel \/ CtrlC
  BY <1>7, Signals DEF Kernel, Threads
<1> QED
  BY <1>1, <1>2, <1>3, <1>4, <1>5, <1>6, <1>7
     DEF Next, MainStep, BroadcastStep, ReceiveStep, Frames, Threads

-----------------------------------------------------------------------------
(* IInv holds in every reachable state, however often Ctrl-C is typed.     *)
THEOREM Invariance == Spec => []IInv
BY InitIInv, NextStep, PTL DEF Spec

(* Every variable keeps its type; the saved mode, oldt, is never the raw one. *)
THEOREM TypeCorrect == Spec => []TypeOK
BY Invariance, PTL DEF IInv

(* Without Ctrl-C the configuration outlives its readers.                  *)
THEOREM ConfigCorrect == Spec => []ConfigSafe
<1>1. IInv => ConfigSafe
  BY DEF IInv, ConfigInv, ConfigSafe
<1> QED BY <1>1, Invariance, PTL

(* The terminal is never left in raw mode by a program that returned.      *)
THEOREM TerminalCorrect == Spec => []TerminalRestored
<1>1. IInv => TerminalRestored
  BY MaxSignalsAssumption
     DEF IInv, TypeOK, MainInv, TerminalInv, TerminalRestored, BeforeRaw, BeforeTerminal
<1> QED BY <1>1, Invariance, PTL

-----------------------------------------------------------------------------
(* Where a thread's own code, and where end_program, holds log_mutex.      *)
Prints ==
  {"path...", "config...", "error...", "screen...", "quit...", "log...", "print..."}
EndPrints == {"log...", "print..."}

(* Code of t that a handler on top of t interrupts is inside a print.      *)
InPrint(t) == pc[t] \in Prints \/ (t = Main /\ hpc[Call] \in EndPrints)

(* Whoever is inside a print holds log_mutex, nobody else does, and no     *)
(* thread is inside two prints, one on top of the other.                   *)
LockInv ==
  /\ \A t \in Threads : InPrint(t) \/ hpc[t] \in EndPrints <=> log_mutex = t
  /\ \A t \in Threads : ~(InPrint(t) /\ hpc[t] \in EndPrints)

(* A thread is new until main creates it. *)
Before(t) ==
  BeforeConfig
    \union {"path", "path...", "config", "config...", "sockets", "error...", "failed", "run",
            "broadcast"}
    \union (IF t = Receive THEN {"receive"} ELSE {})

NewInv == \A t \in {Broadcast, Receive} : pc[Main] \in Before(t) => pc[t] = "new"

(* A program that no SIGINT interrupts inside a print does not hang on its *)
(* mutex: a handler waits for its own thread exactly when it came while    *)
(* that thread printed, in its loop, in the start-up or at the end of main.*)
HangsInItsPrint ==
  \A t \in Threads :
    SelfDeadlock(t) <=> signals > 0 /\ InPrint(t) /\ hpc[t] \in {"log", "print"}

(* The mutex is given back by the next step of the thread that holds it,   *)
(* handlers on top of it aside: no thread waits, or ends, with the mutex.  *)
MutexComesBack ==
  \A t \in Threads :
    log_mutex = t /\ hpc[t] \notin EndPrints =>
      IF pc[t] \in Prints THEN t = Main => hpc[Call] = "none"
                          ELSE t = Main /\ hpc[Call] \in EndPrints

(* main never goes back in its start-up, nor does a thread become new.     *)
LEMMA NewThreads ==
  ASSUME IInv, NewInv, [Next]_vars
  PROVE  NewInv'
<1> USE DEF Threads, Main, Broadcast, Receive
<1>1. pc \in [Threads -> Pcs]
  BY DEF IInv, TypeOK
<1>2. CASE UNCHANGED pc
  BY <1>2 DEF NewInv
<1>3. CASE InitAll
  <2> USE DEF NewInv, Before, BeforeConfig, BeforeRaw, Goto
  <2>1. CASE \/ SetSignal \/ SetRaw \/ AllocConfig \/ ReadConfig \/ OpenSockets
             \/ SocketsFail \/ StartRunning
    BY <1>1, <2>1 DEF SetSignal, SetRaw, AllocConfig, ReadConfig, OpenSockets, SocketsFail,
       StartRunning
  <2>2. CASE \/ LockLog(Main, "path", "path...") \/ UnlockLog(Main, "path...", "config")
             \/ LockLog(Main, "config", "config...")
             \/ UnlockLog(Main, "config...", "sockets")
             \/ LogSocketError \/ UnlockLog(Main, "error...", "failed")
             \/ LockLog(Main, "screen", "screen...") \/ UnlockLog(Main, "screen...", "loop")
    BY <1>1, <2>2 DEF LogSocketError, LockLog, UnlockLog
  <2>3. CASE \/ CreateThread(Broadcast, "broadcast", "receive")
             \/ CreateThread(Receive, "receive", "screen")
    BY <1>1, <2>3 DEF CreateThread
  <2> QED BY <1>3, <2>1, <2>2, <2>3 DEF InitAll
<1>4. CASE MainLoop
  <2> USE DEF NewInv, Before, BeforeConfig, BeforeRaw, Goto
  <2>1. CASE \/ LoopTest(Main, "key", "join broadcast") \/ PressQ \/ OtherKey \/ SendChat
             \/ Join(Broadcast, "join broadcast", "join receive")
             \/ Join(Receive, "join receive", "end")
    BY <1>1, <2>1 DEF LoopTest, PressQ, OtherKey, SendChat, Join
  <2>2. CASE \/ LockLog(Main, "quit", "quit...") \/ UnlockLog(Main, "quit...", "loop")
             \/ LockLog(Main, "log", "log...")
             \/ UnlockLog(Main, "log...", "loop") \/ UnlockLog(Main, "log...", "send")
             \/ LockLog(Main, "print", "print...") \/ UnlockLog(Main, "print...", "loop")
    BY <1>1, <2>2 DEF LockLog, UnlockLog
  <2>3. CASE CallEnd \/ Return
    BY <1>1, <2>3 DEF CallEnd, Return
  <2> QED BY <1>4, <2>1, <2>2, <2>3 DEF MainLoop
<1>5. CASE BroadcastThread \/ ReceiveThread
  BY <1>1, <1>5 DEF BroadcastThread, ReceiveThread, LoopTest, BuildPacket, SendPacket, Sleep,
     RecvNothing, LockLog, UnlockLog, NewInv, Goto
<1>6. ASSUME NEW f \in Frames, EndProgram(f)
      PROVE  UNCHANGED pc
  BY <1>6 DEF EndProgram, EndExit, EndLock, EndUnlock, EndTerminal, EndFree, EndNull,
     EndClose, EndDefault, EndGoto
<1>7. ASSUME \/ Kernel \/ CtrlC \/ Ended \/ Hung \/ UNCHANGED vars
      PROVE  UNCHANGED pc
  BY <1>7 DEF Kernel, Deliver, CtrlC, Ended, Hung, vars, control
<1> QED
  BY <1>2, <1>3, <1>4, <1>5, <1>6, <1>7
     DEF Next, MainStep, BroadcastStep, ReceiveStep, Frames

(* A thread's own step between two prints. *)
LEMMA ThreadMoves ==
  ASSUME IInv, LockInv, NEW t \in Threads,
         NEW from \in Pcs \ Prints, NEW to \in Pcs \ Prints,
         Goto(t, from, to), log_mutex' = log_mutex
  PROVE  LockInv'
<1>1. \A u \in Threads : InPrint(u)' <=> InPrint(u)
  BY DEF IInv, TypeOK, Goto, InPrint, Frames
<1> QED BY <1>1 DEF LockInv, Goto

(* A thread's own code takes the mutex, or gives it back. *)
LEMMA ThreadPrints ==
  ASSUME IInv, LockInv, NEW t \in Threads, NEW from \in Pcs, NEW to \in Pcs,
         \/ from \notin Prints /\ to \in Prints /\ LockLog(t, from, to)
         \/ from \in Prints /\ to \notin Prints /\ UnlockLog(t, from, to)
  PROVE  LockInv'
<1> USE DEF Threads, Main, Broadcast, Receive, Nobody, Frames, Call, EndPrints
<1>1. hpc[t] = "none" /\ (t = Main => hpc[Call] = "none") /\ hpc' = hpc
  BY DEF LockLog, UnlockLog, Goto, Runs
<1>2. pc' = [pc EXCEPT ![t] = to] /\ pc[t] = from /\ pc \in [Threads -> Pcs]
  BY DEF LockLog, UnlockLog, Goto, IInv, TypeOK
<1>3. ~InPrint(t) => log_mutex # t
  BY <1>1 DEF LockInv
<1>4. CASE from \notin Prints /\ to \in Prints /\ LockLog(t, from, to)
  <2>1. log_mutex = Nobody /\ log_mutex' = t
    BY <1>4 DEF LockLog
  <2>2. \A u \in Threads : ~InPrint(u) /\ hpc[u] \notin EndPrints
    BY <2>1 DEF LockInv
  <2>3. \A u \in Threads : InPrint(u)' <=> u = t
    BY <1>1, <1>2, <1>4, <2>2 DEF InPrint
  <2> QED BY <1>1, <2>1, <2>2, <2>3 DEF LockInv
<1>5. CASE from \in Prints /\ to \notin Prints /\ UnlockLog(t, from, to)
  <2>1. log_mutex = t /\ log_mutex' = Nobody
    BY <1>2, <1>5 DEF UnlockLog, LockInv, InPrint
  <2>2. \A u \in Threads : u # t => ~InPrint(u) /\ hpc[u] \notin EndPrints
    BY <2>1 DEF LockInv
  <2>3. \A u \in Threads : ~InPrint(u)'
    BY <1>1, <1>2, <1>5, <2>2 DEF InPrint
  <2> QED BY <1>1, <2>1, <2>2, <2>3 DEF LockInv
<1> QED BY <1>4, <1>5

(* So the steps of the three threads' own code. *)
LEMMA ThreadSteps ==
  ASSUME IInv, LockInv, NewInv, InitAll \/ MainLoop \/ BroadcastThread \/ ReceiveThread
  PROVE  LockInv'
<1> USE DEF Threads, Main, Broadcast, Receive
<1>1. ASSUME NEW t \in Threads, NEW from \in Pcs, NEW to \in Pcs,
             from \notin Prints, to \in Prints, LockLog(t, from, to)
      PROVE  LockInv'
  BY <1>1, ThreadPrints
<1>2. ASSUME NEW t \in Threads, NEW from \in Pcs, NEW to \in Pcs,
             from \in Prints, to \notin Prints, UnlockLog(t, from, to)
      PROVE  LockInv'
  BY <1>2, ThreadPrints
<1>3. ASSUME NEW t \in Threads, NEW from \in Pcs, NEW to \in Pcs,
             from \notin Prints, to \notin Prints, Goto(t, from, to), log_mutex' = log_mutex
      PROVE  LockInv'
  BY <1>3, ThreadMoves
<1>4. CASE \/ SetSignal \/ SetRaw \/ AllocConfig \/ ReadConfig \/ OpenSockets
           \/ SocketsFail \/ StartRunning
  BY <1>3, <1>4, ZenonT(60) DEF SetSignal, SetRaw, AllocConfig, ReadConfig, OpenSockets,
     SocketsFail, StartRunning, Quietly, Pcs, Prints
<1>5. CASE \/ LockLog(Main, "path", "path...") \/ LockLog(Main, "config", "config...")
           \/ LogSocketError \/ LockLog(Main, "screen", "screen...")
           \/ LockLog(Main, "quit", "quit...") \/ LockLog(Main, "log", "log...")
           \/ LockLog(Main, "print", "print...")
           \/ LockLog(Broadcast, "sendto", "error...")
           \/ LockLog(Receive, "recv", "print...")
  BY <1>1, <1>5, ZenonT(60) DEF LogSocketError, Pcs, Prints
<1>6. CASE \/ UnlockLog(Main, "path...", "config")
           \/ UnlockLog(Main, "config...", "sockets")
           \/ UnlockLog(Main, "error...", "failed") \/ UnlockLog(Main, "screen...", "loop")
           \/ UnlockLog(Main, "quit...", "loop")
           \/ UnlockLog(Main, "log...", "loop") \/ UnlockLog(Main, "log...", "send")
           \/ UnlockLog(Main, "print...", "loop")
           \/ UnlockLog(Broadcast, "error...", "sleep")
           \/ UnlockLog(Receive, "print...", "loop")
  BY <1>2, <1>6, ZenonT(60) DEF Pcs, Prints
<1>7. CASE \/ LoopTest(Main, "key", "join broadcast") \/ PressQ \/ OtherKey \/ SendChat
           \/ Join(Broadcast, "join broadcast", "join receive")
           \/ Join(Receive, "join receive", "end")
  BY <1>3, <1>7, ZenonT(60) DEF LoopTest, PressQ, OtherKey, SendChat, UseConfig, Join,
     Quietly, Pcs, Prints
<1>8. CASE \/ LoopTest(Broadcast, "packet", "done") \/ BuildPacket \/ SendPacket \/ Sleep
           \/ LoopTest(Receive, "recv", "done") \/ RecvNothing
  BY <1>3, <1>8 DEF LoopTest, BuildPacket, SendPacket, Sleep, RecvNothing, UseConfig,
     Quietly, Pcs, Prints
<1>9. CASE \/ CreateThread(Broadcast, "broadcast", "receive")
           \/ CreateThread(Receive, "receive", "screen")
  <2>1. PICK u \in {Broadcast, Receive}, from \in {"broadcast", "receive"},
             to \in {"receive", "screen"} :
          CreateThread(u, from, to) /\ (u = Broadcast => from = "broadcast")
    BY <1>9
  <2>2. pc[u] = "new"
    BY <2>1 DEF CreateThread, NewInv, Before
  <2>3. \A t \in Threads : InPrint(t)' <=> InPrint(t)
    BY <2>1, <2>2 DEF CreateThread, InPrint, Prints, IInv, TypeOK
  <2> QED BY <2>1, <2>3 DEF CreateThread, LockInv
<1>10. CASE CallEnd \/ Return
  <2>1. log_mutex' = log_mutex /\ \A t \in Threads : hpc'[t] = hpc[t]
    BY <1>10 DEF CallEnd, Return, IInv, TypeOK, Frames, Call
  <2>2. \A t \in Threads : InPrint(t)' <=> InPrint(t)
    BY <1>10 DEF CallEnd, Return, InPrint, Prints, EndPrints, IInv, TypeOK, Runs, Frames, Call
  <2> QED BY <2>1, <2>2 DEF LockInv
<1> QED
  BY <1>4, <1>5, <1>6, <1>7, <1>8, <1>9, <1>10
     DEF InitAll, MainLoop, BroadcastThread, ReceiveThread

(* And of end_program, on top of any thread or called by main. *)
LEMMA EndMoves ==
  ASSUME IInv, LockInv, NEW f \in Frames, EndProgram(f)
  PROVE  LockInv'
<1> USE DEF Threads, Main, Broadcast, Receive, Nobody, Frames, Call, ThreadOf, EndPrints
<1>1. hpc \in [Frames -> HandlerPcs] /\ pc' = pc
  BY DEF IInv, TypeOK, EndProgram, EndExit, EndLock, EndUnlock, EndTerminal, EndFree,
         EndNull, EndClose, EndDefault, EndGoto
<1>2. CASE EndExit(f) \/ EndTerminal(f) \/ EndFree(f) \/ EndNull(f) \/ EndClose(f)
           \/ EndDefault(f)
  <2>1. log_mutex' = log_mutex
    BY <1>2 DEF EndExit, EndTerminal, EndFree, EndNull, EndClose, EndDefault, Quietly
  <2>2. hpc[f] \notin EndPrints
    BY <1>2 DEF EndExit, EndTerminal, EndFree, EndNull, EndClose, EndDefault, EndGoto
  <2>3. PICK to \in HandlerPcs \ EndPrints : hpc' = [hpc EXCEPT ![f] = to]
    BY <1>2 DEF EndExit, EndTerminal, EndFree, EndNull, EndClose, EndDefault, EndGoto,
       HandlerPcs
  <2>4. \A g \in Frames : hpc'[g] \in EndPrints <=> hpc[g] \in EndPrints
    BY <1>1, <2>2, <2>3
  <2> QED BY <1>1, <2>1, <2>4 DEF LockInv, InPrint
<1>3. CASE EndLock(f)
  <2>1. log_mutex = Nobody /\ log_mutex' = ThreadOf(f)
    BY <1>3 DEF EndLock
  <2>2. \A t \in Threads : ~InPrint(t) /\ hpc[t] \notin EndPrints
    BY <2>1 DEF LockInv
  <2>3. \A g \in Frames : hpc'[g] \in EndPrints <=> g = f
    BY <1>1, <1>3, <2>2 DEF EndLock, EndGoto, InPrint
  <2> QED BY <1>1, <2>1, <2>2, <2>3 DEF LockInv, InPrint
<1>4. CASE EndUnlock(f)
  <2>1. hpc[f] \in EndPrints /\ log_mutex' = Nobody
    BY <1>4 DEF EndUnlock, EndGoto
  <2>2. log_mutex = ThreadOf(f)
    BY <2>1 DEF LockInv, InPrint
  <2>3. \A g \in Frames : g # f => hpc[g] \notin EndPrints
    BY <2>1, <2>2 DEF LockInv, InPrint
  <2>4. \A g \in Frames : hpc'[g] \notin EndPrints
    BY <1>1, <1>4, <2>3 DEF EndUnlock, EndGoto
  <2>5. \A t \in Threads : pc[t] \notin Prints
    <3>1. \A t \in Threads \ {ThreadOf(f)} : pc[t] \notin Prints
      BY <2>2 DEF LockInv, InPrint
    <3>2. f \in Threads => pc[ThreadOf(f)] \notin Prints
      BY <2>1 DEF LockInv, InPrint
    <3>3. f = Call => pc[Main] \notin Prints
      BY <2>1 DEF IInv, MainInv, Prints
    <3> QED BY <3>1, <3>2, <3>3
  <2> QED BY <1>1, <2>1, <2>4, <2>5 DEF LockInv, InPrint
<1> QED BY <1>2, <1>3, <1>4 DEF EndProgram

(* A handler starts outside of a print, whatever it interrupts. *)
LEMMA SignalMoves ==
  ASSUME IInv, LockInv, CtrlC \/ Kernel
  PROVE  LockInv'
<1>1. log_mutex' = log_mutex /\ pc' = pc
  BY DEF CtrlC, Kernel, Deliver
<1>2. \A f \in Frames : hpc'[f] \in EndPrints <=> hpc[f] \in EndPrints
  <2>1. CASE CtrlC
    BY <2>1 DEF CtrlC
  <2>2. ASSUME NEW t \in Threads, Deliver(t)
        PROVE  \A f \in Frames : hpc'[f] \in EndPrints <=> hpc[f] \in EndPrints
    BY <2>2 DEF Deliver, IInv, TypeOK, EndPrints
  <2> QED BY <2>1, <2>2 DEF Kernel
<1> QED BY <1>1, <1>2 DEF LockInv, InPrint, Frames

(* log_mutex is always held by exactly the thread that is inside a print.  *)
THEOREM MutexInvariance == Spec => [](LockInv /\ NewInv)
<1>1. Init => LockInv /\ NewInv
  BY DEF Init, LockInv, NewInv, InPrint, Prints, EndPrints, Threads, Main, Broadcast, Receive,
         Nobody, Frames, Call
<1>2. ASSUME IInv, LockInv, NewInv, [Next]_vars
      PROVE  LockInv'
  <2>1. CASE UNCHANGED vars \/ Ended \/ Hung
    BY <1>2, <2>1 DEF Ended, Hung, vars, shared, control, LockInv, InPrint
  <2>2. CASE InitAll \/ MainLoop \/ BroadcastThread \/ ReceiveThread
    BY <1>2, <2>2, ThreadSteps
  <2>3. ASSUME NEW f \in Frames, EndProgram(f) PROVE LockInv'
    BY <1>2, <2>3, EndMoves
  <2>4. CASE CtrlC \/ Kernel
    BY <1>2, <2>4, SignalMoves
  <2> QED
    BY <1>2, <2>1, <2>2, <2>3, <2>4
       DEF Next, MainStep, BroadcastStep, ReceiveStep, Frames, Threads
<1> QED BY <1>1, <1>2, NewThreads, Invariance, PTL DEF Spec

(* The only way to hang on log_mutex is a SIGINT inside a print of the     *)
(* thread that handles it: prints of two threads never block each other.   *)
THEOREM HangsOnlyInItsPrint == Spec => [](HangsInItsPrint /\ MutexComesBack)
<1>1. IInv /\ LockInv => HangsInItsPrint
  <2> SUFFICES ASSUME IInv, LockInv, NEW t \in Threads
               PROVE  SelfDeadlock(t) <=>
                        signals > 0 /\ InPrint(t) /\ hpc[t] \in {"log", "print"}
    BY DEF HangsInItsPrint
  <2>1. hpc[t] \in {"log", "print"} => signals > 0
    BY DEF IInv, TypeOK, ConfigInv
  <2>2. hpc[t] \in {"log", "print"} => (InPrint(t) <=> log_mutex = t)
    BY DEF LockInv, EndPrints
  <2> QED BY <2>1, <2>2 DEF SelfDeadlock
<1>2. IInv /\ LockInv => MutexComesBack
  <2> SUFFICES ASSUME IInv, LockInv, NEW t \in Threads,
                      log_mutex = t, hpc[t] \notin EndPrints
               PROVE  IF pc[t] \in Prints THEN t = Main => hpc[Call] = "none"
                      ELSE t = Main /\ hpc[Call] \in EndPrints
    BY DEF MutexComesBack
  <2>1. InPrint(t)
    BY DEF LockInv
  <2>2. pc[t] \in Prints /\ t = Main => hpc[Call] = "none"
    BY DEF IInv, MainInv, Prints
  <2> QED BY <2>1, <2>2 DEF InPrint
<1> QED BY <1>1, <1>2, Invariance, MutexInvariance, PTL
=============================================================================
