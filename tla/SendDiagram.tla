---------------------------- MODULE SendDiagram ----------------------------
(***************************************************************************)
(* What the user is promised of the keyboard: the two state diagrams of    *)
(* the design report (the two input modes; idle, armed by 's', sending     *)
(* after Enter, and back to idle by itself), and that only a pass through  *)
(* sending can send, at most one message each, which is then recorded.     *)
(***************************************************************************)
EXTENDS Naturals

VARIABLES
  mode,     \* "data" or "command"
  phase,    \* "idle", "armed", or one of the stages of sending:
            \* "sending", "sent", "recorded"
  sent,     \* messages handed to the network
  recorded  \* own messages in the chat log

vars == <<mode, phase, sent, recorded>>

Init == mode = "data" /\ phase = "idle" /\ sent = 0 /\ recorded = 0

(* Keys; none is handled while a message is being sent. *)
Waiting == phase \in {"idle", "armed"}
Counts == <<sent, recorded>>
Esc == Waiting /\ mode = "data" /\ mode' = "command" /\ UNCHANGED <<phase, Counts>>
Insert == Waiting /\ mode = "command" /\ mode' = "data" /\ UNCHANGED <<phase, Counts>>
Arm == /\ mode = "command" /\ phase = "idle"
       /\ phase' = "armed" /\ UNCHANGED <<mode, Counts>>
Enter == /\ mode = "command" /\ phase = "armed"
         /\ phase' = "sending" /\ UNCHANGED <<mode, Counts>>

(* Sending ends by itself, whether the message left or was refused. *)
Transmit == /\ phase = "sending" /\ phase' = "sent"
            /\ sent' = sent + 1 /\ UNCHANGED <<mode, recorded>>
Record == /\ phase = "sent" /\ phase' = "recorded"
          /\ recorded' = sent /\ UNCHANGED <<mode, sent>>
Finish == /\ phase \in {"sending", "recorded"} /\ phase' = "idle"
          /\ UNCHANGED <<mode, Counts>>

Next == Esc \/ Insert \/ Arm \/ Enter \/ Transmit \/ Record \/ Finish

Safety == Init /\ [][Next]_vars
Spec == Safety /\ WF_vars(Record \/ Finish)
=============================================================================
