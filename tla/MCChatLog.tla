----------------------------- MODULE MCChatLog -----------------------------
(* ChatLog with its inductive invariant, on small instances.               *)
EXTENDS ChatLogProofs
=============================================================================
