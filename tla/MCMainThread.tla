---------------------------- MODULE MCMainThread ----------------------------
(* MainThread with its inductive invariant, on small instances.            *)
EXTENDS MainThreadProofs

(* Three nicknames, one of which also announces a second address. *)
MCAnnouncements ==
  {[name |-> "ann", ip |-> "ip1"], [name |-> "ann", ip |-> "ip2"],
   [name |-> "bob", ip |-> "ip2"], [name |-> "cyd", ip |-> "ip1"]}
=============================================================================
