------------------------------ MODULE Keyboard ------------------------------
(***************************************************************************)
(* How the main loop gets its keys: get_char (main_thread.c) asks select   *)
(* whether the terminal has bytes, and then takes one with getchar.  Stdio *)
(* reads all bytes there are into its own buffer, of which select knows    *)
(* nothing.  Keys are numbered as they are typed and taken in that order,  *)
(* so how many there are in each place says everything.                    *)
(***************************************************************************)
EXTENDS Naturals

CONSTANTS
  BufferSize,  \* what one read of stdio asks for
  MaxTyped     \* bound of the model: keys typed in a behaviour

ASSUME BufferSizeAssumption == BufferSize \in Nat \ {0}
ASSUME MaxTypedAssumption == MaxTyped \in Nat

VARIABLES
  inTerminal,  \* bytes the terminal holds
  inBuffer,    \* bytes in the buffer of stdin
  handled      \* keys that process_keyboard_input got

vars == <<inTerminal, inBuffer, handled>>

typed == handled + inBuffer + inTerminal

Init == inTerminal = 0 /\ inBuffer = 0 /\ handled = 0

(* The terminal is not canonical: each key is readable at once. *)
TypeKey ==
  /\ typed < MaxTyped
  /\ inTerminal' = inTerminal + 1
  /\ UNCHANGED <<inBuffer, handled>>

(* What stdio reads at once, and how much of it stays for later. *)
OneRead == IF inTerminal < BufferSize THEN inTerminal ELSE BufferSize

(* Faulty: every key is read from the terminal and the rest of it dropped. *)
GetCharRereads ==
  /\ inTerminal > 0
  /\ inTerminal' = inTerminal - OneRead /\ inBuffer' = OneRead - 1
  /\ handled' = handled + 1

(* select says there is something to read; getchar reads it only when the  *)
(* buffer is empty.                                                        *)
GetChar ==
  /\ inTerminal > 0
  /\ IF inBuffer > 0
     THEN inBuffer' = inBuffer - 1 /\ UNCHANGED inTerminal
     ELSE inTerminal' = inTerminal - OneRead /\ inBuffer' = OneRead - 1
  /\ handled' = handled + 1

(* select times out: the iteration goes on without a key. *)
NoKey == inTerminal = 0 /\ UNCHANGED vars

Next == TypeKey \/ GetChar \/ NoKey

(* The loop of main runs all the time; the user types when he likes. *)
Spec == Init /\ [][Next]_vars /\ WF_vars(GetChar)

-----------------------------------------------------------------------------
(* Every variable has its type: the buffer keeps less than one read.       *)
TypeOK == inTerminal \in Nat /\ inBuffer \in 0 .. BufferSize - 1 /\ handled \in Nat

(* No key is lost or overtaken: all that the buffer kept is handled once   *)
(* anything else is typed, and the first of the new keys after it.         *)
NextKeyReleases ==
  \A n \in 0 .. MaxTyped - 1 :
    handled + inBuffer = n /\ inTerminal > 0 ~> handled > n

(* init.c:60: a character is caught as it is typed, Enter or not.  All but *)
(* the first of a burst wait for another key.                              *)
KeyIsHandled == \A n \in 1 .. MaxTyped : typed >= n ~> handled >= n
=============================================================================
