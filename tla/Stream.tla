------------------------------- MODULE Stream -------------------------------
(***************************************************************************)
(* What one direction of the null modem promises to the reading program:   *)
(* the characters written on one side arrive on the other in the order in  *)
(* which they were written, each as the receiving port's settings          *)
(* transform it, with inserted status sequences in between.  Characters    *)
(* are dropped only by an overrun or a purge.                              *)
(***************************************************************************)
EXTENDS Integers, Sequences, SequencesExt

CONSTANTS
  Received(_), \* what the receiving port makes of a character of the line
  StatusChars, \* the characters of the inserted status sequences
  CanOverrun   \* the receiving port emulates overruns

VARIABLES
  todo,    \* characters written and not yet received
  pending, \* characters received and not yet read
  out      \* what the current READ has been given so far

vars == <<todo, pending, out>>

\* All that the receiving port still holds, the current READ's part first.
Held == out \o pending

Init == todo = <<>> /\ pending = <<>> /\ out = <<>>

\* The READ's buffer only grows.
Grows == IsPrefix(out, out')

\* A program writes.
Write == IsStrictPrefix(todo, todo') /\ UNCHANGED <<pending, out>>

\* The next character of the line is received.
Receive ==
  /\ todo # <<>>
  /\ todo' = Tail(todo)
  /\ Held' = Held \o Received(Head(todo))
  /\ Grows

\* Received characters are handed to the READ.
Deliver == todo' = todo /\ Held' = Held /\ Grows

\* The READ is completed.
Complete == out' = <<>> /\ UNCHANGED <<todo, pending>>

\* A piece of a status sequence is inserted behind all that was received.
Insert ==
  /\ todo' = todo
  /\ IsStrictPrefix(Held, Held')
  /\ \A i \in DOMAIN Held' \ DOMAIN Held : Held'[i] \in StatusChars
  /\ Grows

\* With overrun emulation characters of the line are dropped, and so is the
\* tail of what was received and did not fit; the last one kept may be
\* replaced by the error character.
Overrun ==
  /\ CanOverrun
  /\ IsStrictSuffix(todo', todo)
  /\ pending' = <<>> \/ IsPrefix(Front(pending'), pending)
  /\ out' = out

\* A program purges the receive buffer.
Purge == pending' = <<>> /\ UNCHANGED <<todo, out>>

Next == Write \/ Receive \/ Deliver \/ Complete \/ Insert \/ Overrun \/ Purge

Spec == Init /\ [][Next]_vars
=============================================================================
