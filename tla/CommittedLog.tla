---------------------------- MODULE CommittedLog ----------------------------
(***************************************************************************)
(* What the replicated log promises to those who read its committed part:  *)
(* there is one sequence of commands, which only grows, and every          *)
(* coordinator works through it from the start, in order, without ever     *)
(* going back.                                                             *)
(***************************************************************************)
EXTENDS Integers, Sequences

CONSTANT Node

VARIABLES
  chosen,   \* the commands committed so far
  applied   \* as much of it as each coordinator regards as committed

vars == <<chosen, applied>>

Init == chosen = <<>> /\ applied = [n \in Node |-> <<>>]

Extends(longer, s) == Len(longer) > Len(s) /\ SubSeq(longer, 1, Len(s)) = s

\* A leader commits; it may have known less than everything before.
Choose(n) ==
  /\ Extends(chosen', chosen) /\ Extends(chosen', applied[n])
  /\ applied' = [applied EXCEPT ![n] = chosen']

Learn(n) ==
  /\ Extends(applied'[n], applied[n])
  /\ applied' = [applied EXCEPT ![n] = SubSeq(chosen, 1, Len(applied'[n]))]
  /\ chosen' = chosen

Next == \E n \in Node : Choose(n) \/ Learn(n)
Spec == Init /\ [][Next]_vars
=============================================================================
