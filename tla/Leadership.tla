----------------------------- MODULE Leadership -----------------------------
(***************************************************************************)
(* What the elections of the coordinators promise, whatever the messages,  *)
(* ballots, batteries and partitions behind them: terms only grow, a term  *)
(* is won at most once, only its winner leads in it, and leadership that   *)
(* is given up is not taken back without winning a later term.             *)
(***************************************************************************)
EXTENDS Integers

CONSTANT Node

VARIABLES
  term,      \* the term each coordinator has reached
  leading,   \* those that lead, globally or on their side of a partition
  won        \* <<term, coordinator>> for every term that was ever won

vars == <<term, leading, won>>

Init == term = [n \in Node |-> 0] /\ leading = {} /\ won = {}

\* Coordinators enter later terms and stop leading; whoever leads on stays in
\* its term.
MoveOn ==
  /\ \A n \in Node : term'[n] >= term[n]
  /\ leading' \subseteq leading
  /\ \A n \in leading' : term'[n] = term[n]
  /\ won' = won

Win(n) ==
  /\ n \notin leading
  /\ \A w \in won : w[1] # term[n]
  /\ won' = won \cup {<<term[n], n>>}
  /\ leading' = leading \cup {n}
  /\ term' = term

Next == MoveOn \/ \E n \in Node : Win(n)
Spec == Init /\ [][Next]_vars
=============================================================================
