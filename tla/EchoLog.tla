------------------------------ MODULE EchoLog ------------------------------
(***************************************************************************)
(* The replicated log of a coordinator as a sequence, and the pure         *)
(* computations that rpi/coordinator/echo_node.py makes on it.             *)
(*                                                                         *)
(* An entry is a record with a term, a command and the partition epoch it  *)
(* was appended in.  The index field of the code's LogEntry is always the  *)
(* position of the entry in the list, so it is not a field here.           *)
(***************************************************************************)
EXTENDS Integers, Sequences, FiniteSets

\* The entries after position n: self.log[n:].
Suffix(lg, n) == SubSeq(lg, n + 1, Len(lg))

\* last_log_term: the term of the last entry, 0 for an empty log.
LastTerm(lg) == IF lg = <<>> THEN 0 ELSE lg[Len(lg)].term

\* Fault: only the terms of the last entries are compared.
UpToDate_ByTerm(lg, last_index, last_term) == last_term >= LastTerm(lg)
\* _log_is_up_to_date: a voter with log lg accepts a candidate whose log ends
\* at last_index with last_term.
UpToDate(lg, last_index, last_term) ==
  \/ last_term > LastTerm(lg)
  \/ last_term = LastTerm(lg) /\ last_index >= Len(lg)

\* prev_term of _send_append_entries: 0 when prev is outside the log.
PrevTerm(lg, prev) == IF prev \in 1..Len(lg) THEN lg[prev].term ELSE 0

\* The consistency check of _handle_append_entries.
Consistent(lg, prev, prev_term) ==
  prev > 0 => prev <= Len(lg) /\ lg[prev].term = prev_term

\* Positions of lg that disagree with the entries es offered after prev.
Conflicts(lg, prev, es) ==
  {n \in prev + 1 .. Len(lg) : n - prev <= Len(es) /\ lg[n].term # es[n - prev].term}

\* Fault: the first conflicting entry is kept.
Kept_OneTooMany(lg, prev, es) ==
  LET bad == Conflicts(lg, prev, es)
  IN  IF bad = {} THEN Len(lg) ELSE CHOOSE n \in bad : \A m \in bad : n <= m
\* How many leading entries of lg the merge loop keeps: everything before the
\* first conflict.
Kept(lg, prev, es) ==
  LET bad == Conflicts(lg, prev, es)
  IN  IF bad = {} THEN Len(lg) ELSE (CHOOSE n \in bad : \A m \in bad : n <= m) - 1

\* The log after the merge loop, and the tail that the loop cut off.
Merged(lg, prev, es) ==
  LET kept == Kept(lg, prev, es)
  IN  SubSeq(lg, 1, kept) \o Suffix(es, kept - prev)

Truncated(lg, prev, es) == Suffix(lg, Kept(lg, prev, es))

\* Faults: the term is not compared; the scan leaves out the last entry.
Committable_AnyTerm(lg, commit, term, match, n_nodes) ==
  {n \in commit + 1 .. Len(lg) :
     Cardinality({p \in DOMAIN match : match[p] >= n}) + 1 > n_nodes \div 2}
Committable_NotLast(lg, commit, term, match, n_nodes) ==
  {n \in commit + 1 .. Len(lg) - 1 :
     /\ lg[n].term = term
     /\ Cardinality({p \in DOMAIN match : match[p] >= n}) + 1 > n_nodes \div 2}
\* The indices _try_advance_commit may move to: entries of the leader's own
\* term beyond commit that a majority of the n_nodes coordinators holds, the
\* leader itself included.  match gives each peer's match_index.
Committable(lg, commit, term, match, n_nodes) ==
  {n \in commit + 1 .. Len(lg) :
     /\ lg[n].term = term
     /\ Cardinality({p \in DOMAIN match : match[p] >= n}) + 1 > n_nodes \div 2}

\* The enumeration of a finite set P of positions in increasing order (the
\* order in which the code's loops and comprehensions visit them): a set with
\* one element.
InOrder(P) ==
  {at \in [1 .. Cardinality(P) -> P] :
     \A a, b \in 1 .. Cardinality(P) : a < b => at[a] < at[b]}
=============================================================================
