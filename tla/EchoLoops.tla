----------------------------- MODULE EchoLoops ------------------------------
(***************************************************************************)
(* The two loops of echo_node.py over a log, one iteration per step: the   *)
(* merge of _handle_append_entries, with its calls of _replay_provisional, *)
(* and the downward scan of _try_advance_commit.  They show that           *)
(* EchoLog!Merged, Truncated and Committable, which EchoCoordinator uses   *)
(* in one step, are what the loops compute.  A run of the specification is *)
(* one execution of one of the loops.                                      *)
(***************************************************************************)
EXTENDS EchoLog

CONSTANTS Peer, Terms, MaxLen   \* terms of entries, and the longest log

ASSUME LoopAssumption ==
  IsFiniteSet(Peer) /\ Terms \subseteq Nat \ {0} /\ MaxLen \in Nat

VARIABLES
  loop,             \* "merge", "scan" or, at the end, "done"
  lg,               \* self.log
  k,                \* entries handled so far; the index under the scan
  replayed,         \* the arguments _replay_provisional was called with
  commit_index,
  input             \* what the loop started from

vars == <<loop, lg, k, replayed, commit_index, input>>

\* Logs in the order terms are created, each entry marked with the coordinator
\* that holds it, so that two copies of an entry can be told apart.
Logs(holder) ==
  UNION {{[n \in 1..len |-> [term |-> t[n], holder |-> holder]] :
            t \in {u \in [1..len -> Terms] : \A a, b \in 1..len : a <= b => u[a] <= u[b]}} :
         len \in 0..MaxLen}

\* A message of a leader whose log is `leader`, sent from any prev, that passes
\* the consistency check of the receiver.
MergeInit ==
  /\ lg \in Logs("follower")
  /\ \E leader \in Logs("leader") :
       \E p \in 0..Len(leader) :
         /\ Consistent(lg, p, PrevTerm(leader, p))
         /\ input = [loop |-> "merge", lg |-> lg, prev |-> p, entries |-> Suffix(leader, p)]
  /\ loop = "merge" /\ k = 0 /\ commit_index = 0

\* A leader's log has terms up to its own; a match index may lie beyond its end.
ScanInit ==
  /\ lg \in Logs("leader")
  /\ commit_index \in 0..Len(lg)
  /\ \E term \in Terms, match \in [Peer -> 0 .. MaxLen + 1] :
       /\ term >= LastTerm(lg)
       /\ input = [loop |-> "scan", term |-> term, match |-> match, commit |-> commit_index]
  /\ loop = "scan" /\ k = Len(lg)

\* One iteration: skip an entry that is there, replace a conflicting one and
\* everything after it, or append.
MergeIteration ==
  LET index == input.prev + k + 1
      entry == input.entries[k + 1]
  IN  /\ loop = "merge" /\ k < Len(input.entries)
      /\ k' = k + 1
      /\ \/ /\ index <= Len(lg) /\ lg[index].term = entry.term
            /\ UNCHANGED <<lg, replayed>>
         \/ /\ index <= Len(lg) /\ lg[index].term # entry.term
            /\ lg' = Append(SubSeq(lg, 1, index - 1), entry)
            /\ replayed' = Append(replayed, Suffix(lg, index - 1))
         \/ /\ index > Len(lg)
            /\ lg' = Append(lg, entry)
            /\ UNCHANGED replayed
      /\ UNCHANGED <<loop, commit_index, input>>

\* repl: the leader and the peers whose match index reaches n.
Replicas(n) == 1 + Cardinality({p \in Peer : input.match[p] >= n})

Commits(n) ==
  lg[n].term = input.term /\ Replicas(n) > (Cardinality(Peer) + 1) \div 2

ScanIteration ==
  /\ loop = "scan" /\ k > input.commit
  /\ \/ Commits(k) /\ commit_index' = k /\ loop' = "done" /\ k' = k
     \/ ~Commits(k) /\ k' = k - 1 /\ UNCHANGED <<loop, commit_index>>
  /\ UNCHANGED <<lg, replayed, input>>

LoopEnds ==
  /\ \/ loop = "merge" /\ k = Len(input.entries)
     \/ loop = "scan" /\ k = input.commit
  /\ loop' = "done"
  /\ UNCHANGED <<lg, k, replayed, commit_index, input>>

Done == loop = "done" /\ UNCHANGED vars

Init == (MergeInit \/ ScanInit) /\ replayed = <<>>
Next == MergeIteration \/ ScanIteration \/ LoopEnds \/ Done
Spec == Init /\ [][Next]_vars

-----------------------------------------------------------------------------

\* When the merge ends the log is its closed form, and the tail it cut off was
\* handed to _replay_provisional in a single call: a message never cuts the log
\* twice.
LoopIsMerge ==
  loop = "done" /\ input.loop = "merge" =>
    LET tail == Truncated(input.lg, input.prev, input.entries)
    IN  /\ lg = Merged(input.lg, input.prev, input.entries)
        /\ replayed = IF tail = <<>> THEN <<>> ELSE <<tail>>

\* The scan ends at the greatest committable index, or where it began.
ScanFindsGreatest ==
  loop = "done" /\ input.loop = "scan" =>
    LET ready == Committable(lg, input.commit, input.term, input.match, Cardinality(Peer) + 1)
    IN  IF ready = {} THEN commit_index = input.commit
        ELSE commit_index \in ready /\ \A m \in ready : m <= commit_index
=============================================================================
