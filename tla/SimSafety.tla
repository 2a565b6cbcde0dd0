----------------------------- MODULE SimSafety ------------------------------
(***************************************************************************)
(* What the simulated cluster promises, and what it does not.              *)
(***************************************************************************)
EXTENDS SimCluster

\* The type of every variable (the __init__ methods of the nodes and the bus).
TypeOK ==
  /\ protocol \in Protocols
  /\ state \in [Coordinator -> NodeState]
  /\ current_term \in [Coordinator -> Nat]
  /\ voted_for \in [Coordinator -> Coordinator \cup {None}]
  /\ votes_received \in [Coordinator -> SUBSET Coordinator]
  /\ current_leader_id \in [Coordinator -> Coordinator \cup {None}]
  /\ log \in [Coordinator -> Seq(LogEntry)]
  /\ commit_index \in [Coordinator -> Nat]
  /\ next_index \in [Coordinator -> [Coordinator -> Nat \ {0}]]
  /\ match_index \in [Coordinator -> [Coordinator -> Nat]]
  /\ last_sensor \in [Coordinator -> [LeafId -> Value \cup {None}]]
  /\ batch_buffer \in [Coordinator -> Seq(Reading)]
  /\ peer_batteries \in [Coordinator -> [Coordinator -> Levels \cup {100}]]
  /\ handoff_sent \in [Coordinator -> BOOLEAN]
  /\ leaves \in [Coordinator -> SUBSET LeafId]
  /\ leaf_state \in [LeafId -> LeafState]
  /\ coordinator_id \in [LeafId -> Coordinator \cup {None}]
  /\ last_transmitted \in [LeafId -> Value \cup {None}]
  /\ inbox \in [NodeId -> Seq(Message)]
  /\ battery \in [Coordinator -> Levels]
  /\ failed \subseteq Coordinator
  /\ partitions \in Splits \cup {{}}
  /\ count \in [{"reports", "registers", "others"} -> Nat]
  /\ elected \subseteq [term : Nat, leader : Coordinator, quorum : SUBSET Coordinator]

\* No term is won twice, although a drained node forgets its vote and a nominator
\* that drains on the way re-enters as a follower without one.
OneWinnerPerTerm ==
  \A e, f \in elected : e.term = f.term => e.leader = f.leader

\* Below T_LOW nobody leads or is a candidate: the one way back from OBSERVER is
\* the nominator that _initiate_handoff makes a FOLLOWER.
DrainedNeverLeads ==
  \A i \in Coordinator : battery[i] < T_LOW => state[i] \in {Observer, Follower}

Committed(i) == SubSeq(log[i], 1, commit_index[i])

Prefix(s, t) == Len(s) <= Len(t) /\ s = SubSeq(t, 1, Len(s))

\* In ECHO and echoD a leader holds whatever is committed by those whose term it
\* has reached.  (A raft leader counts a longer log that answers its heartbeat as a
\* match, and can commit what only it stores.)
LeaderCompleteness ==
  protocol # "raft" =>
    \A i, j \in Coordinator :
      state[i] = Leader /\ current_term[i] >= current_term[j] => Prefix(Committed(j), log[i])

\* In ECHO and echoD a coordinator never takes back what it regards as committed.
CommittedIsStable ==
  [][protocol # "raft" =>
       \A i \in Coordinator : Prefix(Committed(i), Committed(i)')]_vars

\* Where a reading is: under way, in a batch, or in an entry of some log; an entry
\* that several logs hold is one.
UnderWay(r) ==
  UNION {{<<d, n>> : n \in {k \in DOMAIN inbox[d] : /\ inbox[d][k].type = "SensorDataReport"
                                                    /\ inbox[d][k].reading = r}}
           : d \in NodeId}
InBatch(r) ==
  UNION {{<<i, n>> : n \in {k \in DOMAIN batch_buffer[i] : batch_buffer[i][k] = r}}
           : i \in Coordinator}
InLog(r) ==
  UNION {{<<n, log[i][n].term>> : n \in {k \in DOMAIN log[i] : r \in log[i][k].command}}
           : i \in Coordinator}

\* However often it is relayed, batched, flushed or merged, a report is never
\* multiplied: the copies of a reading are no more than the reports of the leaves.
ReportsNotMultiplied ==
  \A r \in Reading :
    Cardinality(UnderWay(r)) + Cardinality(InBatch(r)) + Cardinality(InLog(r))
      <= count.reports

\* A leaf is ACTIVE exactly while it has a coordinator, one that knows the leaf,
\* whichever of its registrations is answered last.
ActiveLeafIsRegistered ==
  \A l \in LeafId :
    /\ leaf_state[l] = "ACTIVE" <=> coordinator_id[l] # None
    /\ leaf_state[l] = "ACTIVE" => l \in leaves[coordinator_id[l]]

-----------------------------------------------------------------------------
(* Relaying *)

\* A running task handles what is in its inbox.  _on_idle runs only after the
\* inbox stayed empty for a whole wakeup interval, so it is weakly fair, no more.
Fairness == \A i \in Coordinator : WF_vars(Handle(i)) /\ WF_vars(Idle(i))

\* No report stays on its way between running coordinators for ever.
RelayEnds ==
  []<>(\A i \in Coordinator \ failed : \A n \in DOMAIN inbox[i] :
         inbox[i][n].type # "SensorDataReport")
=============================================================================
