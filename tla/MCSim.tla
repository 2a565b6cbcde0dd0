------------------------------- MODULE MCSim --------------------------------
(* Finite instances of SimSafety for TLC. *)
EXTENDS SimSafety, TLC

CONSTANTS n1, n2, n3, l1

Symmetry == Permutations(Coordinator)

\* Any one coordinator is left alone with the leaf.
Isolations == {{{i, l1}, Peers(i)} : i \in Coordinator}

\* A later start for ECHO: n1 won term 1 and n2 term 2, everybody heard their
\* pings, and the leaf is registered with n1.
TwoLedInit ==
  /\ protocol = "echo"
  /\ state = [i \in Coordinator |-> IF i = n2 THEN Leader ELSE Follower]
  /\ current_term = [i \in Coordinator |-> 2]
  /\ voted_for = [i \in Coordinator |-> n2]
  /\ votes_received = [i \in Coordinator |->
       IF i = n1 THEN {n1, n2} ELSE IF i = n2 THEN {n2, n3} ELSE {}]
  /\ current_leader_id = [i \in Coordinator |-> IF i = n2 THEN n1 ELSE n2]
  /\ log = [i \in Coordinator |-> <<>>]
  /\ commit_index = [i \in Coordinator |-> 0]
  /\ next_index = [i \in Coordinator |-> [p \in Coordinator |-> 1]]
  /\ match_index = [i \in Coordinator |-> [p \in Coordinator |-> 0]]
  /\ last_sensor = [i \in Coordinator |-> [l \in LeafId |-> None]]
  /\ batch_buffer = [i \in Coordinator |-> <<>>]
  /\ peer_batteries = [i \in Coordinator |-> [p \in Coordinator |-> 100]]
  /\ handoff_sent = [i \in Coordinator |-> FALSE]
  /\ leaves = [i \in Coordinator |-> IF i = n1 THEN LeafId ELSE {}]
  /\ leaf_state = [l \in LeafId |-> "ACTIVE"]
  /\ coordinator_id = [l \in LeafId |-> n1]
  /\ last_transmitted = [l \in LeafId |-> None]
  /\ inbox = Quiet
  /\ battery = [i \in Coordinator |-> FullLevel]
  /\ failed = {} /\ partitions = {}
  /\ count = [reports |-> 0, registers |-> 0, others |-> 0]
  /\ elected = {[term |-> 1, leader |-> n1, quorum |-> {n1, n2}],
                [term |-> 2, leader |-> n2, quorum |-> {n2, n3}]}

RelaySpec == TwoLedInit /\ [][Next]_vars /\ Fairness
=============================================================================
