------------------------------- MODULE MCEcho -------------------------------
(* Finite instances of EchoSafety for TLC. *)
EXTENDS EchoSafety, TLC

CONSTANTS n1, n2, n3

Symmetry == Permutations(Node)
FollowerSymmetry == Permutations({n2, n3})

\* n1, which leads at first, cut off from the two others.
LeaderCutOff == {{{n1}, {n2, n3}}}

\* A later start: n1 has won term 1 with the votes of n2 and n3, which have
\* heard its first ping, and nothing is in flight.
LedInit ==
  /\ state = [i \in Node |-> IF i = n1 THEN Leader ELSE Follower]
  /\ current_term = [i \in Node |-> 1]
  /\ voted_for = [i \in Node |-> n1]
  /\ current_leader_id = [i \in Node |-> n1]
  /\ log = [i \in Node |-> <<>>]
  /\ commit_index = [i \in Node |-> 0]
  /\ next_index = [i \in Node |-> [p \in Node |-> 1]]
  /\ match_index = [i \in Node |-> [p \in Node |-> 0]]
  /\ pending_triggers = [i \in Node |-> <<>>]
  /\ batch_buffer = [i \in Node |-> <<>>]
  /\ last_sensor = [i \in Node |-> [l \in Leaf |-> None]]
  /\ recent_reconciles = [i \in Node |-> <<>>]
  /\ peer_batteries = [i \in Node |-> [p \in Node |-> 100]]
  /\ handoff_sent = [i \in Node |-> FALSE]
  /\ partition_epoch = [i \in Node |-> 0]
  /\ blocked_senders = [i \in Node |-> {}]
  /\ battery \in [Node -> {level \in Levels : level >= T_LOW}]
  /\ votes = [i \in Node |->
       IF i = n1 THEN [NoVotes EXCEPT ![n1] = battery[n1], ![n2] = battery[n2]] ELSE NoVotes]
  /\ net = [s \in Node |-> Nothing]
  /\ admitted = [d \in Node |-> [s \in Node |-> 0]]
  /\ control = [i \in Node |-> <<>>]
  /\ reports = 0
  /\ controls = 0
  /\ elected = {[term |-> 1, leader |-> n1, quorum |-> {n1, n2},
                 battery_level |-> battery[n1]]}

LedSpec == LedInit /\ [][Next]_vars
=============================================================================
