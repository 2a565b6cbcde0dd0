----------------------------- MODULE MCOvertaken -----------------------------
(* An instance of EchoSafety with five coordinators for TLC. *)
EXTENDS EchoSafety, TLC

CONSTANTS n1, n2, n3, n4, n5, l1

OtherSymmetry == Permutations({n4, n5})

Entry(term, value) ==
  [term |-> term, command |-> {[leaf |-> l1, value |-> value]}, epoch |-> 0]

\* The answers to AppendEntries that have come in, as <<leader, peer>>.
Answered == {<<n1, p>> : p \in {n2, n3, n4, n5}} \cup {<<n3, p>> : p \in {n1, n4, n5}}
Matched  == {<<n1, n2>>, <<n3, n1>>, <<n3, n4>>, <<n3, n5>>}

\* What n3 sent to n2, which is slow, and what n2 answered to n1 before.
SentByN3 ==
  <<[type |-> "request_vote", term |-> 2, last_log_index |-> 0, last_log_term |-> 0,
     battery_level |-> 60],
    [type |-> "liveness_ping", term |-> 2],
    [type |-> "append_entries", term |-> 2, prev_log_index |-> 0, prev_log_term |-> 0,
     entries |-> <<Entry(2, 1)>>, leader_commit |-> 0]>>
SentByN2 ==
  <<[type |-> "append_response", term |-> 1, success |-> TRUE, match_index |-> 2,
     responder_battery |-> 60]>>

\* A later start: n1 won term 1 and proposed two entries, which only n2 stored,
\* and n1 has yet to see the second answer of n2.  Then n3 won term 2 with the
\* votes of n4 and n5 and committed an entry of its own, stored by all but n2,
\* which n3's messages have not reached yet.
OvertakenInit ==
  /\ state = [i \in Node |-> IF i = n3 THEN Leader ELSE Follower]
  /\ current_term = [i \in Node |-> IF i = n2 THEN 1 ELSE 2]
  /\ voted_for = [i \in Node |-> IF i = n1 THEN None ELSE IF i = n2 THEN n1 ELSE n3]
  /\ current_leader_id = [i \in Node |-> IF i = n2 THEN n1 ELSE n3]
  /\ log = [i \in Node |->
       IF i = n2 THEN <<Entry(1, 1), Entry(1, 2)>> ELSE <<Entry(2, 1)>>]
  /\ commit_index = [i \in Node |-> IF i = n3 THEN 1 ELSE 0]
  /\ next_index = [i \in Node |-> [p \in Node |-> IF <<i, p>> \in Matched THEN 2 ELSE 1]]
  /\ match_index = [i \in Node |-> [p \in Node |-> IF <<i, p>> \in Matched THEN 1 ELSE 0]]
  /\ pending_triggers = [i \in Node |-> <<>>]
  /\ batch_buffer = [i \in Node |-> <<>>]
  /\ last_sensor = [i \in Node |->
       [l \in Leaf |-> IF i = n1 THEN 2 ELSE IF i = n3 THEN 1 ELSE None]]
  /\ recent_reconciles = [i \in Node |-> <<>>]
  /\ peer_batteries = [i \in Node |->
       [p \in Node |-> IF <<i, p>> \in Answered THEN 60 ELSE 100]]
  /\ handoff_sent = [i \in Node |-> FALSE]
  /\ partition_epoch = [i \in Node |-> 0]
  /\ blocked_senders = [i \in Node |-> {}]
  /\ battery = [i \in Node |-> 60]
  /\ elected =
       {[term |-> 1, leader |-> n1, quorum |-> {n1, n2, n3}, battery_level |-> 60],
        [term |-> 2, leader |-> n3, quorum |-> {n3, n4, n5}, battery_level |-> 60]}
  /\ votes = [i \in Node |->
       [v \in Node |-> IF \E e \in elected : e.leader = i /\ v \in e.quorum
                       THEN 60 ELSE None]]
  /\ net = [s \in Node |-> [d \in Node |->
       IF <<s, d>> = <<n3, n2>> THEN SentByN3
       ELSE IF <<s, d>> = <<n2, n1>> THEN SentByN2 ELSE <<>>]]
  /\ admitted = [d \in Node |-> [s \in Node |-> 0]]
  /\ control = [i \in Node |-> <<>>]
  /\ reports = 3
  /\ controls = 0

OvertakenSpec == OvertakenInit /\ [][Next]_vars
=============================================================================
