----------------------------- MODULE SimCluster -----------------------------
(***************************************************************************)
(* The simulator: simulation/core and simulation/protocols as main.py runs *)
(* them.  Coordinators and leaves are asyncio tasks that share one message *)
(* bus; raft, echo or echod is chosen for the whole cluster.               *)
(*                                                                         *)
(* send() ends in put_nowait and never suspends, so a handler is one       *)
(* action.  A node has one inbox for all senders, and runs _on_idle only   *)
(* when that inbox stays empty.  Time is abstracted: a timer may or may    *)
(* not be due.  Provisional mode and trigger_consensus are called by tests *)
(* only, so partition epochs stay 0 and no trigger is ever pending.        *)
(***************************************************************************)
EXTENDS EchoLog

CONSTANTS
  Coordinator, LeafId,  \* the nodes of the cluster
  None,                 \* Python's None
  Protocols,            \* which of "raft", "echo", "echod" are simulated
  Levels, FullLevel,    \* battery percentages, and the one every node starts with
  Value,                \* sensor values
  Splits,               \* partitions that can be injected: each a set of groups
  MaxBatch              \* MAX_BATCH_SIZE

\* Bounds of the model, each a guard of an environment or timer action.
CONSTANTS
  MaxTerm,
  MaxEvents,            \* readings, battery drains, failures and partitions
  MaxRegisters,         \* registrations that leaves ask for
  MaxBacklog,           \* messages that wait for a failed node
  ElectionLoad,         \* an election timer fires only while so many inboxes are in use
  LeaderLoad            \* the same for a leader's timers, registrations and reports

\* simulation/core/config.py
T_LOW     == 15
T_HANDOFF == 20

\* The workload has at least one source (max(leaf_count, 1) in workload.py).
ASSUME SimAssumption ==
  /\ IsFiniteSet(Coordinator) /\ Coordinator \cap LeafId = {}
  /\ LeafId # {} /\ Value # {}
  /\ None \notin Coordinator \cup LeafId \cup Value
  /\ Protocols \subseteq {"raft", "echo", "echod"}
  /\ Levels \subseteq 0..100 /\ FullLevel \in Levels
  /\ \A groups \in Splits : groups \subseteq SUBSET (Coordinator \cup LeafId)

VARIABLES
  protocol,              \* the class the cluster builder instantiates; never changes
  \* each coordinator
  state, current_term, voted_for, votes_received, current_leader_id,
  log, commit_index, next_index, match_index,
  last_sensor, batch_buffer, peer_batteries, handoff_sent, leaves,
  \* each leaf
  leaf_state, coordinator_id, last_transmitted,
  \* the cluster and its bus
  inbox, battery, failed, partitions,
  \* counters of the environment, and every leadership won
  count, elected

electionVars    == <<state, current_term, voted_for, votes_received, elected>>
replicationVars == <<log, commit_index, next_index, match_index>>
reportVars      == <<last_sensor, batch_buffer>>
handoffVars     == <<peer_batteries, handoff_sent, battery>>
leafVars        == <<leaf_state, coordinator_id, last_transmitted, leaves>>
faultVars       == <<failed, partitions>>
vars == <<protocol, electionVars, current_leader_id, replicationVars, reportVars,
          handoffVars, leafVars, faultVars, inbox, count>>

-----------------------------------------------------------------------------
(* Data *)

Follower  == "FOLLOWER"
Candidate == "CANDIDATE"
Leader    == "LEADER"
Observer  == "OBSERVER"
NodeState == {Follower, Candidate, Leader, Observer}
LeafState == {"UNREGISTERED", "ACTIVE", "SEARCHING"}

NodeId   == Coordinator \cup LeafId
Reading  == [leaf : LeafId, value : Value]
\* A command is the set of readings it carries.
LogEntry == [term : Nat, command : SUBSET Reading]

Message ==
       [type : {"RequestVoteRPC"}, from : Coordinator, term : Nat, last_log_index : Nat,
        last_log_term : Nat, battery_level : Levels]
  \cup [type : {"RequestVoteResponse"}, from : Coordinator, term : Nat, vote_granted : BOOLEAN]
  \cup [type : {"AppendEntriesRPC"}, from : Coordinator, term : Nat, prev_log_index : Nat,
        prev_log_term : Nat, entries : Seq(LogEntry), leader_commit : Nat]
  \cup [type : {"AppendEntriesResponse"}, from : Coordinator, term : Nat, success : BOOLEAN,
        match_index : Nat, responder_battery : Levels]
  \cup [type : {"LivenessPing", "LeadershipHandoff"}, from : Coordinator, term : Nat]
  \cup [type : {"LeafRegisterRequest"}, from : LeafId]
  \cup [type : {"LeafRegisterResponse"}, from : Coordinator]
  \cup [type : {"SensorDataReport"}, from : NodeId, reading : Reading]

Peers(i) == Coordinator \ {i}

\* log.term_at and log.is_up_to_date.
TermAt(lg, n) == IF n \in DOMAIN lg THEN lg[n].term ELSE 0
\* Fault: the voter's log has to be the newer one.
IsUpToDate_Swapped(lg, last_index, last_term) ==
  IF last_term # LastTerm(lg) THEN last_term < LastTerm(lg) ELSE last_index <= Len(lg)
IsUpToDate(lg, last_index, last_term) ==
  IF last_term # LastTerm(lg) THEN last_term > LastTerm(lg) ELSE last_index >= Len(lg)

-----------------------------------------------------------------------------
(* The bus.  What is sent is in the recipient's inbox at once, or dropped. *)

CanReach(s, d) == partitions = {} \/ \E group \in partitions : {s, d} \subseteq group

Quiet == [d \in NodeId |-> <<>>]
Only(d, m) == [Quiet EXCEPT ![d] = <<m>>]
ToPeers(i, m) == [d \in NodeId |-> IF d \in Peers(i) THEN <<m>> ELSE <<>>]
Then(out, more) == [d \in NodeId |-> out[d] \o more[d]]

\* i sends out[d] to every d; rest are the inboxes without what is being handled.
Send(rest, i, out) ==
  inbox' = [d \in NodeId |-> IF CanReach(i, d) THEN rest[d] \o out[d] ELSE rest[d]]

Rest(i) == [inbox EXCEPT ![i] = Tail(@)]

\* The run loop of i takes a message of this type out of its inbox.  Every
\* delivery ticks the recipient's battery, so whoever is below T_LOW is an
\* OBSERVER by the time it handles anything.
Takes(i, type) ==
  /\ i \notin failed /\ inbox[i] # <<>> /\ Head(inbox[i]).type = type
  /\ i \in Coordinator /\ battery[i] < T_LOW => state[i] = Observer

\* The run loop of i times out on an empty inbox.
IsIdle(i) == i \notin failed /\ inbox[i] = <<>>

\* Where the model bounds what is in flight: few inboxes of running nodes are in
\* use, and few messages wait for a failed node.
Room(load) ==
  /\ Cardinality({i \in NodeId \ failed : inbox[i] # <<>>}) <= load
  /\ \A i \in failed : Len(inbox[i]) <= MaxBacklog

\* The model bounds what happens to the cluster from outside.
MayHappen == count.reports + count.others < MaxEvents

Ping(i) == [type |-> "LivenessPing", from |-> i, term |-> current_term[i]]

\* _send_append_entries of i when its log is lg and the next index is next.
AppendEntries(i, lg, next) ==
  [type |-> "AppendEntriesRPC", from |-> i, term |-> current_term[i],
   prev_log_index |-> next - 1, prev_log_term |-> TermAt(lg, next - 1),
   entries |-> Suffix(lg, next - 1), leader_commit |-> commit_index[i]]

Rounds(i, lg) ==
  [d \in NodeId |-> IF d \in Peers(i) THEN <<AppendEntries(i, lg, next_index[i][d])>> ELSE <<>>]

AppendResponse(i, term, success, index) ==
  [type |-> "AppendEntriesResponse", from |-> i, term |-> term, success |-> success,
   match_index |-> index, responder_battery |-> battery[i]]

\* replicate_entry.
Extended(i, command) == Append(log[i], [term |-> current_term[i], command |-> command])

Replicate(rest, i, command) ==
  /\ log' = [log EXCEPT ![i] = Extended(i, command)]
  /\ Send(rest, i, Rounds(i, Extended(i, command)))

-----------------------------------------------------------------------------
(* step_down, as the values it leaves behind when a message carries term. *)

Newer(i, term) == term > current_term[i]
TermAfter(i, term) == IF Newer(i, term) THEN term ELSE current_term[i]
\* Fault: every message of another leader clears the vote.
VoteAfter_Forgotten(i, term) == IF term >= current_term[i] THEN None ELSE voted_for[i]
VoteAfter(i, term) == IF Newer(i, term) THEN None ELSE voted_for[i]
StateAfter(i, term) ==
  IF Newer(i, term) /\ state[i] \in {Candidate, Leader} THEN Follower ELSE state[i]

StepDown(i, term) ==
  /\ current_term' = [current_term EXCEPT ![i] = TermAfter(i, term)]
  /\ voted_for' = [voted_for EXCEPT ![i] = VoteAfter(i, term)]
  /\ state' = [state EXCEPT ![i] = StateAfter(i, term)]

-----------------------------------------------------------------------------
(* Elections *)

\* start_election, from the term the node holds by then.  Unlike on the Pi,
\* the leader known so far is not forgotten.
StartElection(rest, i, term) ==
  /\ current_term' = [current_term EXCEPT ![i] = term + 1]
  /\ state' = [state EXCEPT ![i] = Candidate]
  /\ voted_for' = [voted_for EXCEPT ![i] = i]
  /\ votes_received' = [votes_received EXCEPT ![i] = {i}]
  /\ Send(rest, i, ToPeers(i,
       [type |-> "RequestVoteRPC", from |-> i, term |-> term + 1,
        last_log_index |-> Len(log[i]), last_log_term |-> LastTerm(log[i]),
        battery_level |-> battery[i]]))
  /\ UNCHANGED elected

\* A nominator that left leadership below T_LOW is not due before its next tick.
ElectionIdle(i) ==
  /\ IsIdle(i) /\ state[i] \in {Follower, Candidate} /\ battery[i] >= T_LOW
  /\ current_term[i] < MaxTerm /\ Room(ElectionLoad)
  /\ StartElection(inbox, i, current_term[i])
  /\ UNCHANGED <<protocol, current_leader_id, replicationVars, reportVars, handoffVars,
                 leafVars, faultVars, count>>

Grants(i, m) ==
  /\ m.term = TermAfter(i, m.term)
  /\ StateAfter(i, m.term) # Observer
  /\ protocol = "raft" \/ m.battery_level >= T_LOW
  /\ VoteAfter(i, m.term) \in {None, m.from}
  /\ IsUpToDate(log[i], m.last_log_index, m.last_log_term)

HandleRequestVote(i) ==
  LET m == Head(inbox[i])
  IN  /\ Takes(i, "RequestVoteRPC")
      /\ current_term' = [current_term EXCEPT ![i] = TermAfter(i, m.term)]
      /\ state' = [state EXCEPT ![i] = StateAfter(i, m.term)]
      /\ voted_for' = [voted_for EXCEPT ![i] =
           IF Grants(i, m) THEN m.from ELSE VoteAfter(i, m.term)]
      /\ Send(Rest(i), i, Only(m.from,
           [type |-> "RequestVoteResponse", from |-> i, term |-> TermAfter(i, m.term),
            vote_granted |-> Grants(i, m)]))
      /\ UNCHANGED <<protocol, votes_received, elected, current_leader_id, replicationVars,
                     reportVars, handoffVars, leafVars, faultVars, count>>

\* _become_leader: a ping, never entries; pending triggers there are none.
BecomeLeader(rest, i, votes) ==
  /\ state' = [state EXCEPT ![i] = Leader]
  /\ next_index' = [next_index EXCEPT ![i] = [p \in Coordinator |-> Len(log[i]) + 1]]
  /\ match_index' = [match_index EXCEPT ![i] = [p \in Coordinator |-> 0]]
  /\ handoff_sent' = [handoff_sent EXCEPT ![i] = FALSE]
  /\ Send(rest, i, ToPeers(i, Ping(i)))
  /\ elected' = elected \cup {[term |-> current_term[i], leader |-> i, quorum |-> votes]}

HasMajority(votes) == Cardinality(votes) > Cardinality(Coordinator) \div 2

HandleVoteResponse(i) ==
  LET m      == Head(inbox[i])
      votes  == IF m.vote_granted THEN votes_received[i] \cup {m.from} ELSE votes_received[i]
      counts == state[i] = Candidate /\ m.term = current_term[i]
  IN  /\ Takes(i, "RequestVoteResponse")
      /\ votes_received' = [votes_received EXCEPT ![i] = IF counts THEN votes ELSE @]
      /\ \/ /\ counts /\ HasMajority(votes)
            /\ BecomeLeader(Rest(i), i, votes)
            /\ UNCHANGED <<current_term, voted_for>>
         \/ /\ ~(counts /\ HasMajority(votes))
            /\ StepDown(i, m.term)
            /\ inbox' = Rest(i)
            /\ UNCHANGED <<next_index, match_index, handoff_sent, elected>>
      /\ UNCHANGED <<protocol, current_leader_id, log, commit_index, reportVars,
                     peer_batteries, battery, leafVars, faultVars, count>>

HandleLivenessPing(i) ==
  LET m == Head(inbox[i])
  IN  /\ Takes(i, "LivenessPing")
      /\ StepDown(i, m.term)
      /\ current_leader_id' =
           [current_leader_id EXCEPT ![i] = IF m.term >= current_term[i] THEN m.from ELSE @]
      /\ inbox' = Rest(i)
      /\ UNCHANGED <<protocol, votes_received, elected, replicationVars, reportVars,
                     handoffVars, leafVars, faultVars, count>>

-----------------------------------------------------------------------------
(* Replication *)

\* Fault: the commit index follows the leader's backwards.
CommitAfter_Unguarded(index, leader_commit, len) ==
  IF leader_commit <= len THEN leader_commit ELSE len
\* The guard of the handler and that of log.commit.
CommitAfter(index, leader_commit, len) ==
  LET n == IF leader_commit <= len THEN leader_commit ELSE len
  IN  IF n <= index THEN index ELSE n

\* The merge loop, which an absent entry before the new ones does not stop: it
\* appends whatever lies beyond the end of the log.
MergedLog(lg, prev, es) == IF prev <= Len(lg) THEN Merged(lg, prev, es) ELSE lg \o es

\* The check of the entry before the new ones; an absent one has term 0.
Fits(i, m) == m.prev_log_index > 0 => TermAt(log[i], m.prev_log_index) = m.prev_log_term

HandleAppendEntries(i) ==
  LET m      == Head(inbox[i])
      merged == MergedLog(log[i], m.prev_log_index, m.entries)
      refusal == Only(m.from, AppendResponse(i, TermAfter(i, m.term), FALSE, 0))
  IN  /\ Takes(i, "AppendEntriesRPC")
      /\ current_term' = [current_term EXCEPT ![i] = TermAfter(i, m.term)]
      /\ voted_for' = [voted_for EXCEPT ![i] = VoteAfter(i, m.term)]
      /\ \/ /\ m.term < current_term[i]
            /\ Send(Rest(i), i, refusal)
            /\ UNCHANGED <<state, current_leader_id, log, commit_index>>
         \/ /\ m.term >= current_term[i]
            /\ state' = [state EXCEPT ![i] =
                 IF StateAfter(i, m.term) = Candidate THEN Follower ELSE StateAfter(i, m.term)]
            /\ current_leader_id' = [current_leader_id EXCEPT ![i] = m.from]
            /\ \/ /\ ~Fits(i, m)
                  /\ Send(Rest(i), i, refusal)
                  /\ UNCHANGED <<log, commit_index>>
               \/ /\ Fits(i, m)
                  /\ log' = [log EXCEPT ![i] = merged]
                  /\ commit_index' = [commit_index EXCEPT ![i] =
                       CommitAfter(@, m.leader_commit, Len(merged))]
                  /\ Send(Rest(i), i, Only(m.from, AppendResponse(i, m.term, TRUE, Len(merged))))
      /\ UNCHANGED <<protocol, votes_received, elected, next_index, match_index, reportVars,
                     handoffVars, leafVars, faultVars, count>>

\* _try_advance_commit, when the match indices of i are match.
TryAdvanceCommit(i, match) ==
  LET ready == Committable(log[i], commit_index[i], current_term[i], match,
                           Cardinality(Coordinator))
  IN  commit_index' = [commit_index EXCEPT ![i] =
        IF ready = {} THEN @ ELSE CHOOSE n \in ready : \A k \in ready : k <= n]

\* Fault: the next entry sent is the one that matched.
NextIndex_AtMatch(next, m) ==
  IF m.success THEN m.match_index ELSE IF next > 1 THEN next - 1 ELSE 1
NextIndex(next, m) ==
  IF m.success THEN m.match_index + 1 ELSE IF next > 1 THEN next - 1 ELSE 1

HandleAppendResponse(i) ==
  LET m      == Head(inbox[i])
      counts == m.term <= current_term[i] /\ state[i] = Leader
      match  == [match_index[i] EXCEPT ![m.from] = m.match_index]
  IN  /\ Takes(i, "AppendEntriesResponse")
      /\ StepDown(i, m.term)
      /\ peer_batteries' = [peer_batteries EXCEPT ![i][m.from] =
           IF m.term > current_term[i] \/ m.responder_battery = 0 THEN @
           ELSE m.responder_battery]
      /\ next_index' = [next_index EXCEPT ![i][m.from] =
           IF counts THEN NextIndex(@, m) ELSE @]
      /\ \/ /\ counts /\ m.success
            /\ match_index' = [match_index EXCEPT ![i] = match]
            /\ TryAdvanceCommit(i, match)
         \/ /\ ~(counts /\ m.success)
            /\ UNCHANGED <<match_index, commit_index>>
      /\ inbox' = Rest(i)
      /\ UNCHANGED <<protocol, votes_received, elected, current_leader_id, log, reportVars,
                     handoff_sent, battery, leafVars, faultVars, count>>

-----------------------------------------------------------------------------
(* Sensor reports *)

Abs(x) == IF x < 0 THEN -x ELSE x
\* A change under DELTA_THRESHOLD = 5%.
Insignificant(value, prev) ==
  prev # None /\ (value = prev \/ 20 * Abs(value - prev) < Abs(prev))

\* Whoever does not lead relays the report to the leader it heard of, or drops
\* it; a leader filters it, and proposes it (ECHO) or batches it (echoD).
\* Fault: the relay keeps a copy for its own batch.
Retained_Copied(i, reading) == Append(batch_buffer[i], reading)
Retained(i, reading) == batch_buffer[i]

Batched(i, reading) == Append(batch_buffer[i], reading)
Readings(buffer) == {buffer[k] : k \in DOMAIN buffer}

HandleSensorData(i) ==
  LET reading  == Head(inbox[i]).reading
      filtered == Insignificant(reading.value, last_sensor[i][reading.leaf])
      full     == Len(Batched(i, reading)) >= MaxBatch
  IN  /\ Takes(i, "SensorDataReport")
      /\ \/ /\ state[i] # Leader
            /\ Send(Rest(i), i, IF current_leader_id[i] \in {None, i} THEN Quiet
                 ELSE Only(current_leader_id[i],
                        [type |-> "SensorDataReport", from |-> i, reading |-> reading]))
            /\ batch_buffer' = [batch_buffer EXCEPT ![i] = Retained(i, reading)]
            /\ UNCHANGED <<log, last_sensor>>
         \/ /\ state[i] = Leader /\ filtered
            /\ inbox' = Rest(i)
            /\ UNCHANGED <<log, last_sensor, batch_buffer>>
         \/ /\ state[i] = Leader /\ ~filtered
            /\ last_sensor' = [last_sensor EXCEPT ![i][reading.leaf] = reading.value]
            /\ \/ /\ protocol = "echo"
                  /\ Replicate(Rest(i), i, {reading})
                  /\ UNCHANGED batch_buffer
               \/ /\ protocol = "echod" /\ full
                  /\ Replicate(Rest(i), i, Readings(Batched(i, reading)))
                  /\ batch_buffer' = [batch_buffer EXCEPT ![i] = <<>>]
               \/ /\ protocol = "echod" /\ ~full
                  /\ inbox' = Rest(i)
                  /\ batch_buffer' = [batch_buffer EXCEPT ![i] = Batched(i, reading)]
                  /\ UNCHANGED log
      /\ UNCHANGED <<protocol, electionVars, current_leader_id, commit_index, next_index,
                     match_index, handoffVars, leafVars, faultVars, count>>

-----------------------------------------------------------------------------
(* The idle pass of a leader *)

RaftIdle(i) ==
  /\ protocol = "raft" /\ IsIdle(i) /\ state[i] = Leader /\ Room(LeaderLoad)
  /\ Send(inbox, i, Rounds(i, log[i]))
  /\ UNCHANGED <<protocol, electionVars, current_leader_id, replicationVars, reportVars,
                 handoffVars, leafVars, faultVars, count>>

EchoIdle(i) ==
  /\ protocol = "echo" /\ IsIdle(i) /\ state[i] = Leader /\ Room(LeaderLoad)
  /\ Send(inbox, i, ToPeers(i, Ping(i)))
  /\ UNCHANGED <<protocol, electionVars, current_leader_id, replicationVars, reportVars,
                 handoffVars, leafVars, faultVars, count>>

\* _initiate_handoff: the best battery heard of, among the peers that are not
\* observers; ties, which the code breaks by node id, are left open.
Successors(i) ==
  LET able == {p \in Peers(i) : state[p] # Observer}
  IN  {p \in able : /\ peer_batteries[i][p] > battery[i]
                    /\ \A q \in able : peer_batteries[i][q] <= peer_batteries[i][p]}

HandoffDue(i) == battery[i] < T_HANDOFF /\ ~handoff_sent[i]

\* What sending may leave of the battery of i.
Spent(i) == {battery[i]} \cup {level \in Levels : level < battery[i] /\ MayHappen}

\* Sending the nomination drains the battery: a leader that falls below T_LOW on
\* the way becomes an OBSERVER with its vote cleared, and then a FOLLOWER all the
\* same.
HandOver(i, p, level, ahead) ==
  /\ Send(inbox, i, Then(ahead, Only(p,
       [type |-> "LeadershipHandoff", from |-> i, term |-> current_term[i]])))
  /\ battery' = [battery EXCEPT ![i] = level]
  /\ voted_for' = [voted_for EXCEPT ![i] = IF level < T_LOW THEN None ELSE @]
  /\ state' = [state EXCEPT ![i] = Follower]
  /\ count' = [count EXCEPT !.others = IF level < battery[i] THEN @ + 1 ELSE @]

\* The batch window, the ping and the handoff, in this order; the clock decides
\* about the first two.
EchodIdle(i) ==
  /\ protocol = "echod" /\ IsIdle(i) /\ state[i] = Leader /\ Room(LeaderLoad)
  /\ \E flush, ping \in BOOLEAN :
       LET lg    == IF flush THEN Extended(i, Readings(batch_buffer[i])) ELSE log[i]
           ahead == Then(IF flush THEN Rounds(i, lg) ELSE Quiet,
                         IF ping THEN ToPeers(i, Ping(i)) ELSE Quiet)
       IN  /\ flush => batch_buffer[i] # <<>>
           /\ flush \/ ping \/ HandoffDue(i)
           /\ log' = [log EXCEPT ![i] = lg]
           /\ batch_buffer' = [batch_buffer EXCEPT ![i] = IF flush THEN <<>> ELSE @]
           /\ handoff_sent' = [handoff_sent EXCEPT ![i] = @ \/ HandoffDue(i)]
           /\ \/ /\ ~HandoffDue(i) \/ Successors(i) = {}
                 /\ Send(inbox, i, ahead)
                 /\ UNCHANGED <<state, voted_for, battery, count>>
              \/ /\ HandoffDue(i)
                 /\ \E p \in Successors(i), level \in Spent(i) : HandOver(i, p, level, ahead)
  /\ UNCHANGED <<protocol, current_term, votes_received, elected, current_leader_id,
                 commit_index, next_index, match_index, last_sensor, peer_batteries,
                 leafVars, faultVars>>

\* Fault: an observer takes over too.
Accepts_Observer(i, m) == m.term >= current_term[i]
Accepts(i, m) == state[i] # Observer /\ m.term >= current_term[i]

HandleLeadershipHandoff(i) ==
  LET m       == Head(inbox[i])
      accepts == Accepts(i, m)
  IN  /\ Takes(i, "LeadershipHandoff")
      /\ \/ /\ accepts /\ TermAfter(i, m.term) < MaxTerm
            /\ StartElection(Rest(i), i, TermAfter(i, m.term))
         \/ /\ ~accepts
            /\ inbox' = Rest(i)
            /\ UNCHANGED electionVars
      /\ UNCHANGED <<protocol, current_leader_id, replicationVars, reportVars, handoffVars,
                     leafVars, faultVars, count>>

-----------------------------------------------------------------------------
(* Leaves and the workload *)

\* _try_register: any coordinator may be picked, whether it runs or not.
LeafIdle(l, c) ==
  /\ protocol # "raft" /\ inbox[l] = <<>> /\ leaf_state[l] # "ACTIVE"
  /\ count.registers < MaxRegisters /\ Room(LeaderLoad)
  /\ count' = [count EXCEPT !.registers = @ + 1]
  /\ Send(inbox, l, Only(c, [type |-> "LeafRegisterRequest", from |-> l]))
  /\ UNCHANGED <<protocol, electionVars, current_leader_id, replicationVars, reportVars,
                 handoffVars, leafVars, faultVars>>

\* Fault: only a leader keeps leaves.
Registered_LeaderOnly(i, l) == IF state[i] = Leader THEN leaves[i] \cup {l} ELSE leaves[i]
Registered(i, l) == leaves[i] \cup {l}

HandleLeafRegister(i) ==
  LET l == Head(inbox[i]).from
  IN  /\ Takes(i, "LeafRegisterRequest")
      /\ leaves' = [leaves EXCEPT ![i] = Registered(i, l)]
      /\ Send(Rest(i), i, Only(l, [type |-> "LeafRegisterResponse", from |-> i]))
      /\ UNCHANGED <<protocol, electionVars, current_leader_id, replicationVars, reportVars,
                     handoffVars, leaf_state, coordinator_id, last_transmitted, faultVars,
                     count>>

\* The last answer counts, in whatever state it finds the leaf.
HandleLeafRegisterResponse(l) ==
  /\ Takes(l, "LeafRegisterResponse")
  /\ coordinator_id' = [coordinator_id EXCEPT ![l] = Head(inbox[l]).from]
  /\ leaf_state' = [leaf_state EXCEPT ![l] = "ACTIVE"]
  /\ inbox' = Rest(l)
  /\ UNCHANGED <<protocol, electionVars, current_leader_id, replicationVars, reportVars,
                 handoffVars, last_transmitted, leaves, faultVars, count>>

\* PARTITION_TIMEOUT without a word of the coordinator.
LeafTimeout(l) ==
  /\ IsIdle(l) /\ leaf_state[l] = "ACTIVE"
  /\ leaf_state' = [leaf_state EXCEPT ![l] = "SEARCHING"]
  /\ coordinator_id' = [coordinator_id EXCEPT ![l] = None]
  /\ UNCHANGED <<protocol, electionVars, current_leader_id, replicationVars, reportVars,
                 handoffVars, last_transmitted, leaves, faultVars, inbox, count>>

\* The filter of the echoD leaf.
Suppressed(l, value) == protocol = "echod" /\ Insignificant(value, last_transmitted[l])

\* _send_reading, which does nothing without a coordinator.
Report(l, value) ==
  IF coordinator_id[l] = None THEN Quiet
  ELSE Only(coordinator_id[l], [type |-> "SensorDataReport", from |-> l,
                                reading |-> [leaf |-> l, value |-> value]])

\* deliver_event in ECHO and echoD.  The echoD leaf remembers what it did not
\* suppress as transmitted, even if there was nobody to send it to.
LeafReading(l, value) ==
  /\ protocol # "raft" /\ MayHappen /\ Room(LeaderLoad)
  /\ last_transmitted' = [last_transmitted EXCEPT ![l] =
       IF protocol = "echo" \/ Suppressed(l, value) THEN @ ELSE value]
  /\ LET out == IF Suppressed(l, value) THEN Quiet ELSE Report(l, value)
     IN  /\ Send(inbox, l, out)
         /\ count' = IF out = Quiet THEN [count EXCEPT !.others = @ + 1]
                                   ELSE [count EXCEPT !.reports = @ + 1]
  /\ UNCHANGED <<protocol, electionVars, current_leader_id, replicationVars, reportVars,
                 handoffVars, leaf_state, coordinator_id, leaves, faultVars>>

\* deliver_event in raft: proposed at the first node that is LEADER, though it
\* may have failed or been deposed by others.  What it reads makes no difference.
Workload(i) ==
  /\ protocol = "raft" /\ state[i] = Leader
  /\ MayHappen /\ Room(LeaderLoad)
  /\ count' = [count EXCEPT !.reports = @ + 1]
  /\ Replicate(inbox, i, {CHOOSE reading \in Reading : TRUE})
  /\ UNCHANGED <<protocol, electionVars, current_leader_id, commit_index, next_index,
                 match_index, reportVars, handoffVars, leafVars, faultVars>>

-----------------------------------------------------------------------------
(* Energy and faults *)

\* tick_battery, called for every message sent or received and for idle drain.
\* With main.py a battery never rises.
Drain(i, level) ==
  /\ level < battery[i] /\ MayHappen
  /\ count' = [count EXCEPT !.others = @ + 1]
  /\ battery' = [battery EXCEPT ![i] = level]
  /\ state' = [state EXCEPT ![i] = IF level < T_LOW THEN Observer ELSE @]
  /\ voted_for' = [voted_for EXCEPT ![i] =
       IF level < T_LOW /\ state[i] # Observer THEN None ELSE @]
  /\ UNCHANGED <<protocol, current_term, votes_received, elected, current_leader_id,
                 replicationVars, reportVars, peer_batteries, handoff_sent, leafVars,
                 faultVars, inbox>>

\* The next tick of a nominator that _initiate_handoff made a FOLLOWER below T_LOW.
LateTick(i) ==
  /\ battery[i] < T_LOW /\ state[i] # Observer
  /\ state' = [state EXCEPT ![i] = Observer]
  /\ voted_for' = [voted_for EXCEPT ![i] = None]
  /\ UNCHANGED <<protocol, current_term, votes_received, elected, current_leader_id,
                 replicationVars, reportVars, handoffVars, leafVars, faultVars, inbox, count>>

\* inject_failure cancels the task; the bus goes on filling the inbox.
InjectFailure(i) ==
  /\ i \notin failed /\ MayHappen
  /\ count' = [count EXCEPT !.others = @ + 1]
  /\ failed' = failed \cup {i}
  /\ UNCHANGED <<protocol, electionVars, current_leader_id, replicationVars, reportVars,
                 handoffVars, leafVars, partitions, inbox>>

\* recover_node starts a new task on the old object: nothing is forgotten, and
\* the backlog is handled first.
RecoverNode(i) ==
  /\ i \in failed
  /\ failed' = failed \ {i}
  /\ UNCHANGED <<protocol, electionVars, current_leader_id, replicationVars, reportVars,
                 handoffVars, leafVars, partitions, inbox, count>>

InjectPartition(groups) ==
  /\ partitions = {} /\ MayHappen
  /\ count' = [count EXCEPT !.others = @ + 1]
  /\ partitions' = groups
  /\ UNCHANGED <<protocol, electionVars, current_leader_id, replicationVars, reportVars,
                 handoffVars, leafVars, failed, inbox>>

HealPartition ==
  /\ partitions # {}
  /\ partitions' = {}
  /\ UNCHANGED <<protocol, electionVars, current_leader_id, replicationVars, reportVars,
                 handoffVars, leafVars, failed, inbox, count>>

-----------------------------------------------------------------------------

Init ==
  /\ protocol \in Protocols
  /\ state = [i \in Coordinator |-> Follower]
  /\ current_term = [i \in Coordinator |-> 0]
  /\ voted_for = [i \in Coordinator |-> None]
  /\ votes_received = [i \in Coordinator |-> {}]
  /\ current_leader_id = [i \in Coordinator |-> None]
  /\ log = [i \in Coordinator |-> <<>>]
  /\ commit_index = [i \in Coordinator |-> 0]
  /\ next_index = [i \in Coordinator |-> [p \in Coordinator |-> 1]]
  /\ match_index = [i \in Coordinator |-> [p \in Coordinator |-> 0]]
  /\ last_sensor = [i \in Coordinator |-> [l \in LeafId |-> None]]
  /\ batch_buffer = [i \in Coordinator |-> <<>>]
  /\ peer_batteries = [i \in Coordinator |-> [p \in Coordinator |-> 100]]
  /\ handoff_sent = [i \in Coordinator |-> FALSE]
  /\ leaves = [i \in Coordinator |-> {}]
  /\ leaf_state = [l \in LeafId |-> "UNREGISTERED"]
  /\ coordinator_id = [l \in LeafId |-> None]
  /\ last_transmitted = [l \in LeafId |-> None]
  /\ inbox = Quiet
  /\ battery = [i \in Coordinator |-> FullLevel]
  /\ failed = {}
  /\ partitions = {}
  /\ count = [reports |-> 0, registers |-> 0, others |-> 0]
  /\ elected = {}

\* _on_idle of a coordinator.
Idle(i) == ElectionIdle(i) \/ RaftIdle(i) \/ EchoIdle(i) \/ EchodIdle(i)

\* handle_message of a coordinator.
Handle(i) ==
  \/ HandleRequestVote(i)
  \/ HandleVoteResponse(i)
  \/ HandleAppendEntries(i)
  \/ HandleAppendResponse(i)
  \/ HandleLivenessPing(i)
  \/ HandleLeadershipHandoff(i)
  \/ HandleLeafRegister(i)
  \/ HandleSensorData(i)

LeafStep(l) ==
  \/ \E c \in Coordinator : LeafIdle(l, c)
  \/ HandleLeafRegisterResponse(l)
  \/ LeafTimeout(l)
  \/ \E value \in Value : LeafReading(l, value)

Environment ==
  \/ \E i \in Coordinator : Workload(i)
  \/ \E i \in Coordinator, level \in Levels : Drain(i, level)
  \/ \E i \in Coordinator : LateTick(i) \/ InjectFailure(i) \/ RecoverNode(i)
  \/ \E groups \in Splits : InjectPartition(groups)
  \/ HealPartition

Next ==
  \/ \E i \in Coordinator : Idle(i) \/ Handle(i)
  \/ \E l \in LeafId : LeafStep(l)
  \/ Environment

Spec == Init /\ [][Next]_vars
=============================================================================
