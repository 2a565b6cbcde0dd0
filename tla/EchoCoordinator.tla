--------------------------- MODULE EchoCoordinator ---------------------------
(***************************************************************************)
(* The coordinators of rpi/coordinator/echo_node.py and the MQTT channels  *)
(* between them.  One process per coordinator runs raft, echo or echod.    *)
(*                                                                         *)
(* A message handler, and a pass of the run loop through _check_battery    *)
(* and _tick, runs without an await, so each is one action.  Time is       *)
(* abstracted: a timer that the code compares with the clock may or may    *)
(* not be due whenever the loop looks at it.                               *)
(***************************************************************************)
EXTENDS EchoLog

CONSTANTS
  Node,          \* the coordinators
  None,          \* Python's None
  Protocol,      \* "raft", "echo" or "echod": the --protocol flag
  Levels,        \* battery percentages a node can report
  Recharge,      \* whether a battery level can rise
  Leaf, Value,   \* leaves and the sensor values they report
  Splits,        \* partitions that can be injected: each a set of groups
  MaxBatch,      \* MAX_BATCH_SIZE
  RecentCap, RecentCut,  \* the limit of _recent_reconciles, and how many it drops
  Lossy          \* whether messages (MQTT QoS 0) can be lost

\* Bounds of the model, each a guard of an environment or timer action.
CONSTANTS
  MaxTerm,       \* no candidacy beyond this term
  MaxReports,    \* sensor reports made by leaves
  MaxControls,   \* partition_control commands published
  ElectionLoad,  \* an election timer fires only while at most so many channels are busy
  LeaderLoad,    \* the same for a leader's timers
  EnvLoad        \* the same for leaf reports and partition commands

\* rpi/config.py
T_LOW     == 15
T_HANDOFF == 20
T_RESTORE == 25

ASSUME NodeAssumption == IsFiniteSet(Node)
ASSUME NoneAssumption == None \notin Node \cup Levels \cup Value
ASSUME ProtocolAssumption == Protocol \in {"raft", "echo", "echod"}
ASSUME LevelsAssumption == Levels \subseteq 0..100
ASSUME SplitsAssumption == \A groups \in Splits : groups \subseteq SUBSET Node
ASSUME LimitAssumption ==
  /\ {MaxBatch, RecentCap, RecentCut} \subseteq Nat
  /\ {MaxTerm, MaxReports, MaxControls, ElectionLoad, LeaderLoad, EnvLoad} \subseteq Nat
  /\ {Recharge, Lossy} \subseteq BOOLEAN

VARIABLES
  \* consensus state of each coordinator
  state, current_term, voted_for, votes, current_leader_id,
  log, commit_index, next_index, match_index,
  \* reports that wait for a leader, for a batch, or are remembered
  pending_triggers, batch_buffer, last_sensor, recent_reconciles,
  \* echoD handoff
  peer_batteries, handoff_sent,
  \* the partition hook
  partition_epoch, blocked_senders,
  \* environment: battery level, channels, control broadcasts, counters
  battery, net, admitted, control, reports, controls,
  \* history: every leadership won
  elected

electionVars    == <<state, current_term, voted_for, votes, elected>>
replicationVars == <<log, commit_index, next_index, match_index>>
triggerVars     == <<pending_triggers, batch_buffer, last_sensor, recent_reconciles>>
handoffVars     == <<peer_batteries, handoff_sent>>
partitionVars   == <<partition_epoch, blocked_senders, control, controls>>
vars == <<electionVars, current_leader_id, replicationVars, triggerVars, handoffVars,
          partitionVars, battery, reports, net, admitted>>

-----------------------------------------------------------------------------
(* Data *)

Follower    == "follower"
Candidate   == "candidate"
Leader      == "leader"
Observer    == "observer"
LocalLeader == "local_leader"
NodeState   == {Follower, Candidate, Leader, Observer, LocalLeader}

Reading == [leaf : Leaf, value : Value]

\* A command is the set of readings it carries: one, or the readings of a batch
\* (a batch of batches is the readings of all).
Command == SUBSET Reading
LogEntry == [term : Nat, command : Command, epoch : Nat]

Message ==
       [type : {"request_vote"}, term : Nat, last_log_index : Nat, last_log_term : Nat,
        battery_level : Levels]
  \cup [type : {"vote_response"}, term : Nat, vote_granted : BOOLEAN, voter_battery : Levels]
  \cup [type : {"append_entries"}, term : Nat, prev_log_index : Nat, prev_log_term : Nat,
        entries : Seq(LogEntry), leader_commit : Nat]
  \cup [type : {"append_response"}, term : Nat, success : BOOLEAN, match_index : Nat,
        responder_battery : Levels]
  \cup [type : {"liveness_ping", "leadership_handoff"}, term : Nat]
  \cup [type : {"sensor_data"}, reading : Reading]
  \cup [type : {"reconcile_batch"}, commands : Seq(Command)]

Control == [action : {"partition"}, groups : Splits] \cup [action : {"heal"}]

Peers(i) == Node \ {i}
Content(s) == {s[k] : k \in DOMAIN s}
Singletons(s) == [k \in DOMAIN s |-> {s[k]}]

\* The dictionary _votes: the battery of each node that granted its vote.
NoVotes == [n \in Node |-> None]
Voters(ballots) == {n \in Node : ballots[n] # None}
IsMajority(S) == Cardinality(S) > Cardinality(Node) \div 2

-----------------------------------------------------------------------------
(* Messages.  net[s][d] is what s published for d and d has not handled, in *)
(* order: the broker and the inbox of d together.                           *)

Nothing == [d \in Node |-> <<>>]
Only(d, ms) == [n \in Node |-> IF n = d THEN ms ELSE <<>>]
ToPeers(i, m) == [n \in Node |-> IF n = i THEN <<>> ELSE <<m>>]
Then(out, more) == [d \in Node |-> out[d] \o more[d]]

\* i publishes out[d] for every d; rest is the network without the message
\* that is being handled.
Transmit(rest, i, out) == net' = [rest EXCEPT ![i] = Then(@, out)]

Unread(s, d) == [net EXCEPT ![s][d] = Tail(@)]

\* _dispatch lets a message of a blocked sender through only if it entered the
\* inbox before the partition command was handled.
Arrives(s, d, type) ==
  /\ net[s][d] # <<>>
  /\ Head(net[s][d]).type = type
  /\ s \in blocked_senders[d] => admitted[d][s] > 0
  /\ admitted' = [admitted EXCEPT ![d][s] = IF @ > 0 THEN @ - 1 ELSE 0]

Ping(i, term) == [type |-> "liveness_ping", term |-> term]

AppendResponse(i, term, success, index) ==
  [type |-> "append_response", term |-> term, success |-> success,
   match_index |-> index, responder_battery |-> battery[i]]

\* _send_append_entries, when the log of i is lg and the next index is next.
AppendEntries(i, lg, next) ==
  [type |-> "append_entries", term |-> current_term[i],
   prev_log_index |-> next - 1, prev_log_term |-> PrevTerm(lg, next - 1),
   entries |-> Suffix(lg, next - 1), leader_commit |-> commit_index[i]]

Heartbeats(i, next) ==
  [d \in Node |-> IF d = i THEN <<>> ELSE <<AppendEntries(i, log[i], next[d])>>]

-----------------------------------------------------------------------------
(* _replicate_entry, once per command of the sequence cmds. *)

NewEntries(i, cmds) ==
  [k \in DOMAIN cmds |->
     [term |-> current_term[i], command |-> cmds[k], epoch |-> partition_epoch[i]]]

Extended(i, cmds) == log[i] \o NewEntries(i, cmds)

Rounds(i, cmds, next) ==
  [d \in Node |->
     IF d = i THEN <<>>
     ELSE [k \in DOMAIN cmds |->
             AppendEntries(i, SubSeq(Extended(i, cmds), 1, Len(log[i]) + k), next[d])]]

\* How several commands are proposed: in echod as one batch entry.
Proposed(cmds) ==
  IF Protocol = "echod" /\ Len(cmds) > 1 THEN <<UNION Content(cmds)>> ELSE cmds

\* What remains of a buffer once its readings are proposed.
\* Fault: the buffer is not cleared.
Flushed_Kept(buffer) == buffer
Flushed(buffer) == <<>>

Replicate(rest, i, cmds) ==
  /\ log' = [log EXCEPT ![i] = Extended(i, cmds)]
  /\ Transmit(rest, i, Rounds(i, cmds, next_index[i]))

-----------------------------------------------------------------------------
(* _step_down, as the values it leaves behind when a message carries term. *)

\* Fault: an old term is adopted as well.
TermAfter_Unguarded(i, term) == term
TermAfter(i, term) == IF term > current_term[i] THEN term ELSE current_term[i]
\* Fault: the vote is cleared although the term stays.
VoteAfter_Forgotten(i, term) == None
VoteAfter(i, term) == IF term > current_term[i] THEN None ELSE voted_for[i]
\* Fault: a leader is not demoted.
StateAfter_KeepsLeading(i, term) ==
  IF term > current_term[i] /\ state[i] = Candidate THEN Follower ELSE state[i]
StateAfter(i, term) ==
  IF term > current_term[i] /\ state[i] \in {Candidate, Leader, LocalLeader}
  THEN Follower ELSE state[i]

StepDown(i, term) ==
  /\ current_term' = [current_term EXCEPT ![i] = TermAfter(i, term)]
  /\ voted_for' = [voted_for EXCEPT ![i] = VoteAfter(i, term)]
  /\ state' = [state EXCEPT ![i] = StateAfter(i, term)]

-----------------------------------------------------------------------------
(* Battery: _check_battery, the drain of the cell, and the demo control. *)

\* The state and the vote that _check_battery leaves at battery level.
CheckedState(i, level) ==
  IF Protocol = "raft" THEN state[i]
  ELSE IF level < T_LOW THEN Observer
  ELSE IF level >= T_RESTORE /\ state[i] = Observer THEN Follower
  ELSE state[i]

CheckedVote(i, level) ==
  IF CheckedState(i, level) = Observer /\ state[i] # Observer THEN None ELSE voted_for[i]

\* The level moves between two looks of the run loop.
BatteryMoves(i, level) ==
  /\ level # battery[i]
  /\ Recharge \/ level < battery[i]
  /\ battery' = [battery EXCEPT ![i] = level]
  /\ UNCHANGED <<electionVars, current_leader_id, replicationVars, triggerVars,
                 handoffVars, partitionVars, reports, net, admitted>>

\* _handle_demo_control "set_battery": the new level is checked at once.
DemoSetBattery(i, level) ==
  /\ level # battery[i]
  /\ Recharge \/ level < battery[i]
  /\ battery' = [battery EXCEPT ![i] = level]
  /\ state' = [state EXCEPT ![i] = CheckedState(i, level)]
  /\ voted_for' = [voted_for EXCEPT ![i] = CheckedVote(i, level)]
  /\ UNCHANGED <<current_term, votes, elected, current_leader_id, replicationVars,
                 triggerVars, handoffVars, partitionVars, reports, net, admitted>>

-----------------------------------------------------------------------------
(* The run loop: _check_battery, then _tick. *)

Leading(st) == st \in {Leader, LocalLeader}
Busy == Cardinality({c \in Node \X Node : net[c[1]][c[2]] # <<>>})

HandoffDue(i) ==
  Protocol = "echod" /\ battery[i] < T_HANDOFF /\ ~handoff_sent[i]

\* A pass in which no timer is due: only the battery check has an effect.
IdleTick(i) ==
  /\ Leading(CheckedState(i, battery[i])) => ~HandoffDue(i)
  /\ state' = [state EXCEPT ![i] = CheckedState(i, battery[i])]
  /\ voted_for' = [voted_for EXCEPT ![i] = CheckedVote(i, battery[i])]
  /\ UNCHANGED <<current_term, votes, elected, current_leader_id, replicationVars,
                 triggerVars, handoffVars, partitionVars, battery, reports, net, admitted>>

\* _start_election, from the term the node holds by then.
StartElection(rest, i, term) ==
  /\ current_term' = [current_term EXCEPT ![i] = term + 1]
  /\ state' = [state EXCEPT ![i] = Candidate]
  /\ voted_for' = [voted_for EXCEPT ![i] = i]
  /\ votes' = [votes EXCEPT ![i] = [NoVotes EXCEPT ![i] = battery[i]]]
  /\ current_leader_id' = [current_leader_id EXCEPT ![i] = None]
  /\ Transmit(rest, i, ToPeers(i,
       [type |-> "request_vote", term |-> term + 1, last_log_index |-> Len(log[i]),
        last_log_term |-> LastTerm(log[i]), battery_level |-> battery[i]]))
  /\ UNCHANGED elected

\* The election deadline has passed: also for a node that the check of this
\* very pass restored from OBSERVER.
ElectionTimeout(i) ==
  /\ CheckedState(i, battery[i]) \in {Follower, Candidate}
  /\ current_term[i] < MaxTerm /\ Busy <= ElectionLoad
  /\ StartElection(net, i, current_term[i])
  /\ UNCHANGED <<replicationVars, triggerVars, handoffVars, partitionVars, battery,
                 reports, admitted>>

\* Raft: a heartbeat to every peer is due.
RaftLeaderTick(i) ==
  /\ Protocol = "raft" /\ Leading(state[i]) /\ Busy <= LeaderLoad
  /\ Transmit(net, i, Heartbeats(i, next_index[i]))
  /\ UNCHANGED <<electionVars, current_leader_id, replicationVars, triggerVars,
                 handoffVars, partitionVars, battery, reports, admitted>>

\* ECHO: the liveness broadcast is due.
EchoLeaderTick(i) ==
  /\ Protocol = "echo" /\ Leading(CheckedState(i, battery[i])) /\ Busy <= LeaderLoad
  /\ Transmit(net, i, ToPeers(i, Ping(i, current_term[i])))
  /\ UNCHANGED <<electionVars, current_leader_id, replicationVars, triggerVars,
                 handoffVars, partitionVars, battery, reports, admitted>>

\* _initiate_handoff looks for the peer with the highest battery it has heard
\* of.  The code breaks ties by node id; node ids have no order here, so any of
\* the best may be chosen.
Successors(i) ==
  {p \in Peers(i) :
     /\ peer_batteries[i][p] > battery[i]
     /\ \A q \in Peers(i) : peer_batteries[i][q] <= peer_batteries[i][p]}

\* The states once i has nominated a successor.
\* Fault: the nominator leads on.
HandedOver_StillLeading(i) == state
HandedOver(i) == [state EXCEPT ![i] = Follower]

\* echoD: the batch window, the ping and the handoff, in this order.  Whether
\* the first two are due is up to the clock, the handoff is not.
EchodLeaderTick(i) ==
  /\ Protocol = "echod" /\ Leading(CheckedState(i, battery[i])) /\ Busy <= LeaderLoad
  /\ \E flush, ping \in BOOLEAN :
       LET batch == IF flush THEN <<Content(batch_buffer[i])>> ELSE <<>>
           ahead == Then(Rounds(i, batch, next_index[i]),
                         IF ping THEN ToPeers(i, Ping(i, current_term[i])) ELSE Nothing)
       IN  /\ flush => batch_buffer[i] # <<>>
           /\ flush \/ ping \/ HandoffDue(i)
           /\ log' = [log EXCEPT ![i] = Extended(i, batch)]
           /\ batch_buffer' = [batch_buffer EXCEPT ![i] = IF flush THEN Flushed(@) ELSE @]
           /\ handoff_sent' = [handoff_sent EXCEPT ![i] = @ \/ HandoffDue(i)]
           /\ \/ /\ ~HandoffDue(i) \/ Successors(i) = {}
                 /\ Transmit(net, i, ahead)
                 /\ UNCHANGED state
              \/ /\ HandoffDue(i)
                 /\ \E p \in Successors(i) :
                      Transmit(net, i, Then(ahead, Only(p,
                        <<[type |-> "leadership_handoff", term |-> current_term[i]]>>)))
                 /\ state' = HandedOver(i)
  /\ UNCHANGED <<current_term, voted_for, votes, elected, current_leader_id,
                 commit_index, next_index, match_index, pending_triggers, last_sensor,
                 recent_reconciles, peer_batteries, partitionVars, battery, reports,
                 admitted>>

-----------------------------------------------------------------------------
(* Elections *)

\* Energy gating: the candidate's battery, as its request states it.
\* Fault: the gate is missing.
Eligible_Any(level) == TRUE
Eligible(level) == Protocol = "raft" \/ level >= T_LOW

\* i grants its vote to the request m of s.
\* Fault: an observer, whose vote was cleared, votes.
Grants_Observer(i, s, m) ==
  /\ m.term = TermAfter(i, m.term)
  /\ Eligible(m.battery_level)
  /\ VoteAfter(i, m.term) \in {None, s}
  /\ UpToDate(log[i], m.last_log_index, m.last_log_term)
Grants(i, s, m) ==
  /\ m.term = TermAfter(i, m.term)
  /\ StateAfter(i, m.term) # Observer
  /\ Eligible(m.battery_level)
  /\ VoteAfter(i, m.term) \in {None, s}
  /\ UpToDate(log[i], m.last_log_index, m.last_log_term)

HandleRequestVote(i, s) ==
  LET m     == Head(net[s][i])
      term  == TermAfter(i, m.term)
      grant == Grants(i, s, m)
  IN  /\ Arrives(s, i, "request_vote")
      /\ current_term' = [current_term EXCEPT ![i] = term]
      /\ state' = [state EXCEPT ![i] = StateAfter(i, m.term)]
      /\ voted_for' = [voted_for EXCEPT ![i] = IF grant THEN s ELSE VoteAfter(i, m.term)]
      /\ Transmit(Unread(s, i), i, Only(s,
           <<[type |-> "vote_response", term |-> term, vote_granted |-> grant,
              voter_battery |-> battery[i]]>>))
      /\ UNCHANGED <<votes, elected, current_leader_id, replicationVars, triggerVars,
                     handoffVars, partitionVars, battery, reports>>

\* _become_leader with _flush_pending_triggers: assert leadership first, then
\* replay the reports buffered while no leader was known.
BecomeLeader(rest, i, ballots) ==
  LET next  == [p \in Node |-> Len(log[i]) + 1]
      cmds  == Proposed(Singletons(pending_triggers[i]))
      claim == IF Protocol = "raft" THEN Heartbeats(i, next)
               ELSE ToPeers(i, Ping(i, current_term[i]))
  IN  /\ state' = [state EXCEPT ![i] = Leader]
      /\ current_leader_id' = [current_leader_id EXCEPT ![i] = i]
      /\ next_index' = [next_index EXCEPT ![i] = next]
      /\ match_index' = [match_index EXCEPT ![i] = [p \in Node |-> 0]]
      /\ handoff_sent' = [handoff_sent EXCEPT ![i] = FALSE]
      /\ pending_triggers' = [pending_triggers EXCEPT ![i] = Flushed(@)]
      /\ log' = [log EXCEPT ![i] = Extended(i, cmds)]
      /\ Transmit(rest, i, Then(claim, Rounds(i, cmds, next)))
      /\ elected' = elected \cup
           {[term |-> current_term[i], leader |-> i, quorum |-> Voters(ballots),
             battery_level |-> ballots[i]]}

\* A response that ends the candidacy, one that comes too late, and one that
\* counts.
HandleVoteResponse(i, s) ==
  LET m       == Head(net[s][i])
      ballots == IF m.vote_granted THEN [votes[i] EXCEPT ![s] = m.voter_battery]
                 ELSE votes[i]
      counts  == state[i] = Candidate /\ m.term = current_term[i]
  IN  /\ Arrives(s, i, "vote_response")
      /\ \/ /\ counts
            /\ votes' = [votes EXCEPT ![i] = ballots]
            /\ \/ /\ IsMajority(Voters(ballots))
                  /\ BecomeLeader(Unread(s, i), i, ballots)
               \/ /\ ~IsMajority(Voters(ballots))
                  /\ Transmit(Unread(s, i), i, Nothing)
                  /\ UNCHANGED <<state, elected, current_leader_id, log, next_index,
                                 match_index, pending_triggers, handoff_sent>>
            /\ UNCHANGED <<current_term, voted_for>>
         \/ /\ ~counts
            /\ StepDown(i, m.term)
            /\ Transmit(Unread(s, i), i, Nothing)
            /\ UNCHANGED <<votes, elected, current_leader_id, log, next_index, match_index,
                           pending_triggers, handoff_sent>>
      /\ UNCHANGED <<commit_index, batch_buffer, last_sensor, recent_reconciles,
                     peer_batteries, partitionVars, battery, reports>>

HandleLivenessPing(i, s) ==
  LET m == Head(net[s][i])
  IN  /\ Arrives(s, i, "liveness_ping")
      /\ StepDown(i, m.term)
      /\ current_leader_id' =
           [current_leader_id EXCEPT ![i] = IF m.term >= current_term[i] THEN s ELSE @]
      /\ Transmit(Unread(s, i), i, Nothing)
      /\ UNCHANGED <<votes, elected, replicationVars, triggerVars, handoffVars,
                     partitionVars, battery, reports>>

\* The nominated successor starts an election at once, below T_LOW or not: the
\* battery is checked only at the end of the pass that drained the inbox.
HandleLeadershipHandoff(i, s) ==
  LET m       == Head(net[s][i])
      accepts == state[i] # Observer /\ m.term >= current_term[i]
  IN  /\ Arrives(s, i, "leadership_handoff")
      /\ \/ /\ accepts
            /\ TermAfter(i, m.term) < MaxTerm
            /\ StartElection(Unread(s, i), i, TermAfter(i, m.term))
         \/ /\ ~accepts
            /\ Transmit(Unread(s, i), i, Nothing)
            /\ UNCHANGED <<electionVars, current_leader_id>>
      /\ UNCHANGED <<replicationVars, triggerVars, handoffVars, partitionVars, battery,
                     reports>>

-----------------------------------------------------------------------------
(* Replication *)

\* The commit index of i, at index, when a leader announces leader_commit and the
\* merged log has len entries.
\* Fault: the index follows the leader's backwards.
CommitAfter_Unguarded(index, leader_commit, len) ==
  IF leader_commit <= len THEN leader_commit ELSE len
CommitAfter(index, leader_commit, len) ==
  IF leader_commit <= index THEN index
  ELSE IF leader_commit <= len THEN leader_commit ELSE len

\* A consistent AppendEntries: merge, report what was cut off, acknowledge.
MergeEntries(rest, i, s, m) ==
  LET cut     == Truncated(log[i], m.prev_log_index, m.entries)
      merged  == Merged(log[i], m.prev_log_index, m.entries)
      replays == {k \in DOMAIN cut : cut[k].epoch # 0}
      answer  == AppendResponse(i, m.term, TRUE, Len(merged))
  IN  /\ log' = [log EXCEPT ![i] = merged]
      /\ commit_index' = [commit_index EXCEPT ![i] =
           CommitAfter(@, m.leader_commit, Len(merged))]
      /\ \/ /\ replays = {} \/ Protocol = "raft"
            /\ Transmit(rest, i, Only(s, <<answer>>))
         \/ /\ replays # {} /\ Protocol # "raft"
            /\ \E at \in InOrder(replays) :
                 Transmit(rest, i, Only(s,
                   <<[type |-> "reconcile_batch",
                      commands |-> [k \in DOMAIN at |-> cut[at[k]].command]], answer>>))

HandleAppendEntries(i, s) ==
  LET m    == Head(net[s][i])
      rest == Unread(s, i)
      st   == StateAfter(i, m.term)
      fits == Consistent(log[i], m.prev_log_index, m.prev_log_term)
      refusal == Only(s, <<AppendResponse(i, TermAfter(i, m.term), FALSE, 0)>>)
  IN  /\ Arrives(s, i, "append_entries")
      /\ \/ /\ m.term < current_term[i]
            /\ Transmit(rest, i, refusal)
            /\ UNCHANGED <<state, current_term, voted_for, current_leader_id, log,
                           commit_index>>
         \/ /\ m.term >= current_term[i]
            /\ current_term' = [current_term EXCEPT ![i] = m.term]
            /\ voted_for' = [voted_for EXCEPT ![i] = VoteAfter(i, m.term)]
            /\ state' = [state EXCEPT ![i] = IF st = Candidate THEN Follower ELSE st]
            /\ current_leader_id' = [current_leader_id EXCEPT ![i] = s]
            /\ \/ fits /\ MergeEntries(rest, i, s, m)
               \/ ~fits /\ Transmit(rest, i, refusal) /\ UNCHANGED <<log, commit_index>>
      /\ UNCHANGED <<votes, elected, next_index, match_index, triggerVars, handoffVars,
                     partitionVars, battery, reports>>

\* _try_advance_commit, when the match indices of i are match.
TryAdvanceCommit(i, match) ==
  LET ready == Committable(log[i], commit_index[i], current_term[i], match, Cardinality(Node))
  IN  \/ ready = {} /\ UNCHANGED commit_index
      \/ \E n \in ready : /\ \A k \in ready : k <= n
                          /\ commit_index' = [commit_index EXCEPT ![i] = n]

\* Responses move the indices of a global leader only.
\* Fault: of a local leader too.
CountsResponses_AnyLeader(i) == Leading(state[i])
CountsResponses(i) == state[i] = Leader

\* next_index of a peer after its response m: one beyond the match, or one back.
\* Fault: the match itself.
NextIndex_AtMatch(m, next) ==
  IF m.success THEN m.match_index ELSE IF next > 1 THEN next - 1 ELSE 1
NextIndex(m, next) ==
  IF m.success THEN m.match_index + 1 ELSE IF next > 1 THEN next - 1 ELSE 1

\* The response is not compared with the current term: one of an earlier term
\* of the same leader counts as well.
HandleAppendResponse(i, s) ==
  LET m     == Head(net[s][i])
      match == [match_index[i] EXCEPT ![s] = m.match_index]
  IN  /\ Arrives(s, i, "append_response")
      /\ StepDown(i, m.term)
      /\ peer_batteries' = [peer_batteries EXCEPT ![i][s] =
           IF m.term > current_term[i] THEN @ ELSE m.responder_battery]
      /\ \/ /\ m.term > current_term[i] \/ ~CountsResponses(i)
            /\ UNCHANGED <<next_index, match_index, commit_index>>
         \/ /\ m.term <= current_term[i] /\ CountsResponses(i)
            /\ next_index' = [next_index EXCEPT ![i][s] = NextIndex(m, @)]
            /\ \/ /\ m.success
                  /\ match_index' = [match_index EXCEPT ![i] = match]
                  /\ TryAdvanceCommit(i, match)
               \/ /\ ~m.success
                  /\ UNCHANGED <<match_index, commit_index>>
      /\ Transmit(Unread(s, i), i, Nothing)
      /\ UNCHANGED <<votes, elected, current_leader_id, log, triggerVars, handoff_sent,
                     partitionVars, battery, reports>>

-----------------------------------------------------------------------------
(* Sensor reports *)

Abs(x) == IF x < 0 THEN -x ELSE x

\* The coordinator-side delta check: a change under DELTA_THRESHOLD = 5%.
Insignificant(value, prev) == value = prev \/ 20 * Abs(value - prev) < Abs(prev)

\* _handle_sensor_data: forward or keep when not leading; otherwise propose,
\* filter, or add to the batch, which is flushed as soon as it is full.
TakeReading(rest, i, reading) ==
  LET prev     == last_sensor[i][reading.leaf]
      filtered == /\ Protocol # "raft"
                  /\ prev # None /\ Insignificant(reading.value, prev)
      batch    == Append(batch_buffer[i], reading)
      full     == Len(batch) >= MaxBatch
  IN  /\ \/ /\ ~Leading(state[i])
            /\ \/ /\ current_leader_id[i] \notin {None, i}
                  /\ Transmit(rest, i, Only(current_leader_id[i],
                       <<[type |-> "sensor_data", reading |-> reading]>>))
                  /\ UNCHANGED pending_triggers
               \/ /\ current_leader_id[i] \in {None, i}
                  /\ pending_triggers' = [pending_triggers EXCEPT ![i] = Append(@, reading)]
                  /\ Transmit(rest, i, Nothing)
            /\ UNCHANGED <<log, batch_buffer, last_sensor>>
         \/ /\ Leading(state[i]) /\ filtered
            /\ Transmit(rest, i, Nothing)
            /\ UNCHANGED <<log, batch_buffer, last_sensor, pending_triggers>>
         \/ /\ Leading(state[i]) /\ ~filtered
            /\ last_sensor' = IF Protocol = "raft" THEN last_sensor
                              ELSE [last_sensor EXCEPT ![i][reading.leaf] = reading.value]
            /\ \/ /\ Protocol # "echod"
                  /\ Replicate(rest, i, <<{reading}>>)
                  /\ UNCHANGED batch_buffer
               \/ /\ Protocol = "echod" /\ full
                  /\ Replicate(rest, i, <<Content(batch)>>)
                  /\ batch_buffer' = [batch_buffer EXCEPT ![i] = Flushed(batch)]
               \/ /\ Protocol = "echod" /\ ~full
                  /\ batch_buffer' = [batch_buffer EXCEPT ![i] = batch]
                  /\ Transmit(rest, i, Nothing)
                  /\ UNCHANGED log
            /\ UNCHANGED pending_triggers
      /\ UNCHANGED <<electionVars, current_leader_id, commit_index, next_index, match_index,
                     recent_reconciles, handoffVars, partitionVars, battery>>

\* A leaf publishes a report to the coordinator it is registered with.
LeafReport(i, reading) ==
  /\ reports < MaxReports /\ Busy <= EnvLoad
  /\ reports' = reports + 1
  /\ TakeReading(net, i, reading)
  /\ UNCHANGED admitted

\* A peer forwarded a report.
HandleSensorData(i, s) ==
  /\ Arrives(s, i, "sensor_data")
  /\ TakeReading(Unread(s, i), i, Head(net[s][i]).reading)
  /\ UNCHANGED reports

-----------------------------------------------------------------------------
(* Partition and reconciliation *)

\* The commands of a reconcile_batch that are not remembered yet, each once.
FreshPositions(cmds, recent) ==
  {k \in DOMAIN cmds : cmds[k] \notin Content(recent) /\ \A j \in 1..k-1 : cmds[j] # cmds[k]}

\* _handle_reconcile_batch: anything but a leader drops the batch.
HandleReconcileBatch(i, s) ==
  LET m == Head(net[s][i])
  IN  /\ Arrives(s, i, "reconcile_batch")
      /\ \/ /\ ~Leading(state[i])
            /\ Transmit(Unread(s, i), i, Nothing)
            /\ UNCHANGED <<log, recent_reconciles>>
         \/ /\ Leading(state[i])
            /\ \E at \in InOrder(FreshPositions(m.commands, recent_reconciles[i])) :
                 LET fresh  == [k \in DOMAIN at |-> m.commands[at[k]]]
                     recent == recent_reconciles[i] \o fresh
                 IN  /\ recent_reconciles' = [recent_reconciles EXCEPT ![i] =
                          IF Len(recent) > RecentCap THEN Suffix(recent, RecentCut) ELSE recent]
                     /\ Replicate(Unread(s, i), i, Proposed(fresh))
      /\ UNCHANGED <<electionVars, current_leader_id, commit_index, next_index, match_index,
                     pending_triggers, batch_buffer, last_sensor, handoffVars,
                     partitionVars, battery, reports>>

\* The operator publishes a partition or heal command; every coordinator gets
\* it, each in its own time.
PublishControl(c) ==
  /\ controls < MaxControls /\ Busy <= EnvLoad
  /\ controls' = controls + 1
  /\ control' = [i \in Node |-> Append(control[i], c)]
  /\ UNCHANGED <<electionVars, current_leader_id, replicationVars, triggerVars, handoffVars,
                 partition_epoch, blocked_senders, battery, reports, net, admitted>>

\* enter_provisional_mode and exit_provisional_mode; raft has neither.
\* Fault: a heal takes one from the epoch, whether or not there was a partition.
EpochAfter_Decrement(i, split) ==
  IF Protocol = "raft" THEN partition_epoch[i]
  ELSE IF split THEN partition_epoch[i] + 1 ELSE partition_epoch[i] - 1
EpochAfter(i, split) ==
  IF Protocol = "raft" THEN partition_epoch[i]
  ELSE IF split THEN partition_epoch[i] + 1 ELSE 0

\* Fault: a local leader goes on after the heal.
LeadAfter_NoExit(i, split) ==
  IF Protocol # "raft" /\ split /\ state[i] = Leader THEN LocalLeader ELSE state[i]
LeadAfter(i, split) ==
  IF Protocol = "raft" THEN state[i]
  ELSE IF split /\ state[i] = Leader THEN LocalLeader
  ELSE IF ~split /\ state[i] = LocalLeader THEN Follower
  ELSE state[i]

\* _handle_partition_control.  What a newly blocked sender has in flight may
\* have entered the inbox before: it stays deliverable.
HandlePartitionControl(i) ==
  LET c       == Head(control[i])
      split   == c.action = "partition"
      blocked == IF split THEN UNION {g \in c.groups : i \notin g} ELSE {}
  IN  /\ control[i] # <<>>
      /\ control' = [control EXCEPT ![i] = Tail(@)]
      /\ blocked_senders' = [blocked_senders EXCEPT ![i] = blocked]
      /\ admitted' = [admitted EXCEPT ![i] = [s \in Node |->
           IF s \notin blocked THEN 0
           ELSE IF s \in blocked_senders[i] THEN @[s] ELSE Len(net[s][i])]]
      /\ partition_epoch' = [partition_epoch EXCEPT ![i] = EpochAfter(i, split)]
      /\ state' = [state EXCEPT ![i] = LeadAfter(i, split)]
      /\ UNCHANGED <<current_term, voted_for, votes, elected, current_leader_id,
                     replicationVars, triggerVars, handoffVars, controls, battery,
                     reports, net>>

-----------------------------------------------------------------------------
(* The network *)

\* A message of a blocked sender reaches _dispatch and is dropped, and with it
\* every later one was not admitted either.
DropBlocked(s, d) ==
  /\ net[s][d] # <<>> /\ s \in blocked_senders[d]
  /\ net' = Unread(s, d)
  /\ admitted' = [admitted EXCEPT ![d][s] = 0]
  /\ UNCHANGED <<electionVars, current_leader_id, replicationVars, triggerVars, handoffVars,
                 partitionVars, battery, reports>>

Lose(s, d) ==
  /\ Lossy /\ net[s][d] # <<>>
  /\ net' = Unread(s, d)
  /\ admitted' = [admitted EXCEPT ![d][s] = IF @ > 0 THEN @ - 1 ELSE 0]
  /\ UNCHANGED <<electionVars, current_leader_id, replicationVars, triggerVars, handoffVars,
                 partitionVars, battery, reports>>

-----------------------------------------------------------------------------

Init ==
  /\ state = [i \in Node |-> Follower]
  /\ current_term = [i \in Node |-> 0]
  /\ voted_for = [i \in Node |-> None]
  /\ votes = [i \in Node |-> NoVotes]
  /\ current_leader_id = [i \in Node |-> None]
  /\ log = [i \in Node |-> <<>>]
  /\ commit_index = [i \in Node |-> 0]
  /\ next_index = [i \in Node |-> [p \in Node |-> 1]]
  /\ match_index = [i \in Node |-> [p \in Node |-> 0]]
  /\ pending_triggers = [i \in Node |-> <<>>]
  /\ batch_buffer = [i \in Node |-> <<>>]
  /\ last_sensor = [i \in Node |-> [l \in Leaf |-> None]]
  /\ recent_reconciles = [i \in Node |-> <<>>]
  /\ peer_batteries = [i \in Node |-> [p \in Node |-> 100]]
  /\ handoff_sent = [i \in Node |-> FALSE]
  /\ partition_epoch = [i \in Node |-> 0]
  /\ blocked_senders = [i \in Node |-> {}]
  /\ battery \in [Node -> Levels]
  /\ net = [s \in Node |-> Nothing]
  /\ admitted = [d \in Node |-> [s \in Node |-> 0]]
  /\ control = [i \in Node |-> <<>>]
  /\ reports = 0
  /\ controls = 0
  /\ elected = {}

\* A pass of the run loop of i.
Tick(i) ==
  \/ IdleTick(i)
  \/ ElectionTimeout(i)
  \/ RaftLeaderTick(i)
  \/ EchoLeaderTick(i)
  \/ EchodLeaderTick(i)

\* i handles the next message of s.
Receive(i, s) ==
  \/ HandleRequestVote(i, s)
  \/ HandleVoteResponse(i, s)
  \/ HandleAppendEntries(i, s)
  \/ HandleAppendResponse(i, s)
  \/ HandleLivenessPing(i, s)
  \/ HandleSensorData(i, s)
  \/ HandleLeadershipHandoff(i, s)
  \/ HandleReconcileBatch(i, s)

Environment ==
  \/ \E i \in Node, level \in Levels : BatteryMoves(i, level) \/ DemoSetBattery(i, level)
  \/ \E i \in Node, reading \in Reading : LeafReport(i, reading)
  \/ \E c \in Control : PublishControl(c)
  \/ \E s, d \in Node : DropBlocked(s, d) \/ Lose(s, d)

Next ==
  \/ \E i \in Node : Tick(i)
  \/ \E i, s \in Node : Receive(i, s)
  \/ \E i \in Node : HandlePartitionControl(i)
  \/ Environment

Spec == Init /\ [][Next]_vars
=============================================================================
