-------------------------- MODULE EchoMatching_proofs -------------------------
(***************************************************************************)
(* What follows from one winner per term for beliefs, nominations and      *)
(* logs.                                                                   *)
(*                                                                         *)
(* First, what a step does to terms, ballots, indices and logs is one of a *)
(* few kinds (StepKind); the later proofs go by these kinds and no longer  *)
(* by handlers.                                                            *)
(*                                                                         *)
(* Beliefs: whom a coordinator follows won a later term than it ever won   *)
(* itself (FollowsLater), so along a circle of beliefs the terms won would *)
(* grow for ever: ForwardingAlwaysEnds.  Nominations: who nominated won    *)
(* the term it gave up and does not come back to it: NominationsAreFinal.  *)
(*                                                                         *)
(* Logs: H[t] is the log that the winner of term t had last while it led.  *)
(* Every entry of term t, in a log or under way, is in H[t] with all that  *)
(* lies before it (MatchInv), so logs that agree on the term of a position *)
(* agree with one history up to it: LogsMatch.  H is not a variable of the *)
(* specification; the invariant says that some H fits, and every step is   *)
(* shown to have a next one (NextMatch).                                   *)
(***************************************************************************)
EXTENDS EchoReplication_proofs

-----------------------------------------------------------------------------
(* The kinds of steps, by what they do to terms, ballots and logs *)

\* n starts no candidacy and no leadership.
Keeps(n) ==
  /\ current_term'[n] >= current_term[n]
  /\ Leading(state'[n]) => Leading(state[n]) /\ current_term'[n] = current_term[n]
  /\ state'[n] = Candidate =>
       /\ state[n] = Candidate /\ current_term'[n] = current_term[n] /\ votes'[n] = votes[n]

RestStep ==
  /\ UNCHANGED <<replicationVars, elected>>
  /\ \A n \in Node : Keeps(n)

StartStep(i) ==
  /\ UNCHANGED <<replicationVars, elected>>
  /\ \E term \in Nat :
       term > current_term[i] /\ current_term' = [current_term EXCEPT ![i] = term]
  /\ state' = [state EXCEPT ![i] = Candidate]
  /\ votes' = [votes EXCEPT ![i] = [NoVotes EXCEPT ![i] = battery[i]]]

Ballots(i, s) ==
  LET m == Head(net[s][i])
  IN  IF m.vote_granted THEN [votes[i] EXCEPT ![s] = m.voter_battery] ELSE votes[i]

\* i counts the response of s.
Counting(i, s) ==
  LET m == Head(net[s][i])
  IN  /\ m \in Content(net[s][i]) /\ m.type = "vote_response" /\ m.term = current_term[i]
      /\ state[i] = Candidate
      /\ current_term' = current_term /\ commit_index' = commit_index
      /\ votes' = [votes EXCEPT ![i] = Ballots(i, s)]

CountStep(i, s) ==
  Counting(i, s) /\ UNCHANGED <<state, elected, log, next_index, match_index>>

GrowStep(i) == \E cmds \in Seq(Command) : log' = [log EXCEPT ![i] = Extended(i, cmds)]

\* The battery level that the win is recorded with does not matter here.
WinningStep(i, s) ==
  /\ Counting(i, s) /\ IsMajority(Voters(Ballots(i, s)))
  /\ state' = [state EXCEPT ![i] = Leader]
  /\ \E level : elected' = elected \cup
       {[term |-> current_term[i], leader |-> i, quorum |-> Voters(Ballots(i, s)),
         battery_level |-> level]}
  /\ next_index' = [next_index EXCEPT ![i] = [p \in Node |-> Len(log[i]) + 1]]
  /\ match_index' = [match_index EXCEPT ![i] = [p \in Node |-> 0]]
  /\ GrowStep(i)

ProposeStep(i) ==
  /\ Leading(state[i]) /\ state' \in {state, HandedOver(i)}
  /\ UNCHANGED <<current_term, votes, elected, commit_index, next_index, match_index>>
  /\ GrowStep(i)

\* The commit index follows the leader's or stays, as at a follower of the simulator, whose
\* log commits within its length only.
AcceptStep(i, s) ==
  LET m == Head(net[s][i])
      merged == Merged(log[i], m.prev_log_index, m.entries)
  IN  /\ m \in Content(net[s][i]) /\ m.type = "append_entries" /\ m.term >= current_term[i]
      /\ Consistent(log[i], m.prev_log_index, m.prev_log_term)
      /\ current_term' = [current_term EXCEPT ![i] = m.term]
      /\ state'[i] # Candidate /\ \A n \in Node : Keeps(n)
      /\ UNCHANGED <<elected, next_index, match_index>>
      /\ log' = [log EXCEPT ![i] = merged]
      /\ commit_index' \in
           {commit_index, [commit_index EXCEPT ![i] =
                             CommitAfter(@, m.leader_commit, Len(merged))]}

AckStep(i, s) ==
  LET m == Head(net[s][i])
      match == [match_index[i] EXCEPT ![s] = m.match_index]
  IN  /\ m \in Content(net[s][i]) /\ m.type = "append_response" /\ m.term <= current_term[i]
      /\ state[i] = Leader
      /\ UNCHANGED <<state, current_term, votes, elected, log>>
      /\ next_index' = [next_index EXCEPT ![i][s] = NextIndex(m, @)]
      /\ \/ /\ m.success
            /\ match_index' = [match_index EXCEPT ![i] = match]
            /\ TryAdvanceCommit(i, match)
         \/ ~m.success /\ UNCHANGED <<match_index, commit_index>>

StepKind ==
  \/ RestStep
  \/ \E i \in Node : StartStep(i) \/ ProposeStep(i)
  \/ \E i, s \in Node : CountStep(i, s) \/ WinningStep(i, s) \/ AcceptStep(i, s) \/ AckStep(i, s)

LEMMA QuietKeeps ==
  ASSUME Quiet
  PROVE  elected' = elected /\ \A n \in Node : Keeps(n)
  BY DEF Quiet, NodeQuiet, Keeps

LEMMA SameKeeps ==
  ASSUME TypeOK, UNCHANGED electionVars
  PROVE  elected' = elected /\ \A n \in Node : Keeps(n)
  <1>1. \A n \in Node : current_term[n] >= current_term[n]
    BY DEF TypeOK
  <1> QED
    BY <1>1 DEF Keeps, electionVars

LEMMA GrowsBy ==
  ASSUME NEW i, NEW cmds \in Seq(Command), log' = [log EXCEPT ![i] = Extended(i, cmds)]
  PROVE  GrowStep(i)
  BY DEF GrowStep

LEMMA StartElectionKind ==
  ASSUME TypeOK, NEW i \in Node, NEW rest, NEW term \in Nat, term >= current_term[i],
         StartElection(rest, i, term), UNCHANGED replicationVars
  PROVE  StartStep(i)
  <1>1. term + 1 \in Nat /\ term + 1 > current_term[i]
    BY DEF TypeOK
  <1> QED
    BY <1>1 DEF StartElection, StartStep

\* A reading that i takes, whoever brings it.
LEMMA TakeReadingKind ==
  ASSUME TypeOK, NEW i \in Node, NEW rest, NEW reading \in Reading,
         TakeReading(rest, i, reading)
  PROVE  RestStep \/ ProposeStep(i)
  <1> DEFINE batch == Append(batch_buffer[i], reading)
  <1>1. batch \in Seq(Reading)
    BY AppendProperties DEF TypeOK
  <1>2. <<{reading}>> \in Seq(Command) /\ <<Content(batch)>> \in Seq(Command)
    <2>1. {reading} \in Command
      BY DEF Command
    <2>2. Content(batch) \in Command
      BY <1>1, ContentType
    <2> QED
      BY <2>1, <2>2
  <1>3. /\ UNCHANGED <<electionVars, commit_index, next_index, match_index>>
        /\ \/ UNCHANGED log
           \/ /\ Leading(state[i])
              /\ \/ log' = [log EXCEPT ![i] = Extended(i, <<{reading}>>)]
                 \/ log' = [log EXCEPT ![i] = Extended(i, <<Content(batch)>>)]
    BY DEF TakeReading, Replicate
  <1> HIDE DEF batch
  <1>4. CASE UNCHANGED log
    BY <1>3, <1>4, SameKeeps DEF RestStep, replicationVars
  <1>5. CASE /\ Leading(state[i])
             /\ \/ log' = [log EXCEPT ![i] = Extended(i, <<{reading}>>)]
                \/ log' = [log EXCEPT ![i] = Extended(i, <<Content(batch)>>)]
    <2>1. GrowStep(i)
      BY <1>2, <1>5, GrowsBy, Zenon
    <2> QED
      BY <1>3, <1>5, <2>1 DEF ProposeStep, electionVars
  <1> QED
    BY <1>3, <1>4, <1>5

LEMMA TickKind ==
  ASSUME TypeOK, ObserversStay, NEW i \in Node, Tick(i)
  PROVE  StepKind
  <1>1. CASE IdleTick(i)
    BY <1>1, IdleTickQuiet, QuietKeeps DEF IdleTick, RestStep, StepKind
  <1>2. CASE ElectionTimeout(i)
    <2>1. current_term[i] \in Nat /\ current_term[i] >= current_term[i]
      BY DEF TypeOK
    <2> QED
      BY <1>2, <2>1, StartElectionKind DEF ElectionTimeout, StepKind
  <1>3. CASE RaftLeaderTick(i) \/ EchoLeaderTick(i)
    BY <1>3, SameKeeps DEF RaftLeaderTick, EchoLeaderTick, RestStep, StepKind
  <1>4. CASE EchodLeaderTick(i)
    <2> DEFINE batch(flush) == IF flush THEN <<Content(batch_buffer[i])>> ELSE <<>>
    <2>1. PICK flush \in BOOLEAN : log' = [log EXCEPT ![i] = Extended(i, batch(flush))]
      BY <1>4 DEF EchodLeaderTick
    <2>2. batch_buffer[i] \in Seq(Reading)
      BY DEF TypeOK
    <2>3. batch(flush) \in Seq(Command)
      BY <2>2, ContentType, EmptySeq
    <2> HIDE DEF batch
    <2>4. GrowStep(i)
      BY <2>1, <2>3, GrowsBy
    <2>5. Leading(state[i])
      BY <1>4
      DEF EchodLeaderTick, CheckedState, Leading, Observer, Follower, Leader, LocalLeader
    <2>6. /\ state' \in {state, HandedOver(i)}
          /\ UNCHANGED <<current_term, votes, elected, commit_index, next_index, match_index>>
      BY <1>4 DEF EchodLeaderTick
    <2> QED
      BY <2>4, <2>5, <2>6 DEF ProposeStep, StepKind
  <1> QED
    BY <1>1, <1>2, <1>3, <1>4 DEF Tick

LEMMA HandleRequestVoteKind ==
  ASSUME TypeOK, NEW i \in Node, NEW s \in Node, HandleRequestVote(i, s)
  PROVE  RestStep
  <1> DEFINE m == Head(net[s][i])
  <1>1. m \in Message /\ m.type = "request_vote"
    BY ArrivesType DEF HandleRequestVote
  <1>2. m.term \in Nat
    BY <1>1, MessageFields
  <1>3. /\ current_term' = [current_term EXCEPT ![i] = TermAfter(i, m.term)]
        /\ state' = [state EXCEPT ![i] = StateAfter(i, m.term)]
        /\ UNCHANGED <<votes, elected, replicationVars>>
    BY DEF HandleRequestVote
  <1>4. current_term \in [Node -> Nat] /\ state \in [Node -> NodeState]
    BY DEF TypeOK
  <1>5. Keeps(i)
    BY <1>2, <1>3, <1>4
    DEF Keeps, TermAfter, StateAfter, Leading, Candidate, Follower, Leader, LocalLeader
  <1>6. \A n \in Node \ {i} : Keeps(n)
    BY <1>3, <1>4 DEF Keeps
  <1> QED
    BY <1>3, <1>5, <1>6 DEF RestStep

LEMMA HandleVoteResponseKind ==
  ASSUME TypeOK, NEW i \in Node, NEW s \in Node, HandleVoteResponse(i, s)
  PROVE  RestStep \/ CountStep(i, s) \/ WinningStep(i, s)
  <1> DEFINE m == Head(net[s][i])
             counts == state[i] = Candidate /\ m.term = current_term[i]
  <1>1. /\ net \in Network /\ net[s][i] # <<>> /\ m \in Message /\ m.type = "vote_response"
        /\ current_term \in [Node -> Nat] /\ state \in [Node -> NodeState]
        /\ UNCHANGED commit_index
    BY ArrivesType DEF TypeOK, Network, HandleVoteResponse, Arrives
  <1>2. m.term \in Nat /\ m \in Content(net[s][i])
    BY <1>1, MessageFields, UnreadContent
  <1>3. CASE /\ ~counts /\ StepDown(i, m.term)
             /\ UNCHANGED <<votes, elected, log, next_index, match_index>>
    <2>1. Keeps(i)
      BY <1>1, <1>2, <1>3
      DEF StepDown, Keeps, TermAfter, StateAfter, Leading, Candidate, Follower, Leader,
          LocalLeader
    <2>2. \A n \in Node \ {i} : Keeps(n)
      BY <1>1, <1>3 DEF StepDown, Keeps
    <2> QED
      BY <1>1, <1>3, <2>1, <2>2 DEF RestStep, replicationVars
  <1>4. ASSUME counts, votes' = [votes EXCEPT ![i] = Ballots(i, s)], UNCHANGED current_term
        PROVE  Counting(i, s)
    BY <1>1, <1>2, <1>4 DEF Counting
  <1>5. CASE /\ counts /\ votes' = [votes EXCEPT ![i] = Ballots(i, s)]
             /\ UNCHANGED <<current_term, state, elected, log, next_index, match_index>>
    BY <1>4, <1>5 DEF CountStep
  <1>6. CASE /\ counts /\ votes' = [votes EXCEPT ![i] = Ballots(i, s)]
             /\ UNCHANGED current_term
             /\ IsMajority(Voters(Ballots(i, s)))
             /\ BecomeLeader(Unread(s, i), i, Ballots(i, s))
    <2> DEFINE cmds == Proposed(Singletons(pending_triggers[i]))
    <2>1. cmds \in Seq(Command)
      BY ContentType, ProposedType DEF TypeOK
    <2>2. GrowStep(i)
      BY <1>6, <2>1 DEF GrowStep, BecomeLeader
    <2> HIDE DEF counts
    <2> QED
      BY <1>4, <1>6, <2>2 DEF WinningStep, BecomeLeader
  <1> QED
    BY <1>3, <1>5, <1>6 DEF HandleVoteResponse, Ballots

LEMMA HandleAppendEntriesKind ==
  ASSUME TypeInv, ObserversStay, NEW i \in Node, NEW s \in Node, HandleAppendEntries(i, s)
  PROVE  RestStep \/ AcceptStep(i, s)
  <1> DEFINE m == Head(net[s][i])
             st == StateAfter(i, m.term)
  <1>1. /\ net \in Network /\ net[s][i] # <<>> /\ m \in Message /\ m.type = "append_entries"
        /\ state \in [Node -> NodeState] /\ UNCHANGED <<next_index, match_index>>
        /\ m \in Content(net[s][i])
    BY ArrivesType, UnreadContent DEF TypeInv, TypeOK, Network, HandleAppendEntries, Arrives
  <1>2. elected' = elected /\ \A n \in Node : Keeps(n)
    BY HandleAppendEntriesQuiet, QuietKeeps
  <1>3. CASE UNCHANGED <<log, commit_index>>
    BY <1>1, <1>2, <1>3 DEF RestStep, replicationVars
  <1>4. CASE /\ m.term >= current_term[i]
             /\ current_term' = [current_term EXCEPT ![i] = m.term]
             /\ state' = [state EXCEPT ![i] = IF st = Candidate THEN Follower ELSE st]
             /\ Consistent(log[i], m.prev_log_index, m.prev_log_term)
             /\ MergeEntries(Unread(s, i), i, s, m)
    <2>1. state'[i] # Candidate
      BY <1>1, <1>4 DEF Candidate, Follower
    <2> QED
      BY <1>1, <1>2, <1>4, <2>1 DEF AcceptStep, MergeEntries
  <1> QED
    BY <1>3, <1>4 DEF HandleAppendEntries

LEMMA HandleAppendResponseKind ==
  ASSUME TypeOK, ObserversStay, NEW i \in Node, NEW s \in Node, HandleAppendResponse(i, s)
  PROVE  RestStep \/ AckStep(i, s)
  <1> DEFINE m == Head(net[s][i])
  <1>1. /\ net \in Network /\ net[s][i] # <<>> /\ m \in Message /\ m.type = "append_response"
        /\ state \in [Node -> NodeState] /\ current_term \in [Node -> Nat]
        /\ UNCHANGED <<votes, elected, log>> /\ StepDown(i, m.term)
        /\ m \in Content(net[s][i])
    BY ArrivesType, UnreadContent DEF TypeOK, Network, HandleAppendResponse, Arrives
  <1>2. m.term \in Nat
    BY <1>1, MessageFields
  <1>3. CASE UNCHANGED <<next_index, match_index, commit_index>>
    BY <1>1, <1>3, HandleAppendResponseQuiet, QuietKeeps DEF RestStep, replicationVars
  <1>4. CASE m.term <= current_term[i] /\ CountsResponses(i)
    <2>1. UNCHANGED <<state, current_term>>
      BY <1>1, <1>2, <1>4 DEF StepDown, TermAfter, StateAfter
    <2> QED
      BY <1>1, <1>2, <1>4, <2>1 DEF HandleAppendResponse, CountsResponses, AckStep
  <1> QED
    BY <1>3, <1>4 DEF HandleAppendResponse

LEMMA HandleReconcileBatchKind ==
  ASSUME TypeOK, NEW i \in Node, NEW s \in Node, HandleReconcileBatch(i, s)
  PROVE  RestStep \/ ProposeStep(i)
  <1> DEFINE m == Head(net[s][i])
             P == FreshPositions(m.commands, recent_reconciles[i])
             fresh(at) == [k \in DOMAIN at |-> m.commands[at[k]]]
  <1>1. /\ m \in Message /\ m.type = "reconcile_batch"
        /\ UNCHANGED <<electionVars, commit_index, next_index, match_index>>
    BY ArrivesType DEF HandleReconcileBatch
  <1>2. m.commands \in Seq(Command)
    BY <1>1, MessageFields
  <1>3. CASE UNCHANGED log
    BY <1>1, <1>3, SameKeeps DEF RestStep, replicationVars
  <1>4. ASSUME Leading(state[i]), NEW at \in InOrder(P),
               log' = [log EXCEPT ![i] = Extended(i, Proposed(fresh(at)))]
        PROVE  ProposeStep(i)
    <2>1. Proposed(fresh(at)) \in Seq(Command)
      BY <1>2, <1>4, FreshCommandsType, ProposedType
    <2>2. GrowStep(i)
      BY <1>4, <2>1, GrowsBy, Zenon
    <2> QED
      BY <1>1, <1>4, <2>2 DEF ProposeStep, electionVars
  <1> QED
    BY <1>3, <1>4 DEF HandleReconcileBatch, Replicate

LEMMA ReceiveKind ==
  ASSUME TypeInv, ObserversStay, NEW i \in Node, NEW s \in Node, Receive(i, s)
  PROVE  StepKind
  <1> DEFINE m == Head(net[s][i])
  <1>1. TypeOK
    BY DEF TypeInv
  <1>2. CASE HandleLivenessPing(i, s)
    BY <1>1, <1>2, HandleLivenessPingQuiet, QuietKeeps DEF HandleLivenessPing, RestStep, StepKind
  <1>3. CASE HandleSensorData(i, s)
    <2>1. m \in Message /\ m.type = "sensor_data" /\ TakeReading(Unread(s, i), i, m.reading)
      BY <1>1, <1>3, ArrivesType DEF HandleSensorData
    <2>2. m.reading \in Reading
      BY <2>1, MessageFields
    <2> QED
      BY <1>1, <2>1, <2>2, TakeReadingKind DEF StepKind
  <1>4. CASE HandleLeadershipHandoff(i, s)
    <2>1. /\ m \in Message /\ m.type = "leadership_handoff" /\ current_term[i] \in Nat
          /\ UNCHANGED replicationVars
      BY <1>1, <1>4, ArrivesType DEF TypeOK, HandleLeadershipHandoff
    <2>2. m.term \in Nat
      BY <2>1, MessageFields
    <2>3. TermAfter(i, m.term) \in Nat /\ TermAfter(i, m.term) >= current_term[i]
      BY <2>1, <2>2 DEF TermAfter
    <2>4. CASE StartElection(Unread(s, i), i, TermAfter(i, m.term))
      BY <1>1, <2>1, <2>3, <2>4, StartElectionKind DEF StepKind
    <2>5. CASE UNCHANGED electionVars
      BY <1>1, <2>1, <2>5, SameKeeps DEF RestStep, StepKind
    <2> QED
      BY <1>4, <2>4, <2>5 DEF HandleLeadershipHandoff
  <1>5. CASE HandleRequestVote(i, s) \/ HandleVoteResponse(i, s)
    BY <1>1, <1>5, HandleRequestVoteKind, HandleVoteResponseKind DEF StepKind
  <1>6. CASE HandleAppendEntries(i, s) \/ HandleAppendResponse(i, s)
    BY <1>1, <1>6, HandleAppendEntriesKind, HandleAppendResponseKind DEF StepKind
  <1>7. CASE HandleReconcileBatch(i, s)
    BY <1>1, <1>7, HandleReconcileBatchKind DEF StepKind
  <1> QED
    BY <1>2, <1>3, <1>4, <1>5, <1>6, <1>7 DEF Receive

\* Every step is of one of these kinds.
LEMMA NextKind ==
  ASSUME NoRecovery, TypeInv, ElectionInv, [Next]_vars
  PROVE  StepKind
  <1>1. TypeOK /\ ObserversStay
    BY DEF TypeInv, ElectionInv
  <1>2. ASSUME NEW i \in Node, HandlePartitionControl(i) PROVE RestStep
    BY <1>1, <1>2, HandlePartitionControlQuiet, QuietKeeps DEF HandlePartitionControl, RestStep
  <1>3. ASSUME NEW i \in Node, NEW level \in Levels, BatteryMoves(i, level) \/ DemoSetBattery(i, level)
        PROVE  RestStep
    <2>1. UNCHANGED replicationVars
      BY <1>3 DEF BatteryMoves, DemoSetBattery
    <2> QED
      BY <1>1, <1>3, <2>1, BatteryMovesQuiet, DemoSetBatteryQuiet, QuietKeeps DEF RestStep
  <1>4. ASSUME NEW i \in Node, NEW reading \in Reading, LeafReport(i, reading) PROVE StepKind
    BY <1>1, <1>4, TakeReadingKind DEF LeafReport, StepKind
  <1>5. ASSUME NEW s \in Node, NEW d \in Node, DropBlocked(s, d) \/ Lose(s, d) PROVE RestStep
    <2>1. UNCHANGED replicationVars
      BY <1>5 DEF DropBlocked, Lose
    <2> QED
      BY <1>1, <1>5, <2>1, DropsQuiet, QuietKeeps DEF RestStep
  <1>6. ASSUME NEW c \in Control, PublishControl(c) PROVE RestStep
    BY <1>1, <1>6, SameKeeps DEF PublishControl, RestStep
  <1>7. CASE UNCHANGED vars
    BY <1>1, <1>7, SameKeeps DEF vars, RestStep, StepKind
  <1>8. CASE Environment
    BY <1>3, <1>4, <1>5, <1>6, <1>8 DEF Environment, StepKind
  <1>9. CASE (\E i \in Node : Tick(i)) \/ (\E i, s \in Node : Receive(i, s))
    BY <1>1, <1>9, TickKind, ReceiveKind
  <1>10. CASE \E i \in Node : HandlePartitionControl(i)
    BY <1>2, <1>10 DEF StepKind
  <1> QED
    BY <1>7, <1>8, <1>9, <1>10 DEF Next

-----------------------------------------------------------------------------
(* Who is believed to lead *)

\* A belief comes from a ping or from entries, of the present term or a later one, and
\* whoever wins believes in itself.
Learns(n, s) ==
  /\ \E m \in Content(net[s][n]) : /\ m.type \in {"liveness_ping", "append_entries"}
                                   /\ m.term >= current_term[n]
  /\ current_leader_id'[n] = s

BeliefStep ==
  /\ \A n \in Node : \/ current_leader_id'[n] \in {current_leader_id[n], None, n}
                     \/ \E s \in Node : Learns(n, s)
  /\ \A f \in elected' : f \in elected \/ current_leader_id'[f.leader] = f.leader

LEMMA SameBeliefs ==
  ASSUME UNCHANGED <<current_leader_id, elected>>
  PROVE  BeliefStep
  BY DEF BeliefStep

LEMMA StartElectionBeliefs ==
  ASSUME TypeOK, NEW i \in Node, NEW rest, NEW term, StartElection(rest, i, term)
  PROVE  BeliefStep
  BY DEF TypeOK, StartElection, BeliefStep

LEMMA ReceiveBeliefs ==
  ASSUME TypeOK, NEW i \in Node, NEW s \in Node, Receive(i, s)
  PROVE  BeliefStep
  <1> DEFINE m == Head(net[s][i])
  <1>1. current_leader_id \in [Node -> Node \cup {None}] /\ net \in Network
    BY DEF TypeOK, Network
  <1>2. CASE HandleVoteResponse(i, s)
    <2> DEFINE ballots == IF m.vote_granted THEN [votes[i] EXCEPT ![s] = m.voter_battery]
                          ELSE votes[i]
    <2>1. CASE BecomeLeader(Unread(s, i), i, ballots)
      <3> DEFINE win == [term |-> current_term[i], leader |-> i, quorum |-> Voters(ballots),
                         battery_level |-> ballots[i]]
      <3>1. /\ current_leader_id' = [current_leader_id EXCEPT ![i] = i]
            /\ elected' = elected \cup {win} /\ win.leader = i
        BY <2>1 DEF BecomeLeader
      <3> HIDE DEF win
      <3> QED
        BY <1>1, <3>1 DEF BeliefStep
    <2> HIDE DEF ballots
    <2>2. CASE UNCHANGED <<current_leader_id, elected>>
      BY <2>2, SameBeliefs
    <2> QED
      BY <1>2, <2>1, <2>2 DEF HandleVoteResponse, ballots
  <1>3. ASSUME NEW type \in {"liveness_ping", "append_entries"}, Arrives(s, i, type),
               m.term >= current_term[i],
               current_leader_id' = [current_leader_id EXCEPT ![i] = s],
               UNCHANGED elected
        PROVE  BeliefStep
    <2>1. m \in Content(net[s][i]) /\ m.type = type
      BY <1>1, <1>3, UnreadContent DEF Arrives
    <2>2. Learns(i, s)
      BY <1>1, <1>3, <2>1 DEF Learns
    <2>3. \A n \in Node \ {i} : current_leader_id'[n] = current_leader_id[n]
      BY <1>1, <1>3
    <2> QED
      BY <1>3, <2>2, <2>3 DEF BeliefStep
  <1>4. CASE HandleLivenessPing(i, s)
    <2>1. CASE m.term >= current_term[i]
      BY <1>3, <1>4, <2>1 DEF HandleLivenessPing
    <2>2. CASE ~(m.term >= current_term[i])
      BY <1>1, <1>4, <2>2 DEF HandleLivenessPing, BeliefStep
    <2> QED
      BY <2>1, <2>2
  <1>5. CASE HandleAppendEntries(i, s)
    BY <1>3, <1>5, SameBeliefs DEF HandleAppendEntries
  <1>6. CASE HandleLeadershipHandoff(i, s)
    BY <1>6, StartElectionBeliefs, SameBeliefs DEF HandleLeadershipHandoff, electionVars
  <1>7. CASE HandleRequestVote(i, s) \/ HandleAppendResponse(i, s)
    BY <1>7, SameBeliefs DEF HandleRequestVote, HandleAppendResponse
  <1>8. CASE HandleSensorData(i, s) \/ HandleReconcileBatch(i, s)
    BY <1>8, SameBeliefs DEF HandleSensorData, TakeReading, HandleReconcileBatch, electionVars
  <1> QED
    BY <1>2, <1>4, <1>5, <1>6, <1>7, <1>8 DEF Receive

LEMMA NextBeliefs ==
  ASSUME TypeOK, [Next]_vars
  PROVE  BeliefStep
  <1>1. ASSUME NEW i \in Node, Tick(i) PROVE BeliefStep
    <2>1. CASE ElectionTimeout(i)
      BY <2>1, StartElectionBeliefs DEF ElectionTimeout
    <2>2. CASE UNCHANGED <<current_leader_id, elected>>
      BY <2>2, SameBeliefs
    <2> QED
      BY <1>1, <2>1, <2>2
      DEF Tick, IdleTick, RaftLeaderTick, EchoLeaderTick, EchodLeaderTick, electionVars
  <1>2. ASSUME (\E i \in Node : HandlePartitionControl(i)) \/ Environment \/ UNCHANGED vars
        PROVE  UNCHANGED <<current_leader_id, elected>>
    BY <1>2 DEF HandlePartitionControl, Environment, BatteryMoves, DemoSetBattery, LeafReport,
                TakeReading, PublishControl, DropBlocked, Lose, electionVars, vars
  <1> QED
    BY <1>1, <1>2, ReceiveBeliefs, SameBeliefs DEF Next

\* A ping under way goes to another coordinator, from the winner of its term.
PingsFromWinners ==
  \A s, d \in Node : \A m \in Content(net[s][d]) : m.type = "liveness_ping" =>
    s # d /\ \E e \in elected : e.leader = s /\ e.term = m.term

\* Whom i follows won a term later than every term that i won.
FollowsLater ==
  \A i \in Node : current_leader_id[i] \notin {None, i} =>
    \E e \in elected : /\ e.leader = current_leader_id[i]
                       /\ \A f \in elected : f.leader = i => f.term < e.term

BeliefInv == PingsFromWinners /\ FollowsLater

LEMMA NextBeliefInv ==
  ASSUME NoRecovery, TypeInv, TypeInv', ElectionInv, CandidaciesOpen, EntriesFromWinners,
         BeliefInv, [Next]_vars
  PROVE  BeliefInv'
  <1>1. elected \subseteq elected' /\ LeadersOnRecord /\ TypeOK /\ ElectionSafety
    BY WinnersStayOnRecord, OneWinner DEF ElectionInv, TypeInv
  <1>2. PingsFromWinners'
    <2> SUFFICES ASSUME NEW s \in Node, NEW d \in Node, NEW o \in Content(net'[s][d]),
                        o.type = "liveness_ping"
                 PROVE  s # d /\ \E e \in elected' : e.leader = s /\ e.term = o.term
      BY DEF PingsFromWinners, Content
    <2>1. o \in Content(net[s][d]) \/ SentPing(s, d, o)
      BY <1>1, NextSends DEF MessageStep, Sent
    <2> QED
      BY <1>1, <2>1 DEF BeliefInv, PingsFromWinners, SentPing, WonTerm
  <1>3. BeliefStep
    BY <1>1, NextBeliefs
  <1>4. FollowsLater'
    <2> SUFFICES ASSUME NEW i \in Node, current_leader_id'[i] \notin {None, i}
                 PROVE  \E e \in elected' : /\ e.leader = current_leader_id'[i]
                                            /\ \A f \in elected' : f.leader = i => f.term < e.term
      BY DEF FollowsLater
    <2>1. \A f \in elected' : f.leader = i => f \in elected
      BY <1>3 DEF BeliefStep
    <2>2. CASE current_leader_id'[i] = current_leader_id[i]
      BY <1>1, <2>1, <2>2 DEF BeliefInv, FollowsLater
    <2>3. ASSUME NEW s \in Node, Learns(i, s)
          PROVE  \E e \in elected : e.leader = s /\ \A f \in elected : f.leader = i => f.term < e.term
      <3>1. PICK m \in Content(net[s][i]) :
              m.type \in {"liveness_ping", "append_entries"} /\ m.term >= current_term[i]
        BY <2>3 DEF Learns
      <3>2. PICK e \in elected : s # i /\ e.leader = s /\ e.term = m.term
        BY <3>1 DEF BeliefInv, PingsFromWinners, EntriesFromWinners
      <3>3. \A f \in elected : f.leader = i => f.term <= current_term[i] /\ f.term # e.term
        BY <1>1, <3>2 DEF CandidaciesOpen, ElectionSafety
      <3>4. current_term[i] \in Nat /\ \A f \in elected : f.term \in Nat
        BY <1>1 DEF TypeOK
      <3> QED
        BY <3>1, <3>2, <3>3, <3>4
    <2> QED
      BY <1>1, <1>3, <2>1, <2>2, <2>3 DEF BeliefStep, Learns
  <1> QED
    BY <1>2, <1>4 DEF BeliefInv

\* Those that won the term of e or a later one.
WonSince(e) == {n \in Node : \E f \in elected : f.leader = n /\ f.term >= e.term}

\* Following the beliefs leads to later and later winners, of which there are fewer and
\* fewer: they cannot come back.
LEMMA BeliefsEnd ==
  ASSUME TypeOK, FollowsLater
  PROVE  ForwardingEnds
  <1> SUFFICES ASSUME NEW group \in SUBSET Node, group # {},
                      \A i \in group : current_leader_id[i] \in group \ {i}
               PROVE  FALSE
    BY DEF ForwardingEnds
  <1> DEFINE W == {e \in elected : e.leader \in group}
             Sizes == {WonSince(e) : e \in W}
  <1>1. ASSUME NEW i \in group
        PROVE  \E e \in W : \A f \in elected : f.leader = i => f.term < e.term
    <2>1. current_leader_id[i] \notin {None, i}
      BY NoneAssumption
    <2> QED
      BY <2>1 DEF FollowsLater
  <1>2. Sizes # {} /\ Sizes \subseteq FiniteSubsetsOf(Node)
    <2>1. \A e \in W : IsFiniteSet(WonSince(e)) /\ WonSince(e) \subseteq Node
      BY NodeAssumption, FS_Subset DEF WonSince
    <2>2. PICK e \in W : TRUE
      BY <1>1
    <2>3. WonSince(e) \in Sizes
      OBVIOUS
    <2> QED
      BY <2>1, <2>3, Zenon DEF FiniteSubsetsOf
  <1>3. PICK S \in Sizes : \A R \in Sizes : <<R, S>> \notin StrictSubsetOrdering(Node)
    BY <1>2, WFMin, FS_StrictSubsetOrderingWellFounded
  <1>4. PICK e \in W : S = WonSince(e)
    OBVIOUS
  <1>5. PICK later \in W : \A f \in elected : f.leader = e.leader => f.term < later.term
    BY <1>1
  <1>6. e.term \in Nat /\ later.term \in Nat /\ e.leader \in Node /\ \A f \in elected : f.term \in Nat
    BY DEF TypeOK
  <1>7. WonSince(later) \subseteq S /\ e.leader \in S /\ e.leader \notin WonSince(later)
    BY <1>4, <1>5, <1>6 DEF WonSince
  <1>8. <<WonSince(later), S>> \in StrictSubsetOrdering(Node)
    BY <1>4, <1>7 DEF StrictSubsetOrdering, WonSince
  <1> QED
    BY <1>3, <1>8

\* However late pings and entries arrive, in whatever order, and whoever leads by then:
\* a report that is forwarded along the beliefs about who leads reaches a coordinator
\* that leads, knows nobody, or believes in one outside the group.
THEOREM ForwardingAlwaysEnds == NoRecovery => (Spec => []ForwardingEnds)
  <1> SUFFICES ASSUME NoRecovery PROVE Spec => []ForwardingEnds
    OBVIOUS
  <1>1. Init => BeliefInv
    BY ContentOfShort DEF Init, Nothing, BeliefInv, PingsFromWinners, FollowsLater
  <1>2. /\ TypeInv /\ TypeInv' /\ ElectionInv /\ CandidaciesOpen /\ EntriesFromWinners
        /\ BeliefInv /\ [Next]_vars
        => BeliefInv'
    BY NextBeliefInv
  <1>3. TypeInv /\ BeliefInv => ForwardingEnds
    BY BeliefsEnd DEF TypeInv, BeliefInv
  <1> QED
    BY <1>1, <1>2, <1>3, TypeInvariant, ElectionInvariant, OpenInvariant, EntriesAreWinners, PTL
    DEF Spec

-----------------------------------------------------------------------------
(* Nominations *)

IsHandoff(o) == o.type = "leadership_handoff"

\* A nomination under way is of a term that the nominator won.
NominatorsWon ==
  \A s, d \in Node : \A m \in Content(net[s][d]) :
    IsHandoff(m) => \E e \in elected : e.leader = s /\ e.term = m.term

NominationInv == NominatorsWon /\ NominationIsFinal

\* A coordinator that gave up a term it won does not come to lead it again.
LEMMA NoReturn ==
  ASSUME NoRecovery, TypeInv, TypeInv', ElectionInv, CandidaciesOpen, [Next]_vars,
         NEW i \in Node, NEW e \in elected, e.leader = i,
         ~(Leading(state[i]) /\ current_term[i] = e.term)
  PROVE  ~(Leading(state'[i]) /\ current_term'[i] = e.term)
  <1>1. state \in [Node -> NodeState] /\ e.term \in Nat
    BY DEF TypeInv, TypeOK
  <1>2. CASE MoveStep
    BY <1>2 DEF MoveStep, Moved
  <1>3. ASSUME NEW k \in Node, WinStep(k)
        PROVE  ~(Leading(state'[i]) /\ current_term'[i] = e.term)
    <2>1. CASE k = i
      <3>1. e.term < current_term[i] /\ current_term'[i] = current_term[i]
        BY <1>3, <2>1 DEF WinStep, CandidaciesOpen
      <3> QED
        BY <1>1, <3>1
    <2>2. CASE k # i
      BY <1>1, <1>3, <2>2 DEF WinStep
    <2> QED
      BY <2>1, <2>2
  <1> QED
    BY <1>2, <1>3, StepsMoveOrWin

LEMMA NextNominationInv ==
  ASSUME NoRecovery, TypeInv, TypeInv', ElectionInv, CandidaciesOpen, NominationInv, [Next]_vars
  PROVE  NominationInv'
  <1>1. elected \subseteq elected' /\ LeadersOnRecord /\ TypeOK /\ ElectionSafety
    BY WinnersStayOnRecord, OneWinner DEF ElectionInv, TypeInv
  <1>2. PICK heir : \A s, d \in Node : \A o \in Content(net'[s][d]) :
          IsHandoff(o) => o \in Content(net[s][d]) \/ SentHandoff(heir, s, d, o)
    BY <1>1, NextSends DEF MessageStep, Sent, IsHandoff
  <1>3. ASSUME NEW s \in Node, NEW d \in Node, NEW o \in Content(net[s][d]), IsHandoff(o)
        PROVE  \E e \in elected : e.leader = s /\ e.term = o.term
    BY <1>3 DEF NominationInv, NominatorsWon
  <1>4. ASSUME NEW s \in Node, NEW d \in Node, NEW o, SentHandoff(heir, s, d, o)
        PROVE  \E e \in elected : e.leader = s /\ e.term = o.term
    BY <1>1, <1>4 DEF SentHandoff, LeadersOnRecord
  <1>5. ASSUME NEW s \in Node, NEW d \in Node, NEW o \in Content(net'[s][d]), IsHandoff(o)
        PROVE  ~(Leading(state'[s]) /\ current_term'[s] = o.term)
    <2>1. CASE o \in Content(net[s][d])
      <3>1. PICK e \in elected : e.leader = s /\ e.term = o.term
        BY <1>3, <1>5, <2>1
      <3>2. ~(Leading(state[s]) /\ current_term[s] = e.term)
        BY <1>5, <2>1, <3>1 DEF NominationInv, NominationIsFinal, IsHandoff
      <3> QED
        BY <3>1, <3>2, NoReturn
    <2>2. CASE SentHandoff(heir, s, d, o)
      <3>1. state'[s] = Follower
        BY <1>1, <2>2 DEF SentHandoff, HandedOver, TypeOK
      <3> QED
        BY <3>1 DEF Leading, Follower, Leader, LocalLeader
    <2> QED
      BY <1>2, <1>5, <2>1, <2>2
  <1>6. ASSUME NEW s \in Node, NEW d \in Node, NEW o \in Content(net'[s][d]), IsHandoff(o),
               NEW j \in Node, NEW q \in Node, NEW p \in Content(net'[j][q]), IsHandoff(p),
               p.term = o.term
        PROVE  j = s /\ q = d
    <2>1. j = s
      BY <1>1, <1>2, <1>3, <1>4, <1>6 DEF ElectionSafety
    <2>2. ASSUME NEW c \in Node, NEW r \in Content(net[s][c]), IsHandoff(r), r.term = o.term,
                 NEW b \in Node, NEW t, SentHandoff(heir, s, b, t), t.term = o.term
          PROVE  FALSE
      BY <2>2 DEF NominationInv, NominationIsFinal, IsHandoff, SentHandoff
    <2>3. CASE o \in Content(net[s][d]) /\ p \in Content(net[j][q])
      BY <1>6, <2>3 DEF NominationInv, NominationIsFinal, IsHandoff
    <2>4. CASE SentHandoff(heir, s, d, o) /\ SentHandoff(heir, j, q, p)
      BY <2>1, <2>4 DEF SentHandoff
    <2> QED
      BY <1>2, <1>6, <2>1, <2>2, <2>3, <2>4
  <1>7. NominatorsWon'
    <2> SUFFICES ASSUME NEW s \in Node, NEW d \in Node, NEW o \in Content(net'[s][d]),
                        IsHandoff(o)
                 PROVE  \E e \in elected' : e.leader = s /\ e.term = o.term
      BY DEF NominatorsWon, Content
    <2> QED
      BY <1>1, <1>2, <1>3, <1>4
  <1>8. NominationIsFinal'
    BY <1>5, <1>6 DEF NominationIsFinal, IsHandoff, Content
  <1> QED
    BY <1>7, <1>8 DEF NominationInv

\* Whoever nominates a successor has stopped to lead the term it gives up, for good, and
\* has nominated nobody else for it, however long the nomination is under way.
THEOREM NominationsAreFinal == NoRecovery => (Spec => []NominationIsFinal)
  <1> SUFFICES ASSUME NoRecovery PROVE Spec => []NominationIsFinal
    OBVIOUS
  <1>1. Init => NominationInv
    BY ContentOfShort
    DEF Init, Nothing, NominationInv, NominatorsWon, NominationIsFinal
  <1>2. /\ TypeInv /\ TypeInv' /\ ElectionInv /\ CandidaciesOpen /\ NominationInv /\ [Next]_vars
        => NominationInv'
    BY NextNominationInv
  <1>3. NominationInv => NominationIsFinal
    BY DEF NominationInv
  <1> QED
    BY <1>1, <1>2, <1>3, TypeInvariant, ElectionInvariant, OpenInvariant, PTL DEF Spec
-----------------------------------------------------------------------------
(* Log matching.  The invariant speaks of H, which has for each term the log  *)
(* that the winner of the term had last while it led it: what H is after a    *)
(* step follows from what it was, so that the invariant is that some H fits.  *)

Histories == [Nat -> Seq(LogEntry)]

\* Every entry of lg, with all before it, was in the log of the leader of its term.
Traces(H, lg) == \A n \in DOMAIN lg : Agree(lg, H[lg[n].term], n)

UpToTerm(lg, t) == \A n \in DOMAIN lg : lg[n].term <= t

\* Only a winner fills the history of a term, which is its log as long as it leads.
HistoriesLed(H) ==
  /\ \A t \in Nat : H[t] # <<>> => \E e \in elected : e.term = t
  /\ \A i \in Node : Leading(state[i]) => log[i] = H[current_term[i]]

HistoriesTraced(H) == \A t \in Nat : Traces(H, H[t]) /\ UpToTerm(H[t], t)

LogsTraced(H) == \A i \in Node : Traces(H, log[i]) /\ UpToTerm(log[i], current_term[i])

\* The entries es that follow prev, of term prev_term, are a part of h.
PartOf(h, prev, prev_term, es) ==
  es # <<>> =>
    /\ prev + Len(es) <= Len(h)
    /\ \A k \in 1 .. Len(es) : es[k] = h[prev + k]
    /\ prev > 0 => prev_term = h[prev].term

\* An AppendEntries under way offers a part of the history of its term.
EntriesTraced(H) ==
  \A s, d \in Node : \A m \in Content(net[s][d]) : m.type = "append_entries" =>
    PartOf(H[m.term], m.prev_log_index, m.prev_log_term, m.entries)

MatchInv(H) == HistoriesLed(H) /\ HistoriesTraced(H) /\ LogsTraced(H) /\ EntriesTraced(H)

\* i leads before or after the step, and the term is the same.
LeadsThrough(i) ==
  (Leading(state[i]) \/ Leading(state'[i])) /\ current_term'[i] = current_term[i]

\* H1 is what the histories H become: they grow, and only with the logs of leaders.
HistoryStep(H, H1) ==
  /\ \A t \in Nat : Agree(H[t], H1[t], Len(H[t]))
  /\ \A i \in Node : LeadsThrough(i) => log'[i] = H1[current_term[i]]
  /\ \A t \in Nat : H1[t] # H[t] => \E i \in Node : LeadsThrough(i) /\ current_term[i] = t

\* Two logs that trace agree where they have the same terms.
LEMMA TracesAgree ==
  ASSUME NEW H \in Histories, NEW a \in Seq(LogEntry), NEW b \in Seq(LogEntry),
         Traces(H, a), Traces(H, b),
         NEW n \in DOMAIN a \cap DOMAIN b, a[n].term = b[n].term
  PROVE  Agree(a, b, n)
  <1>1. Agree(a, H[a[n].term], n) /\ Agree(b, H[a[n].term], n)
    BY DEF Traces
  <1> QED
    BY <1>1 DEF Agree

LEMMA TermOfEntry ==
  ASSUME NEW lg \in Seq(LogEntry), NEW n \in DOMAIN lg
  PROVE  lg[n].term \in Nat
  <1>1. lg[n] \in LogEntry
    BY ElementOfSeq, LenProperties
  <1> QED
    BY <1>1 DEF LogEntry

LEMMA ContentIsMessage ==
  ASSUME TypeOK, NEW s \in Node, NEW d \in Node, NEW m \in Content(net[s][d])
  PROVE  m \in Message
  <1>1. net[s][d] \in Seq(Message)
    BY DEF TypeOK
  <1>2. DOMAIN net[s][d] = 1 .. Len(net[s][d])
    BY <1>1, LenProperties
  <1> QED
    BY <1>1, <1>2, ElementOfSeq DEF Content

\* What traces goes on to do so as the histories grow.
LEMMA TracesSurvive ==
  ASSUME NEW H \in Histories, NEW H1 \in Histories,
         \A t \in Nat : Agree(H[t], H1[t], Len(H[t])),
         NEW lg \in Seq(LogEntry), Traces(H, lg)
  PROVE  Traces(H1, lg)
  <1> SUFFICES ASSUME NEW n \in DOMAIN lg PROVE Agree(lg, H1[lg[n].term], n)
    BY DEF Traces
  <1>1. lg[n].term \in Nat
    BY TermOfEntry
  <1> DEFINE h == H[lg[n].term]
             h1 == H1[lg[n].term]
  <1>2. Agree(lg, h, n) /\ Agree(h, h1, Len(h))
    BY <1>1 DEF Traces
  <1>3. n \in Nat /\ h \in Seq(LogEntry) /\ h1 \in Seq(LogEntry)
    <2>1. DOMAIN lg = 1 .. Len(lg) /\ Len(lg) \in Nat
      BY LenProperties
    <2>2. n \in Nat
      BY <2>1
    <2>3. h \in Seq(LogEntry) /\ h1 \in Seq(LogEntry)
      BY <1>1, Zenon DEF Histories
    <2> QED
      BY <2>2, <2>3
  <1>4. Len(h) \in Nat /\ Len(h1) \in Nat
    BY <1>3, LenProperties
  <1> HIDE DEF h, h1
  <1>5. Agree(lg, h1, n)
    BY <1>2, <1>3, <1>4 DEF Agree
  <1> QED
    BY <1>5 DEF h1

LEMMA PartSurvives ==
  ASSUME NEW h \in Seq(LogEntry), NEW h1 \in Seq(LogEntry), Agree(h, h1, Len(h)),
         NEW prev \in Nat, NEW prev_term, NEW es \in Seq(LogEntry),
         PartOf(h, prev, prev_term, es)
  PROVE  PartOf(h1, prev, prev_term, es)
  <1> SUFFICES ASSUME es # <<>>
               PROVE  /\ prev + Len(es) <= Len(h1)
                      /\ \A k \in 1 .. Len(es) : es[k] = h1[prev + k]
                      /\ prev > 0 => prev_term = h1[prev].term
    BY DEF PartOf
  <1>1. Len(h) \in Nat /\ Len(h1) \in Nat /\ Len(es) \in Nat
    BY LenProperties
  <1>2. /\ prev + Len(es) <= Len(h)
        /\ \A k \in 1 .. Len(es) : es[k] = h[prev + k]
        /\ prev > 0 => prev_term = h[prev].term
    BY DEF PartOf
  <1>3. Len(h) <= Len(h1) /\ \A k \in 1 .. Len(h) : h[k] = h1[k]
    BY DEF Agree
  <1>4. \A k \in 1 .. Len(es) : prev + k \in 1 .. Len(h)
    BY <1>1, <1>2
  <1>5. prev > 0 => prev \in 1 .. Len(h)
    BY <1>1, <1>2
  <1> QED
    BY <1>1, <1>2, <1>3, <1>4, <1>5

\* What a leader sends is a part of its log.
LEMMA SentIsPart ==
  ASSUME NEW lg \in Seq(LogEntry), NEW n \in 0 .. Len(lg), NEW next \in Nat \ {0}
  PROVE  PartOf(lg, next - 1, PrevTerm(SubSeq(lg, 1, n), next - 1),
                Suffix(SubSeq(lg, 1, n), next - 1))
  <1> DEFINE front == SubSeq(lg, 1, n)
             es == Suffix(front, next - 1)
  <1>1. Len(lg) \in Nat /\ next - 1 \in Nat
    BY LenProperties
  <1>2. /\ front \in Seq(LogEntry) /\ Len(front) = n
        /\ \A k \in 1 .. n : front[k] = lg[k]
    BY <1>1, FrontIsSeq, SubSeqProperties
  <1> HIDE DEF front
  <1>3. /\ es \in Seq(LogEntry)
        /\ next - 1 < n => /\ Len(es) = n - (next - 1)
                           /\ \A k \in 1 .. n - (next - 1) : es[k] = front[next - 1 + k]
        /\ ~(next - 1 < n) => es = <<>>
    BY <1>1, <1>2, SuffixIsSeq, SubSeqProperties DEF Suffix
  <1>4. CASE next - 1 < n
    <2>1. next - 1 + Len(es) <= Len(lg) /\ \A k \in 1 .. Len(es) : es[k] = lg[next - 1 + k]
      <3>1. Len(es) = n - (next - 1) /\ \A k \in 1 .. n - (next - 1) : es[k] = front[next - 1 + k]
        BY <1>3, <1>4
      <3>2. \A k \in 1 .. n - (next - 1) : next - 1 + k \in 1 .. n
        BY <1>1
      <3> HIDE DEF es
      <3> QED
        BY <1>1, <1>2, <3>1, <3>2
    <2>2. next - 1 > 0 => PrevTerm(front, next - 1) = lg[next - 1].term
      BY <1>1, <1>2, <1>4 DEF PrevTerm
    <2> QED
      BY <2>1, <2>2 DEF PartOf, front
  <1> QED
    BY <1>3, <1>4 DEF PartOf, front

\* A proposal leaves the entries before it, and adds entries of the present term.
LEMMA ExtendedParts ==
  ASSUME TypeOK, NEW i \in Node, NEW cmds \in Seq(Command)
  PROVE  LET lg == Extended(i, cmds)
         IN  /\ lg \in Seq(LogEntry) /\ Agree(log[i], lg, Len(log[i]))
             /\ \A n \in DOMAIN lg : n > Len(log[i]) => lg[n].term = current_term[i]
  <1> DEFINE new == NewEntries(i, cmds)
             lg == Extended(i, cmds)
  <1>1. /\ log[i] \in Seq(LogEntry) /\ Len(log[i]) \in Nat /\ Len(cmds) \in Nat
        /\ DOMAIN cmds = 1 .. Len(cmds)
        /\ lg \in Seq(LogEntry) /\ Len(lg) = Len(log[i]) + Len(cmds)
        /\ DOMAIN lg = 1 .. Len(lg)
    BY ExtendedType, LenProperties DEF TypeOK
  <1>2. \A k \in 1 .. Len(cmds) : new[k].term = current_term[i]
    BY <1>1 DEF NewEntries
  <1>3. lg = log[i] \o new /\ Len(new) = Len(cmds)
    BY <1>1 DEF Extended, NewEntries
  <1>4. /\ \A n \in 1 .. Len(log[i]) : lg[n] = log[i][n]
        /\ \A n \in Len(log[i]) + 1 .. Len(lg) : lg[n] = new[n - Len(log[i])]
    BY <1>1, <1>3
  <1> HIDE DEF lg, new
  <1>5. Agree(log[i], lg, Len(log[i]))
    BY <1>1, <1>4 DEF Agree
  <1>6. ASSUME NEW n \in DOMAIN lg, n > Len(log[i]) PROVE lg[n].term = current_term[i]
    <2>1. n \in Len(log[i]) + 1 .. Len(lg) /\ n - Len(log[i]) \in 1 .. Len(cmds)
      BY <1>1, <1>6
    <2> QED
      BY <1>2, <1>4, <2>1
  <1> QED
    BY <1>1, <1>5, <1>6 DEF lg

LEMMA UpToLater ==
  ASSUME NEW lg \in Seq(LogEntry), NEW t \in Nat, UpToTerm(lg, t), NEW u \in Nat, t <= u
  PROVE  UpToTerm(lg, u)
  <1>1. \A n \in DOMAIN lg : lg[n].term \in Nat
    BY TermOfEntry
  <1> QED
    BY <1>1 DEF UpToTerm

\* A leader of a term stays the one that fills its history.
LEMMA MatchAfter ==
  ASSUME TypeOK, TypeOK', elected \subseteq elected', MessageStep,
         NEW H \in Histories, NEW H1 \in Histories, MatchInv(H), HistoryStep(H, H1),
         \A t \in Nat : H1[t] # <<>> => \E e \in elected' : e.term = t,
         \A i \in Node : Leading(state'[i]) => current_term'[i] = current_term[i],
         HistoriesTraced(H1), LogsTraced(H1)'
  PROVE  MatchInv(H1)'
  <1>1. HistoriesLed(H1)'
    BY DEF HistoriesLed, HistoryStep, LeadsThrough
  <1>2. EntriesTraced(H1)'
    <2> SUFFICES ASSUME NEW s \in Node, NEW d \in Node, NEW m \in Content(net'[s][d]),
                        m.type = "append_entries"
                 PROVE  PartOf(H1[m.term], m.prev_log_index, m.prev_log_term, m.entries)
      BY DEF EntriesTraced, Content
    <2>1. m \in Content(net[s][d]) \/ SentEntries(s, d, m)
      BY DEF MessageStep, Sent
    <2>2. CASE m \in Content(net[s][d])
      <3>1. m \in Message
        BY <2>2, ContentIsMessage
      <3>2. /\ m.term \in Nat /\ m.prev_log_index \in Nat /\ m.entries \in Seq(LogEntry)
            /\ PartOf(H[m.term], m.prev_log_index, m.prev_log_term, m.entries)
        BY <2>2, <3>1, MessageFields DEF MatchInv, EntriesTraced
      <3>3. /\ H[m.term] \in Seq(LogEntry) /\ H1[m.term] \in Seq(LogEntry)
            /\ Agree(H[m.term], H1[m.term], Len(H[m.term]))
        BY <3>2, Zenon DEF Histories, HistoryStep
      <3> QED
        BY <3>2, <3>3, PartSurvives
    <2>3. CASE SentEntries(s, d, m)
      <3>1. PICK n \in 0 .. Len(log'[s]) : m = AppendEntries(s, SubSeq(log'[s], 1, n), next_index'[s][d])
        BY <2>3 DEF SentEntries
      <3>2. /\ m.prev_log_index = next_index'[s][d] - 1
            /\ m.prev_log_term = PrevTerm(SubSeq(log'[s], 1, n), next_index'[s][d] - 1)
            /\ m.entries = Suffix(SubSeq(log'[s], 1, n), next_index'[s][d] - 1)
        BY <3>1 DEF AppendEntries
      <3>3. m.term = current_term[s] /\ log'[s] = H1[current_term[s]]
        BY <2>3 DEF SentEntries, HistoryStep, LeadsThrough
      <3>4. log'[s] \in Seq(LogEntry) /\ next_index'[s][d] \in Nat \ {0}
        BY DEF TypeOK
      <3>5. PartOf(log'[s], next_index'[s][d] - 1,
                   PrevTerm(SubSeq(log'[s], 1, n), next_index'[s][d] - 1),
                   Suffix(SubSeq(log'[s], 1, n), next_index'[s][d] - 1))
        BY <3>4, SentIsPart
      <3> QED
        BY <3>2, <3>3, <3>5
    <2> QED
      BY <2>1, <2>2, <2>3
  <1> QED
    BY <1>1, <1>2 DEF MatchInv, HistoriesTraced, Traces, UpToTerm

\* A step in which no log changes and no leadership begins.
LEMMA SameLogsMatch ==
  ASSUME TypeOK, TypeOK', elected \subseteq elected',
         NEW H \in Histories, MatchInv(H), log' = log,
         \A i \in Node : /\ current_term'[i] >= current_term[i]
                         /\ Leading(state'[i]) =>
                              Leading(state[i]) /\ current_term'[i] = current_term[i]
  PROVE  /\ HistoryStep(H, H) /\ HistoriesTraced(H) /\ LogsTraced(H)'
         /\ \A t \in Nat : H[t] # <<>> => \E e \in elected' : e.term = t
  <1>1. HistoryStep(H, H)
    <2>1. \A t \in Nat : Len(H[t]) \in Nat
      BY LenProperties DEF Histories
    <2>2. \A t \in Nat : Agree(H[t], H[t], Len(H[t]))
      BY <2>1 DEF Agree
    <2> QED
      BY <2>2 DEF HistoryStep, LeadsThrough, MatchInv, HistoriesLed
  <1>2. LogsTraced(H)'
    <2> SUFFICES ASSUME NEW i \in Node
                 PROVE  Traces(H, log[i]) /\ UpToTerm(log[i], current_term'[i])
      BY DEF LogsTraced, Traces, UpToTerm
    <2>1. log[i] \in Seq(LogEntry) /\ current_term[i] \in Nat /\ current_term'[i] \in Nat
      BY DEF TypeOK
    <2>2. Traces(H, log[i]) /\ UpToTerm(log[i], current_term[i])
      BY DEF MatchInv, LogsTraced
    <2> QED
      BY <2>1, <2>2, UpToLater
  <1> QED
    BY <1>1, <1>2 DEF MatchInv, HistoriesLed

\* A proposal by i, whose log is the history of its term or which starts it.
LEMMA GrowthMatches ==
  ASSUME TypeOK, TypeOK', elected \subseteq elected',
         NEW H \in Histories, MatchInv(H), NEW i \in Node, GrowStep(i), LeadsThrough(i),
         UNCHANGED current_term,
         H[current_term[i]] \in {<<>>, log[i]},
         \E e \in elected' : e.term = current_term[i],
         \A s \in Node \ {i} :
           LeadsThrough(s) => Leading(state[s]) /\ current_term[s] # current_term[i]
  PROVE  \E H1 \in Histories :
           /\ HistoryStep(H, H1) /\ HistoriesTraced(H1) /\ LogsTraced(H1)'
           /\ \A t \in Nat : H1[t] # <<>> => \E e \in elected' : e.term = t
  <1> DEFINE u == current_term[i]
             lg == log'[i]
  <1>1. PICK cmds \in Seq(Command) : log' = [log EXCEPT ![i] = Extended(i, cmds)]
    BY DEF GrowStep
  <1>2. /\ u \in Nat /\ log[i] \in Seq(LogEntry) /\ lg \in Seq(LogEntry)
        /\ lg = Extended(i, cmds) /\ \A s \in Node \ {i} : log'[s] = log[s]
        /\ \A s \in Node : log[s] \in Seq(LogEntry) /\ current_term[s] \in Nat
    BY <1>1 DEF TypeOK
  <1>3. /\ Len(log[i]) \in Nat /\ Len(lg) \in Nat
        /\ DOMAIN log[i] = 1 .. Len(log[i]) /\ DOMAIN lg = 1 .. Len(lg)
    BY <1>2, LenProperties
  <1>4. /\ Agree(log[i], lg, Len(log[i]))
        /\ \A n \in DOMAIN lg : n > Len(log[i]) => lg[n].term = u
    BY <1>2, ExtendedParts
  <1>5. PICK H1 : H1 = [H EXCEPT ![u] = lg]
    OBVIOUS
  <1> HIDE DEF lg
  <1>6. /\ H1 \in Histories /\ H1[u] = lg /\ \A t \in Nat \ {u} : H1[t] = H[t]
    BY <1>2, <1>5 DEF Histories
  <1>7. \A t \in Nat : Agree(H[t], H1[t], Len(H[t]))
    <2> SUFFICES ASSUME NEW t \in Nat PROVE Agree(H[t], H1[t], Len(H[t]))
      OBVIOUS
    <2>1. H[t] \in Seq(LogEntry) /\ Len(H[t]) \in Nat
      BY LenProperties DEF Histories
    <2>2. CASE t # u
      BY <1>6, <2>1, <2>2 DEF Agree
    <2>3. CASE t = u /\ H[u] = log[i]
      BY <1>4, <1>6, <2>3
    <2>4. CASE t = u /\ H[u] = <<>>
      <3>1. Len(H[t]) = 0
        BY <2>4
      <3> QED
        BY <1>3, <1>6, <2>4, <3>1 DEF Agree
    <2> QED
      BY <2>2, <2>3, <2>4
  <1>8. HistoryStep(H, H1)
    <2>1. ASSUME NEW s \in Node, LeadsThrough(s) PROVE log'[s] = H1[current_term[s]]
      <3>1. CASE s = i
        BY <1>6, <3>1 DEF lg
      <3>2. CASE s # i
        <4>1. Leading(state[s]) /\ current_term[s] # u /\ current_term[s] \in Nat
          BY <1>2, <2>1, <3>2
        <4>2. log[s] = H[current_term[s]]
          BY <4>1 DEF MatchInv, HistoriesLed
        <4> QED
          BY <1>2, <1>6, <3>2, <4>1, <4>2
      <3> QED
        BY <3>1, <3>2
    <2>2. \A t \in Nat : H1[t] # H[t] => t = u
      BY <1>6
    <2> QED
      BY <1>7, <2>1, <2>2 DEF HistoryStep
  <1>9. Traces(H1, lg) /\ UpToTerm(lg, u)
    <2>0. Traces(H1, log[i]) /\ UpToTerm(log[i], u)
      BY <1>2, <1>6, <1>7, TracesSurvive DEF MatchInv, LogsTraced
    <2> SUFFICES ASSUME NEW n \in DOMAIN lg
                 PROVE  Agree(lg, H1[lg[n].term], n) /\ lg[n].term <= u
      BY DEF Traces, UpToTerm
    <2>1. CASE n > Len(log[i])
      <3>1. lg[n].term = u
        BY <1>4, <2>1
      <3>2. Agree(lg, lg, n)
        BY <1>3 DEF Agree
      <3> QED
        BY <1>2, <1>6, <3>1, <3>2
    <2>2. CASE n <= Len(log[i])
      <3>1. n \in DOMAIN log[i] /\ lg[n] = log[i][n]
        BY <1>3, <1>4, <2>2 DEF Agree
      <3>2. Agree(log[i], H1[lg[n].term], n) /\ lg[n].term <= u
        BY <2>0, <3>1 DEF Traces, UpToTerm
      <3>3. \A k \in 1 .. n : k \in 1 .. Len(log[i])
        BY <1>3, <2>2
      <3>4. n <= Len(lg)
        BY <1>3
      <3> QED
        BY <1>4, <3>2, <3>3, <3>4 DEF Agree
    <2> QED
      BY <1>3, <2>1, <2>2
  <1>10. HistoriesTraced(H1)
    <2> SUFFICES ASSUME NEW t \in Nat PROVE Traces(H1, H1[t]) /\ UpToTerm(H1[t], t)
      BY DEF HistoriesTraced
    <2>1. CASE t = u
      BY <1>6, <1>9, <2>1
    <2>2. CASE t # u
      <3>1. H[t] \in Seq(LogEntry) /\ Traces(H, H[t]) /\ UpToTerm(H[t], t)
        BY DEF MatchInv, HistoriesTraced, Histories
      <3> QED
        BY <1>6, <1>7, <2>2, <3>1, TracesSurvive
    <2> QED
      BY <2>1, <2>2
  <1>11. LogsTraced(H1)'
    <2> SUFFICES ASSUME NEW s \in Node
                 PROVE  Traces(H1, log'[s]) /\ UpToTerm(log'[s], current_term[s])
      BY DEF LogsTraced, Traces, UpToTerm
    <2>1. CASE s = i
      BY <1>9, <2>1 DEF lg
    <2>2. CASE s # i
      <3>1. Traces(H, log[s]) /\ UpToTerm(log[s], current_term[s])
        BY DEF MatchInv, LogsTraced
      <3> QED
        BY <1>2, <1>6, <1>7, <2>2, <3>1, TracesSurvive
    <2> QED
      BY <2>1, <2>2
  <1>12. \A t \in Nat : H1[t] # <<>> => \E e \in elected' : e.term = t
    BY <1>6 DEF MatchInv, HistoriesLed
  <1> QED
    BY <1>6, <1>8, <1>10, <1>11, <1>12

\* Entries that i takes over: they are a part of a history that traces, and so is what the
\* log becomes.
LEMMA MergedTraces ==
  ASSUME NEW H \in Histories, NEW t \in Nat, Traces(H, H[t]), UpToTerm(H[t], t),
         NEW lg \in Seq(LogEntry), Traces(H, lg), UpToTerm(lg, t),
         NEW es \in Seq(LogEntry), NEW prev \in Nat, NEW prev_term,
         Consistent(lg, prev, prev_term), PartOf(H[t], prev, prev_term, es)
  PROVE  /\ Traces(H, Merged(lg, prev, es)) /\ UpToTerm(Merged(lg, prev, es), t)
         /\ es # <<>> => Agree(Merged(lg, prev, es), H[t], prev + Len(es))
         /\ es = <<>> => Merged(lg, prev, es) = lg
         /\ Merged(lg, prev, es) = lg \/ Len(Merged(lg, prev, es)) = prev + Len(es)
  <1> DEFINE merged == Merged(lg, prev, es)
             h == H[t]
  <1>1. /\ h \in Seq(LogEntry) /\ Len(lg) \in Nat /\ Len(h) \in Nat /\ Len(es) \in Nat
        /\ DOMAIN lg = 1 .. Len(lg) /\ DOMAIN h = 1 .. Len(h)
    BY LenProperties DEF Histories
  <1>2. prev <= Len(lg)
    BY <1>1 DEF Consistent
  <1>3. CASE es = <<>>
    <2>1. merged = lg
      BY <1>2, <1>3, MergeNothing
    <2> QED
      BY <1>3, <2>1
  <1>4. CASE es # <<>>
    <2>1. /\ prev + Len(es) <= Len(h)
          /\ \A k \in 1 .. Len(es) : es[k] = h[prev + k]
          /\ prev > 0 => prev_term = h[prev].term
      BY <1>4 DEF PartOf
    <2>2. \A n \in DOMAIN lg \cap DOMAIN h : lg[n].term = h[n].term => Agree(lg, h, n)
      BY <1>1, TracesAgree
    <2>3. Agree(lg, h, prev)
      <3>1. CASE prev = 0
        BY <1>1, <3>1 DEF Agree
      <3>2. CASE prev > 0
        <4>1. prev \in DOMAIN lg \cap DOMAIN h /\ lg[prev].term = h[prev].term
          BY <1>1, <1>2, <2>1, <3>2 DEF Consistent
        <4> QED
          BY <2>2, <4>1
      <3> QED
        BY <3>1, <3>2
    <2> HIDE DEF h, merged
    <2>4. Agree(merged, h, prev + Len(es)) /\ (merged = lg \/ Len(merged) = prev + Len(es))
      BY <1>1, <1>2, <1>4, <2>1, <2>2, <2>3, MergeAgrees DEF merged
    <2>5. Traces(H, merged) /\ UpToTerm(merged, t)
      <3>1. CASE merged = lg
        BY <3>1
      <3>2. CASE Len(merged) = prev + Len(es)
        <4>1. Kept(lg, prev, es) \in prev .. Len(lg) /\ merged \in Seq(LogEntry)
          BY <1>1, <1>2, KeptBounds, MergeIsSeq DEF merged
        <4>2. DOMAIN merged = 1 .. Len(merged) /\ Len(merged) \in Nat
          BY <4>1, LenProperties
        <4>3. /\ \A n \in DOMAIN merged : n \in DOMAIN h /\ merged[n] = h[n]
              /\ Len(merged) <= Len(h)
          BY <1>1, <2>4, <3>2, <4>2 DEF Agree
        <4>4. ASSUME NEW n \in DOMAIN merged
              PROVE  Agree(merged, H[merged[n].term], n) /\ merged[n].term <= t
          <5>1. Agree(h, H[merged[n].term], n) /\ merged[n].term <= t
            BY <4>3 DEF Traces, UpToTerm, h
          <5>2. n \in 1 .. Len(merged) /\ \A k \in 1 .. n : k \in DOMAIN merged
            BY <4>2
          <5> QED
            BY <4>3, <5>1, <5>2 DEF Agree
        <4> QED
          BY <4>4 DEF Traces, UpToTerm
      <3> QED
        BY <2>4, <3>1, <3>2
    <2> QED
      BY <1>4, <2>4, <2>5 DEF merged, h
  <1> QED
    BY <1>3, <1>4

\* i takes over entries of s.
Takes(i, s) ==
  LET m == Head(net[s][i])
  IN  /\ m \in Content(net[s][i]) /\ m.type = "append_entries" /\ m.term >= current_term[i]
      /\ Consistent(log[i], m.prev_log_index, m.prev_log_term)
      /\ current_term'[i] = m.term
      /\ log' = [log EXCEPT ![i] = Merged(log[i], m.prev_log_index, m.entries)]

LEMMA AcceptingTakes ==
  ASSUME TypeOK, NEW i \in Node, NEW s \in Node, AcceptStep(i, s)
  PROVE  Takes(i, s)
  BY DEF TypeOK, AcceptStep, Takes

\* What the message that i takes over says of it.
LEMMA AcceptedMessage ==
  ASSUME TypeOK, NEW H \in Histories, MatchInv(H), NEW i \in Node, NEW s \in Node,
         Takes(i, s)
  PROVE  LET m == Head(net[s][i])
             merged == Merged(log[i], m.prev_log_index, m.entries)
         IN  /\ m \in Message /\ m.term \in Nat /\ m.prev_log_index \in Nat
             /\ m.entries \in Seq(LogEntry) /\ m.leader_commit \in Nat
             /\ Traces(H, merged) /\ UpToTerm(merged, m.term)
             /\ m.entries # <<>> =>
                  Agree(merged, H[m.term], m.prev_log_index + Len(m.entries))
             /\ m.entries = <<>> => merged = log[i]
             /\ merged = log[i] \/ Len(merged) = m.prev_log_index + Len(m.entries)
  <1> DEFINE m == Head(net[s][i])
  <1>1. m \in Content(net[s][i]) /\ m.type = "append_entries"
    BY DEF Takes
  <1>2. m \in Message
    BY <1>1, ContentIsMessage
  <1>3. /\ m.term \in Nat /\ m.prev_log_index \in Nat /\ m.entries \in Seq(LogEntry)
        /\ m.leader_commit \in Nat
    BY <1>1, <1>2, MessageFields
  <1>4. PartOf(H[m.term], m.prev_log_index, m.prev_log_term, m.entries)
    BY <1>1 DEF MatchInv, EntriesTraced
  <1>5. /\ log[i] \in Seq(LogEntry) /\ current_term[i] \in Nat
        /\ current_term[i] <= m.term /\ Consistent(log[i], m.prev_log_index, m.prev_log_term)
    BY <1>3 DEF TypeOK, Takes
  <1>6. /\ Traces(H, log[i]) /\ UpToTerm(log[i], current_term[i])
        /\ Traces(H, H[m.term]) /\ UpToTerm(H[m.term], m.term)
    BY <1>3 DEF MatchInv, LogsTraced, HistoriesTraced
  <1> HIDE DEF m
  <1>7. UpToTerm(log[i], m.term)
    BY <1>3, <1>5, <1>6, UpToLater
  <1>8. /\ Traces(H, Merged(log[i], m.prev_log_index, m.entries))
        /\ UpToTerm(Merged(log[i], m.prev_log_index, m.entries), m.term)
        /\ m.entries # <<>> =>
             Agree(Merged(log[i], m.prev_log_index, m.entries), H[m.term],
                   m.prev_log_index + Len(m.entries))
        /\ m.entries = <<>> => Merged(log[i], m.prev_log_index, m.entries) = log[i]
        /\ \/ Merged(log[i], m.prev_log_index, m.entries) = log[i]
           \/ Len(Merged(log[i], m.prev_log_index, m.entries))
                = m.prev_log_index + Len(m.entries)
    BY <1>3, <1>4, <1>5, <1>6, <1>7, MergedTraces
  <1> QED
    BY <1>2, <1>3, <1>8 DEF m

\* Nobody accepts entries of a term that it leads.
LEMMA AcceptorFollows ==
  ASSUME TypeOK, LeadersOnRecord, ElectionSafety, EntriesFromWinners,
         NEW i \in Node, NEW s \in Node, AcceptStep(i, s)
  PROVE  ~LeadsThrough(i)
  <1> DEFINE m == Head(net[s][i])
  <1>1. current_term'[i] = m.term
    BY DEF AcceptStep, TypeOK
  <1>2. PICK e \in elected : s # i /\ e.leader = s /\ e.term = m.term
    BY DEF AcceptStep, EntriesFromWinners
  <1>3. Leading(state'[i]) => Leading(state[i])
    BY DEF AcceptStep, Keeps
  <1> SUFFICES ASSUME Leading(state[i]), current_term'[i] = current_term[i] PROVE FALSE
    BY <1>3 DEF LeadsThrough
  <1>4. PICK f \in elected : f.leader = i /\ f.term = current_term[i]
    BY DEF LeadersOnRecord
  <1> QED
    BY <1>1, <1>2, <1>4 DEF ElectionSafety

LEMMA AcceptMatches ==
  ASSUME TypeOK, TypeOK', LeadersOnRecord, ElectionSafety, EntriesFromWinners,
         elected \subseteq elected', NEW H \in Histories, MatchInv(H),
         NEW i \in Node, NEW s \in Node, AcceptStep(i, s)
  PROVE  /\ HistoryStep(H, H) /\ HistoriesTraced(H) /\ LogsTraced(H)'
         /\ \A t \in Nat : H[t] # <<>> => \E e \in elected' : e.term = t
  <1> DEFINE m == Head(net[s][i])
             merged == Merged(log[i], m.prev_log_index, m.entries)
  <1>1. /\ log' = [log EXCEPT ![i] = merged] /\ \A n \in Node : Keeps(n)
        /\ current_term' = [current_term EXCEPT ![i] = m.term]
    BY DEF AcceptStep
  <1>2. /\ log'[i] = merged /\ current_term'[i] = m.term
        /\ \A n \in Node \ {i} : log'[n] = log[n] /\ current_term'[n] = current_term[n]
    BY <1>1 DEF TypeOK
  <1>3. HistoryStep(H, H)
    <2>1. \A t \in Nat : Len(H[t]) \in Nat
      BY LenProperties DEF Histories
    <2>2. \A t \in Nat : Agree(H[t], H[t], Len(H[t]))
      BY <2>1 DEF Agree
    <2>3. ~LeadsThrough(i)
      BY AcceptorFollows
    <2>4. ASSUME NEW n \in Node, LeadsThrough(n) PROVE log'[n] = H[current_term[n]]
      <3>1. n # i /\ Leading(state[n])
        BY <1>1, <2>3, <2>4 DEF Keeps, LeadsThrough
      <3> QED
        BY <1>2, <3>1 DEF MatchInv, HistoriesLed
    <2> QED
      BY <2>2, <2>4 DEF HistoryStep
  <1>4. LogsTraced(H)'
    <2> SUFFICES ASSUME NEW n \in Node
                 PROVE  Traces(H, log'[n]) /\ UpToTerm(log'[n], current_term'[n])
      BY DEF LogsTraced, Traces, UpToTerm
    <2>1. Traces(H, merged) /\ UpToTerm(merged, m.term)
      BY AcceptingTakes, AcceptedMessage
    <2>2. CASE n = i
      BY <1>2, <2>1, <2>2
    <2>3. CASE n # i
      BY <1>2, <2>3 DEF MatchInv, LogsTraced
    <2> QED
      BY <2>2, <2>3
  <1> QED
    BY <1>3, <1>4 DEF MatchInv, HistoriesLed

\* A step of whatever kind: the histories follow, and what held of them goes on to hold.
LEMMA StepMatch ==
  ASSUME TypeOK, TypeOK', elected \subseteq elected', LeadersOnRecord, ElectionSafety,
         ElectionSafety', CandidaciesOpen, EntriesFromWinners, StepKind, MessageStep,
         NEW H \in Histories, MatchInv(H)
  PROVE  \E H1 \in Histories : HistoryStep(H, H1) /\ MatchInv(H1)'
  <1>1. /\ TypeOK /\ TypeOK' /\ elected \subseteq elected' /\ LeadersOnRecord
        /\ ElectionSafety /\ ElectionSafety'
    OBVIOUS
  <1>3. /\ state \in [Node -> NodeState] /\ current_term \in [Node -> Nat]
        /\ \A n \in Node : current_term[n] \in Nat
    BY <1>1 DEF TypeOK
  <1> DEFINE Terms == \A n \in Node : Leading(state'[n]) => current_term'[n] = current_term[n]
             Grown(H1) == /\ HistoryStep(H, H1) /\ HistoriesTraced(H1) /\ LogsTraced(H1)'
                          /\ \A t \in Nat : H1[t] # <<>> => \E e \in elected' : e.term = t
  <1>4. ASSUME Terms, NEW H1 \in Histories, Grown(H1)
        PROVE  \E G \in Histories : HistoryStep(H, G) /\ MatchInv(G)'
    <2>1. MatchInv(H1)'
      BY <1>1, <1>4, MatchAfter
    <2> QED
      BY <1>4, <2>1
  <1>5. CASE RestStep
    <2>1. /\ log' = log
          /\ \A n \in Node : /\ current_term'[n] >= current_term[n]
                             /\ Leading(state'[n]) =>
                                  Leading(state[n]) /\ current_term'[n] = current_term[n]
      BY <1>5 DEF RestStep, Keeps, replicationVars
    <2>2. Grown(H)
      BY <1>1, <2>1, SameLogsMatch
    <2> QED
      BY <1>4, <2>1, <2>2
  <1>6. ASSUME NEW i \in Node, StartStep(i)
        PROVE  \E G \in Histories : HistoryStep(H, G) /\ MatchInv(G)'
    <2>1. PICK term \in Nat : /\ term > current_term[i]
                              /\ current_term' = [current_term EXCEPT ![i] = term]
      BY <1>6 DEF StartStep
    <2>2. state' = [state EXCEPT ![i] = Candidate] /\ log' = log
      BY <1>6 DEF StartStep, replicationVars
    <2>3. \A n \in Node : /\ current_term'[n] >= current_term[n]
                          /\ Leading(state'[n]) =>
                               Leading(state[n]) /\ current_term'[n] = current_term[n]
      BY <1>3, <2>1, <2>2 DEF Leading, Candidate, Leader, LocalLeader
    <2>4. Grown(H)
      BY <1>1, <2>2, <2>3, SameLogsMatch
    <2> QED
      BY <1>4, <2>3, <2>4
  <1>7. ASSUME NEW i \in Node, NEW s \in Node, CountStep(i, s) \/ AckStep(i, s)
        PROVE  \E G \in Histories : HistoryStep(H, G) /\ MatchInv(G)'
    <2>1. UNCHANGED <<log, state, current_term>>
      BY <1>7 DEF CountStep, Counting, AckStep
    <2>2. \A n \in Node : /\ current_term'[n] >= current_term[n]
                          /\ Leading(state'[n]) =>
                               Leading(state[n]) /\ current_term'[n] = current_term[n]
      BY <1>3, <2>1
    <2>3. Grown(H)
      BY <1>1, <2>1, <2>2, SameLogsMatch
    <2> QED
      BY <1>4, <2>2, <2>3
  <1>8. ASSUME NEW i \in Node, NEW s \in Node, AcceptStep(i, s)
        PROVE  \E G \in Histories : HistoryStep(H, G) /\ MatchInv(G)'
    <2>1. Grown(H)
      BY <1>1, <1>8, AcceptMatches
    <2>2. Terms
      BY <1>8 DEF AcceptStep, Keeps
    <2> QED
      BY <1>4, <2>1, <2>2
  <1>9. ASSUME NEW i \in Node, ProposeStep(i)
        PROVE  \E G \in Histories : HistoryStep(H, G) /\ MatchInv(G)'
    <2>1. /\ Leading(state[i]) /\ UNCHANGED current_term /\ GrowStep(i)
          /\ \A n \in Node : Leading(state'[n]) => Leading(state[n])
      BY <1>3, <1>9 DEF ProposeStep, HandedOver, Leading, Follower, Leader, LocalLeader
    <2>2. LeadsThrough(i) /\ Terms
      BY <2>1 DEF LeadsThrough
    <2>3. H[current_term[i]] \in {<<>>, log[i]}
      BY <2>1 DEF MatchInv, HistoriesLed
    <2>4. PICK e \in elected : e.leader = i /\ e.term = current_term[i]
      BY <1>1, <2>1 DEF LeadersOnRecord
    <2>5. ASSUME NEW n \in Node \ {i}, LeadsThrough(n)
          PROVE  Leading(state[n]) /\ current_term[n] # current_term[i]
      <3>1. Leading(state[n])
        BY <2>1, <2>5 DEF LeadsThrough
      <3>2. PICK f \in elected : f.leader = n /\ f.term = current_term[n]
        BY <1>1, <3>1 DEF LeadersOnRecord
      <3> QED
        BY <1>1, <2>4, <3>1, <3>2 DEF ElectionSafety
    <2>6. \E e1 \in elected' : e1.term = current_term[i]
      BY <1>1, <2>4
    <2>7. \E H1 \in Histories : Grown(H1)
      BY <1>1, <2>1, <2>2, <2>3, <2>5, <2>6, GrowthMatches
    <2> HIDE DEF Grown, Terms
    <2> QED
      BY <1>4, <2>2, <2>7
  <1>10. ASSUME NEW i \in Node, NEW s \in Node, WinningStep(i, s)
         PROVE  \E G \in Histories : HistoryStep(H, G) /\ MatchInv(G)'
    <2>1. /\ state[i] = Candidate /\ UNCHANGED current_term /\ GrowStep(i)
          /\ state' = [state EXCEPT ![i] = Leader]
      BY <1>10 DEF WinningStep, Counting
    <2>2. PICK win \in elected' : win.leader = i /\ win.term = current_term[i]
      <3>1. PICK level :
              elected' = elected \cup
                {[term |-> current_term[i], leader |-> i, quorum |-> Voters(Ballots(i, s)),
                  battery_level |-> level]}
        BY <1>10 DEF WinningStep
      <3> DEFINE win == [term |-> current_term[i], leader |-> i,
                         quorum |-> Voters(Ballots(i, s)), battery_level |-> level]
      <3>2. win.leader = i /\ win.term = current_term[i] /\ win \in elected'
        BY <3>1
      <3> QED
        BY <3>2
    <2>3. LeadsThrough(i) /\ Terms
      BY <1>3, <2>1 DEF LeadsThrough, Leading
    <2>4. H[current_term[i]] = <<>>
      <3> SUFFICES ASSUME H[current_term[i]] # <<>> PROVE FALSE
        OBVIOUS
      <3>1. PICK e \in elected : e.term = current_term[i]
        BY <1>3 DEF MatchInv, HistoriesLed
      <3>2. e.leader = i
        BY <1>1, <2>2, <3>1 DEF ElectionSafety
      <3> QED
        BY <1>3, <2>1, <3>1, <3>2 DEF CandidaciesOpen
    <2>5. ASSUME NEW n \in Node \ {i}, LeadsThrough(n)
          PROVE  Leading(state[n]) /\ current_term[n] # current_term[i]
      <3>1. Leading(state[n])
        BY <1>3, <2>1, <2>5 DEF LeadsThrough
      <3>2. PICK f \in elected : f.leader = n /\ f.term = current_term[n]
        BY <1>1, <3>1 DEF LeadersOnRecord
      <3> QED
        BY <1>1, <2>2, <3>1, <3>2 DEF ElectionSafety
    <2>6. \E H1 \in Histories : Grown(H1)
      BY <1>1, <2>1, <2>2, <2>3, <2>4, <2>5, GrowthMatches
    <2> HIDE DEF Grown, Terms
    <2> QED
      BY <1>4, <2>3, <2>6
  <1> QED
    BY <1>5, <1>6, <1>7, <1>8, <1>9, <1>10 DEF StepKind

LEMMA NextMatch ==
  ASSUME NoRecovery, TypeInv, TypeInv', ElectionInv, ElectionSafety', CandidaciesOpen,
         EntriesFromWinners, [Next]_vars, NEW H \in Histories, MatchInv(H)
  PROVE  \E H1 \in Histories : HistoryStep(H, H1) /\ MatchInv(H1)'
  <1>1. /\ TypeOK /\ TypeOK' /\ elected \subseteq elected' /\ LeadersOnRecord
        /\ ElectionSafety /\ ElectionSafety'
    BY WinnersStayOnRecord, OneWinner DEF TypeInv, ElectionInv
  <1>2. StepKind /\ MessageStep
    BY <1>1, NextKind, NextSends
  <1> QED
    BY <1>1, <1>2, StepMatch

MatchingInv == \E H \in Histories : MatchInv(H)

LEMMA InitMatching == Init => MatchingInv
  <1> SUFFICES ASSUME Init PROVE MatchingInv
    OBVIOUS
  <1>1. PICK H : H = [t \in Nat |-> <<>>]
    OBVIOUS
  <1>2. H \in Histories /\ (\A t \in Nat : H[t] = <<>>) /\ DOMAIN <<>> = {}
    BY <1>1, EmptySeq DEF Histories
  <1>3. HistoriesLed(H)
    BY <1>2 DEF Init, HistoriesLed, Leading, Follower, Leader, LocalLeader
  <1>4. HistoriesTraced(H) /\ LogsTraced(H)
    BY <1>2 DEF Init, HistoriesTraced, LogsTraced, Traces, UpToTerm
  <1>5. EntriesTraced(H)
    BY ContentOfShort DEF Init, Nothing, EntriesTraced
  <1> QED
    BY <1>2, <1>3, <1>4, <1>5 DEF MatchingInv, MatchInv

LEMMA NextMatching ==
  ASSUME NoRecovery, TypeInv, TypeInv', ElectionInv, ElectionSafety', CandidaciesOpen,
         EntriesFromWinners, MatchingInv, [Next]_vars
  PROVE  MatchingInv'
  <1>1. PICK H \in Histories : MatchInv(H)
    BY DEF MatchingInv
  <1>2. PICK H1 \in Histories : MatchInv(H1)'
    BY <1>1, NextMatch
  <1> QED
    BY <1>2 DEF MatchingInv

LEMMA MatchingLogs ==
  ASSUME TypeOK, MatchingInv
  PROVE  LogMatching
  <1> SUFFICES ASSUME NEW i \in Node, NEW j \in Node, NEW n \in DOMAIN log[i] \cap DOMAIN log[j],
                      log[i][n].term = log[j][n].term
               PROVE  SubSeq(log[i], 1, n) = SubSeq(log[j], 1, n)
    BY DEF LogMatching
  <1>1. PICK H \in Histories : MatchInv(H)
    BY DEF MatchingInv
  <1>2. log[i] \in Seq(LogEntry) /\ log[j] \in Seq(LogEntry)
    BY DEF TypeOK
  <1>3. Traces(H, log[i]) /\ Traces(H, log[j])
    BY <1>1 DEF MatchInv, LogsTraced
  <1>4. Agree(log[i], log[j], n)
    BY <1>2, <1>3, TracesAgree
  <1> QED
    BY <1>2, <1>4, AgreeingFronts

\* Whatever was merged, cut off, retried, replayed or proposed provisionally on the sides of
\* a partition: two logs that hold an entry of the same term at a position hold the same
\* entries up to it.
THEOREM LogsMatch == NoRecovery => (Spec => []LogMatching)
  <1> SUFFICES ASSUME NoRecovery PROVE Spec => []LogMatching
    OBVIOUS
  <1>1. /\ TypeInv /\ TypeInv' /\ ElectionInv /\ ElectionSafety' /\ CandidaciesOpen
        /\ EntriesFromWinners /\ MatchingInv /\ [Next]_vars
        => MatchingInv'
    BY NextMatching
  <1>2. TypeInv /\ MatchingInv => LogMatching
    BY MatchingLogs DEF TypeInv
  <1> QED
    BY <1>1, <1>2, InitMatching, TypeInvariant, ElectionInvariant, ElectionSafe, OpenInvariant,
       EntriesAreWinners, PTL DEF Spec
=============================================================================
