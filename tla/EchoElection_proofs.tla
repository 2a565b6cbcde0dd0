------------------------- MODULE EchoElection_proofs -------------------------
(***************************************************************************)
(* Type correctness of EchoCoordinator, for any set of coordinators and    *)
(* any bounds: every step of every handler keeps each variable in its type *)
(* and puts only well-formed messages on the channels.                     *)
(*                                                                         *)
(* Then elections.  No term has two winners, for any losses and any        *)
(* partitions: in raft always, in echo and echod as long as batteries do   *)
(* not recover (the run observer_revote shows why).                        *)
(*                                                                         *)
(* The proof keeps track of grants, the terms in which a coordinator is on *)
(* record as a voter (GrantTerms).  Only three steps create or move them;  *)
(* every other step is quiet.  With that the elections implement           *)
(* Leadership, as every step moves on or wins.                             *)
(*                                                                         *)
(* Energy gating, the last part, needs no such condition: in echo and      *)
(* echod nobody wins an election it did not stand in with T_LOW or more.   *)
(***************************************************************************)
EXTENDS EchoSafety, EchoLog_proofs

Network == [Node -> [Node -> Seq(Message)]]
Outbox == [Node -> Seq(Message)]

-----------------------------------------------------------------------------
(* Messages and channels *)

\* What the type of a message says about its fields.
LEMMA MessageFields ==
  ASSUME NEW m \in Message
  PROVE  /\ m.type = "request_vote" =>
              /\ m.term \in Nat /\ m.last_log_index \in Nat /\ m.last_log_term \in Nat
              /\ m.battery_level \in Levels
         /\ m.type = "vote_response" =>
              m.term \in Nat /\ m.vote_granted \in BOOLEAN /\ m.voter_battery \in Levels
         /\ m.type = "append_entries" =>
              /\ m.term \in Nat /\ m.prev_log_index \in Nat /\ m.prev_log_term \in Nat
              /\ m.entries \in Seq(LogEntry) /\ m.leader_commit \in Nat
         /\ m.type = "append_response" =>
              /\ m.term \in Nat /\ m.success \in BOOLEAN /\ m.match_index \in Nat
              /\ m.responder_battery \in Levels
         /\ m.type \in {"liveness_ping", "leadership_handoff"} => m.term \in Nat
         /\ m.type = "sensor_data" => m.reading \in Reading
         /\ m.type = "reconcile_batch" => m.commands \in Seq(Command)
  BY DEF Message

LEMMA MessagesAreSeq ==
  ASSUME NEW m \in Message, NEW o \in Message
  PROVE  <<m>> \in Seq(Message) /\ <<m, o>> \in Seq(Message)
  OBVIOUS

LEMMA ThenType ==
  ASSUME NEW out \in Outbox, NEW more \in Outbox
  PROVE  Then(out, more) \in Outbox
  <1>1. ASSUME NEW d \in Node PROVE out[d] \o more[d] \in Seq(Message)
    BY ConcatProperties DEF Outbox
  <1> QED
    BY <1>1 DEF Then, Outbox

LEMMA OnlyType ==
  ASSUME NEW d, NEW ms \in Seq(Message)
  PROVE  Only(d, ms) \in Outbox
  BY EmptySeq DEF Only, Outbox

LEMMA ToPeersType ==
  ASSUME NEW i, NEW m \in Message
  PROVE  ToPeers(i, m) \in Outbox
  <1>1. <<m>> \in Seq(Message) /\ << >> \in Seq(Message)
    OBVIOUS
  <1> QED
    BY <1>1 DEF ToPeers, Outbox

LEMMA NothingType == Nothing \in Outbox
  BY EmptySeq DEF Nothing, Outbox

\* Publishing well-formed messages keeps the network well-formed.
LEMMA TransmitType ==
  ASSUME NEW rest \in Network, NEW i \in Node, NEW out \in Outbox, Transmit(rest, i, out)
  PROVE  net' \in Network
  <1>1. rest[i] \in Outbox
    BY DEF Network, Outbox
  <1>2. Then(rest[i], out) \in Outbox
    BY <1>1, ThenType
  <1> QED
    BY <1>2 DEF Transmit, Network, Outbox

\* So does taking a message out, which is itself well-formed.
LEMMA UnreadType ==
  ASSUME net \in Network, NEW s \in Node, NEW d \in Node, net[s][d] # <<>>
  PROVE  Unread(s, d) \in Network /\ Head(net[s][d]) \in Message
  <1>1. net[s][d] \in Seq(Message)
    BY DEF Network
  <1>2. Head(net[s][d]) \in Message /\ Tail(net[s][d]) \in Seq(Message)
    BY <1>1, HeadTailProperties
  <1> QED
    BY <1>2 DEF Unread, Network

\* A message that arrives.
LEMMA ArrivesType ==
  ASSUME TypeOK, NEW s \in Node, NEW d \in Node, NEW type, Arrives(s, d, type)
  PROVE  /\ Unread(s, d) \in Network
         /\ Head(net[s][d]) \in Message
         /\ Head(net[s][d]).type = type
         /\ admitted' \in [Node -> [Node -> Nat]]
  <1>1. net \in Network /\ admitted \in [Node -> [Node -> Nat]]
    BY DEF TypeOK, Network
  <1>2. admitted' \in [Node -> [Node -> Nat]]
    BY <1>1 DEF Arrives
  <1> QED
    BY <1>1, <1>2, UnreadType DEF Arrives

-----------------------------------------------------------------------------
(* What the handlers send *)

LEMMA PingType ==
  ASSUME NEW i, NEW term \in Nat
  PROVE  Ping(i, term) \in Message
  BY DEF Ping, Message

LEMMA HandoffType ==
  ASSUME NEW term \in Nat
  PROVE  [type |-> "leadership_handoff", term |-> term] \in Message
  BY DEF Message

LEMMA AppendResponseType ==
  ASSUME TypeOK, NEW i \in Node, NEW term \in Nat, NEW success \in BOOLEAN, NEW index \in Nat
  PROVE  AppendResponse(i, term, success, index) \in Message
  <1>1. battery[i] \in Levels
    BY DEF TypeOK
  <1> QED
    BY <1>1 DEF AppendResponse, Message

LEMMA TermOfLogType ==
  ASSUME NEW lg \in Seq(LogEntry)
  PROVE  /\ LastTerm(lg) \in Nat
         /\ \A prev \in Nat : PrevTerm(lg, prev) \in Nat
         /\ \A n \in DOMAIN lg : lg[n].term \in Nat /\ lg[n].command \in Command
  <1>1. \A n \in 1 .. Len(lg) : lg[n] \in LogEntry
    BY ElementOfSeq
  <1>2. \A n \in 1 .. Len(lg) : lg[n].term \in Nat /\ lg[n].command \in Command
    BY <1>1 DEF LogEntry
  <1>3. lg # <<>> => Len(lg) \in 1 .. Len(lg)
    BY EmptySeq
  <1> QED
    BY <1>2, <1>3 DEF LastTerm, PrevTerm

LEMMA AppendEntriesType ==
  ASSUME TypeOK, NEW i \in Node, NEW lg \in Seq(LogEntry), NEW next \in Nat \ {0}
  PROVE  AppendEntries(i, lg, next) \in Message
  <1>1. next - 1 \in Nat
    OBVIOUS
  <1>2. Suffix(lg, next - 1) \in Seq(LogEntry)
    BY <1>1, SuffixIsSeq
  <1>3. PrevTerm(lg, next - 1) \in Nat
    BY <1>1, TermOfLogType
  <1>4. current_term[i] \in Nat /\ commit_index[i] \in Nat
    BY DEF TypeOK
  <1> QED
    BY <1>1, <1>2, <1>3, <1>4 DEF AppendEntries, Message

LEMMA HeartbeatsType ==
  ASSUME TypeOK, NEW i \in Node, NEW next \in [Node -> Nat \ {0}]
  PROVE  Heartbeats(i, next) \in Outbox
  <1>1. log[i] \in Seq(LogEntry)
    BY DEF TypeOK
  <1>2. ASSUME NEW d \in Node PROVE <<AppendEntries(i, log[i], next[d])>> \in Seq(Message)
    <2>1. AppendEntries(i, log[i], next[d]) \in Message
      BY <1>1, AppendEntriesType
    <2> QED
      BY <2>1
  <1> QED
    BY <1>2, EmptySeq DEF Heartbeats, Outbox

\* The log after a proposal.
LEMMA ExtendedType ==
  ASSUME TypeOK, NEW i \in Node, NEW cmds \in Seq(Command)
  PROVE  Extended(i, cmds) \in Seq(LogEntry) /\ Len(Extended(i, cmds)) = Len(log[i]) + Len(cmds)
  <1>1. log[i] \in Seq(LogEntry) /\ current_term[i] \in Nat /\ partition_epoch[i] \in Nat
    BY DEF TypeOK
  <1>2. ASSUME NEW k \in DOMAIN cmds
        PROVE  [term |-> current_term[i], command |-> cmds[k], epoch |-> partition_epoch[i]]
                 \in LogEntry
    <2>1. cmds[k] \in Command
      BY ElementOfSeq, LenProperties
    <2> QED
      BY <1>1, <2>1 DEF LogEntry
  <1>3. DOMAIN cmds = 1 .. Len(cmds) /\ Len(cmds) \in Nat
    BY LenProperties
  <1>4. NewEntries(i, cmds) \in Seq(LogEntry) /\ Len(NewEntries(i, cmds)) = Len(cmds)
    BY <1>2, <1>3 DEF NewEntries
  <1>5. /\ log[i] \o NewEntries(i, cmds) \in Seq(LogEntry)
        /\ Len(log[i] \o NewEntries(i, cmds)) = Len(log[i]) + Len(NewEntries(i, cmds))
    BY <1>1, <1>4, ConcatProperties, Zenon
  <1> QED
    BY <1>4, <1>5 DEF Extended

LEMMA RoundsType ==
  ASSUME TypeOK, NEW i \in Node, NEW cmds \in Seq(Command), NEW next \in [Node -> Nat \ {0}]
  PROVE  Rounds(i, cmds, next) \in Outbox
  <1> DEFINE lg(k) == SubSeq(Extended(i, cmds), 1, Len(log[i]) + k)
  <1>1. DOMAIN cmds = 1 .. Len(cmds) /\ Len(cmds) \in Nat /\ Len(log[i]) \in Nat
    BY LenProperties DEF TypeOK
  <1>2. ASSUME NEW d \in Node, NEW k \in DOMAIN cmds
        PROVE  AppendEntries(i, lg(k), next[d]) \in Message
    <2>1. Len(log[i]) + k \in 0 .. Len(Extended(i, cmds))
      BY <1>1, ExtendedType
    <2>2. lg(k) \in Seq(LogEntry)
      BY <2>1, ExtendedType, FrontIsSeq
    <2> QED
      BY <2>2, AppendEntriesType
  <1>3. ASSUME NEW d \in Node
        PROVE  [k \in DOMAIN cmds |-> AppendEntries(i, lg(k), next[d])] \in Seq(Message)
    BY <1>1, <1>2
  <1> QED
    BY <1>3, EmptySeq DEF Rounds, Outbox

LEMMA ProposedType ==
  ASSUME NEW cmds \in Seq(Command)
  PROVE  Proposed(cmds) \in Seq(Command)
  <1>1. \A k \in DOMAIN cmds : cmds[k] \subseteq Reading
    BY ElementOfSeq, LenProperties DEF Command
  <1>2. UNION Content(cmds) \in Command
    BY <1>1 DEF Content, Command
  <1> QED
    BY <1>2 DEF Proposed

LEMMA ContentType ==
  ASSUME NEW readings \in Seq(Reading)
  PROVE  Content(readings) \in Command /\ Singletons(readings) \in Seq(Command)
  <1>1. \A k \in DOMAIN readings : readings[k] \in Reading
    BY ElementOfSeq, LenProperties
  <1>2. DOMAIN readings = 1 .. Len(readings) /\ Len(readings) \in Nat
    BY LenProperties
  <1> QED
    BY <1>1, <1>2 DEF Content, Singletons, Command

\* A proposal keeps logs and network well-formed.
LEMMA ReplicateType ==
  ASSUME TypeOK, NEW rest \in Network, NEW i \in Node, NEW cmds \in Seq(Command),
         Replicate(rest, i, cmds)
  PROVE  log' \in [Node -> Seq(LogEntry)] /\ net' \in Network
  <1>1. log \in [Node -> Seq(LogEntry)] /\ next_index[i] \in [Node -> Nat \ {0}]
    BY DEF TypeOK
  <1>2. Extended(i, cmds) \in Seq(LogEntry)
    BY ExtendedType
  <1>3. Rounds(i, cmds, next_index[i]) \in Outbox
    BY <1>1, RoundsType
  <1> QED
    BY <1>1, <1>2, <1>3, TransmitType DEF Replicate

-----------------------------------------------------------------------------
(* Steps of the run loop and of the battery *)

\* Every action that changes none of a group of variables keeps their types.
LEMMA CheckedStateType ==
  ASSUME TypeOK, NEW i \in Node, NEW level
  PROVE  /\ CheckedState(i, level) \in NodeState
         /\ CheckedVote(i, level) \in Node \cup {None}
         /\ CheckedState(i, level) = Candidate => state[i] = Candidate
  BY DEF TypeOK, CheckedState, CheckedVote, NodeState, Follower, Candidate, Observer,
         Leader, LocalLeader

LEMMA BatteryMovesType ==
  ASSUME TypeInv, NEW i \in Node, NEW level \in Levels, BatteryMoves(i, level)
  PROVE  TypeInv'
  BY DEF TypeInv, TypeOK, CandidateVotedForItself, BatteryMoves, electionVars,
         replicationVars, triggerVars, handoffVars, partitionVars

LEMMA DemoSetBatteryType ==
  ASSUME TypeInv, NEW i \in Node, NEW level \in Levels, DemoSetBattery(i, level)
  PROVE  TypeInv'
  BY CheckedStateType DEF TypeInv, TypeOK, CandidateVotedForItself, DemoSetBattery,
         replicationVars, triggerVars, handoffVars, partitionVars

LEMMA IdleTickType ==
  ASSUME TypeInv, NEW i \in Node, IdleTick(i)
  PROVE  TypeInv'
  BY CheckedStateType DEF TypeInv, TypeOK, CandidateVotedForItself, IdleTick,
         replicationVars, triggerVars, handoffVars, partitionVars

LEMMA StartElectionType ==
  ASSUME TypeInv, NEW i \in Node, NEW rest \in Network, NEW term \in Nat,
         StartElection(rest, i, term)
  PROVE  /\ current_term' \in [Node -> Nat]
         /\ state' \in [Node -> NodeState]
         /\ voted_for' \in [Node -> Node \cup {None}]
         /\ votes' \in [Node -> [Node -> Levels \cup {None}]]
         /\ current_leader_id' \in [Node -> Node \cup {None}]
         /\ net' \in Network
         /\ elected' = elected
         /\ CandidateVotedForItself'
  <1> DEFINE m == [type |-> "request_vote", term |-> term + 1, last_log_index |-> Len(log[i]),
                   last_log_term |-> LastTerm(log[i]), battery_level |-> battery[i]]
  <1>1. /\ battery[i] \in Levels /\ log[i] \in Seq(LogEntry) /\ None \notin Levels
        /\ current_term \in [Node -> Nat] /\ state \in [Node -> NodeState]
        /\ voted_for \in [Node -> Node \cup {None}]
        /\ votes \in [Node -> [Node -> Levels \cup {None}]]
        /\ current_leader_id \in [Node -> Node \cup {None}]
    BY NoneAssumption DEF TypeInv, TypeOK
  <1>2. m \in Message
    <2>1. Len(log[i]) \in Nat
      BY <1>1, LenProperties
    <2>2. LastTerm(log[i]) \in Nat
      BY <1>1, TermOfLogType, Zenon
    <2> QED
      BY <1>1, <2>1, <2>2 DEF Message
  <1>3. ToPeers(i, m) \in Outbox
    BY <1>2, ToPeersType
  <1>4. net' \in Network
    BY <1>3, TransmitType DEF StartElection
  <1>5. [NoVotes EXCEPT ![i] = battery[i]] \in [Node -> Levels \cup {None}]
    BY <1>1 DEF NoVotes
  <1>6. CandidateVotedForItself'
    BY <1>1 DEF StartElection, CandidateVotedForItself, TypeInv, NoVotes
  <1> QED
    BY <1>1, <1>4, <1>5, <1>6 DEF StartElection, NodeState

LEMMA ElectionTimeoutType ==
  ASSUME TypeInv, NEW i \in Node, ElectionTimeout(i)
  PROVE  TypeInv'
  <1>1. net \in Network /\ current_term[i] \in Nat
    BY DEF TypeInv, TypeOK, Network
  <1>2. StartElection(net, i, current_term[i])
    BY DEF ElectionTimeout
  <1> QED
    BY <1>1, <1>2, StartElectionType
    DEF TypeInv, TypeOK, ElectionTimeout, Network, replicationVars, triggerVars, handoffVars,
        partitionVars

LEMMA RaftLeaderTickType ==
  ASSUME TypeInv, NEW i \in Node, RaftLeaderTick(i)
  PROVE  TypeInv'
  <1>1. net \in Network /\ next_index[i] \in [Node -> Nat \ {0}]
    BY DEF TypeInv, TypeOK, Network
  <1>2. net' \in Network
    BY <1>1, HeartbeatsType, TransmitType DEF TypeInv, RaftLeaderTick
  <1> QED
    BY <1>2
    DEF TypeInv, TypeOK, CandidateVotedForItself, RaftLeaderTick, Network, electionVars,
        replicationVars, triggerVars, handoffVars, partitionVars

LEMMA EchoLeaderTickType ==
  ASSUME TypeInv, NEW i \in Node, EchoLeaderTick(i)
  PROVE  TypeInv'
  <1>1. net \in Network /\ current_term[i] \in Nat
    BY DEF TypeInv, TypeOK, Network
  <1>2. net' \in Network
    BY <1>1, PingType, ToPeersType, TransmitType DEF EchoLeaderTick
  <1> QED
    BY <1>2
    DEF TypeInv, TypeOK, CandidateVotedForItself, EchoLeaderTick, Network, electionVars,
        replicationVars, triggerVars, handoffVars, partitionVars

LEMMA EchodLeaderTickType ==
  ASSUME TypeInv, NEW i \in Node, EchodLeaderTick(i)
  PROVE  TypeInv'
  <1> DEFINE batch(flush) == IF flush THEN <<Content(batch_buffer[i])>> ELSE <<>>
             ahead(flush, ping) ==
               Then(Rounds(i, batch(flush), next_index[i]),
                    IF ping THEN ToPeers(i, Ping(i, current_term[i])) ELSE Nothing)
  <1>1. /\ net \in Network /\ current_term[i] \in Nat /\ TypeOK
        /\ next_index[i] \in [Node -> Nat \ {0}] /\ batch_buffer[i] \in Seq(Reading)
    BY DEF TypeInv, TypeOK, Network
  <1>2. PICK flush \in BOOLEAN, ping \in BOOLEAN :
          /\ log' = [log EXCEPT ![i] = Extended(i, batch(flush))]
          /\ batch_buffer' = [batch_buffer EXCEPT ![i] = IF flush THEN Flushed(@) ELSE @]
          /\ handoff_sent' = [handoff_sent EXCEPT ![i] = @ \/ HandoffDue(i)]
          /\ \/ /\ Transmit(net, i, ahead(flush, ping))
                /\ UNCHANGED state
             \/ /\ \E p \in Successors(i) :
                     Transmit(net, i, Then(ahead(flush, ping), Only(p,
                       <<[type |-> "leadership_handoff", term |-> current_term[i]]>>)))
                /\ state' = HandedOver(i)
    BY DEF EchodLeaderTick
  <1>3. batch(flush) \in Seq(Command)
    BY <1>1, ContentType, EmptySeq
  <1>4. log' \in [Node -> Seq(LogEntry)]
    BY <1>1, <1>2, <1>3, ExtendedType DEF TypeOK
  <1>5. ahead(flush, ping) \in Outbox
    BY <1>1, <1>3, RoundsType, PingType, ToPeersType, NothingType, ThenType
  <1>6. ASSUME NEW p
        PROVE  Only(p, <<[type |-> "leadership_handoff", term |-> current_term[i]]>>) \in Outbox
    <2>1. <<[type |-> "leadership_handoff", term |-> current_term[i]]>> \in Seq(Message)
      BY <1>1, HandoffType
    <2> QED
      BY <2>1, OnlyType
  <1>7. net' \in Network
    BY <1>1, <1>2, <1>5, <1>6, ThenType, TransmitType
  <1>8. batch_buffer' \in [Node -> Seq(Reading)] /\ handoff_sent' \in [Node -> BOOLEAN]
    BY <1>1, <1>2, EmptySeq DEF TypeOK, Flushed
  <1>9. /\ state' \in [Node -> NodeState]
        /\ \A n \in Node : state'[n] = Candidate => state[n] = Candidate
    BY <1>1, <1>2 DEF TypeOK, HandedOver, NodeState, Follower, Candidate
  <1> QED
    BY <1>4, <1>7, <1>8, <1>9
    DEF TypeInv, TypeOK, CandidateVotedForItself, EchodLeaderTick, Network, partitionVars

-----------------------------------------------------------------------------
(* Elections *)

LEMMA StepDownType ==
  ASSUME TypeInv, NEW i \in Node, NEW term \in Nat
  PROVE  /\ TermAfter(i, term) \in Nat
         /\ VoteAfter(i, term) \in Node \cup {None}
         /\ StateAfter(i, term) \in NodeState
         /\ StateAfter(i, term) = Candidate => state[i] = Candidate
         /\ StepDown(i, term) =>
              /\ current_term' \in [Node -> Nat]
              /\ voted_for' \in [Node -> Node \cup {None}]
              /\ state' \in [Node -> NodeState]
              /\ \A n \in Node : state'[n] = Candidate => state[n] = Candidate
  <1>1. /\ current_term \in [Node -> Nat] /\ voted_for \in [Node -> Node \cup {None}]
        /\ state \in [Node -> NodeState]
    BY DEF TypeInv, TypeOK
  <1>2. TermAfter(i, term) \in Nat /\ VoteAfter(i, term) \in Node \cup {None}
    BY <1>1 DEF TermAfter, VoteAfter
  <1>3. /\ StateAfter(i, term) \in NodeState
        /\ StateAfter(i, term) = Candidate => state[i] = Candidate
    BY <1>1 DEF StateAfter, NodeState, Follower, Candidate
  <1> QED
    BY <1>1, <1>2, <1>3 DEF StepDown

LEMMA VoteResponseMessage ==
  ASSUME TypeInv, NEW i \in Node, NEW term \in Nat, NEW grant \in BOOLEAN, NEW s
  PROVE  Only(s, <<[type |-> "vote_response", term |-> term, vote_granted |-> grant,
                    voter_battery |-> battery[i]]>>) \in Outbox
  <1>1. battery[i] \in Levels
    BY DEF TypeInv, TypeOK
  <1>2. [type |-> "vote_response", term |-> term, vote_granted |-> grant,
         voter_battery |-> battery[i]] \in Message
    BY <1>1 DEF Message
  <1>3. <<[type |-> "vote_response", term |-> term, vote_granted |-> grant,
           voter_battery |-> battery[i]]>> \in Seq(Message)
    BY <1>2
  <1> QED
    BY <1>3, OnlyType

LEMMA HandleRequestVoteType ==
  ASSUME TypeInv, NEW i \in Node, NEW s \in Node, HandleRequestVote(i, s)
  PROVE  TypeInv'
  <1> DEFINE m == Head(net[s][i])
  <1>1. /\ Unread(s, i) \in Network /\ m \in Message /\ m.type = "request_vote"
        /\ admitted' \in [Node -> [Node -> Nat]]
    BY ArrivesType DEF TypeInv, HandleRequestVote
  <1>2. m.term \in Nat
    BY <1>1, MessageFields
  <1>3. Grants(i, s, m) \in BOOLEAN
    BY DEF Grants
  <1>4. TermAfter(i, m.term) \in Nat
    BY <1>2, StepDownType
  <1>5. net' \in Network
    BY <1>1, <1>3, <1>4, VoteResponseMessage, TransmitType DEF HandleRequestVote
  <1>6. /\ current_term' \in [Node -> Nat]
        /\ voted_for' \in [Node -> Node \cup {None}]
        /\ state' \in [Node -> NodeState]
        /\ \A n \in Node : state'[n] = Candidate => state[n] = Candidate
    BY <1>2, StepDownType DEF TypeInv, TypeOK, HandleRequestVote
  <1> QED
    BY <1>1, <1>5, <1>6
    DEF TypeInv, TypeOK, CandidateVotedForItself, HandleRequestVote, Network,
        replicationVars, triggerVars, handoffVars, partitionVars

LEMMA BecomeLeaderType ==
  ASSUME TypeInv, NEW i \in Node, NEW rest \in Network,
         NEW ballots \in [Node -> Levels \cup {None}], ballots[i] # None,
         BecomeLeader(rest, i, ballots)
  PROVE  /\ state' \in [Node -> NodeState]
         /\ \A n \in Node : state'[n] = Candidate => state[n] = Candidate
         /\ current_leader_id' \in [Node -> Node \cup {None}]
         /\ next_index' \in [Node -> [Node -> Nat \ {0}]]
         /\ match_index' \in [Node -> [Node -> Nat]]
         /\ handoff_sent' \in [Node -> BOOLEAN]
         /\ pending_triggers' \in [Node -> Seq(Reading)]
         /\ log' \in [Node -> Seq(LogEntry)]
         /\ net' \in Network
         /\ elected' \subseteq [term : Nat, leader : Node, quorum : SUBSET Node,
                               battery_level : Levels]
  <1> DEFINE next  == [p \in Node |-> Len(log[i]) + 1]
             cmds  == Proposed(Singletons(pending_triggers[i]))
             claim == IF Protocol = "raft" THEN Heartbeats(i, next)
                      ELSE ToPeers(i, Ping(i, current_term[i]))
  <1>1. TypeOK /\ current_term[i] \in Nat /\ pending_triggers[i] \in Seq(Reading)
    BY DEF TypeInv, TypeOK
  <1>2. next \in [Node -> Nat \ {0}]
    <2>1. Len(log[i]) \in Nat
      BY <1>1, LenProperties DEF TypeOK
    <2> QED
      BY <2>1
  <1>3. cmds \in Seq(Command)
    BY <1>1, ContentType, ProposedType
  <1>4. claim \in Outbox
    BY <1>1, <1>2, HeartbeatsType, PingType, ToPeersType
  <1>5. Then(claim, Rounds(i, cmds, next)) \in Outbox
    BY <1>1, <1>2, <1>3, <1>4, RoundsType, ThenType
  <1>6. net' \in Network
    BY <1>5, TransmitType DEF BecomeLeader
  <1>7. log' \in [Node -> Seq(LogEntry)]
    BY <1>1, <1>3, ExtendedType DEF TypeOK, BecomeLeader
  <1>8. elected' \subseteq [term : Nat, leader : Node, quorum : SUBSET Node,
                          battery_level : Levels]
    BY <1>1 DEF TypeOK, BecomeLeader, Voters
  <1>9. pending_triggers' \in [Node -> Seq(Reading)]
    BY <1>1, EmptySeq DEF TypeOK, BecomeLeader, Flushed
  <1>10. /\ next_index' \in [Node -> [Node -> Nat \ {0}]]
         /\ match_index' \in [Node -> [Node -> Nat]]
    BY <1>1, <1>2 DEF TypeOK, BecomeLeader
  <1> QED
    BY <1>1, <1>6, <1>7, <1>8, <1>9, <1>10
    DEF TypeOK, BecomeLeader, NodeState, Leader, Candidate

LEMMA HandleVoteResponseType ==
  ASSUME TypeInv, NEW i \in Node, NEW s \in Node, HandleVoteResponse(i, s)
  PROVE  TypeInv'
  <1> DEFINE m == Head(net[s][i])
             rest == Unread(s, i)
             ballots == IF m.vote_granted THEN [votes[i] EXCEPT ![s] = m.voter_battery]
                        ELSE votes[i]
  <1>1. /\ rest \in Network /\ m \in Message /\ m.type = "vote_response"
        /\ admitted' \in [Node -> [Node -> Nat]]
    BY ArrivesType DEF TypeInv, HandleVoteResponse
  <1>2. m.term \in Nat /\ m.voter_battery \in Levels
    BY <1>1, MessageFields
  <1>3. ballots \in [Node -> Levels \cup {None}]
    BY <1>2 DEF TypeInv, TypeOK
  <1>4. ASSUME state[i] = Candidate PROVE ballots[i] # None
    BY <1>2, <1>4, NoneAssumption DEF TypeInv, TypeOK, CandidateVotedForItself
  <1>5. CASE /\ state[i] = Candidate
             /\ votes' = [votes EXCEPT ![i] = ballots]
             /\ BecomeLeader(rest, i, ballots)
             /\ UNCHANGED <<current_term, voted_for>>
    <2>1. votes' \in [Node -> [Node -> Levels \cup {None}]]
      BY <1>3, <1>5 DEF TypeInv, TypeOK
    <2>2. CandidateVotedForItself'
      BY <1>1, <1>3, <1>4, <1>5, BecomeLeaderType DEF TypeInv, TypeOK, CandidateVotedForItself
    <2> QED
      BY <1>1, <1>3, <1>4, <1>5, <2>1, <2>2, BecomeLeaderType
      DEF TypeInv, TypeOK, HandleVoteResponse, Network, partitionVars
  <1>6. CASE /\ state[i] = Candidate
             /\ votes' = [votes EXCEPT ![i] = ballots]
             /\ Transmit(rest, i, Nothing)
             /\ UNCHANGED <<state, elected, current_leader_id, log, next_index,
                            match_index, pending_triggers, handoff_sent>>
             /\ UNCHANGED <<current_term, voted_for>>
    <2>1. net' \in Network
      BY <1>1, <1>6, NothingType, TransmitType
    <2>2. CandidateVotedForItself' /\ votes' \in [Node -> [Node -> Levels \cup {None}]]
      BY <1>3, <1>4, <1>6 DEF TypeInv, TypeOK, CandidateVotedForItself
    <2> QED
      BY <1>1, <1>6, <2>1, <2>2
      DEF TypeInv, TypeOK, HandleVoteResponse, Network, partitionVars
  <1>7. CASE /\ StepDown(i, m.term)
             /\ Transmit(rest, i, Nothing)
             /\ UNCHANGED <<votes, elected, current_leader_id, log, next_index, match_index,
                            pending_triggers, handoff_sent>>
    <2>1. net' \in Network
      BY <1>1, <1>7, NothingType, TransmitType
    <2> QED
      BY <1>1, <1>2, <1>7, <2>1, StepDownType
      DEF TypeInv, TypeOK, CandidateVotedForItself, HandleVoteResponse, Network, partitionVars
  <1> QED
    BY <1>5, <1>6, <1>7 DEF HandleVoteResponse

LEMMA HandleLivenessPingType ==
  ASSUME TypeInv, NEW i \in Node, NEW s \in Node, HandleLivenessPing(i, s)
  PROVE  TypeInv'
  <1> DEFINE m == Head(net[s][i])
  <1>1. /\ Unread(s, i) \in Network /\ m \in Message /\ m.type = "liveness_ping"
        /\ admitted' \in [Node -> [Node -> Nat]]
    BY ArrivesType DEF TypeInv, HandleLivenessPing
  <1>2. m.term \in Nat
    BY <1>1, MessageFields
  <1>3. net' \in Network
    BY <1>1, NothingType, TransmitType DEF HandleLivenessPing
  <1>4. StepDown(i, m.term)
    BY DEF HandleLivenessPing
  <1> QED
    BY <1>1, <1>2, <1>3, <1>4, StepDownType
    DEF TypeInv, TypeOK, CandidateVotedForItself, HandleLivenessPing, Network,
        replicationVars, triggerVars, handoffVars, partitionVars

LEMMA HandleLeadershipHandoffType ==
  ASSUME TypeInv, NEW i \in Node, NEW s \in Node, HandleLeadershipHandoff(i, s)
  PROVE  TypeInv'
  <1> DEFINE m == Head(net[s][i])
  <1>1. /\ Unread(s, i) \in Network /\ m \in Message /\ m.type = "leadership_handoff"
        /\ admitted' \in [Node -> [Node -> Nat]]
    BY ArrivesType DEF TypeInv, HandleLeadershipHandoff
  <1>2. TermAfter(i, m.term) \in Nat
    BY <1>1, MessageFields, StepDownType
  <1>3. CASE StartElection(Unread(s, i), i, TermAfter(i, m.term))
    BY <1>1, <1>2, <1>3, StartElectionType
    DEF TypeInv, TypeOK, HandleLeadershipHandoff, Network, replicationVars, triggerVars,
        handoffVars, partitionVars
  <1>4. CASE /\ Transmit(Unread(s, i), i, Nothing)
             /\ UNCHANGED <<electionVars, current_leader_id>>
    <2>1. net' \in Network
      BY <1>1, <1>4, NothingType, TransmitType
    <2> QED
      BY <1>1, <1>4, <2>1
      DEF TypeInv, TypeOK, CandidateVotedForItself, HandleLeadershipHandoff, Network,
          electionVars, replicationVars, triggerVars, handoffVars, partitionVars
  <1> QED
    BY <1>3, <1>4 DEF HandleLeadershipHandoff

-----------------------------------------------------------------------------
(* Replication *)

\* What a merge sends to the leader: an acknowledgement, after a batch of what
\* was cut off if there was any.
LEMMA MergeEntriesSends ==
  ASSUME TypeInv, NEW i \in Node, NEW s \in Node, NEW rest, NEW m,
         m.term \in Nat, m.prev_log_index \in Nat, m.entries \in Seq(LogEntry),
         Consistent(log[i], m.prev_log_index, m.prev_log_term),
         MergeEntries(rest, i, s, m)
  PROVE  \E ms \in Seq(Message) :
           /\ Transmit(rest, i, Only(s, ms))
           /\ \A o \in Content(ms) :
                /\ o.type \in {"append_response", "reconcile_batch"}
                /\ o.type = "append_response" => o = AppendResponse(i, m.term, TRUE,
                     Len(Merged(log[i], m.prev_log_index, m.entries)))
  <1> DEFINE cut     == Truncated(log[i], m.prev_log_index, m.entries)
             merged  == Merged(log[i], m.prev_log_index, m.entries)
             replays == {k \in DOMAIN cut : cut[k].epoch # 0}
             answer  == AppendResponse(i, m.term, TRUE, Len(merged))
             batch(at) == [type |-> "reconcile_batch",
                           commands |-> [k \in DOMAIN at |-> cut[at[k]].command]]
             Fits(o) == /\ o.type \in {"append_response", "reconcile_batch"}
                        /\ o.type = "append_response" => o = answer
  <1>1. log[i] \in Seq(LogEntry) /\ Len(log[i]) \in Nat
    BY LenProperties DEF TypeInv, TypeOK
  <1>2. m.prev_log_index <= Len(log[i])
    BY <1>1 DEF Consistent
  <1>3. merged \in Seq(LogEntry) /\ cut \in Seq(LogEntry)
    BY <1>1, <1>2, MergeIsSeq
  <1>4. Len(merged) \in Nat
    BY <1>3, LenProperties
  <1>5. answer \in Message /\ answer.type = "append_response"
    BY <1>4, AppendResponseType DEF TypeInv, AppendResponse
  <1>6. ASSUME NEW at \in InOrder(replays)
        PROVE  batch(at) \in Message /\ batch(at).type = "reconcile_batch"
    <2>1. at \in Seq(replays)
      BY <1>3, InOrderIsSeq, PositionsAreFinite
    <2>2. \A k \in DOMAIN at : at[k] \in DOMAIN cut
      BY <2>1, ElementOfSeq, LenProperties
    <2>3. \A k \in DOMAIN at : cut[at[k]].command \in Command
      BY <1>3, <2>2, TermOfLogType
    <2>4. DOMAIN at = 1 .. Len(at) /\ Len(at) \in Nat
      BY <2>1, LenProperties
    <2>5. [k \in DOMAIN at |-> cut[at[k]].command] \in Seq(Command)
      BY <2>3, <2>4
    <2> QED
      BY <2>5 DEF Message
  <1>7. \/ Transmit(rest, i, Only(s, <<answer>>))
        \/ \E at \in InOrder(replays) : Transmit(rest, i, Only(s, <<batch(at), answer>>))
    BY DEF MergeEntries
  <1> HIDE DEF answer, batch, replays
  <1>8. ASSUME Transmit(rest, i, Only(s, <<answer>>))
        PROVE  \E ms \in Seq(Message) :
                 /\ Transmit(rest, i, Only(s, ms))
                 /\ \A o \in Content(ms) : Fits(o)
    <2> DEFINE ms == <<answer>>
    <2>1. ms \in Seq(Message)
      BY <1>5, MessagesAreSeq, Zenon
    <2>2. \A o \in Content(ms) : Fits(o)
      BY <1>5 DEF Content
    <2> QED
      BY <1>8, <2>1, <2>2, Zenon
  <1>9. ASSUME NEW at \in InOrder(replays), Transmit(rest, i, Only(s, <<batch(at), answer>>))
        PROVE  \E ms \in Seq(Message) :
                 /\ Transmit(rest, i, Only(s, ms))
                 /\ \A o \in Content(ms) : Fits(o)
    <2> DEFINE ms == <<batch(at), answer>>
    <2>1. ms \in Seq(Message)
      BY <1>5, <1>6, MessagesAreSeq, Zenon
    <2>2. \A o \in Content(ms) : Fits(o)
      BY <1>5, <1>6 DEF Content
    <2> QED
      BY <1>9, <2>1, <2>2, Zenon
  <1>10. \E ms \in Seq(Message) :
           /\ Transmit(rest, i, Only(s, ms))
           /\ \A o \in Content(ms) : Fits(o)
    BY <1>7, <1>8, <1>9
  <1> QED
    BY <1>10 DEF answer

LEMMA MergeEntriesType ==
  ASSUME TypeInv, NEW i \in Node, NEW s \in Node, NEW rest \in Network, NEW m,
         m.term \in Nat, m.prev_log_index \in Nat, m.entries \in Seq(LogEntry),
         m.leader_commit \in Nat,
         Consistent(log[i], m.prev_log_index, m.prev_log_term),
         MergeEntries(rest, i, s, m)
  PROVE  /\ log' \in [Node -> Seq(LogEntry)]
         /\ commit_index' \in [Node -> Nat]
         /\ net' \in Network
  <1> DEFINE merged == Merged(log[i], m.prev_log_index, m.entries)
  <1>1. log[i] \in Seq(LogEntry) /\ Len(log[i]) \in Nat
    BY LenProperties DEF TypeInv, TypeOK
  <1>2. m.prev_log_index <= Len(log[i])
    BY <1>1 DEF Consistent
  <1>3. merged \in Seq(LogEntry)
    BY <1>1, <1>2, MergeIsSeq
  <1>4. Len(merged) \in Nat
    BY <1>3, LenProperties
  <1>5. log' \in [Node -> Seq(LogEntry)]
    BY <1>3 DEF TypeInv, TypeOK, MergeEntries
  <1>6. commit_index' \in [Node -> Nat]
    BY <1>4 DEF TypeInv, TypeOK, MergeEntries, CommitAfter
  <1>7. PICK ms \in Seq(Message) : Transmit(rest, i, Only(s, ms))
    BY MergeEntriesSends
  <1>8. net' \in Network
    BY <1>7, OnlyType, TransmitType
  <1> QED
    BY <1>5, <1>6, <1>8

LEMMA HandleAppendEntriesType ==
  ASSUME TypeInv, NEW i \in Node, NEW s \in Node, HandleAppendEntries(i, s)
  PROVE  TypeInv'
  <1> DEFINE m == Head(net[s][i])
             rest == Unread(s, i)
             refusal == Only(s, <<AppendResponse(i, TermAfter(i, m.term), FALSE, 0)>>)
  <1>1. /\ rest \in Network /\ m \in Message /\ m.type = "append_entries"
        /\ admitted' \in [Node -> [Node -> Nat]]
    BY ArrivesType DEF TypeInv, HandleAppendEntries
  <1>2. /\ m.term \in Nat /\ m.prev_log_index \in Nat /\ m.entries \in Seq(LogEntry)
        /\ m.leader_commit \in Nat
    BY <1>1, MessageFields
  <1>3. refusal \in Outbox
    <2>1. AppendResponse(i, TermAfter(i, m.term), FALSE, 0) \in Message
      BY <1>2, AppendResponseType, StepDownType DEF TypeInv
    <2>2. <<AppendResponse(i, TermAfter(i, m.term), FALSE, 0)>> \in Seq(Message)
      BY <2>1, MessagesAreSeq, Zenon
    <2> QED
      BY <2>2, OnlyType
  <1>4. /\ log' \in [Node -> Seq(LogEntry)] /\ commit_index' \in [Node -> Nat]
        /\ net' \in Network
    <2>1. CASE Transmit(rest, i, refusal) /\ UNCHANGED <<log, commit_index>>
      BY <1>1, <1>3, <2>1, TransmitType DEF TypeInv, TypeOK
    <2>2. CASE /\ Consistent(log[i], m.prev_log_index, m.prev_log_term)
               /\ MergeEntries(rest, i, s, m)
      BY <1>1, <1>2, <2>2, MergeEntriesType
    <2> QED
      BY <2>1, <2>2 DEF HandleAppendEntries
  <1>5. /\ current_term' \in [Node -> Nat]
        /\ voted_for' \in [Node -> Node \cup {None}]
        /\ current_leader_id' \in [Node -> Node \cup {None}]
        /\ state' \in [Node -> NodeState]
        /\ \A n \in Node : state'[n] = Candidate => state[n] = Candidate
    <2>1. CASE UNCHANGED <<state, current_term, voted_for, current_leader_id>>
      BY <2>1 DEF TypeInv, TypeOK
    <2>2. CASE /\ current_term' = [current_term EXCEPT ![i] = m.term]
               /\ voted_for' = [voted_for EXCEPT ![i] = VoteAfter(i, m.term)]
               /\ state' = [state EXCEPT ![i] =
                    IF StateAfter(i, m.term) = Candidate THEN Follower
                    ELSE StateAfter(i, m.term)]
               /\ current_leader_id' = [current_leader_id EXCEPT ![i] = s]
      BY <1>2, <2>2, StepDownType DEF TypeInv, TypeOK, NodeState
    <2> QED
      BY <2>1, <2>2 DEF HandleAppendEntries
  <1> QED
    BY <1>1, <1>4, <1>5
    DEF TypeInv, TypeOK, CandidateVotedForItself, HandleAppendEntries, Network, triggerVars,
        handoffVars, partitionVars

LEMMA HandleAppendResponseType ==
  ASSUME TypeInv, NEW i \in Node, NEW s \in Node, HandleAppendResponse(i, s)
  PROVE  TypeInv'
  <1> DEFINE m == Head(net[s][i])
             match == [match_index[i] EXCEPT ![s] = m.match_index]
  <1>1. /\ Unread(s, i) \in Network /\ m \in Message /\ m.type = "append_response"
        /\ admitted' \in [Node -> [Node -> Nat]]
    BY ArrivesType DEF TypeInv, HandleAppendResponse
  <1>2. m.term \in Nat /\ m.match_index \in Nat /\ m.responder_battery \in Levels
    BY <1>1, MessageFields
  <1>3. net' \in Network
    BY <1>1, NothingType, TransmitType DEF HandleAppendResponse
  <1>4. StepDown(i, m.term)
    BY DEF HandleAppendResponse
  <1>5. next_index' \in [Node -> [Node -> Nat \ {0}]]
    <2>1. next_index \in [Node -> [Node -> Nat \ {0}]]
      BY DEF TypeInv, TypeOK
    <2>2. NextIndex(m, next_index[i][s]) \in Nat \ {0}
      <3>1. next_index[i][s] \in Nat \ {0}
        BY <2>1
      <3> QED
        BY <1>2, <3>1 DEF NextIndex
    <2>3. CASE next_index' = next_index
      BY <2>1, <2>3
    <2>4. CASE next_index' = [next_index EXCEPT ![i][s] = NextIndex(m, @)]
      BY <2>1, <2>2, <2>4
    <2> QED
      BY <2>3, <2>4 DEF HandleAppendResponse
  <1>6. match_index' \in [Node -> [Node -> Nat]]
    <2>1. match_index \in [Node -> [Node -> Nat]]
      BY DEF TypeInv, TypeOK
    <2>2. match_index' = match_index \/ match_index' = [match_index EXCEPT ![i] = match]
      BY DEF HandleAppendResponse
    <2> QED
      BY <1>2, <2>1, <2>2
  <1>7. commit_index' \in [Node -> Nat]
    <2>1. commit_index \in [Node -> Nat] /\ Len(log[i]) \in Nat
      BY LenProperties DEF TypeInv, TypeOK
    <2>2. CASE UNCHANGED commit_index
      BY <2>1, <2>2
    <2>3. CASE TryAdvanceCommit(i, match) /\ commit_index' # commit_index
      <3>1. PICK n \in Committable(log[i], commit_index[i], current_term[i], match,
                                   Cardinality(Node)) :
              commit_index' = [commit_index EXCEPT ![i] = n]
        BY <2>2, <2>3, Zenon DEF TryAdvanceCommit
      <3>2. n \in commit_index[i] + 1 .. Len(log[i])
        BY CommittableBounds, Zenon
      <3>3. n \in Nat
        BY <2>1, <3>2
      <3> QED
        BY <2>1, <3>1, <3>3
    <2> QED
      BY <2>2, <2>3 DEF HandleAppendResponse
  <1>8. peer_batteries' \in [Node -> [Node -> Levels \cup {100}]]
    <2>1. peer_batteries \in [Node -> [Node -> Levels \cup {100}]]
      BY DEF TypeInv, TypeOK
    <2> DEFINE level == IF m.term > current_term[i] THEN peer_batteries[i][s]
                        ELSE m.responder_battery
    <2>2. level \in Levels \cup {100}
      BY <1>2, <2>1
    <2>3. peer_batteries' = [peer_batteries EXCEPT ![i][s] = level]
      BY DEF HandleAppendResponse
    <2> QED
      BY <2>1, <2>2, <2>3
  <1> QED
    BY <1>1, <1>2, <1>3, <1>4, <1>5, <1>6, <1>7, <1>8, StepDownType
    DEF TypeInv, TypeOK, CandidateVotedForItself, HandleAppendResponse, Network, triggerVars,
        partitionVars

-----------------------------------------------------------------------------
(* Sensor reports, partitions and the network *)

\* What TakeReading changes, whoever the report came from.
LEMMA TakeReadingType ==
  ASSUME TypeInv, NEW i \in Node, NEW rest \in Network, NEW reading \in Reading,
         TakeReading(rest, i, reading)
  PROVE  /\ pending_triggers' \in [Node -> Seq(Reading)]
         /\ batch_buffer' \in [Node -> Seq(Reading)]
         /\ last_sensor' \in [Node -> [Leaf -> Value \cup {None}]]
         /\ log' \in [Node -> Seq(LogEntry)]
         /\ net' \in Network
  <1> DEFINE batch == Append(batch_buffer[i], reading)
             forwarded == Only(current_leader_id[i],
                            <<[type |-> "sensor_data", reading |-> reading]>>)
  <1>1. /\ TypeOK
        /\ batch_buffer \in [Node -> Seq(Reading)] /\ pending_triggers \in [Node -> Seq(Reading)]
        /\ last_sensor \in [Node -> [Leaf -> Value \cup {None}]]
        /\ log \in [Node -> Seq(LogEntry)]
    BY DEF TypeInv, TypeOK
  <1>2. batch \in Seq(Reading) /\ Append(pending_triggers[i], reading) \in Seq(Reading)
    BY <1>1, AppendProperties
  <1>3. /\ pending_triggers' \in [Node -> Seq(Reading)]
        /\ batch_buffer' \in [Node -> Seq(Reading)]
    <2>1. \/ pending_triggers' = pending_triggers
          \/ pending_triggers' = [pending_triggers EXCEPT ![i] = Append(@, reading)]
      BY DEF TakeReading
    <2>2. \/ batch_buffer' = batch_buffer
          \/ batch_buffer' = [batch_buffer EXCEPT ![i] = Flushed(batch)]
          \/ batch_buffer' = [batch_buffer EXCEPT ![i] = batch]
      BY DEF TakeReading
    <2>3. Flushed(batch) \in Seq(Reading)
      BY EmptySeq DEF Flushed
    <2> QED
      BY <1>1, <1>2, <2>1, <2>2, <2>3
  <1>4. last_sensor' \in [Node -> [Leaf -> Value \cup {None}]]
    <2>1. \/ last_sensor' = last_sensor
          \/ last_sensor' = [last_sensor EXCEPT ![i][reading.leaf] = reading.value]
      BY DEF TakeReading
    <2>2. reading.leaf \in Leaf /\ reading.value \in Value
      BY DEF Reading
    <2>3. CASE last_sensor' = last_sensor
      BY <1>1, <2>3
    <2>4. CASE last_sensor' = [last_sensor EXCEPT ![i][reading.leaf] = reading.value]
      <3>1. last_sensor[i] \in [Leaf -> Value \cup {None}]
        BY <1>1
      <3>2. [last_sensor[i] EXCEPT ![reading.leaf] = reading.value]
              \in [Leaf -> Value \cup {None}]
        BY <2>2, <3>1
      <3> QED
        BY <1>1, <2>4, <3>2
    <2> QED
      BY <2>1, <2>3, <2>4
  <1>5. forwarded \in Outbox
    <2>1. [type |-> "sensor_data", reading |-> reading] \in Message
      BY DEF Message
    <2> QED
      BY <2>1, MessagesAreSeq, OnlyType, Zenon
  <1>6. <<{reading}>> \in Seq(Command) /\ <<Content(batch)>> \in Seq(Command)
    <2>1. {reading} \in Command
      BY DEF Command
    <2>2. Content(batch) \in Command
      BY <1>2, ContentType
    <2> QED
      BY <2>1, <2>2
  <1>7. log' \in [Node -> Seq(LogEntry)] /\ net' \in Network
    <2>1. CASE Transmit(rest, i, forwarded) /\ UNCHANGED log
      BY <1>1, <1>5, <2>1, TransmitType
    <2>2. CASE Transmit(rest, i, Nothing) /\ UNCHANGED log
      BY <1>1, <2>2, NothingType, TransmitType
    <2>3. CASE \/ Replicate(rest, i, <<{reading}>>)
               \/ Replicate(rest, i, <<Content(batch)>>)
      BY <1>1, <1>6, <2>3, ReplicateType, Zenon
    <2> QED
      BY <2>1, <2>2, <2>3 DEF TakeReading
  <1> QED
    BY <1>3, <1>4, <1>7

LEMMA LeafReportType ==
  ASSUME TypeInv, NEW i \in Node, NEW reading \in Reading, LeafReport(i, reading)
  PROVE  TypeInv'
  <1>1. net \in Network /\ TakeReading(net, i, reading)
    BY DEF TypeInv, TypeOK, Network, LeafReport
  <1>2. /\ pending_triggers' \in [Node -> Seq(Reading)]
        /\ batch_buffer' \in [Node -> Seq(Reading)]
        /\ last_sensor' \in [Node -> [Leaf -> Value \cup {None}]]
        /\ log' \in [Node -> Seq(LogEntry)]
        /\ net' \in Network
    BY <1>1, TakeReadingType
  <1>3. UNCHANGED <<electionVars, current_leader_id, commit_index, next_index, match_index,
                    recent_reconciles, handoffVars, partitionVars, battery>>
    BY <1>1 DEF TakeReading
  <1>4. reports' \in Nat /\ UNCHANGED admitted
    BY DEF TypeInv, TypeOK, LeafReport
  <1>5. CandidateVotedForItself'
    BY <1>3 DEF TypeInv, CandidateVotedForItself, electionVars
  <1> QED
    BY <1>2, <1>3, <1>4, <1>5
    DEF TypeInv, TypeOK, Network, electionVars, handoffVars, partitionVars

LEMMA HandleSensorDataType ==
  ASSUME TypeInv, NEW i \in Node, NEW s \in Node, HandleSensorData(i, s)
  PROVE  TypeInv'
  <1> DEFINE m == Head(net[s][i])
  <1>1. /\ Unread(s, i) \in Network /\ m \in Message /\ m.type = "sensor_data"
        /\ admitted' \in [Node -> [Node -> Nat]]
    BY ArrivesType DEF TypeInv, HandleSensorData
  <1>2. m.reading \in Reading /\ TakeReading(Unread(s, i), i, m.reading)
    BY <1>1, MessageFields DEF HandleSensorData
  <1>3. /\ pending_triggers' \in [Node -> Seq(Reading)]
        /\ batch_buffer' \in [Node -> Seq(Reading)]
        /\ last_sensor' \in [Node -> [Leaf -> Value \cup {None}]]
        /\ log' \in [Node -> Seq(LogEntry)]
        /\ net' \in Network
    BY <1>1, <1>2, TakeReadingType
  <1>4. UNCHANGED <<electionVars, current_leader_id, commit_index, next_index, match_index,
                    recent_reconciles, handoffVars, partitionVars, battery>>
    BY <1>2 DEF TakeReading
  <1> QED
    BY <1>1, <1>3, <1>4
    DEF TypeInv, TypeOK, CandidateVotedForItself, HandleSensorData, Network, electionVars,
        handoffVars, partitionVars

\* The commands of a batch that its receiver proposes.
LEMMA FreshCommandsType ==
  ASSUME NEW cmds \in Seq(Command), NEW recent, NEW at \in InOrder(FreshPositions(cmds, recent))
  PROVE  [k \in DOMAIN at |-> cmds[at[k]]] \in Seq(Command)
  <1> DEFINE P == FreshPositions(cmds, recent)
  <1>1. P \in SUBSET DOMAIN cmds
    BY DEF FreshPositions
  <1>2. at \in Seq(P)
    BY <1>1, InOrderIsSeq, PositionsAreFinite
  <1>3. DOMAIN at = 1 .. Len(at) /\ Len(at) \in Nat /\ \A k \in DOMAIN at : at[k] \in P
    BY <1>2, ElementOfSeq, LenProperties
  <1>4. \A k \in DOMAIN at : cmds[at[k]] \in Command
    BY <1>1, <1>3, ElementOfSeq, LenProperties
  <1> QED
    BY <1>3, <1>4

LEMMA HandleReconcileBatchType ==
  ASSUME TypeInv, NEW i \in Node, NEW s \in Node, HandleReconcileBatch(i, s)
  PROVE  TypeInv'
  <1> DEFINE m == Head(net[s][i])
             rest == Unread(s, i)
             P == FreshPositions(m.commands, recent_reconciles[i])
             fresh(at) == [k \in DOMAIN at |-> m.commands[at[k]]]
             recent(at) == recent_reconciles[i] \o fresh(at)
             kept(at) == IF Len(recent(at)) > RecentCap THEN Suffix(recent(at), RecentCut)
                         ELSE recent(at)
  <1>1. /\ rest \in Network /\ m \in Message /\ m.type = "reconcile_batch"
        /\ admitted' \in [Node -> [Node -> Nat]]
    BY ArrivesType DEF TypeInv, HandleReconcileBatch
  <1>2. m.commands \in Seq(Command)
    BY <1>1, MessageFields
  <1>3. /\ TypeOK /\ recent_reconciles \in [Node -> Seq(Command)]
        /\ log \in [Node -> Seq(LogEntry)]
    BY DEF TypeInv, TypeOK
  <1>4. ASSUME NEW at \in InOrder(P)
        PROVE  fresh(at) \in Seq(Command) /\ kept(at) \in Seq(Command)
    <2>5. fresh(at) \in Seq(Command)
      BY <1>2, FreshCommandsType
    <2> HIDE DEF fresh
    <2>6. recent(at) \in Seq(Command)
      BY <1>3, <2>5, ConcatProperties
    <2>7. RecentCut \in Nat
      BY LimitAssumption
    <2> HIDE DEF recent
    <2>8. Suffix(recent(at), RecentCut) \in Seq(Command)
      BY <2>6, <2>7, SuffixIsSeq
    <2> QED
      BY <2>5, <2>6, <2>8
  <1>5. CASE /\ Transmit(rest, i, Nothing)
             /\ UNCHANGED <<log, recent_reconciles>>
    <2>1. net' \in Network
      BY <1>1, <1>5, NothingType, TransmitType
    <2> QED
      BY <1>1, <1>5, <2>1
      DEF TypeInv, TypeOK, CandidateVotedForItself, HandleReconcileBatch, Network,
          electionVars, handoffVars, partitionVars
  <1>6. ASSUME NEW at \in InOrder(P),
               recent_reconciles' = [recent_reconciles EXCEPT ![i] = kept(at)],
               Replicate(rest, i, Proposed(fresh(at)))
        PROVE  TypeInv'
    <2>1. Proposed(fresh(at)) \in Seq(Command) /\ kept(at) \in Seq(Command)
      BY <1>4, ProposedType
    <2> HIDE DEF fresh, recent, kept
    <2>2. log' \in [Node -> Seq(LogEntry)] /\ net' \in Network
      BY <1>1, <1>3, <1>6, <2>1, ReplicateType
    <2>3. recent_reconciles' \in [Node -> Seq(Command)]
      BY <1>3, <1>6, <2>1
    <2> QED
      BY <1>1, <2>2, <2>3
      DEF TypeInv, TypeOK, CandidateVotedForItself, HandleReconcileBatch, Network,
          electionVars, handoffVars, partitionVars
  <1> QED
    BY <1>5, <1>6 DEF HandleReconcileBatch

LEMMA PublishControlType ==
  ASSUME TypeInv, NEW c \in Control, PublishControl(c)
  PROVE  TypeInv'
  <1>1. \A n \in Node : Append(control[n], c) \in Seq(Control)
    BY AppendProperties DEF TypeInv, TypeOK
  <1> QED
    BY <1>1
    DEF TypeInv, TypeOK, CandidateVotedForItself, PublishControl, electionVars,
        replicationVars, triggerVars, handoffVars

LEMMA HandlePartitionControlType ==
  ASSUME TypeInv, NEW i \in Node, HandlePartitionControl(i)
  PROVE  TypeInv'
  <1> DEFINE c == Head(control[i])
             split == c.action = "partition"
             blocked == IF split THEN UNION {g \in c.groups : i \notin g} ELSE {}
             let(s) == IF s \notin blocked THEN 0
                       ELSE IF s \in blocked_senders[i] THEN admitted[i][s]
                       ELSE Len(net[s][i])
  <1>1. c \in Control /\ Tail(control[i]) \in Seq(Control)
    BY HeadTailProperties DEF TypeInv, TypeOK, HandlePartitionControl
  <1>2. blocked \subseteq Node
    BY <1>1, SplitsAssumption DEF Control
  <1>3. control' \in [Node -> Seq(Control)] /\ blocked_senders' \in [Node -> SUBSET Node]
    BY <1>1, <1>2 DEF TypeInv, TypeOK, HandlePartitionControl
  <1>4. admitted' \in [Node -> [Node -> Nat]]
    <2>1. ASSUME NEW s \in Node PROVE let(s) \in Nat
      BY LenProperties DEF TypeInv, TypeOK
    <2>2. admitted' = [admitted EXCEPT ![i] = [s \in Node |-> let(s)]]
      BY DEF HandlePartitionControl
    <2> HIDE DEF let
    <2> QED
      BY <2>1, <2>2 DEF TypeInv, TypeOK
  <1>5. partition_epoch' \in [Node -> Nat]
    BY DEF TypeInv, TypeOK, HandlePartitionControl, EpochAfter
  <1>6. /\ state' \in [Node -> NodeState]
        /\ \A n \in Node : state'[n] = Candidate => state[n] = Candidate
    BY DEF TypeInv, TypeOK, HandlePartitionControl, LeadAfter, NodeState, Follower, Candidate,
           LocalLeader
  <1> QED
    BY <1>3, <1>4, <1>5, <1>6
    DEF TypeInv, TypeOK, CandidateVotedForItself, HandlePartitionControl, replicationVars,
        triggerVars, handoffVars

LEMMA DropsType ==
  ASSUME TypeInv, NEW s \in Node, NEW d \in Node, DropBlocked(s, d) \/ Lose(s, d)
  PROVE  TypeInv'
  <1>1. net' \in Network
    <2>1. net \in Network /\ net[s][d] # <<>> /\ net' = Unread(s, d)
      BY DEF TypeInv, TypeOK, Network, DropBlocked, Lose
    <2> QED
      BY <2>1, UnreadType
  <1>2. admitted' \in [Node -> [Node -> Nat]]
    <2> DEFINE left == IF admitted[d][s] > 0 THEN admitted[d][s] - 1 ELSE 0
    <2>1. admitted \in [Node -> [Node -> Nat]]
      BY DEF TypeInv, TypeOK
    <2>2. left \in Nat
      BY <2>1
    <2>3. \/ admitted' = [admitted EXCEPT ![d][s] = 0]
          \/ admitted' = [admitted EXCEPT ![d][s] = left]
      BY DEF DropBlocked, Lose
    <2> QED
      BY <2>1, <2>2, <2>3
  <1> QED
    BY <1>1, <1>2
    DEF TypeInv, TypeOK, CandidateVotedForItself, DropBlocked, Lose, Network, electionVars,
        replicationVars, triggerVars, handoffVars, partitionVars

-----------------------------------------------------------------------------

LEMMA InitType == Init => TypeInv
  <1> SUFFICES ASSUME Init PROVE TypeInv
    OBVIOUS
  <1>1. state \in [Node -> NodeState] /\ \A n \in Node : state[n] # Candidate
    BY DEF Init, NodeState, Follower, Candidate
  <1>2. /\ log \in [Node -> Seq(LogEntry)] /\ pending_triggers \in [Node -> Seq(Reading)]
        /\ batch_buffer \in [Node -> Seq(Reading)] /\ control \in [Node -> Seq(Control)]
        /\ recent_reconciles \in [Node -> Seq(Command)]
    BY EmptySeq DEF Init
  <1>3. net \in [Node -> [Node -> Seq(Message)]]
    BY NothingType DEF Init, Outbox
  <1> QED
    BY <1>1, <1>2, <1>3 DEF Init, TypeInv, TypeOK, CandidateVotedForItself, NoVotes

LEMMA NextType == TypeInv /\ [Next]_vars => TypeInv'
  <1> SUFFICES ASSUME TypeInv, [Next]_vars PROVE TypeInv'
    OBVIOUS
  <1>1. CASE \E i \in Node : Tick(i)
    BY <1>1, IdleTickType, ElectionTimeoutType, RaftLeaderTickType, EchoLeaderTickType,
       EchodLeaderTickType DEF Tick
  <1>2. CASE \E i, s \in Node : Receive(i, s)
    BY <1>2, HandleRequestVoteType, HandleVoteResponseType, HandleAppendEntriesType,
       HandleAppendResponseType, HandleLivenessPingType, HandleSensorDataType,
       HandleLeadershipHandoffType, HandleReconcileBatchType DEF Receive
  <1>3. CASE \E i \in Node : HandlePartitionControl(i)
    BY <1>3, HandlePartitionControlType
  <1>4. CASE Environment
    BY <1>4, BatteryMovesType, DemoSetBatteryType, LeafReportType, PublishControlType, DropsType
    DEF Environment
  <1>5. CASE UNCHANGED vars
    BY <1>5 DEF vars, TypeInv, TypeOK, CandidateVotedForItself, electionVars,
       replicationVars, triggerVars, handoffVars, partitionVars
  <1> QED
    BY <1>1, <1>2, <1>3, <1>4, <1>5 DEF Next

\* The strengthened type invariant of the whole system.
THEOREM TypeInvariant == Spec => []TypeInv
  BY InitType, NextType, PTL DEF Spec

\* Type correctness: no handler of echo_node.py, whatever it receives and in
\* whatever state, leaves a variable or a channel outside its type: indices
\* stay natural numbers, next indices positive, roles and votes well-formed.
THEOREM TypeCorrect == Spec => []TypeOK
  <1>1. TypeInv => TypeOK
    BY DEF TypeInv
  <1> QED
    BY <1>1, TypeInvariant, PTL

-----------------------------------------------------------------------------
(* Grants *)

IsGrant(o) == o.type = "vote_response" /\ o.vote_granted

\* An outbox without a granted vote.
NoGrants(out) == \A d \in Node : \A o \in Content(out[d]) : ~IsGrant(o)

\* No vote is granted on a channel that was not before.
NetQuiet ==
  \A v, c \in Node : \A o \in Content(net'[v][c]) : IsGrant(o) => o \in Content(net[v][c])

\* i neither becomes a candidate or a leader, nor forgets a vote of its term,
\* and is an observer only below T_LOW, for good.
NodeQuiet(i) ==
  /\ current_term'[i] >= current_term[i]
  /\ current_term'[i] = current_term[i] => voted_for'[i] = voted_for[i] \/ state'[i] = Observer
  /\ state[i] = Observer => state'[i] = Observer
  /\ state'[i] = Observer => Protocol # "raft" /\ battery'[i] < T_LOW
  /\ state'[i] = Candidate =>
       /\ state[i] = Candidate
       /\ current_term'[i] = current_term[i] /\ votes'[i] = votes[i]
  /\ Leading(state'[i]) => Leading(state[i]) /\ current_term'[i] = current_term[i]

Quiet ==
  /\ elected' = elected
  /\ NetQuiet
  /\ \A i \in Node : NodeQuiet(i)

-----------------------------------------------------------------------------
(* Grants on the channels *)

LEMMA ContentOfConcat ==
  ASSUME NEW S, NEW s \in Seq(S), NEW t \in Seq(S)
  PROVE  Content(s \o t) = Content(s) \cup Content(t)
  <1>1. /\ DOMAIN s = 1 .. Len(s) /\ DOMAIN t = 1 .. Len(t) /\ Len(s) \in Nat /\ Len(t) \in Nat
        /\ DOMAIN (s \o t) = 1 .. Len(s) + Len(t)
        /\ \A k \in 1 .. Len(s) + Len(t) :
             (s \o t)[k] = IF k <= Len(s) THEN s[k] ELSE t[k - Len(s)]
    BY ConcatProperties, LenProperties
  <1>2. ASSUME NEW k \in DOMAIN (s \o t)
        PROVE  (s \o t)[k] \in Content(s) \cup Content(t)
    <2>1. CASE k <= Len(s)
      BY <1>1, <2>1 DEF Content
    <2>2. CASE ~(k <= Len(s))
      <3>1. k - Len(s) \in DOMAIN t
        BY <1>1, <2>2
      <3> QED
        BY <1>1, <2>2, <3>1 DEF Content
    <2> QED
      BY <2>1, <2>2
  <1>3. ASSUME NEW k \in DOMAIN s PROVE s[k] \in Content(s \o t)
    BY <1>1 DEF Content
  <1>4. ASSUME NEW k \in DOMAIN t PROVE t[k] \in Content(s \o t)
    <2>1. /\ Len(s) + k \in DOMAIN (s \o t) /\ ~(Len(s) + k <= Len(s))
          /\ (Len(s) + k) - Len(s) = k
      BY <1>1
    <2>2. (s \o t)[Len(s) + k] = t[k]
      BY <1>1, <2>1
    <2> QED
      BY <2>1, <2>2 DEF Content
  <1> HIDE DEF Content
  <1>5. Content(s \o t) \subseteq Content(s) \cup Content(t)
    BY <1>2 DEF Content
  <1>6. Content(s) \subseteq Content(s \o t) /\ Content(t) \subseteq Content(s \o t)
    BY <1>3, <1>4 DEF Content
  <1> QED
    BY <1>5, <1>6

LEMMA ContentOfTail ==
  ASSUME NEW S, NEW s \in Seq(S), s # <<>>
  PROVE  Content(Tail(s)) \subseteq Content(s) /\ Head(s) \in Content(s)
  <1>1. /\ DOMAIN s = 1 .. Len(s) /\ DOMAIN Tail(s) = 1 .. Len(s) - 1 /\ Len(s) \in Nat \ {0}
        /\ \A k \in 1 .. Len(s) - 1 : Tail(s)[k] = s[k + 1]
    BY HeadTailProperties, LenProperties, EmptySeq
  <1>2. \A k \in DOMAIN Tail(s) : k + 1 \in DOMAIN s /\ Tail(s)[k] = s[k + 1]
    BY <1>1
  <1>3. Head(s) = s[1] /\ 1 \in DOMAIN s
    BY <1>1
  <1> QED
    BY <1>2, <1>3 DEF Content

LEMMA ContentOfShort ==
  /\ Content(<<>>) = {}
  /\ \A m : Content(<<m>>) = {m}
  /\ \A m, o : Content(<<m, o>>) = {m, o}
  BY DEF Content

\* Taking a message out of a channel leaves a part of what was there.
LEMMA UnreadContent ==
  ASSUME net \in Network, NEW s \in Node, NEW d \in Node, net[s][d] # <<>>
  PROVE  /\ \A v, c \in Node : Content(Unread(s, d)[v][c]) \subseteq Content(net[v][c])
         /\ Head(net[s][d]) \in Content(net[s][d])
  <1>1. net[s][d] \in Seq(Message)
    BY DEF Network
  <1>2. Content(Tail(net[s][d])) \subseteq Content(net[s][d])
        /\ Head(net[s][d]) \in Content(net[s][d])
    BY <1>1, ContentOfTail
  <1>3. ASSUME NEW v \in Node, NEW c \in Node
        PROVE  Unread(s, d)[v][c] = IF v = s /\ c = d THEN Tail(net[s][d]) ELSE net[v][c]
    BY DEF Unread, Network
  <1> QED
    BY <1>2, <1>3

\* What is on the channels after i publishes out.
LEMMA TransmitContent ==
  ASSUME NEW rest \in Network, NEW i \in Node, NEW out \in Outbox, Transmit(rest, i, out),
         NEW v \in Node, NEW c \in Node
  PROVE  Content(net'[v][c]) =
           Content(rest[v][c]) \cup (IF v = i THEN Content(out[c]) ELSE {})
  <1>1. net'[v][c] = IF v = i THEN rest[v][c] \o out[c] ELSE rest[v][c]
    BY DEF Transmit, Then, Network
  <1>2. rest[v][c] \in Seq(Message) /\ out[c] \in Seq(Message)
    BY DEF Network, Outbox
  <1>3. Content(rest[v][c] \o out[c]) = Content(rest[v][c]) \cup Content(out[c])
    BY <1>2, ContentOfConcat
  <1> QED
    BY <1>1, <1>3

LEMMA TransmitQuiet ==
  ASSUME NEW rest \in Network, NEW i \in Node, NEW out \in Outbox, Transmit(rest, i, out),
         NoGrants(out),
         \A v, c \in Node : Content(rest[v][c]) \subseteq Content(net[v][c])
  PROVE  NetQuiet
  <1> SUFFICES ASSUME NEW v \in Node, NEW c \in Node, NEW o \in Content(net'[v][c]), IsGrant(o)
               PROVE  o \in Content(net[v][c])
    BY DEF NetQuiet
  <1>1. o \in Content(rest[v][c]) \/ o \in Content(out[c])
    BY TransmitContent
  <1> QED
    BY <1>1 DEF NoGrants

-----------------------------------------------------------------------------
(* Outboxes without granted votes *)

LEMMA NothingGrantless == NoGrants(Nothing)
  BY ContentOfShort DEF NoGrants, Nothing

LEMMA OnlyGrantless ==
  ASSUME NEW d, NEW ms, \A o \in Content(ms) : ~IsGrant(o)
  PROVE  NoGrants(Only(d, ms))
  BY ContentOfShort DEF NoGrants, Only

LEMMA ToPeersGrantless ==
  ASSUME NEW i, NEW m, ~IsGrant(m)
  PROVE  NoGrants(ToPeers(i, m))
  <1>1. ASSUME NEW d \in Node PROVE Content(ToPeers(i, m)[d]) \subseteq {m}
    <2>1. ToPeers(i, m)[d] = <<>> \/ ToPeers(i, m)[d] = <<m>>
      BY DEF ToPeers
    <2>2. Content(<<>>) = {} /\ Content(<<m>>) = {m}
      BY ContentOfShort
    <2> QED
      BY <2>1, <2>2, Zenon
  <1> QED
    BY <1>1 DEF NoGrants

LEMMA ThenGrantless ==
  ASSUME NEW out \in Outbox, NEW more \in Outbox, NoGrants(out), NoGrants(more)
  PROVE  NoGrants(Then(out, more))
  <1>1. ASSUME NEW d \in Node
        PROVE  Content(Then(out, more)[d]) = Content(out[d]) \cup Content(more[d])
    BY ContentOfConcat DEF Then, Outbox
  <1> QED
    BY <1>1 DEF NoGrants

LEMMA HeartbeatsGrantless ==
  ASSUME NEW i, NEW next
  PROVE  NoGrants(Heartbeats(i, next))
  <1>1. ASSUME NEW d \in Node, NEW o \in Content(Heartbeats(i, next)[d]) PROVE ~IsGrant(o)
    <2> DEFINE m == AppendEntries(i, log[i], next[d])
    <2>1. ~IsGrant(m)
      BY DEF IsGrant, AppendEntries
    <2> HIDE DEF m
    <2>2. Heartbeats(i, next)[d] = <<>> \/ Heartbeats(i, next)[d] = <<m>>
      BY DEF Heartbeats, m
    <2>3. Content(<<>>) = {} /\ Content(<<m>>) = {m}
      BY ContentOfShort
    <2>4. Content(Heartbeats(i, next)[d]) = {} \/ Content(Heartbeats(i, next)[d]) = {m}
      BY <2>2, <2>3, Zenon
    <2> QED
      BY <2>1, <2>4
  <1> QED
    BY <1>1 DEF NoGrants

LEMMA RoundsGrantless ==
  ASSUME NEW i, NEW cmds, NEW next
  PROVE  NoGrants(Rounds(i, cmds, next))
  <1>1. ASSUME NEW lg, NEW n PROVE ~IsGrant(AppendEntries(i, lg, n))
    BY DEF IsGrant, AppendEntries
  <1>2. ASSUME NEW d \in Node, NEW o \in Content(Rounds(i, cmds, next)[d])
        PROVE  \E lg, n : o = AppendEntries(i, lg, n)
    <2>1. CASE d = i
      BY <2>1, ContentOfShort DEF Rounds
    <2>2. CASE d # i
      BY <2>2 DEF Rounds, Content
    <2> QED
      BY <2>1, <2>2
  <1> QED
    BY <1>1, <1>2 DEF NoGrants

\* A proposal sends no votes.
LEMMA ReplicateQuiet ==
  ASSUME TypeOK, NEW rest \in Network, NEW i \in Node, NEW cmds \in Seq(Command),
         Replicate(rest, i, cmds),
         \A v, c \in Node : Content(rest[v][c]) \subseteq Content(net[v][c])
  PROVE  NetQuiet
  <1>1. next_index[i] \in [Node -> Nat \ {0}]
    BY DEF TypeOK
  <1>2. Rounds(i, cmds, next_index[i]) \in Outbox
    BY <1>1, RoundsType
  <1> QED
    BY <1>2, RoundsGrantless, TransmitQuiet DEF Replicate

-----------------------------------------------------------------------------
(* The invariant over quiet steps and over new votes *)

\* The three ways a vote of v for c can be on record.
LEMMA GrantCases ==
  ASSUME NEW v \in Node, NEW c \in Node, NEW t
  PROVE  t \in GrantTerms(v, c) <=>
           \/ \E o \in Content(net[v][c]) : IsGrant(o) /\ t = o.term
           \/ state[c] = Candidate /\ t = current_term[c] /\ votes[c][v] # None
           \/ \E e \in elected : e.leader = c /\ v \in e.quorum /\ t = e.term
  BY DEF GrantTerms, IsGrant, Voters

\* The same after a step.
LEMMA GrantCasesNext ==
  ASSUME NEW v \in Node, NEW c \in Node, NEW t
  PROVE  t \in GrantTerms(v, c)' <=>
           \/ \E o \in Content(net'[v][c]) : IsGrant(o) /\ t = o.term
           \/ state'[c] = Candidate /\ t = current_term'[c] /\ votes'[c][v] # None
           \/ \E e \in elected' : e.leader = c /\ v \in e.quorum /\ t = e.term
  BY DEF GrantTerms, IsGrant, Voters, Content

\* A voter is on record only for terms it has reached.
LEMMA GrantTermsReached ==
  ASSUME TypeOK, VotesRemembered, NEW v \in Node, NEW c \in Node, NEW t \in GrantTerms(v, c)
  PROVE  t <= current_term[v] /\ t \in Int
  <1>1. current_term[v] \in Nat
    BY DEF TypeOK
  <1>2. t \in Int
    <2>1. \A n \in Node, d \in Node : \A o \in Content(net[n][d]) : o \in Message
      <3>1. ASSUME NEW n \in Node, NEW d \in Node, NEW k \in DOMAIN net[n][d]
            PROVE  net[n][d][k] \in Message
        <4>1. net[n][d] \in Seq(Message)
          BY DEF TypeOK
        <4> QED
          BY <4>1, ElementOfSeq, LenProperties
      <3> QED
        BY <3>1 DEF Content
    <2>2. \A o \in Message : IsGrant(o) => o.term \in Nat
      BY MessageFields DEF IsGrant
    <2>3. \A e \in elected : e.term \in Nat
      BY DEF TypeOK
    <2>4. current_term[c] \in Nat
      BY DEF TypeOK
    <2> QED
      BY <2>1, <2>2, <2>3, <2>4, GrantCases
  <1> QED
    BY <1>1, <1>2 DEF VotesRemembered

LEMMA QuietKeepsVotes ==
  ASSUME TypeOK, TypeOK', VotesRemembered, VotesOnce, Quiet
  PROVE  VotesRemembered' /\ VotesOnce'
  <1>1. ASSUME NEW v \in Node, NEW c \in Node, NEW t \in GrantTerms(v, c)'
        PROVE  t \in GrantTerms(v, c)
    <2>1. ASSUME NEW o \in Content(net'[v][c]), IsGrant(o), t = o.term
          PROVE  t \in GrantTerms(v, c)
      BY <2>1, GrantCases DEF Quiet, NetQuiet
    <2>2. ASSUME state'[c] = Candidate, t = current_term'[c], votes'[c][v] # None
          PROVE  t \in GrantTerms(v, c)
      BY <2>2, GrantCases DEF Quiet, NodeQuiet
    <2>3. ASSUME NEW e \in elected', e.leader = c, v \in e.quorum, t = e.term
          PROVE  t \in GrantTerms(v, c)
      BY <2>3, GrantCases DEF Quiet
    <2> QED
      BY <2>1, <2>2, <2>3, GrantCasesNext
  <1>2. ASSUME NEW v \in Node, NEW c \in Node, NEW t \in GrantTerms(v, c)'
        PROVE  \/ t < current_term'[v]
               \/ t = current_term'[v] /\ (voted_for'[v] = c \/ state'[v] = Observer)
    <2>0. current_term[v] \in Int /\ current_term'[v] \in Int
      BY DEF TypeOK
    <2>1. t \in Int
      BY <1>1, GrantTermsReached
    <2>2. \/ t < current_term[v]
          \/ t = current_term[v] /\ (voted_for[v] = c \/ state[v] = Observer)
      BY <1>1 DEF VotesRemembered
    <2>3. NodeQuiet(v)
      BY DEF Quiet
    <2> QED
      BY <2>0, <2>1, <2>2, <2>3 DEF NodeQuiet
  <1>3. VotesRemembered'
    BY <1>2 DEF VotesRemembered
  <1>4. VotesOnce'
    BY <1>1 DEF VotesOnce
  <1> QED
    BY <1>3, <1>4

\* A step by which w votes for k in term T, and which otherwise creates no grant.
LEMMA NewVote ==
  ASSUME TypeOK, TypeOK', VotesRemembered, VotesOnce,
         NEW w \in Node, NEW k \in Node, NEW T \in Nat,
         \A v, c \in Node : \A t \in GrantTerms(v, c)' :
           t \in GrantTerms(v, c) \/ (v = w /\ c = k /\ t = T),
         current_term'[w] = T, voted_for'[w] = k, current_term[w] <= T,
         \A c \in Node : T \in GrantTerms(w, c) => c = k,
         \A v \in Node \ {w} :
           /\ current_term'[v] = current_term[v]
           /\ voted_for'[v] = voted_for[v] /\ state'[v] = state[v]
  PROVE  VotesRemembered' /\ VotesOnce'
  <1>1. ASSUME NEW v \in Node, NEW c \in Node, NEW t \in GrantTerms(v, c)'
        PROVE  \/ t < current_term'[v]
               \/ t = current_term'[v] /\ (voted_for'[v] = c \/ state'[v] = Observer)
    <2>1. CASE v # w
      BY <2>1 DEF VotesRemembered
    <2>2. CASE v = w /\ t = T /\ c = k
      BY <2>2
    <2>3. CASE v = w /\ t \in GrantTerms(w, c)
      <3>1. t <= current_term[w] /\ t \in Int
        BY <2>3, GrantTermsReached
      <3>2. current_term[w] \in Int
        BY DEF TypeOK
      <3>3. t < T \/ t = T
        BY <3>1, <3>2
      <3> QED
        BY <2>3, <3>3
    <2> QED
      BY <2>1, <2>2, <2>3
  <1>2. VotesRemembered'
    BY <1>1 DEF VotesRemembered
  <1>3. VotesOnce'
    <2> SUFFICES ASSUME NEW v \in Node, NEW c \in Node, NEW d \in Node,
                        NEW t, t \in GrantTerms(v, c)', t \in GrantTerms(v, d)'
                 PROVE  c = d
      BY DEF VotesOnce
    <2>1. t \in GrantTerms(v, c) /\ t \in GrantTerms(v, d) => c = d
      BY DEF VotesOnce
    <2> QED
      BY <2>1
  <1> QED
    BY <1>2, <1>3

LEMMA QuietKeepsInv ==
  ASSUME TypeOK, TypeOK', ElectionInv, Quiet
  PROVE  ElectionInv'
  <1>1. VotesRemembered' /\ VotesOnce'
    BY QuietKeepsVotes DEF ElectionInv
  <1>2. ObserversStay'
    BY DEF ObserversStay, Quiet, NodeQuiet
  <1>3. WonByMajority'
    BY DEF ElectionInv, WonByMajority, Quiet
  <1>4. LeadersOnRecord'
    BY DEF ElectionInv, LeadersOnRecord, Quiet, NodeQuiet
  <1> QED
    BY <1>1, <1>2, <1>3, <1>4 DEF ElectionInv

-----------------------------------------------------------------------------
(* The quiet steps *)

\* Batteries do not recover, or do not matter.
NoRecovery == Protocol = "raft" \/ ~Recharge

LEMMA LevelsAreNumbers == \A level \in Levels : level \in Int /\ level <= level
  BY LevelsAssumption

\* A step that leaves the consensus state and the batteries alone.
LEMMA UnchangedQuiet ==
  ASSUME TypeOK, ObserversStay, NetQuiet, UNCHANGED <<electionVars, battery>>
  PROVE  Quiet
  <1>1. \A n \in Node : current_term[n] >= current_term[n]
    BY DEF TypeOK
  <1> QED
    BY <1>1 DEF Quiet, NodeQuiet, ObserversStay, electionVars

\* A step in which i at most steps down.
LEMMA StepDownQuiet ==
  ASSUME TypeOK, ObserversStay, NetQuiet, NEW i \in Node, NEW term \in Nat,
         StepDown(i, term), UNCHANGED <<votes, elected, battery>>
  PROVE  Quiet
  <1>1. /\ current_term \in [Node -> Nat] /\ state \in [Node -> NodeState]
        /\ voted_for \in [Node -> Node \cup {None}]
    BY DEF TypeOK
  <1>2. ASSUME NEW n \in Node, n # i PROVE NodeQuiet(n)
    <2>1. /\ current_term'[n] = current_term[n] /\ voted_for'[n] = voted_for[n]
          /\ state'[n] = state[n] /\ current_term[n] >= current_term[n]
      BY <1>1, <1>2 DEF StepDown
    <2> QED
      BY <2>1 DEF NodeQuiet, ObserversStay
  <1>3. NodeQuiet(i)
    <2>1. /\ current_term'[i] = TermAfter(i, term) /\ voted_for'[i] = VoteAfter(i, term)
          /\ state'[i] = StateAfter(i, term)
      BY <1>1 DEF StepDown
    <2> QED
      BY <1>1, <2>1
      DEF NodeQuiet, ObserversStay, TermAfter, VoteAfter, StateAfter, Leading, Follower,
          Candidate, Leader, LocalLeader, Observer
  <1> QED
    BY <1>2, <1>3 DEF Quiet

\* The battery check of i at level, which is not above the one it had.
LEMMA CheckedQuiet ==
  ASSUME TypeOK, ObserversStay, NetQuiet, NEW i \in Node, NEW level \in Levels,
         level <= battery[i], battery' = [battery EXCEPT ![i] = level],
         state' = [state EXCEPT ![i] = CheckedState(i, level)],
         voted_for' = [voted_for EXCEPT ![i] = CheckedVote(i, level)],
         UNCHANGED <<current_term, votes, elected>>
  PROVE  Quiet
  <1>1. /\ current_term \in [Node -> Nat] /\ state \in [Node -> NodeState]
        /\ voted_for \in [Node -> Node \cup {None}] /\ battery \in [Node -> Levels]
    BY DEF TypeOK
  <1>0. level \in Int /\ battery[i] \in Int
    BY <1>1, LevelsAreNumbers
  <1>2. ASSUME NEW n \in Node, n # i PROVE NodeQuiet(n)
    <2>1. /\ current_term'[n] = current_term[n] /\ voted_for'[n] = voted_for[n]
          /\ state'[n] = state[n] /\ battery'[n] = battery[n]
          /\ current_term[n] >= current_term[n]
      BY <1>1, <1>2
    <2> QED
      BY <2>1 DEF NodeQuiet, ObserversStay
  <1>3. NodeQuiet(i)
    <2>1. /\ current_term'[i] = current_term[i] /\ current_term[i] >= current_term[i]
          /\ voted_for'[i] = CheckedVote(i, level) /\ votes'[i] = votes[i]
          /\ state'[i] = CheckedState(i, level) /\ battery'[i] = level
      BY <1>1
    <2>2. state[i] = Observer => Protocol # "raft" /\ level < T_LOW
      BY <1>0 DEF ObserversStay, T_LOW
    <2> QED
      BY <1>0, <1>1, <2>1, <2>2
      DEF NodeQuiet, CheckedState, CheckedVote, Leading, Follower, Candidate, Leader,
          LocalLeader, Observer, T_LOW, T_RESTORE
  <1> QED
    BY <1>2, <1>3 DEF Quiet

LEMMA SameNetQuiet ==
  ASSUME net' = net
  PROVE  NetQuiet
  BY DEF NetQuiet

LEMMA BatteryMovesQuiet ==
  ASSUME TypeOK, ObserversStay, NoRecovery, NEW i \in Node, NEW level \in Levels,
         BatteryMoves(i, level)
  PROVE  Quiet
  <1>1. ASSUME NEW n \in Node PROVE NodeQuiet(n)
    <2>0. battery \in [Node -> Levels] /\ current_term[n] \in Nat
      BY DEF TypeOK
    <2>1. level \in Int /\ battery[n] \in Int
      BY <2>0, LevelsAreNumbers
    <2>2. Protocol # "raft" => battery'[n] <= battery[n]
      BY <2>0, <2>1 DEF BatteryMoves, NoRecovery
    <2>3. battery'[n] \in Int
      BY <2>0, <2>1 DEF BatteryMoves
    <2>4. state[n] = Observer => Protocol # "raft" /\ battery'[n] < T_LOW
      BY <2>1, <2>2, <2>3 DEF ObserversStay, T_LOW
    <2> QED
      BY <2>0, <2>4 DEF NodeQuiet, BatteryMoves, electionVars
  <1> QED
    BY <1>1, SameNetQuiet DEF Quiet, BatteryMoves, electionVars

LEMMA DemoSetBatteryQuiet ==
  ASSUME TypeOK, ObserversStay, NoRecovery, NEW i \in Node, NEW level \in Levels,
         DemoSetBattery(i, level)
  PROVE  Quiet
  <1>1. CASE Protocol = "raft"
    <2>1. \A n \in Node : current_term[n] >= current_term[n]
      BY DEF TypeOK
    <2>2. CheckedState(i, level) = state[i] /\ CheckedVote(i, level) = voted_for[i]
      BY <1>1 DEF CheckedState, CheckedVote
    <2>3. UNCHANGED <<state, voted_for>>
      BY <2>2 DEF TypeOK, DemoSetBattery
    <2> QED
      BY <1>1, <2>1, <2>3, SameNetQuiet DEF Quiet, NodeQuiet, ObserversStay, DemoSetBattery
  <1>2. CASE Protocol # "raft"
    <2>0. battery[i] \in Levels
      BY DEF TypeOK
    <2>1. battery[i] \in Int /\ level \in Int
      BY <2>0, LevelsAreNumbers
    <2>2. level <= battery[i]
      BY <1>2, <2>1 DEF DemoSetBattery, NoRecovery
    <2> QED
      BY <2>2, CheckedQuiet, SameNetQuiet DEF DemoSetBattery
  <1> QED
    BY <1>1, <1>2

LEMMA IdleTickQuiet ==
  ASSUME TypeOK, ObserversStay, NEW i \in Node, IdleTick(i)
  PROVE  Quiet
  <1>0. battery[i] \in Levels
    BY DEF TypeOK
  <1>1. battery[i] <= battery[i]
    BY <1>0, LevelsAreNumbers
  <1>2. battery' = [battery EXCEPT ![i] = battery[i]]
    BY DEF TypeOK, IdleTick
  <1>3. NetQuiet
    BY SameNetQuiet DEF IdleTick
  <1> QED
    BY <1>0, <1>1, <1>2, <1>3, CheckedQuiet DEF IdleTick

LEMMA RaftLeaderTickQuiet ==
  ASSUME TypeOK, ObserversStay, NEW i \in Node, RaftLeaderTick(i)
  PROVE  Quiet
  <1>1. net \in Network /\ next_index[i] \in [Node -> Nat \ {0}]
    BY DEF TypeOK, Network
  <1>2. NetQuiet
    BY <1>1, HeartbeatsType, HeartbeatsGrantless, TransmitQuiet DEF RaftLeaderTick
  <1> QED
    BY <1>2, UnchangedQuiet DEF RaftLeaderTick

LEMMA PingGrantless == \A i, term : ~IsGrant(Ping(i, term))
  BY DEF IsGrant, Ping

LEMMA EchoLeaderTickQuiet ==
  ASSUME TypeOK, ObserversStay, NEW i \in Node, EchoLeaderTick(i)
  PROVE  Quiet
  <1>1. net \in Network /\ current_term[i] \in Nat
    BY DEF TypeOK, Network
  <1>2. ToPeers(i, Ping(i, current_term[i])) \in Outbox
    BY <1>1, PingType, ToPeersType
  <1>3. NetQuiet
    BY <1>1, <1>2, PingGrantless, ToPeersGrantless, TransmitQuiet DEF EchoLeaderTick
  <1> QED
    BY <1>3, UnchangedQuiet DEF EchoLeaderTick

LEMMA EchodLeaderTickQuiet ==
  ASSUME TypeOK, ObserversStay, NEW i \in Node, EchodLeaderTick(i)
  PROVE  Quiet
  <1> DEFINE batch(flush) == IF flush THEN <<Content(batch_buffer[i])>> ELSE <<>>
             rounds(flush) == Rounds(i, batch(flush), next_index[i])
             pings(ping) == IF ping THEN ToPeers(i, Ping(i, current_term[i])) ELSE Nothing
             nominate(p) ==
               Only(p, <<[type |-> "leadership_handoff", term |-> current_term[i]]>>)
  <1>1. /\ net \in Network /\ current_term[i] \in Nat
        /\ next_index[i] \in [Node -> Nat \ {0}] /\ batch_buffer[i] \in Seq(Reading)
    BY DEF TypeOK, Network
  <1>2. PICK flush \in BOOLEAN, ping \in BOOLEAN :
          \/ /\ Transmit(net, i, Then(rounds(flush), pings(ping)))
             /\ UNCHANGED state
          \/ /\ \E p \in Successors(i) :
                  Transmit(net, i, Then(Then(rounds(flush), pings(ping)), nominate(p)))
             /\ state' = HandedOver(i)
    BY DEF EchodLeaderTick
  <1>3. batch(flush) \in Seq(Command)
    BY <1>1, ContentType, EmptySeq
  <1>4. rounds(flush) \in Outbox /\ NoGrants(rounds(flush))
    BY <1>1, <1>3, RoundsType, RoundsGrantless
  <1>5. pings(ping) \in Outbox /\ NoGrants(pings(ping))
    BY <1>1, PingType, ToPeersType, NothingType, PingGrantless, ToPeersGrantless,
       NothingGrantless
  <1>6. ASSUME NEW p PROVE nominate(p) \in Outbox /\ NoGrants(nominate(p))
    <2> DEFINE m == [type |-> "leadership_handoff", term |-> current_term[i]]
    <2>1. m \in Message /\ ~IsGrant(m)
      BY <1>1, HandoffType DEF IsGrant
    <2> HIDE DEF m
    <2>2. <<m>> \in Seq(Message) /\ \A o \in Content(<<m>>) : ~IsGrant(o)
      BY <2>1, MessagesAreSeq, ContentOfShort
    <2>3. Only(p, <<m>>) \in Outbox /\ NoGrants(Only(p, <<m>>))
      BY <2>2, OnlyType, OnlyGrantless
    <2> QED
      BY <2>3 DEF m
  <1> HIDE DEF rounds, pings, nominate
  <1>7. /\ Then(rounds(flush), pings(ping)) \in Outbox
        /\ NoGrants(Then(rounds(flush), pings(ping)))
    BY <1>4, <1>5, ThenType, ThenGrantless
  <1>8. ASSUME NEW p
        PROVE  /\ Then(Then(rounds(flush), pings(ping)), nominate(p)) \in Outbox
               /\ NoGrants(Then(Then(rounds(flush), pings(ping)), nominate(p)))
    BY <1>6, <1>7, ThenType, ThenGrantless
  <1>9. NetQuiet
    BY <1>1, <1>2, <1>7, <1>8, TransmitQuiet
  <1>10. CASE UNCHANGED state
    BY <1>9, <1>10, UnchangedQuiet DEF EchodLeaderTick, electionVars
  <1>11. CASE state' = HandedOver(i)
    <2>1. state[i] # Observer
      BY DEF ObserversStay, EchodLeaderTick, CheckedState, Leading, Observer, Leader,
             LocalLeader, T_LOW
    <2>2. ASSUME NEW n \in Node PROVE NodeQuiet(n)
      <3>1. current_term[n] >= current_term[n]
        BY DEF TypeOK
      <3>2. state'[n] = IF n = i THEN Follower ELSE state[n]
        BY <1>11 DEF TypeOK, HandedOver
      <3> QED
        BY <2>1, <3>1, <3>2
        DEF NodeQuiet, ObserversStay, EchodLeaderTick, Leading, Follower, Candidate, Leader,
            LocalLeader, Observer
    <2> QED
      BY <1>9, <2>2 DEF Quiet, EchodLeaderTick
  <1> QED
    BY <1>2, <1>10, <1>11

-----------------------------------------------------------------------------
(* The quiet handlers *)

\* A handler that sends no votes.
LEMMA ReceiveQuiet ==
  ASSUME TypeOK, NEW i \in Node, NEW s \in Node, NEW type, Arrives(s, i, type),
         NEW out \in Outbox, NoGrants(out), Transmit(Unread(s, i), i, out)
  PROVE  NetQuiet
  <1>1. net \in Network /\ net[s][i] # <<>>
    BY DEF TypeOK, Network, Arrives
  <1>2. /\ Unread(s, i) \in Network
        /\ \A v, c \in Node : Content(Unread(s, i)[v][c]) \subseteq Content(net[v][c])
    BY <1>1, UnreadType, UnreadContent
  <1> QED
    BY <1>2, TransmitQuiet

LEMMA HandleLivenessPingQuiet ==
  ASSUME TypeOK, ObserversStay, NEW i \in Node, NEW s \in Node, HandleLivenessPing(i, s)
  PROVE  Quiet
  <1> DEFINE m == Head(net[s][i])
  <1>1. m \in Message /\ m.type = "liveness_ping"
    BY ArrivesType DEF HandleLivenessPing
  <1>2. m.term \in Nat
    BY <1>1, MessageFields
  <1>3. NetQuiet
    BY NothingType, NothingGrantless, ReceiveQuiet DEF HandleLivenessPing
  <1> QED
    BY <1>2, <1>3, StepDownQuiet DEF HandleLivenessPing

LEMMA HandleAppendResponseQuiet ==
  ASSUME TypeOK, ObserversStay, NEW i \in Node, NEW s \in Node, HandleAppendResponse(i, s)
  PROVE  Quiet
  <1> DEFINE m == Head(net[s][i])
  <1>1. m \in Message /\ m.type = "append_response"
    BY ArrivesType DEF HandleAppendResponse
  <1>2. m.term \in Nat
    BY <1>1, MessageFields
  <1>3. NetQuiet
    BY NothingType, NothingGrantless, ReceiveQuiet DEF HandleAppendResponse
  <1>4. StepDown(i, m.term) /\ UNCHANGED <<votes, elected, battery>>
    BY DEF HandleAppendResponse
  <1> QED
    BY <1>2, <1>3, <1>4, StepDownQuiet

LEMMA HandleAppendEntriesQuiet ==
  ASSUME TypeInv, ObserversStay, NEW i \in Node, NEW s \in Node, HandleAppendEntries(i, s)
  PROVE  Quiet
  <1> DEFINE m == Head(net[s][i])
             st == StateAfter(i, m.term)
             answer == AppendResponse(i, TermAfter(i, m.term), FALSE, 0)
             refusal == Only(s, <<answer>>)
  <1>1. TypeOK /\ Arrives(s, i, "append_entries")
    BY DEF TypeInv, HandleAppendEntries
  <1>2. /\ Unread(s, i) \in Network /\ m \in Message /\ m.type = "append_entries"
        /\ current_term[i] \in Nat
    BY <1>1, ArrivesType DEF TypeOK
  <1>3. /\ m.term \in Nat /\ m.prev_log_index \in Nat /\ m.prev_log_term \in Nat
        /\ m.entries \in Seq(LogEntry) /\ m.leader_commit \in Nat
    BY <1>2, MessageFields
  <1>4. ASSUME Transmit(Unread(s, i), i, refusal) PROVE NetQuiet
    <2>1. TermAfter(i, m.term) \in Nat
      BY <1>3, StepDownType
    <2>2. answer \in Message /\ ~IsGrant(answer)
      BY <1>1, <2>1, AppendResponseType DEF AppendResponse, IsGrant
    <2> HIDE DEF answer
    <2>3. <<answer>> \in Seq(Message) /\ \A o \in Content(<<answer>>) : ~IsGrant(o)
      BY <2>2, MessagesAreSeq, ContentOfShort
    <2>4. refusal \in Outbox /\ NoGrants(refusal)
      BY <2>3, OnlyType, OnlyGrantless
    <2> QED
      BY <1>1, <1>4, <2>4, ReceiveQuiet
  <1>5. ASSUME MergeEntries(Unread(s, i), i, s, m),
               Consistent(log[i], m.prev_log_index, m.prev_log_term)
        PROVE  NetQuiet
    <2>1. PICK ms \in Seq(Message) :
            /\ Transmit(Unread(s, i), i, Only(s, ms))
            /\ \A o \in Content(ms) : o.type \in {"append_response", "reconcile_batch"}
      BY <1>3, <1>5, MergeEntriesSends
    <2>2. \A o \in Content(ms) : ~IsGrant(o)
      BY <2>1 DEF IsGrant
    <2>3. Only(s, ms) \in Outbox /\ NoGrants(Only(s, ms))
      BY <2>2, OnlyType, OnlyGrantless
    <2> QED
      BY <1>1, <2>1, <2>3, ReceiveQuiet
  <1>6. NetQuiet
    BY <1>4, <1>5 DEF HandleAppendEntries
  <1>7. UNCHANGED <<votes, elected, battery>>
    BY DEF HandleAppendEntries
  <1>8. CASE UNCHANGED <<state, current_term, voted_for>>
    BY <1>1, <1>6, <1>7, <1>8, UnchangedQuiet DEF electionVars
  <1>9. CASE /\ m.term >= current_term[i]
             /\ current_term' = [current_term EXCEPT ![i] = m.term]
             /\ voted_for' = [voted_for EXCEPT ![i] = VoteAfter(i, m.term)]
             /\ state' = [state EXCEPT ![i] = IF st = Candidate THEN Follower ELSE st]
    <2>1. /\ current_term \in [Node -> Nat] /\ state \in [Node -> NodeState]
          /\ voted_for \in [Node -> Node \cup {None}]
      BY <1>1 DEF TypeOK
    <2>2. ASSUME NEW n \in Node, n # i PROVE NodeQuiet(n)
      <3>1. /\ current_term'[n] = current_term[n] /\ voted_for'[n] = voted_for[n]
            /\ state'[n] = state[n] /\ current_term[n] >= current_term[n]
        BY <1>9, <2>1, <2>2
      <3> QED
        BY <1>7, <3>1 DEF NodeQuiet, ObserversStay
    <2>3. NodeQuiet(i)
      <3>1. /\ current_term'[i] = m.term /\ voted_for'[i] = VoteAfter(i, m.term)
            /\ state'[i] = IF st = Candidate THEN Follower ELSE st
        BY <1>9, <2>1
      <3>2. m.term > current_term[i] \/ m.term = current_term[i]
        BY <1>2, <1>3, <1>9
      <3> QED
        BY <1>2, <1>3, <1>7, <1>9, <3>1, <3>2
        DEF NodeQuiet, ObserversStay, VoteAfter, StateAfter, Leading, Follower, Candidate,
            Leader, LocalLeader, Observer
    <2> QED
      BY <1>6, <1>7, <2>2, <2>3 DEF Quiet
  <1> QED
    BY <1>8, <1>9 DEF HandleAppendEntries

LEMMA TakeReadingQuiet ==
  ASSUME TypeOK, NEW i \in Node, NEW rest \in Network, NEW reading \in Reading,
         \A v, c \in Node : Content(rest[v][c]) \subseteq Content(net[v][c]),
         TakeReading(rest, i, reading)
  PROVE  NetQuiet
  <1> DEFINE m == [type |-> "sensor_data", reading |-> reading]
             batch == Append(batch_buffer[i], reading)
  <1>1. batch \in Seq(Reading)
    BY AppendProperties DEF TypeOK
  <1>2. <<{reading}>> \in Seq(Command) /\ <<Content(batch)>> \in Seq(Command)
    <2>1. {reading} \in Command
      BY DEF Command
    <2>2. Content(batch) \in Command
      BY <1>1, ContentType
    <2> QED
      BY <2>1, <2>2
  <1>3. CASE Transmit(rest, i, Only(current_leader_id[i], <<m>>))
    <2>1. m \in Message /\ ~IsGrant(m)
      BY DEF Message, IsGrant
    <2> HIDE DEF m
    <2>2. <<m>> \in Seq(Message) /\ \A o \in Content(<<m>>) : ~IsGrant(o)
      BY <2>1, MessagesAreSeq, ContentOfShort
    <2>3. /\ Only(current_leader_id[i], <<m>>) \in Outbox
          /\ NoGrants(Only(current_leader_id[i], <<m>>))
      BY <2>2, OnlyType, OnlyGrantless
    <2> QED
      BY <1>3, <2>3, TransmitQuiet
  <1>4. CASE Transmit(rest, i, Nothing)
    BY <1>4, NothingType, NothingGrantless, TransmitQuiet
  <1>5. CASE Replicate(rest, i, <<{reading}>>) \/ Replicate(rest, i, <<Content(batch)>>)
    BY <1>2, <1>5, ReplicateQuiet, Zenon
  <1> QED
    BY <1>3, <1>4, <1>5 DEF TakeReading

LEMMA LeafReportQuiet ==
  ASSUME TypeOK, ObserversStay, NEW i \in Node, NEW reading \in Reading, LeafReport(i, reading)
  PROVE  Quiet
  <1>1. net \in Network /\ TakeReading(net, i, reading)
    BY DEF TypeOK, Network, LeafReport
  <1>2. NetQuiet
    BY <1>1, TakeReadingQuiet
  <1>3. UNCHANGED <<electionVars, battery>>
    BY <1>1 DEF TakeReading
  <1> QED
    BY <1>2, <1>3, UnchangedQuiet

LEMMA HandleSensorDataQuiet ==
  ASSUME TypeOK, ObserversStay, NEW i \in Node, NEW s \in Node, HandleSensorData(i, s)
  PROVE  Quiet
  <1> DEFINE m == Head(net[s][i])
  <1>1. /\ net \in Network /\ net[s][i] # <<>> /\ m \in Message /\ m.type = "sensor_data"
        /\ TakeReading(Unread(s, i), i, m.reading)
    BY ArrivesType DEF TypeOK, Network, HandleSensorData, Arrives
  <1>2. m.reading \in Reading
    BY <1>1, MessageFields
  <1>3. /\ Unread(s, i) \in Network
        /\ \A v, c \in Node : Content(Unread(s, i)[v][c]) \subseteq Content(net[v][c])
    BY <1>1, UnreadType, UnreadContent
  <1>4. NetQuiet
    BY <1>1, <1>2, <1>3, TakeReadingQuiet
  <1>5. UNCHANGED <<electionVars, battery>>
    BY <1>1 DEF TakeReading
  <1> QED
    BY <1>4, <1>5, UnchangedQuiet

LEMMA HandlePartitionControlQuiet ==
  ASSUME TypeOK, ObserversStay, NEW i \in Node, HandlePartitionControl(i)
  PROVE  Quiet
  <1>1. /\ state' = [state EXCEPT ![i] = LeadAfter(i, Head(control[i]).action = "partition")]
        /\ net' = net /\ UNCHANGED <<current_term, voted_for, votes, elected, battery>>
    BY DEF HandlePartitionControl
  <1>2. ASSUME NEW n \in Node PROVE NodeQuiet(n)
    <2>1. state \in [Node -> NodeState] /\ current_term[n] \in Nat
      BY DEF TypeOK
    <2>2. state'[n] = state[n] \/ (Leading(state[n]) /\ state'[n] \in {LocalLeader, Follower})
      BY <1>1, <2>1 DEF LeadAfter, Leading
    <2> QED
      BY <1>1, <2>1, <2>2
      DEF NodeQuiet, ObserversStay, Leading, Follower, Candidate, Leader, LocalLeader, Observer
  <1> QED
    BY <1>1, <1>2, SameNetQuiet DEF Quiet

LEMMA DropsQuiet ==
  ASSUME TypeOK, ObserversStay, NEW s \in Node, NEW d \in Node, DropBlocked(s, d) \/ Lose(s, d)
  PROVE  Quiet
  <1>1. net \in Network /\ net[s][d] # <<>> /\ net' = Unread(s, d)
    BY DEF TypeOK, Network, DropBlocked, Lose
  <1>2. NetQuiet
    BY <1>1, UnreadContent DEF NetQuiet
  <1>3. UNCHANGED <<electionVars, battery>>
    BY DEF DropBlocked, Lose
  <1> QED
    BY <1>2, <1>3, UnchangedQuiet

LEMMA HandleReconcileBatchQuiet ==
  ASSUME TypeOK, ObserversStay, NEW i \in Node, NEW s \in Node, HandleReconcileBatch(i, s)
  PROVE  Quiet
  <1> DEFINE m == Head(net[s][i])
             P == FreshPositions(m.commands, recent_reconciles[i])
             fresh(at) == [k \in DOMAIN at |-> m.commands[at[k]]]
  <1>1. /\ net \in Network /\ net[s][i] # <<>> /\ m \in Message /\ m.type = "reconcile_batch"
        /\ UNCHANGED <<electionVars, battery>>
    BY ArrivesType DEF TypeOK, Network, HandleReconcileBatch, Arrives
  <1>2. m.commands \in Seq(Command)
    BY <1>1, MessageFields
  <1>3. /\ Unread(s, i) \in Network
        /\ \A v, c \in Node : Content(Unread(s, i)[v][c]) \subseteq Content(net[v][c])
    BY <1>1, UnreadType, UnreadContent
  <1>4. CASE Transmit(Unread(s, i), i, Nothing)
    BY <1>1, <1>3, <1>4, NothingType, NothingGrantless, TransmitQuiet, UnchangedQuiet
  <1>5. ASSUME NEW at \in InOrder(P), Replicate(Unread(s, i), i, Proposed(fresh(at)))
        PROVE  Quiet
    <2>1. Proposed(fresh(at)) \in Seq(Command)
      BY <1>2, FreshCommandsType, ProposedType
    <2> HIDE DEF fresh
    <2>2. NetQuiet
      BY <1>3, <1>5, <2>1, ReplicateQuiet
    <2> QED
      BY <1>1, <2>2, UnchangedQuiet
  <1> QED
    BY <1>4, <1>5 DEF HandleReconcileBatch

-----------------------------------------------------------------------------
(* The steps that vote *)

\* A new candidate votes for itself, in a term it had not reached.
LEMMA StartElectionKeepsInv ==
  ASSUME TypeOK, TypeOK', ElectionInv, NEW i \in Node, state[i] # Observer,
         NEW rest \in Network,
         \A v, c \in Node : Content(rest[v][c]) \subseteq Content(net[v][c]),
         NEW term \in Nat, term >= current_term[i],
         StartElection(rest, i, term), UNCHANGED battery
  PROVE  ElectionInv'
  <1> DEFINE m == [type |-> "request_vote", term |-> term + 1, last_log_index |-> Len(log[i]),
                   last_log_term |-> LastTerm(log[i]), battery_level |-> battery[i]]
  <1>1. /\ current_term \in [Node -> Nat] /\ state \in [Node -> NodeState]
        /\ voted_for \in [Node -> Node \cup {None}]
        /\ votes \in [Node -> [Node -> Levels \cup {None}]]
        /\ log[i] \in Seq(LogEntry) /\ battery[i] \in Levels
    BY DEF TypeOK
  <1>2. NetQuiet
    <2>1. Len(log[i]) \in Nat /\ LastTerm(log[i]) \in Nat
      BY <1>1, LenProperties, TermOfLogType
    <2>2. m \in Message /\ ~IsGrant(m)
      BY <1>1, <2>1 DEF Message, IsGrant
    <2>3. Transmit(rest, i, ToPeers(i, m))
      BY DEF StartElection
    <2> HIDE DEF m
    <2> QED
      BY <2>2, <2>3, ToPeersType, ToPeersGrantless, TransmitQuiet
  <1>3. /\ current_term'[i] = term + 1 /\ state'[i] = Candidate /\ voted_for'[i] = i
        /\ votes'[i] = [NoVotes EXCEPT ![i] = battery[i]]
        /\ elected' = elected /\ battery' = battery
    BY <1>1 DEF StartElection
  <1>4. ASSUME NEW n \in Node \ {i}
        PROVE  /\ current_term'[n] = current_term[n] /\ state'[n] = state[n]
               /\ voted_for'[n] = voted_for[n] /\ votes'[n] = votes[n]
    BY <1>1 DEF StartElection
  <1>5. ASSUME NEW v \in Node, NEW c \in Node, NEW t \in GrantTerms(v, c)'
        PROVE  t \in GrantTerms(v, c) \/ (v = i /\ c = i /\ t = term + 1)
    <2>1. ASSUME NEW o \in Content(net'[v][c]), IsGrant(o), t = o.term
          PROVE  t \in GrantTerms(v, c)
      BY <1>2, <2>1, GrantCases DEF NetQuiet
    <2>2. ASSUME state'[c] = Candidate, t = current_term'[c], votes'[c][v] # None, c # i
          PROVE  t \in GrantTerms(v, c)
      BY <1>4, <2>2, GrantCases
    <2>3. ASSUME state'[c] = Candidate, t = current_term'[c], votes'[c][v] # None, c = i
          PROVE  v = i /\ t = term + 1
      BY <1>3, <2>3 DEF NoVotes
    <2>4. ASSUME NEW e \in elected', e.leader = c, v \in e.quorum, t = e.term
          PROVE  t \in GrantTerms(v, c)
      BY <1>3, <2>4, GrantCases
    <2> QED
      BY <2>1, <2>2, <2>3, <2>4, GrantCasesNext
  <1>6. ASSUME NEW c \in Node, term + 1 \in GrantTerms(i, c) PROVE c = i
    <2>1. term + 1 <= current_term[i]
      BY <1>6, GrantTermsReached DEF ElectionInv
    <2> QED
      BY <1>1, <2>1
  <1>7. VotesRemembered' /\ VotesOnce'
    <2>1. term + 1 \in Nat /\ current_term[i] <= term + 1
      BY <1>1
    <2> QED
      BY <1>3, <1>4, <1>5, <1>6, <2>1, NewVote DEF ElectionInv
  <1>8. ObserversStay'
    BY <1>3, <1>4 DEF ElectionInv, ObserversStay, Candidate, Observer
  <1>9. WonByMajority' /\ LeadersOnRecord'
    BY <1>3, <1>4
    DEF ElectionInv, WonByMajority, LeadersOnRecord, Leading, Candidate, Leader, LocalLeader
  <1> QED
    BY <1>7, <1>8, <1>9 DEF ElectionInv

LEMMA ElectionTimeoutKeepsInv ==
  ASSUME TypeOK, TypeOK', ElectionInv, NEW i \in Node, ElectionTimeout(i)
  PROVE  ElectionInv'
  <1>1. net \in Network /\ current_term[i] \in Nat /\ battery[i] \in Levels
    BY DEF TypeOK, Network
  <1>2. StartElection(net, i, current_term[i]) /\ UNCHANGED battery
    BY DEF ElectionTimeout
  <1>3. state[i] # Observer
    BY DEF ElectionInv, ObserversStay, ElectionTimeout, CheckedState, Follower, Candidate, Observer
  <1> QED
    BY <1>1, <1>2, <1>3, StartElectionKeepsInv

LEMMA HandleLeadershipHandoffKeepsInv ==
  ASSUME TypeOK, TypeOK', ElectionInv, NEW i \in Node, NEW s \in Node,
         HandleLeadershipHandoff(i, s)
  PROVE  ElectionInv'
  <1> DEFINE m == Head(net[s][i])
  <1>1. /\ net \in Network /\ net[s][i] # <<>> /\ m \in Message
        /\ m.type = "leadership_handoff" /\ current_term[i] \in Nat
        /\ UNCHANGED battery /\ Arrives(s, i, "leadership_handoff")
    BY ArrivesType DEF TypeOK, Network, HandleLeadershipHandoff, Arrives
  <1>2. m.term \in Nat
    BY <1>1, MessageFields
  <1>3. /\ Unread(s, i) \in Network
        /\ \A v, c \in Node : Content(Unread(s, i)[v][c]) \subseteq Content(net[v][c])
    BY <1>1, UnreadType, UnreadContent
  <1>4. CASE state[i] # Observer /\ StartElection(Unread(s, i), i, TermAfter(i, m.term))
    <2>1. TermAfter(i, m.term) \in Nat /\ TermAfter(i, m.term) >= current_term[i]
      BY <1>1, <1>2 DEF TermAfter
    <2> QED
      BY <1>1, <1>3, <1>4, <2>1, StartElectionKeepsInv
  <1>5. CASE Transmit(Unread(s, i), i, Nothing) /\ UNCHANGED electionVars
    <2>1. NetQuiet
      BY <1>1, <1>5, NothingType, NothingGrantless, ReceiveQuiet
    <2> QED
      BY <1>1, <1>5, <2>1, UnchangedQuiet, QuietKeepsInv DEF ElectionInv
  <1> QED
    BY <1>4, <1>5 DEF HandleLeadershipHandoff

\* A voter that grants its vote has not given it to anyone else in that term.
LEMMA HandleRequestVoteKeepsInv ==
  ASSUME TypeInv, TypeOK', ElectionInv, NEW i \in Node, NEW s \in Node,
         HandleRequestVote(i, s)
  PROVE  ElectionInv'
  <1> DEFINE m == Head(net[s][i])
             term == TermAfter(i, m.term)
             grant == Grants(i, s, m)
             answer == [type |-> "vote_response", term |-> term, vote_granted |-> grant,
                        voter_battery |-> battery[i]]
  <1>1. /\ TypeOK /\ net \in Network /\ net[s][i] # <<>> /\ m \in Message
        /\ m.type = "request_vote" /\ Arrives(s, i, "request_vote")
        /\ UNCHANGED <<votes, elected, battery>>
        /\ Transmit(Unread(s, i), i, Only(s, <<answer>>))
    BY ArrivesType DEF TypeInv, TypeOK, Network, HandleRequestVote, Arrives
  <1>2. m.term \in Nat
    BY <1>1, MessageFields
  <1>3. term \in Nat /\ grant \in BOOLEAN
    BY <1>2, StepDownType DEF Grants
  <1>4. <<answer>> \in Seq(Message) /\ Only(s, <<answer>>) \in Outbox
    <2>1. battery[i] \in Levels
      BY <1>1 DEF TypeOK
    <2>2. answer \in Message
      BY <1>3, <2>1 DEF Message
    <2> HIDE DEF answer
    <2> QED
      BY <2>2, MessagesAreSeq, OnlyType
  <1>5. CASE ~grant
    <2>1. \A o \in Content(<<answer>>) : ~IsGrant(o)
      <3>1. ~IsGrant(answer)
        BY <1>5 DEF IsGrant
      <3> HIDE DEF answer
      <3> QED
        BY <3>1, ContentOfShort
    <2>2. NetQuiet
      <3> HIDE DEF answer
      <3> QED
        BY <1>1, <1>4, <2>1, OnlyGrantless, ReceiveQuiet
    <2>3. StepDown(i, m.term)
      BY <1>5 DEF HandleRequestVote, StepDown
    <2> QED
      BY <1>1, <1>2, <2>2, <2>3, StepDownQuiet, QuietKeepsInv DEF ElectionInv
  <1>6. CASE grant
    <2>1. /\ current_term \in [Node -> Nat] /\ state \in [Node -> NodeState]
          /\ voted_for \in [Node -> Node \cup {None}]
      BY <1>1 DEF TypeOK
    <2>2. /\ current_term'[i] = term /\ voted_for'[i] = s /\ state'[i] = StateAfter(i, m.term)
          /\ \A n \in Node \ {i} : /\ current_term'[n] = current_term[n]
                                   /\ voted_for'[n] = voted_for[n] /\ state'[n] = state[n]
      BY <1>6, <2>1 DEF HandleRequestVote
    <2>3. /\ StateAfter(i, m.term) # Observer /\ VoteAfter(i, m.term) \in {None, s}
          /\ current_term[i] <= term
      BY <1>2, <1>6, <2>1 DEF Grants, TermAfter
    <2>4. ASSUME NEW v \in Node, NEW c \in Node, NEW o \in Content(net'[v][c]), IsGrant(o)
          PROVE  o \in Content(net[v][c]) \/ (v = i /\ c = s /\ o.term = term)
      <3>1. /\ Unread(s, i) \in Network
            /\ Content(Unread(s, i)[v][c]) \subseteq Content(net[v][c])
        BY <1>1, UnreadType, UnreadContent
      <3> DEFINE out == Only(s, <<answer>>)
      <3> HIDE DEF answer
      <3>2. Content(net'[v][c]) =
              Content(Unread(s, i)[v][c]) \cup (IF v = i THEN Content(out[c]) ELSE {})
        BY <1>1, <1>4, <3>1, TransmitContent
      <3>3. Content(out[c]) = IF c = s THEN {answer} ELSE {}
        BY ContentOfShort DEF Only
      <3>4. answer.term = term
        BY DEF answer
      <3> QED
        BY <2>4, <3>1, <3>2, <3>3, <3>4
    <2>5. ASSUME NEW c \in Node, state'[c] = Candidate
          PROVE  state[c] = Candidate /\ current_term'[c] = current_term[c] /\ votes'[c] = votes[c]
      <3>1. CASE c # i
        BY <1>1, <2>2, <2>5, <3>1
      <3>2. CASE c = i
        BY <1>1, <2>2, <2>5, <3>2 DEF StateAfter, TermAfter, Candidate, Follower
      <3> QED
        BY <3>1, <3>2
    <2>6. ASSUME NEW v \in Node, NEW c \in Node, NEW t \in GrantTerms(v, c)'
          PROVE  t \in GrantTerms(v, c) \/ (v = i /\ c = s /\ t = term)
      <3>1. ASSUME NEW o \in Content(net'[v][c]), IsGrant(o), t = o.term
            PROVE  t \in GrantTerms(v, c) \/ (v = i /\ c = s /\ t = term)
        BY <2>4, <3>1, GrantCases
      <3>2. ASSUME state'[c] = Candidate, t = current_term'[c], votes'[c][v] # None
            PROVE  t \in GrantTerms(v, c)
        BY <2>5, <3>2, GrantCases
      <3>3. ASSUME NEW e \in elected', e.leader = c, v \in e.quorum, t = e.term
            PROVE  t \in GrantTerms(v, c)
        BY <1>1, <3>3, GrantCases
      <3> QED
        BY <3>1, <3>2, <3>3, GrantCasesNext
    <2>7. ASSUME NEW c \in Node, term \in GrantTerms(i, c) PROVE c = s
      <3>1. term <= current_term[i]
        BY <1>1, <2>7, GrantTermsReached DEF ElectionInv
      <3>2. /\ term = current_term[i] /\ ~(m.term > current_term[i])
        BY <1>2, <2>1, <3>1 DEF TermAfter
      <3>3. VoteAfter(i, m.term) = voted_for[i] /\ StateAfter(i, m.term) = state[i]
        BY <3>2 DEF VoteAfter, StateAfter
      <3>4. ~(term < current_term[i])
        BY <2>1, <3>2
      <3>5. voted_for[i] = c
        BY <2>3, <2>7, <3>3, <3>4 DEF ElectionInv, VotesRemembered
      <3> QED
        BY <2>3, <3>3, <3>5, NoneAssumption
    <2>8. VotesRemembered' /\ VotesOnce'
      BY <1>1, <1>3, <2>2, <2>3, <2>6, <2>7, NewVote DEF ElectionInv
    <2>9. ObserversStay'
      BY <1>1, <2>2, <2>3 DEF ElectionInv, ObserversStay
    <2>10. ASSUME NEW n \in Node, Leading(state'[n])
           PROVE  Leading(state[n]) /\ current_term'[n] = current_term[n]
      <3>1. CASE n # i
        BY <2>2, <2>10, <3>1
      <3>2. CASE n = i
        BY <2>2, <2>10, <3>2
        DEF StateAfter, TermAfter, Leading, Leader, LocalLeader, Follower, Candidate
      <3> QED
        BY <3>1, <3>2
    <2>11. WonByMajority' /\ LeadersOnRecord'
      BY <1>1, <2>10 DEF ElectionInv, WonByMajority, LeadersOnRecord
    <2> QED
      BY <2>8, <2>9, <2>11 DEF ElectionInv
  <1> QED
    BY <1>5, <1>6

\* Whoever counts a vote was given it, and whoever wins has counted a majority.
LEMMA HandleVoteResponseKeepsInv ==
  ASSUME TypeInv, TypeOK', ElectionInv, NEW i \in Node, NEW s \in Node,
         HandleVoteResponse(i, s)
  PROVE  ElectionInv'
  <1> DEFINE m == Head(net[s][i])
             rest == Unread(s, i)
             ballots == IF m.vote_granted THEN [votes[i] EXCEPT ![s] = m.voter_battery]
                        ELSE votes[i]
  <1>1. /\ TypeOK /\ net \in Network /\ net[s][i] # <<>> /\ m \in Message
        /\ m.type = "vote_response" /\ Arrives(s, i, "vote_response") /\ battery' = battery
    BY ArrivesType DEF TypeInv, TypeOK, Network, HandleVoteResponse, Arrives
  <1>2. m.term \in Nat /\ m.voter_battery \in Levels
    BY <1>1, MessageFields
  <1>3. /\ rest \in Network /\ m \in Content(net[s][i])
        /\ \A v, c \in Node : Content(rest[v][c]) \subseteq Content(net[v][c])
    BY <1>1, UnreadType, UnreadContent
  <1>4. ballots \in [Node -> Levels \cup {None}]
    BY <1>1, <1>2 DEF TypeOK
  <1>5. CASE /\ StepDown(i, m.term)
             /\ Transmit(rest, i, Nothing)
             /\ UNCHANGED <<votes, elected>>
    <2>1. NetQuiet
      BY <1>1, <1>5, NothingType, NothingGrantless, ReceiveQuiet
    <2> QED
      BY <1>1, <1>2, <1>5, <2>1, StepDownQuiet, QuietKeepsInv DEF ElectionInv
  <1>6. ASSUME state[i] = Candidate, m.term = current_term[i], NEW v \in Voters(ballots)
        PROVE  current_term[i] \in GrantTerms(v, i)
    <2>1. v \in Node /\ (v \in Voters(votes[i]) \/ (v = s /\ m.vote_granted))
      BY <1>6 DEF Voters
    <2>2. CASE v \in Voters(votes[i])
      BY <1>6, <2>2, GrantCases DEF Voters
    <2>3. CASE v = s /\ m.vote_granted
      BY <1>1, <1>3, <1>6, <2>3, GrantCases DEF IsGrant
    <2> QED
      BY <2>1, <2>2, <2>3
  <1>7. ASSUME state[i] = Candidate, m.term = current_term[i], NetQuiet,
               votes' = [votes EXCEPT ![i] = ballots],
               UNCHANGED <<current_term, voted_for>>,
               \A n \in Node \ {i} : state'[n] = state[n], state'[i] # Observer,
               \A e \in elected' : \/ e \in elected
                                   \/ /\ e.leader = i /\ e.term = current_term[i]
                                      /\ e.quorum = Voters(ballots)
        PROVE  VotesRemembered' /\ VotesOnce' /\ ObserversStay'
    <2>1. ASSUME NEW v \in Node, NEW c \in Node, NEW t \in GrantTerms(v, c)'
          PROVE  t \in GrantTerms(v, c)
      <3>1. ASSUME NEW o \in Content(net'[v][c]), IsGrant(o), t = o.term
            PROVE  t \in GrantTerms(v, c)
        BY <1>7, <3>1, GrantCases DEF NetQuiet
      <3>2. ASSUME state'[c] = Candidate, t = current_term'[c], votes'[c][v] # None
            PROVE  t \in GrantTerms(v, c)
        <4>1. CASE c = i
          <5>1. votes'[i] = ballots
            BY <1>1, <1>7 DEF TypeOK
          <5>2. v \in Voters(ballots)
            BY <3>2, <4>1, <5>1 DEF Voters
          <5> QED
            BY <1>6, <1>7, <3>2, <4>1, <5>2
        <4>2. CASE c # i
          <5>1. votes'[c] = votes[c]
            BY <1>1, <1>7, <4>2 DEF TypeOK
          <5> QED
            BY <1>7, <3>2, <4>2, <5>1, GrantCases
        <4> QED
          BY <4>1, <4>2
      <3>3. ASSUME NEW e \in elected', e.leader = c, v \in e.quorum, t = e.term
            PROVE  t \in GrantTerms(v, c)
        <4>1. CASE e \in elected
          BY <3>3, <4>1, GrantCases
        <4>2. CASE /\ e.leader = i /\ e.term = current_term[i]
                   /\ e.quorum = Voters(ballots)
          BY <1>6, <1>7, <3>3, <4>2
        <4> QED
          BY <1>7, <4>1, <4>2
      <3> QED
        BY <3>1, <3>2, <3>3, GrantCasesNext
    <2>2. VotesRemembered'
      <3>1. \A v \in Node : state[v] = Observer => state'[v] = Observer
        BY <1>7 DEF Candidate, Observer
      <3> QED
        BY <1>7, <2>1, <3>1 DEF ElectionInv, VotesRemembered
    <2>3. VotesOnce'
      BY <2>1 DEF ElectionInv, VotesOnce
    <2>4. ObserversStay'
      BY <1>1, <1>7 DEF ElectionInv, ObserversStay
    <2> QED
      BY <2>2, <2>3, <2>4
  <1>8. CASE /\ state[i] = Candidate /\ m.term = current_term[i]
             /\ votes' = [votes EXCEPT ![i] = ballots]
             /\ Transmit(rest, i, Nothing)
             /\ UNCHANGED <<state, elected, current_term, voted_for>>
    <2>1. NetQuiet
      BY <1>1, <1>8, NothingType, NothingGrantless, ReceiveQuiet
    <2>2. VotesRemembered' /\ VotesOnce' /\ ObserversStay'
      BY <1>7, <1>8, <2>1 DEF Candidate, Observer
    <2>3. WonByMajority' /\ LeadersOnRecord'
      BY <1>8 DEF ElectionInv, WonByMajority, LeadersOnRecord
    <2> QED
      BY <2>2, <2>3 DEF ElectionInv
  <1>9. CASE /\ state[i] = Candidate /\ m.term = current_term[i]
             /\ votes' = [votes EXCEPT ![i] = ballots]
             /\ IsMajority(Voters(ballots))
             /\ BecomeLeader(rest, i, ballots)
             /\ UNCHANGED <<current_term, voted_for>>
    <2> DEFINE win == [term |-> current_term[i], leader |-> i, quorum |-> Voters(ballots),
                       battery_level |-> ballots[i]]
               next == [p \in Node |-> Len(log[i]) + 1]
               cmds == Proposed(Singletons(pending_triggers[i]))
               claim == IF Protocol = "raft" THEN Heartbeats(i, next)
                        ELSE ToPeers(i, Ping(i, current_term[i]))
    <2>1. /\ elected' = elected \cup {win}
          /\ state' = [state EXCEPT ![i] = Leader]
          /\ Transmit(rest, i, Then(claim, Rounds(i, cmds, next)))
      BY <1>9 DEF BecomeLeader
    <2>2. NetQuiet
      <3>1. /\ pending_triggers[i] \in Seq(Reading) /\ current_term[i] \in Nat
            /\ log[i] \in Seq(LogEntry)
        BY <1>1 DEF TypeOK
      <3>2. Len(log[i]) \in Nat
        BY <3>1, LenProperties
      <3>3. next \in [Node -> Nat \ {0}] /\ cmds \in Seq(Command)
        BY <3>1, <3>2, ContentType, ProposedType
      <3> HIDE DEF next, cmds
      <3>4. claim \in Outbox /\ NoGrants(claim)
        BY <1>1, <3>1, <3>3, HeartbeatsType, HeartbeatsGrantless, PingType, PingGrantless,
           ToPeersType, ToPeersGrantless
      <3> HIDE DEF claim
      <3>5. Rounds(i, cmds, next) \in Outbox /\ NoGrants(Rounds(i, cmds, next))
        BY <1>1, <3>3, RoundsType, RoundsGrantless
      <3>6. /\ Then(claim, Rounds(i, cmds, next)) \in Outbox
            /\ NoGrants(Then(claim, Rounds(i, cmds, next)))
        BY <3>4, <3>5, ThenType, ThenGrantless
      <3> QED
        BY <1>1, <2>1, <3>6, ReceiveQuiet
    <2>3. state'[i] = Leader /\ \A n \in Node \ {i} : state'[n] = state[n]
      BY <1>1, <2>1 DEF TypeOK
    <2>4. /\ win.leader = i /\ win.term = current_term[i] /\ win.quorum = Voters(ballots)
      OBVIOUS
    <2> HIDE DEF win, next, cmds, claim
    <2>5. VotesRemembered' /\ VotesOnce' /\ ObserversStay'
      <3>1. state'[i] # Observer
        BY <2>3 DEF Leader, Observer
      <3>2. \A e \in elected' : \/ e \in elected
                                \/ /\ e.leader = i /\ e.term = current_term[i]
                                   /\ e.quorum = Voters(ballots)
        BY <2>1, <2>4
      <3> QED
        BY <1>7, <1>9, <2>2, <2>3, <3>1, <3>2
    <2>6. WonByMajority'
      BY <1>9, <2>1, <2>4 DEF ElectionInv, WonByMajority
    <2>7. LeadersOnRecord'
      BY <1>9, <2>1, <2>3, <2>4 DEF ElectionInv, LeadersOnRecord
    <2> QED
      BY <2>5, <2>6, <2>7 DEF ElectionInv
  <1> QED
    BY <1>5, <1>8, <1>9 DEF HandleVoteResponse

-----------------------------------------------------------------------------
(* The theorems *)

LEMMA InitElection == Init => ElectionInv
  <1> SUFFICES ASSUME Init PROVE ElectionInv
    OBVIOUS
  <1>1. ASSUME NEW v \in Node, NEW c \in Node PROVE GrantTerms(v, c) = {}
    <2>1. Content(net[v][c]) = {}
      BY ContentOfShort DEF Init, Nothing
    <2>2. state[c] # Candidate /\ elected = {}
      BY DEF Init, Follower, Candidate
    <2> QED
      BY <2>1, <2>2 DEF GrantTerms
  <1>2. VotesRemembered /\ VotesOnce
    BY <1>1 DEF VotesRemembered, VotesOnce
  <1>3. ObserversStay /\ WonByMajority /\ LeadersOnRecord
    BY DEF Init, ObserversStay, WonByMajority, LeadersOnRecord, Leading, Follower, Leader,
           LocalLeader, Observer
  <1> QED
    BY <1>2, <1>3 DEF ElectionInv

LEMMA NextElection ==
  ASSUME NoRecovery, TypeInv, TypeInv', ElectionInv, [Next]_vars
  PROVE  ElectionInv'
  <1>1. TypeOK /\ TypeOK' /\ ObserversStay
    BY DEF TypeInv, ElectionInv
  <1>2. ASSUME NEW i \in Node, Tick(i) PROVE ElectionInv'
    BY <1>1, <1>2, IdleTickQuiet, RaftLeaderTickQuiet, EchoLeaderTickQuiet,
       EchodLeaderTickQuiet, QuietKeepsInv, ElectionTimeoutKeepsInv DEF Tick
  <1>3. ASSUME NEW i \in Node, NEW s \in Node, Receive(i, s) PROVE ElectionInv'
    BY <1>1, <1>3, HandleRequestVoteKeepsInv, HandleVoteResponseKeepsInv,
       HandleAppendEntriesQuiet, HandleAppendResponseQuiet, HandleLivenessPingQuiet,
       HandleSensorDataQuiet, HandleLeadershipHandoffKeepsInv, HandleReconcileBatchQuiet,
       QuietKeepsInv DEF Receive
  <1>4. ASSUME NEW i \in Node, HandlePartitionControl(i) PROVE ElectionInv'
    BY <1>1, <1>4, HandlePartitionControlQuiet, QuietKeepsInv
  <1>5. ASSUME Environment PROVE ElectionInv'
    <2>1. ASSUME NEW c \in Control, PublishControl(c) PROVE ElectionInv'
      <3>1. UNCHANGED <<electionVars, battery>> /\ NetQuiet
        BY <2>1, SameNetQuiet DEF PublishControl
      <3> QED
        BY <1>1, <3>1, UnchangedQuiet, QuietKeepsInv
    <2> QED
      BY <1>1, <1>5, <2>1, BatteryMovesQuiet, DemoSetBatteryQuiet, LeafReportQuiet, DropsQuiet,
         QuietKeepsInv DEF Environment
  <1>6. ASSUME UNCHANGED vars PROVE ElectionInv'
    <2>1. UNCHANGED <<electionVars, battery>> /\ NetQuiet
      BY <1>6, SameNetQuiet DEF vars
    <2> QED
      BY <1>1, <2>1, UnchangedQuiet, QuietKeepsInv
  <1> QED
    BY <1>2, <1>3, <1>4, <1>5, <1>6 DEF Next

THEOREM ElectionInvariant == NoRecovery => (Spec => []ElectionInv)
  <1> SUFFICES ASSUME NoRecovery PROVE Spec => []ElectionInv
    OBVIOUS
  <1>1. TypeInv /\ TypeInv' /\ ElectionInv /\ [Next]_vars => ElectionInv'
    BY NextElection
  <1> QED
    BY <1>1, InitElection, TypeInvariant, PTL DEF Spec

\* Two majorities of the coordinators share a member.
LEMMA MajoritiesMeet ==
  ASSUME NEW P \in SUBSET Node, NEW Q \in SUBSET Node, IsMajority(P), IsMajority(Q)
  PROVE  \E n \in Node : n \in P /\ n \in Q
  <1>1. IsFiniteSet(P) /\ IsFiniteSet(Q)
    BY NodeAssumption, FS_Subset
  <1>2. Cardinality(P) \in Nat /\ Cardinality(Q) \in Nat /\ Cardinality(Node) \in Nat
    BY <1>1, NodeAssumption, FS_CardinalityType
  <1>3. Cardinality(P) + Cardinality(Q) > Cardinality(Node)
    BY <1>2 DEF IsMajority
  <1>4. P \cap Q # {}
    BY <1>3, NodeAssumption, FS_MajoritiesIntersect
  <1> QED
    BY <1>4

LEMMA OneWinner ==
  ASSUME TypeOK, ElectionInv
  PROVE  ElectionSafety
  <1> SUFFICES ASSUME NEW e \in elected, NEW f \in elected, e.term = f.term
               PROVE  e.leader = f.leader
    BY DEF ElectionSafety
  <1>1. /\ e.leader \in Node /\ e.quorum \in SUBSET Node
        /\ f.leader \in Node /\ f.quorum \in SUBSET Node
    BY DEF TypeOK
  <1>2. IsMajority(e.quorum) /\ IsMajority(f.quorum)
    BY DEF ElectionInv, WonByMajority
  <1>3. PICK n \in Node : n \in e.quorum /\ n \in f.quorum
    BY <1>1, <1>2, MajoritiesMeet
  <1>4. e.term \in GrantTerms(n, e.leader) /\ e.term \in GrantTerms(n, f.leader)
    BY <1>1, <1>3, GrantCases
  <1> QED
    BY <1>1, <1>4 DEF ElectionInv, VotesOnce

\* Election safety: over the whole history no term is won by two coordinators.
\* A voter of echo_node.py is bound by voted_for as long as it stays in the term,
\* and _check_battery, which clears it, also takes the node out of the vote.
THEOREM ElectionSafe == NoRecovery => (Spec => []ElectionSafety)
  <1> SUFFICES ASSUME NoRecovery PROVE Spec => []ElectionSafety
    OBVIOUS
  <1>1. TypeInv /\ ElectionInv => ElectionSafety
    BY OneWinner DEF TypeInv
  <1> QED
    BY <1>1, TypeInvariant, ElectionInvariant, PTL

\* Whoever leads, globally or locally, through any handler, partition or heal,
\* won the term it leads in, and leads it alone.
THEOREM LeadersElected == NoRecovery => (Spec => []LeadersWereElected)
  <1> SUFFICES ASSUME NoRecovery PROVE Spec => []LeadersWereElected
    OBVIOUS
  <1>1. ASSUME TypeInv, ElectionInv PROVE LeadersWereElected
    <2>1. ElectionSafety
      BY <1>1, OneWinner DEF TypeInv
    <2>2. LeadersOnRecord
      BY <1>1 DEF ElectionInv
    <2> QED
      BY <2>1, <2>2 DEF LeadersWereElected, LeadersOnRecord, ElectionSafety
  <1> QED
    BY <1>1, TypeInvariant, ElectionInvariant, PTL

-----------------------------------------------------------------------------
(* Terms *)

LEMMA TermOfOneNode ==
  ASSUME TypeOK, NEW i \in Node, NEW term \in Nat, term >= current_term[i],
         current_term' = [current_term EXCEPT ![i] = term]
  PROVE  \A n \in Node : current_term'[n] >= current_term[n]
  <1>1. current_term \in [Node -> Nat]
    BY DEF TypeOK
  <1> QED
    BY <1>1

LEMMA TermOfUnchanged ==
  ASSUME TypeOK, UNCHANGED current_term
  PROVE  \A n \in Node : current_term'[n] >= current_term[n]
  BY DEF TypeOK

\* Every handler that takes over the term of a message.
LEMMA TermOfStepDown ==
  ASSUME TypeOK, NEW i \in Node, NEW m \in Message, m.term \in Nat,
         current_term' = [current_term EXCEPT ![i] = TermAfter(i, m.term)]
  PROVE  \A n \in Node : current_term'[n] >= current_term[n]
  <1>1. current_term[i] \in Nat
    BY DEF TypeOK
  <1>2. TermAfter(i, m.term) \in Nat /\ TermAfter(i, m.term) >= current_term[i]
    BY <1>1 DEF TermAfter
  <1> QED
    BY <1>2, TermOfOneNode

LEMMA ReceiveTerms ==
  ASSUME TypeOK, NEW i \in Node, NEW s \in Node, Receive(i, s)
  PROVE  \A n \in Node : current_term'[n] >= current_term[n]
  <1> DEFINE m == Head(net[s][i])
             Grow == \A n \in Node : current_term'[n] >= current_term[n]
  <1>0. current_term[i] \in Nat
    BY DEF TypeOK
  <1>1. ASSUME NEW type \in {"request_vote", "vote_response", "append_entries",
                             "append_response", "liveness_ping", "leadership_handoff"},
               Arrives(s, i, type)
        PROVE  m \in Message /\ m.term \in Nat
    BY <1>1, ArrivesType, MessageFields
  <1> HIDE DEF Grow
  <1>2. CASE HandleRequestVote(i, s)
    BY <1>1, <1>2, TermOfStepDown DEF HandleRequestVote, Grow
  <1>3. CASE HandleVoteResponse(i, s)
    BY <1>1, <1>3, TermOfStepDown, TermOfUnchanged DEF HandleVoteResponse, StepDown, Grow
  <1>4. CASE HandleAppendEntries(i, s)
    <2>1. m.term \in Nat
      BY <1>1, <1>4 DEF HandleAppendEntries
    <2> QED
      BY <1>4, <2>1, TermOfOneNode, TermOfUnchanged DEF HandleAppendEntries, Grow
  <1>5. CASE HandleAppendResponse(i, s)
    BY <1>1, <1>5, TermOfStepDown DEF HandleAppendResponse, StepDown, Grow
  <1>6. CASE HandleLivenessPing(i, s)
    BY <1>1, <1>6, TermOfStepDown DEF HandleLivenessPing, StepDown, Grow
  <1>7. CASE HandleSensorData(i, s) \/ HandleReconcileBatch(i, s)
    BY <1>7, TermOfUnchanged
    DEF HandleSensorData, TakeReading, HandleReconcileBatch, electionVars, Grow
  <1>8. CASE HandleLeadershipHandoff(i, s)
    <2>1. m.term \in Nat
      BY <1>1, <1>8 DEF HandleLeadershipHandoff
    <2>2. TermAfter(i, m.term) + 1 \in Nat /\ TermAfter(i, m.term) + 1 >= current_term[i]
      BY <1>0, <2>1 DEF TermAfter
    <2> QED
      BY <1>8, <2>2, TermOfOneNode, TermOfUnchanged
      DEF HandleLeadershipHandoff, StartElection, electionVars, Grow
  <1> QED
    BY <1>2, <1>3, <1>4, <1>5, <1>6, <1>7, <1>8 DEF Receive, Grow

LEMMA NextTerms ==
  ASSUME TypeOK, [Next]_vars
  PROVE  \A n \in Node : current_term'[n] >= current_term[n]
  <1>1. ASSUME NEW i \in Node, ElectionTimeout(i)
        PROVE  \A n \in Node : current_term'[n] >= current_term[n]
    <2>1. current_term[i] \in Nat
      BY DEF TypeOK
    <2>2. /\ current_term[i] + 1 \in Nat /\ current_term[i] + 1 >= current_term[i]
          /\ current_term' = [current_term EXCEPT ![i] = current_term[i] + 1]
      BY <1>1, <2>1 DEF ElectionTimeout, StartElection
    <2> QED
      BY <2>2, TermOfOneNode
  <1>2. ASSUME NEW i \in Node, NEW s \in Node, Receive(i, s)
        PROVE  \A n \in Node : current_term'[n] >= current_term[n]
    BY <1>2, ReceiveTerms
  <1>3. \/ \E i \in Node : ElectionTimeout(i)
        \/ \E i, s \in Node : Receive(i, s)
        \/ UNCHANGED current_term
    BY DEF Next, Tick, IdleTick, RaftLeaderTick, EchoLeaderTick, EchodLeaderTick,
           HandlePartitionControl, Environment, BatteryMoves, DemoSetBattery, LeafReport,
           TakeReading, PublishControl, DropBlocked, Lose, electionVars, vars
  <1> QED
    BY <1>1, <1>2, <1>3, TermOfUnchanged

\* No handler takes over an older term, in any protocol and with any battery
\* behaviour: a late message of a past term cannot bring that term back.
THEOREM TermsGrow == Spec => TermsNeverDecrease
  <1>1. TypeInv /\ [Next]_vars => [\A i \in Node : current_term'[i] >= current_term[i]]_vars
    BY NextTerms DEF TypeInv
  <1> QED
    BY <1>1, TypeInvariant, PTL DEF Spec, TermsNeverDecrease

-----------------------------------------------------------------------------
(* The elections implement Leadership: every step is one of two, coordinators *)
(* move on, to later terms or out of leadership, or a candidate wins its term *)

\* n starts no leadership, and a candidacy only in a later term.
Moved(n) ==
  /\ current_term'[n] >= current_term[n]
  /\ Leading(state'[n]) => Leading(state[n]) /\ current_term'[n] = current_term[n]
  /\ state'[n] = Candidate => \/ current_term'[n] > current_term[n]
                              \/ state[n] = Candidate /\ current_term'[n] = current_term[n]

MoveStep == elected' = elected /\ \A n \in Node : Moved(n)

WinStep(i) ==
  /\ state[i] = Candidate
  /\ state' = [state EXCEPT ![i] = Leader]
  /\ current_term' = current_term
  /\ \E ballots : elected' = elected \cup
       {[term |-> current_term[i], leader |-> i, quorum |-> Voters(ballots),
         battery_level |-> ballots[i]]}

-----------------------------------------------------------------------------
(* Every step moves on or wins *)

LEMMA UnmovedMoved ==
  ASSUME TypeOK, NEW n \in Node, current_term'[n] = current_term[n], state'[n] = state[n]
  PROVE  Moved(n)
  <1>1. current_term[n] \in Nat
    BY DEF TypeOK
  <1> QED
    BY <1>1 DEF Moved

LEMMA QuietMoves ==
  ASSUME TypeOK, Quiet
  PROVE  MoveStep
  BY DEF Quiet, NodeQuiet, MoveStep, Moved

LEMMA StartElectionMoves ==
  ASSUME TypeOK, NEW i \in Node, NEW rest, NEW term \in Nat, term >= current_term[i],
         StartElection(rest, i, term)
  PROVE  MoveStep
  <1>1. /\ current_term \in [Node -> Nat] /\ state \in [Node -> NodeState]
    BY DEF TypeOK
  <1>2. /\ current_term'[i] = term + 1 /\ state'[i] = Candidate /\ elected' = elected
        /\ \A n \in Node \ {i} : current_term'[n] = current_term[n] /\ state'[n] = state[n]
    BY <1>1 DEF StartElection
  <1>3. Moved(i)
    BY <1>1, <1>2 DEF Moved, Leading, Candidate, Leader, LocalLeader
  <1>4. \A n \in Node \ {i} : Moved(n)
    BY <1>2, UnmovedMoved
  <1> QED
    BY <1>2, <1>3, <1>4 DEF MoveStep

\* A step after which i has the term and the role that a message leaves it with.
LEMMA StepDownMoves ==
  ASSUME TypeOK, NEW i \in Node, NEW term \in Nat,
         current_term' = [current_term EXCEPT ![i] = TermAfter(i, term)],
         state' = [state EXCEPT ![i] = StateAfter(i, term)],
         elected' = elected
  PROVE  MoveStep
  <1>1. /\ current_term \in [Node -> Nat] /\ state \in [Node -> NodeState]
    BY DEF TypeOK
  <1>2. /\ current_term'[i] = TermAfter(i, term) /\ state'[i] = StateAfter(i, term)
        /\ \A n \in Node \ {i} : current_term'[n] = current_term[n] /\ state'[n] = state[n]
    BY <1>1
  <1>3. Moved(i)
    <2>1. CASE term > current_term[i]
      BY <1>1, <1>2, <2>1
      DEF Moved, TermAfter, StateAfter, Leading, Candidate, Follower, Leader, LocalLeader
    <2>2. CASE ~(term > current_term[i])
      BY <1>1, <1>2, <2>2, UnmovedMoved DEF TermAfter, StateAfter
    <2> QED
      BY <2>1, <2>2
  <1>4. \A n \in Node \ {i} : Moved(n)
    BY <1>2, UnmovedMoved
  <1> QED
    BY <1>3, <1>4 DEF MoveStep

LEMMA HandleLeadershipHandoffMoves ==
  ASSUME TypeOK, NEW i \in Node, NEW s \in Node, HandleLeadershipHandoff(i, s)
  PROVE  MoveStep
  <1> DEFINE m == Head(net[s][i])
  <1>1. m \in Message /\ m.type = "leadership_handoff" /\ current_term[i] \in Nat
    BY ArrivesType DEF TypeOK, HandleLeadershipHandoff
  <1>2. m.term \in Nat
    BY <1>1, MessageFields
  <1>3. TermAfter(i, m.term) \in Nat /\ TermAfter(i, m.term) >= current_term[i]
    BY <1>1, <1>2 DEF TermAfter
  <1>4. CASE StartElection(Unread(s, i), i, TermAfter(i, m.term))
    BY <1>3, <1>4, StartElectionMoves
  <1>5. CASE UNCHANGED electionVars
    BY <1>5, UnmovedMoved DEF MoveStep, electionVars
  <1> QED
    BY <1>4, <1>5 DEF HandleLeadershipHandoff

LEMMA HandleRequestVoteMoves ==
  ASSUME TypeOK, NEW i \in Node, NEW s \in Node, HandleRequestVote(i, s)
  PROVE  MoveStep
  <1> DEFINE m == Head(net[s][i])
  <1>1. m \in Message /\ m.type = "request_vote"
    BY ArrivesType DEF HandleRequestVote
  <1>2. m.term \in Nat
    BY <1>1, MessageFields
  <1> QED
    BY <1>2, StepDownMoves DEF HandleRequestVote

LEMMA HandleVoteResponseMovesOrWins ==
  ASSUME TypeOK, NEW i \in Node, NEW s \in Node, HandleVoteResponse(i, s)
  PROVE  MoveStep \/ WinStep(i)
  <1> DEFINE m == Head(net[s][i])
             ballots == IF m.vote_granted THEN [votes[i] EXCEPT ![s] = m.voter_battery]
                        ELSE votes[i]
  <1>1. m \in Message /\ m.type = "vote_response"
    BY ArrivesType DEF HandleVoteResponse
  <1>2. m.term \in Nat
    BY <1>1, MessageFields
  <1>3. CASE StepDown(i, m.term) /\ UNCHANGED elected
    BY <1>2, <1>3, StepDownMoves DEF StepDown
  <1>4. CASE UNCHANGED <<state, elected, current_term>>
    BY <1>4, UnmovedMoved DEF MoveStep
  <1>5. CASE /\ state[i] = Candidate
             /\ BecomeLeader(Unread(s, i), i, ballots)
             /\ UNCHANGED current_term
    <2> HIDE DEF ballots
    <2> QED
      BY <1>5 DEF BecomeLeader, WinStep
  <1> QED
    BY <1>3, <1>4, <1>5 DEF HandleVoteResponse

LEMMA StepsMoveOrWin ==
  ASSUME NoRecovery, TypeInv, TypeInv', ElectionInv, [Next]_vars
  PROVE  MoveStep \/ \E i \in Node : WinStep(i)
  <1>1. TypeOK /\ TypeOK' /\ ObserversStay
    BY DEF TypeInv, ElectionInv
  <1>2. ASSUME NEW i \in Node, Tick(i) PROVE MoveStep
    <2>1. CASE ElectionTimeout(i)
      <3>1. current_term[i] \in Nat
        BY <1>1 DEF TypeOK
      <3>2. StartElection(net, i, current_term[i]) /\ current_term[i] >= current_term[i]
        BY <2>1, <3>1 DEF ElectionTimeout
      <3> QED
        BY <1>1, <3>1, <3>2, StartElectionMoves
    <2> QED
      BY <1>1, <1>2, <2>1, IdleTickQuiet, RaftLeaderTickQuiet, EchoLeaderTickQuiet,
         EchodLeaderTickQuiet, QuietMoves DEF Tick
  <1>3. ASSUME NEW i \in Node, NEW s \in Node, Receive(i, s)
        PROVE  MoveStep \/ WinStep(i)
    BY <1>1, <1>3, HandleRequestVoteMoves, HandleVoteResponseMovesOrWins,
       HandleAppendEntriesQuiet, HandleAppendResponseQuiet, HandleLivenessPingQuiet,
       HandleSensorDataQuiet, HandleLeadershipHandoffMoves, HandleReconcileBatchQuiet,
       QuietMoves DEF Receive
  <1>4. ASSUME NEW i \in Node, HandlePartitionControl(i) PROVE MoveStep
    BY <1>1, <1>4, HandlePartitionControlQuiet, QuietMoves
  <1>5. ASSUME Environment PROVE MoveStep
    <2>1. ASSUME NEW c \in Control, PublishControl(c) PROVE MoveStep
      BY <1>1, <2>1, UnmovedMoved DEF PublishControl, electionVars, MoveStep
    <2> QED
      BY <1>1, <1>5, <2>1, BatteryMovesQuiet, DemoSetBatteryQuiet, LeafReportQuiet, DropsQuiet,
         QuietMoves DEF Environment
  <1>6. ASSUME UNCHANGED vars PROVE MoveStep
    BY <1>1, <1>6, UnmovedMoved DEF vars, electionVars, MoveStep
  <1> QED
    BY <1>2, <1>3, <1>4, <1>5, <1>6 DEF Next

-----------------------------------------------------------------------------
(* A candidate has not won its term *)

LEMMA StepsKeepOpen ==
  ASSUME NoRecovery, TypeInv, TypeInv', ElectionInv, CandidaciesOpen, [Next]_vars
  PROVE  CandidaciesOpen'
  <1>1. /\ current_term \in [Node -> Nat] /\ current_term' \in [Node -> Nat]
        /\ state \in [Node -> NodeState]
        /\ \A e \in elected : e.leader \in Node /\ e.term \in Nat
    BY DEF TypeInv, TypeOK
  <1>2. CASE MoveStep
    <2> SUFFICES ASSUME NEW e \in elected
                 PROVE  /\ e.term <= current_term'[e.leader]
                        /\ state'[e.leader] = Candidate => e.term < current_term'[e.leader]
      BY <1>2 DEF MoveStep, CandidaciesOpen
    <2>1. e.leader \in Node /\ e.term \in Nat
      BY <1>1
    <2>2. current_term[e.leader] \in Nat /\ current_term'[e.leader] \in Nat
      BY <1>1, <2>1
    <2>3. Moved(e.leader)
      BY <1>2, <2>1 DEF MoveStep
    <2>4. /\ e.term <= current_term[e.leader]
          /\ state[e.leader] = Candidate => e.term < current_term[e.leader]
      BY DEF CandidaciesOpen
    <2> QED
      BY <2>1, <2>2, <2>3, <2>4 DEF Moved
  <1>3. ASSUME NEW i \in Node, WinStep(i) PROVE CandidaciesOpen'
    <2>1. /\ current_term' = current_term
          /\ state'[i] = Leader /\ \A n \in Node \ {i} : state'[n] = state[n]
      BY <1>1, <1>3 DEF WinStep
    <2>2. \A e \in elected' : e \in elected \/ (e.leader = i /\ e.term = current_term[i])
      BY <1>3 DEF WinStep
    <2>3. ASSUME NEW e \in elected'
          PROVE  /\ e.term <= current_term'[e.leader]
                 /\ state'[e.leader] = Candidate => e.term < current_term'[e.leader]
      <3>1. CASE e \in elected
        <4>1. e.leader \in Node
          BY <1>1, <3>1
        <4> QED
          BY <2>1, <3>1, <4>1 DEF CandidaciesOpen, Leader, Candidate
      <3>2. CASE e.leader = i /\ e.term = current_term[i]
        <4>1. current_term[i] <= current_term[i]
          BY <1>1
        <4> QED
          BY <2>1, <3>2, <4>1 DEF Leader, Candidate
      <3> QED
        BY <2>2, <3>1, <3>2
    <2> QED
      BY <2>3 DEF CandidaciesOpen
  <1> QED
    BY <1>2, <1>3, StepsMoveOrWin

LEMMA OpenInvariant == NoRecovery => (Spec => []CandidaciesOpen)
  <1> SUFFICES ASSUME NoRecovery PROVE Spec => []CandidaciesOpen
    OBVIOUS
  <1>1. Init => CandidaciesOpen
    BY DEF Init, CandidaciesOpen
  <1>2. TypeInv /\ TypeInv' /\ ElectionInv /\ CandidaciesOpen /\ [Next]_vars => CandidaciesOpen'
    BY StepsKeepOpen
  <1> QED
    BY <1>1, <1>2, TypeInvariant, ElectionInvariant, PTL DEF Spec

-----------------------------------------------------------------------------
(* The refinement *)

LEMMA MoveImplementsMoveOn ==
  ASSUME MoveStep
  PROVE  Elections!MoveOn
  <1>1. \A n \in Node : current_term'[n] >= current_term[n]
    BY DEF MoveStep, Moved
  <1>2. \A n \in Node : Leading(state'[n]) => Leading(state[n]) /\ current_term'[n] = current_term[n]
    BY DEF MoveStep, Moved
  <1>3. {<<e.term, e.leader>> : e \in elected'} = {<<e.term, e.leader>> : e \in elected}
    BY DEF MoveStep
  <1> QED
    BY <1>1, <1>2, <1>3 DEF Elections!MoveOn

\* The winner's term is new: by ElectionSafety nobody else has won it, and the
\* candidate itself has not.
LEMMA WinImplementsWin ==
  ASSUME TypeInv, TypeInv', ElectionSafety', CandidaciesOpen, NEW i \in Node, WinStep(i)
  PROVE  Elections!Win(i)
  <1>1. /\ state \in [Node -> NodeState] /\ current_term \in [Node -> Nat]
    BY DEF TypeInv, TypeOK
  <1>2. PICK win : /\ win.term = current_term[i] /\ win.leader = i
                   /\ elected' = elected \cup {win}
    BY DEF WinStep
  <1>3. ~Leading(state[i])
    BY DEF WinStep, Leading, Candidate, Leader, LocalLeader
  <1>4. ASSUME NEW e \in elected PROVE e.term # current_term[i]
    <2>1. CASE e.leader = i
      <3>1. e.term < current_term[i] /\ e.term \in Nat
        BY <2>1 DEF CandidaciesOpen, WinStep, TypeInv, TypeOK
      <3> QED
        BY <1>1, <3>1
    <2>2. CASE e.leader # i
      BY <1>2, <2>2 DEF ElectionSafety
    <2> QED
      BY <2>1, <2>2
  <1>5. \A w \in {<<e.term, e.leader>> : e \in elected} : w[1] # current_term[i]
    BY <1>4
  <1>6. {<<e.term, e.leader>> : e \in elected'} =
          {<<e.term, e.leader>> : e \in elected} \cup {<<current_term[i], i>>}
    BY <1>2
  <1>7. {n \in Node : Leading(state'[n])} = {n \in Node : Leading(state[n])} \cup {i}
    <2>1. state'[i] = Leader /\ \A n \in Node \ {i} : state'[n] = state[n]
      BY <1>1 DEF WinStep
    <2> QED
      BY <2>1 DEF Leading, Leader
  <1>8. current_term' = current_term
    BY DEF WinStep
  <1> QED
    BY <1>3, <1>5, <1>6, <1>7, <1>8 DEF Elections!Win

\* Whatever the ballots, batteries, handoffs and partitions behind it, a term is
\* won once, only its winner leads in it, and leadership that is given up does
\* not come back without a later win.
THEOREM LeadershipImplemented == NoRecovery => (Spec => ImplementsLeadership)
  <1> SUFFICES ASSUME NoRecovery PROVE Spec => ImplementsLeadership
    OBVIOUS
  <1>1. Init => Elections!Init
    BY DEF Init, Elections!Init, Leading, Follower, Leader, LocalLeader
  <1>2. /\ TypeInv /\ TypeInv' /\ ElectionInv /\ ElectionSafety' /\ CandidaciesOpen
        /\ [Next]_vars
        => [Elections!Next]_(Elections!vars)
    BY StepsMoveOrWin, MoveImplementsMoveOn, WinImplementsWin DEF Elections!Next
  <1> QED
    BY <1>1, <1>2, TypeInvariant, ElectionInvariant, ElectionSafe, OpenInvariant, PTL
    DEF Spec, ImplementsLeadership, Elections!Spec

-----------------------------------------------------------------------------
(* Energy gating.  A candidate below T_LOW exists: a handoff makes one before *)
(* the battery is checked.  It loses because its requests say so              *)
(* (RequestsTruthful), no voter grants them (GrantsEligible), and it cannot   *)
(* win without a voter besides itself (VotesEligible).                        *)

IsBallot(o) == o.type \in {"request_vote", "vote_response"}

\* An outbox without requests and votes.
NoBallots(out) == \A d \in Node : \A o \in Content(out[d]) : ~IsBallot(o)

\* No request or vote is on a channel that was not before.
NoNewBallots ==
  \A s, d \in Node : \A o \in Content(net'[s][d]) : IsBallot(o) => o \in Content(net[s][d])

\* i becomes no candidate, and stays one only in its term.
CandidacyKept(i) ==
  state'[i] = Candidate => state[i] = Candidate /\ current_term'[i] = current_term[i]

\* A step that has no part in an election.
Uninvolved ==
  /\ UNCHANGED <<votes, elected>>
  /\ NoNewBallots
  /\ \A n \in Node : CandidacyKept(n)

-----------------------------------------------------------------------------
(* Ballots on the channels *)

LEMMA TransmitNoBallots ==
  ASSUME NEW rest \in Network, NEW i \in Node, NEW out \in Outbox, Transmit(rest, i, out),
         NoBallots(out),
         \A v, c \in Node : Content(rest[v][c]) \subseteq Content(net[v][c])
  PROVE  NoNewBallots
  <1> SUFFICES ASSUME NEW v \in Node, NEW c \in Node, NEW o \in Content(net'[v][c]), IsBallot(o)
               PROVE  o \in Content(net[v][c])
    BY DEF NoNewBallots
  <1>1. o \in Content(rest[v][c]) \/ o \in Content(out[c])
    BY TransmitContent
  <1> QED
    BY <1>1 DEF NoBallots

LEMMA NothingNoBallots == NoBallots(Nothing)
  BY ContentOfShort DEF NoBallots, Nothing

LEMMA OnlyNoBallots ==
  ASSUME NEW d, NEW ms, \A o \in Content(ms) : ~IsBallot(o)
  PROVE  NoBallots(Only(d, ms))
  BY ContentOfShort DEF NoBallots, Only

LEMMA PingsNoBallots ==
  ASSUME NEW i, NEW term
  PROVE  NoBallots(ToPeers(i, Ping(i, term)))
  <1> DEFINE m == Ping(i, term)
  <1>1. ~IsBallot(m)
    BY DEF Ping, IsBallot
  <1> HIDE DEF m
  <1>2. ASSUME NEW d \in Node PROVE Content(ToPeers(i, m)[d]) \subseteq {m}
    <2>1. ToPeers(i, m)[d] = <<>> \/ ToPeers(i, m)[d] = <<m>>
      BY DEF ToPeers
    <2>2. Content(<<>>) = {} /\ Content(<<m>>) = {m}
      BY ContentOfShort
    <2> QED
      BY <2>1, <2>2, Zenon
  <1>3. NoBallots(ToPeers(i, m))
    BY <1>1, <1>2 DEF NoBallots
  <1> QED
    BY <1>3 DEF m

LEMMA ThenNoBallots ==
  ASSUME NEW out \in Outbox, NEW more \in Outbox, NoBallots(out), NoBallots(more)
  PROVE  NoBallots(Then(out, more))
  <1>1. ASSUME NEW d \in Node
        PROVE  Content(Then(out, more)[d]) = Content(out[d]) \cup Content(more[d])
    BY ContentOfConcat DEF Then, Outbox
  <1> QED
    BY <1>1 DEF NoBallots

LEMMA HeartbeatsNoBallots ==
  ASSUME NEW i, NEW next
  PROVE  NoBallots(Heartbeats(i, next))
  <1>1. ASSUME NEW d \in Node, NEW o \in Content(Heartbeats(i, next)[d]) PROVE ~IsBallot(o)
    <2> DEFINE m == AppendEntries(i, log[i], next[d])
    <2>1. ~IsBallot(m)
      BY DEF IsBallot, AppendEntries
    <2> HIDE DEF m
    <2>2. Heartbeats(i, next)[d] = <<>> \/ Heartbeats(i, next)[d] = <<m>>
      BY DEF Heartbeats, m
    <2>3. Content(<<>>) = {} /\ Content(<<m>>) = {m}
      BY ContentOfShort
    <2>4. Content(Heartbeats(i, next)[d]) = {} \/ Content(Heartbeats(i, next)[d]) = {m}
      BY <2>2, <2>3, Zenon
    <2> QED
      BY <2>1, <2>4
  <1> QED
    BY <1>1 DEF NoBallots

LEMMA RoundsNoBallots ==
  ASSUME NEW i, NEW cmds, NEW next
  PROVE  NoBallots(Rounds(i, cmds, next))
  <1>1. ASSUME NEW lg, NEW n PROVE ~IsBallot(AppendEntries(i, lg, n))
    BY DEF IsBallot, AppendEntries
  <1>2. ASSUME NEW d \in Node, NEW o \in Content(Rounds(i, cmds, next)[d])
        PROVE  \E lg, n : o = AppendEntries(i, lg, n)
    <2>1. CASE d = i
      BY <2>1, ContentOfShort DEF Rounds
    <2>2. CASE d # i
      BY <2>2 DEF Rounds, Content
    <2> QED
      BY <2>1, <2>2
  <1> QED
    BY <1>1, <1>2 DEF NoBallots

LEMMA ReplicateNoBallots ==
  ASSUME TypeOK, NEW rest \in Network, NEW i \in Node, NEW cmds \in Seq(Command),
         Replicate(rest, i, cmds),
         \A v, c \in Node : Content(rest[v][c]) \subseteq Content(net[v][c])
  PROVE  NoNewBallots
  <1>1. next_index[i] \in [Node -> Nat \ {0}]
    BY DEF TypeOK
  <1>2. Rounds(i, cmds, next_index[i]) \in Outbox
    BY <1>1, RoundsType
  <1> QED
    BY <1>2, RoundsNoBallots, TransmitNoBallots DEF Replicate

\* What is left of the channels when i takes a message of s.
LEMMA ReceiveRest ==
  ASSUME TypeOK, NEW i \in Node, NEW s \in Node, NEW type, Arrives(s, i, type)
  PROVE  /\ Unread(s, i) \in Network
         /\ \A v, c \in Node : Content(Unread(s, i)[v][c]) \subseteq Content(net[v][c])
         /\ Head(net[s][i]) \in Content(net[s][i])
         /\ Head(net[s][i]) \in Message /\ Head(net[s][i]).type = type
  <1>1. net \in Network /\ net[s][i] # <<>>
    BY DEF TypeOK, Network, Arrives
  <1> QED
    BY <1>1, UnreadType, UnreadContent, ArrivesType

-----------------------------------------------------------------------------
(* The steps that have no part in an election *)

LEMMA SameCandidacies ==
  ASSUME UNCHANGED <<state, current_term>>
  PROVE  \A n \in Node : CandidacyKept(n)
  BY DEF CandidacyKept

\* A step that gives i the role st.
LEMMA OneCandidacy ==
  ASSUME TypeOK, NEW i \in Node, NEW st, state' = [state EXCEPT ![i] = st],
         st = Candidate => CandidacyKept(i),
         \A n \in Node \ {i} : current_term'[n] = current_term[n]
  PROVE  \A n \in Node : CandidacyKept(n)
  BY DEF CandidacyKept, TypeOK

\* A step after which i has the term and the role that a message leaves it with.
LEMMA StepDownCandidacies ==
  ASSUME TypeOK, NEW i \in Node, NEW term \in Nat,
         current_term' = [current_term EXCEPT ![i] = TermAfter(i, term)],
         state' = [state EXCEPT ![i] = StateAfter(i, term)]
  PROVE  \A n \in Node : CandidacyKept(n)
  <1>1. /\ current_term \in [Node -> Nat] /\ state \in [Node -> NodeState]
    BY DEF TypeOK
  <1>2. \A n \in Node \ {i} : current_term'[n] = current_term[n]
    BY <1>1
  <1>3. StateAfter(i, term) = Candidate => CandidacyKept(i)
    BY <1>1 DEF StateAfter, TermAfter, CandidacyKept, Candidate, Follower
  <1> QED
    BY <1>2, <1>3, OneCandidacy

LEMMA CheckedCandidacies ==
  ASSUME TypeOK, NEW i \in Node, NEW level, state' = [state EXCEPT ![i] = CheckedState(i, level)],
         UNCHANGED current_term
  PROVE  \A n \in Node : CandidacyKept(n)
  <1>1. CheckedState(i, level) = Candidate => CandidacyKept(i)
    BY DEF CheckedState, CandidacyKept, Candidate, Follower, Observer
  <1> QED
    BY <1>1, OneCandidacy

LEMMA EchodLeaderTickNoBallots ==
  ASSUME TypeOK, NEW i \in Node, EchodLeaderTick(i)
  PROVE  NoNewBallots
  <1> DEFINE batch(flush) == IF flush THEN <<Content(batch_buffer[i])>> ELSE <<>>
             rounds(flush) == Rounds(i, batch(flush), next_index[i])
             pings(ping) == IF ping THEN ToPeers(i, Ping(i, current_term[i])) ELSE Nothing
             m == [type |-> "leadership_handoff", term |-> current_term[i]]
  <1>1. /\ net \in Network /\ current_term[i] \in Nat
        /\ next_index[i] \in [Node -> Nat \ {0}] /\ batch_buffer[i] \in Seq(Reading)
    BY DEF TypeOK, Network
  <1>2. PICK flush \in BOOLEAN, ping \in BOOLEAN :
          \/ Transmit(net, i, Then(rounds(flush), pings(ping)))
          \/ \E p \in Successors(i) :
               Transmit(net, i, Then(Then(rounds(flush), pings(ping)), Only(p, <<m>>)))
    BY DEF EchodLeaderTick
  <1>3. batch(flush) \in Seq(Command)
    BY <1>1, ContentType, EmptySeq
  <1>4. rounds(flush) \in Outbox /\ NoBallots(rounds(flush))
    BY <1>1, <1>3, RoundsType, RoundsNoBallots
  <1>5. pings(ping) \in Outbox /\ NoBallots(pings(ping))
    BY <1>1, PingType, ToPeersType, NothingType, PingsNoBallots, NothingNoBallots
  <1>6. m \in Message /\ ~IsBallot(m)
    BY <1>1, HandoffType DEF IsBallot
  <1> HIDE DEF rounds, pings, m
  <1>7. <<m>> \in Seq(Message) /\ \A o \in Content(<<m>>) : ~IsBallot(o)
    BY <1>6, MessagesAreSeq, ContentOfShort
  <1>8. ASSUME NEW p PROVE Only(p, <<m>>) \in Outbox /\ NoBallots(Only(p, <<m>>))
    BY <1>7, OnlyType, OnlyNoBallots
  <1>9. /\ Then(rounds(flush), pings(ping)) \in Outbox
        /\ NoBallots(Then(rounds(flush), pings(ping)))
    BY <1>4, <1>5, ThenType, ThenNoBallots
  <1>10. ASSUME NEW p
         PROVE  /\ Then(Then(rounds(flush), pings(ping)), Only(p, <<m>>)) \in Outbox
                /\ NoBallots(Then(Then(rounds(flush), pings(ping)), Only(p, <<m>>)))
    BY <1>8, <1>9, ThenType, ThenNoBallots
  <1> QED
    BY <1>1, <1>2, <1>9, <1>10, TransmitNoBallots

LEMMA TickUninvolved ==
  ASSUME TypeOK, NEW i \in Node, Tick(i), ~ElectionTimeout(i)
  PROVE  Uninvolved
  <1>1. net \in Network /\ current_term[i] \in Nat /\ next_index[i] \in [Node -> Nat \ {0}]
    BY DEF TypeOK, Network
  <1>2. CASE IdleTick(i)
    BY <1>2, CheckedCandidacies DEF IdleTick, Uninvolved, NoNewBallots
  <1>3. CASE RaftLeaderTick(i)
    <2>1. NoNewBallots
      BY <1>1, <1>3, HeartbeatsType, HeartbeatsNoBallots, TransmitNoBallots DEF RaftLeaderTick
    <2> QED
      BY <1>3, <2>1, SameCandidacies DEF RaftLeaderTick, electionVars, Uninvolved
  <1>4. CASE EchoLeaderTick(i)
    <2>1. ToPeers(i, Ping(i, current_term[i])) \in Outbox
      BY <1>1, PingType, ToPeersType
    <2>2. NoNewBallots
      BY <1>1, <1>4, <2>1, PingsNoBallots, TransmitNoBallots DEF EchoLeaderTick
    <2> QED
      BY <1>4, <2>2, SameCandidacies DEF EchoLeaderTick, electionVars, Uninvolved
  <1>5. CASE EchodLeaderTick(i)
    <2>1. UNCHANGED <<current_term, votes, elected>> /\ (UNCHANGED state \/ state' = HandedOver(i))
      BY <1>5 DEF EchodLeaderTick
    <2>2. \A n \in Node : CandidacyKept(n)
      BY <2>1, SameCandidacies, OneCandidacy DEF HandedOver, Follower, Candidate
    <2> QED
      BY <1>5, <2>1, <2>2, EchodLeaderTickNoBallots DEF Uninvolved
  <1> QED
    BY <1>2, <1>3, <1>4, <1>5 DEF Tick

LEMMA TakeReadingUninvolved ==
  ASSUME TypeOK, NEW i \in Node, NEW rest \in Network, NEW reading \in Reading,
         \A v, c \in Node : Content(rest[v][c]) \subseteq Content(net[v][c]),
         TakeReading(rest, i, reading)
  PROVE  Uninvolved
  <1> DEFINE m == [type |-> "sensor_data", reading |-> reading]
             batch == Append(batch_buffer[i], reading)
  <1>1. batch \in Seq(Reading)
    BY AppendProperties DEF TypeOK
  <1>2. <<{reading}>> \in Seq(Command) /\ <<Content(batch)>> \in Seq(Command)
    <2>1. {reading} \in Command
      BY DEF Command
    <2>2. Content(batch) \in Command
      BY <1>1, ContentType
    <2> QED
      BY <2>1, <2>2
  <1>3. ASSUME Transmit(rest, i, Only(current_leader_id[i], <<m>>))
        PROVE  NoNewBallots
    <2>1. m \in Message /\ ~IsBallot(m)
      BY DEF Message, IsBallot
    <2> HIDE DEF m
    <2>2. <<m>> \in Seq(Message) /\ \A o \in Content(<<m>>) : ~IsBallot(o)
      BY <2>1, MessagesAreSeq, ContentOfShort
    <2>3. /\ Only(current_leader_id[i], <<m>>) \in Outbox
          /\ NoBallots(Only(current_leader_id[i], <<m>>))
      BY <2>2, OnlyType, OnlyNoBallots
    <2> QED
      BY <1>3, <2>3, TransmitNoBallots
  <1>4. ASSUME Transmit(rest, i, Nothing) PROVE NoNewBallots
    BY <1>4, NothingType, NothingNoBallots, TransmitNoBallots
  <1>5. ASSUME Replicate(rest, i, <<{reading}>>) \/ Replicate(rest, i, <<Content(batch)>>)
        PROVE  NoNewBallots
    BY <1>2, <1>5, ReplicateNoBallots, Zenon
  <1>6. NoNewBallots
    BY <1>3, <1>4, <1>5 DEF TakeReading
  <1> QED
    BY <1>6, SameCandidacies DEF TakeReading, electionVars, Uninvolved

\* A handler of i that sends no ballots.
LEMMA ReceiveNoBallots ==
  ASSUME TypeOK, NEW i \in Node, NEW s \in Node, NEW type, Arrives(s, i, type),
         NEW out \in Outbox, NoBallots(out), Transmit(Unread(s, i), i, out)
  PROVE  NoNewBallots
  BY ReceiveRest, TransmitNoBallots

LEMMA HandleAppendEntriesUninvolved ==
  ASSUME TypeInv, NEW i \in Node, NEW s \in Node, HandleAppendEntries(i, s)
  PROVE  Uninvolved
  <1> DEFINE m == Head(net[s][i])
             st == StateAfter(i, m.term)
             answer == AppendResponse(i, TermAfter(i, m.term), FALSE, 0)
             refusal == Only(s, <<answer>>)
  <1>1. /\ TypeOK /\ Arrives(s, i, "append_entries")
        /\ m \in Message /\ m.type = "append_entries"
    BY ArrivesType DEF TypeInv, HandleAppendEntries
  <1>2. /\ m.term \in Nat /\ m.prev_log_index \in Nat /\ m.entries \in Seq(LogEntry)
    BY <1>1, MessageFields
  <1>3. ASSUME Transmit(Unread(s, i), i, refusal) PROVE NoNewBallots
    <2>1. TermAfter(i, m.term) \in Nat
      BY <1>2, StepDownType
    <2>2. answer \in Message /\ ~IsBallot(answer)
      BY <1>1, <2>1, AppendResponseType DEF AppendResponse, IsBallot
    <2> HIDE DEF answer
    <2>3. <<answer>> \in Seq(Message) /\ \A o \in Content(<<answer>>) : ~IsBallot(o)
      BY <2>2, MessagesAreSeq, ContentOfShort
    <2>4. refusal \in Outbox /\ NoBallots(refusal)
      BY <2>3, OnlyType, OnlyNoBallots
    <2> QED
      BY <1>1, <1>3, <2>4, ReceiveNoBallots
  <1>4. ASSUME MergeEntries(Unread(s, i), i, s, m),
               Consistent(log[i], m.prev_log_index, m.prev_log_term)
        PROVE  NoNewBallots
    <2>1. PICK ms \in Seq(Message) :
            /\ Transmit(Unread(s, i), i, Only(s, ms))
            /\ \A o \in Content(ms) : o.type \in {"append_response", "reconcile_batch"}
      BY <1>2, <1>4, MergeEntriesSends
    <2>2. \A o \in Content(ms) : ~IsBallot(o)
      BY <2>1 DEF IsBallot
    <2>3. Only(s, ms) \in Outbox /\ NoBallots(Only(s, ms))
      BY <2>2, OnlyType, OnlyNoBallots
    <2> QED
      BY <1>1, <2>1, <2>3, ReceiveNoBallots
  <1>5. NoNewBallots
    BY <1>3, <1>4 DEF HandleAppendEntries
  <1>6. \A n \in Node : CandidacyKept(n)
    <2>1. \/ UNCHANGED <<state, current_term>>
          \/ /\ state' = [state EXCEPT ![i] = IF st = Candidate THEN Follower ELSE st]
             /\ current_term' = [current_term EXCEPT ![i] = m.term]
      BY DEF HandleAppendEntries
    <2>2. current_term' = [current_term EXCEPT ![i] = m.term]
          => \A n \in Node \ {i} : current_term'[n] = current_term[n]
      BY <1>1 DEF TypeOK
    <2>3. (IF st = Candidate THEN Follower ELSE st) # Candidate
      BY DEF Follower, Candidate
    <2> QED
      BY <1>1, <2>1, <2>2, <2>3, SameCandidacies, OneCandidacy
  <1> QED
    BY <1>5, <1>6 DEF HandleAppendEntries, Uninvolved

LEMMA HandleReconcileBatchUninvolved ==
  ASSUME TypeOK, NEW i \in Node, NEW s \in Node, HandleReconcileBatch(i, s)
  PROVE  Uninvolved
  <1> DEFINE m == Head(net[s][i])
             P == FreshPositions(m.commands, recent_reconciles[i])
             fresh(at) == [k \in DOMAIN at |-> m.commands[at[k]]]
  <1>1. Arrives(s, i, "reconcile_batch")
    BY DEF HandleReconcileBatch
  <1>2. m.commands \in Seq(Command)
    BY <1>1, ReceiveRest, MessageFields
  <1>3. ASSUME Transmit(Unread(s, i), i, Nothing) PROVE NoNewBallots
    BY <1>1, <1>3, NothingType, NothingNoBallots, ReceiveNoBallots
  <1>4. ASSUME NEW at \in InOrder(P), Replicate(Unread(s, i), i, Proposed(fresh(at)))
        PROVE  NoNewBallots
    <2>1. Proposed(fresh(at)) \in Seq(Command)
      BY <1>2, FreshCommandsType, ProposedType
    <2> HIDE DEF fresh
    <2> QED
      BY <1>1, <1>4, <2>1, ReceiveRest, ReplicateNoBallots
  <1>5. NoNewBallots
    BY <1>3, <1>4 DEF HandleReconcileBatch
  <1> QED
    BY <1>5, SameCandidacies DEF HandleReconcileBatch, electionVars, Uninvolved

\* The handlers that are no part of an election.
LEMMA ReceiveUninvolved ==
  ASSUME TypeInv, NEW i \in Node, NEW s \in Node,
         \/ HandleAppendEntries(i, s) \/ HandleAppendResponse(i, s)
         \/ HandleLivenessPing(i, s) \/ HandleSensorData(i, s)
         \/ HandleReconcileBatch(i, s)
  PROVE  Uninvolved
  <1> DEFINE m == Head(net[s][i])
  <1>1. TypeOK
    BY DEF TypeInv
  <1>2. CASE HandleAppendResponse(i, s)
    <2>1. m.term \in Nat
      BY <1>1, <1>2, ArrivesType, MessageFields DEF HandleAppendResponse
    <2>2. NoNewBallots
      BY <1>1, <1>2, NothingType, NothingNoBallots, ReceiveNoBallots DEF HandleAppendResponse
    <2> QED
      BY <1>1, <1>2, <2>1, <2>2, StepDownCandidacies
      DEF HandleAppendResponse, StepDown, Uninvolved
  <1>3. CASE HandleLivenessPing(i, s)
    <2>1. m.term \in Nat
      BY <1>1, <1>3, ArrivesType, MessageFields DEF HandleLivenessPing
    <2>2. NoNewBallots
      BY <1>1, <1>3, NothingType, NothingNoBallots, ReceiveNoBallots DEF HandleLivenessPing
    <2> QED
      BY <1>1, <1>3, <2>1, <2>2, StepDownCandidacies
      DEF HandleLivenessPing, StepDown, Uninvolved
  <1>4. CASE HandleSensorData(i, s)
    <2>1. Arrives(s, i, "sensor_data") /\ TakeReading(Unread(s, i), i, m.reading)
      BY <1>4 DEF HandleSensorData
    <2>2. m.reading \in Reading
      BY <1>1, <2>1, ReceiveRest, MessageFields
    <2> QED
      BY <1>1, <2>1, <2>2, ReceiveRest, TakeReadingUninvolved
  <1> QED
    BY <1>1, <1>2, <1>3, <1>4, HandleAppendEntriesUninvolved, HandleReconcileBatchUninvolved

LEMMA HandlePartitionControlUninvolved ==
  ASSUME TypeOK, NEW i \in Node, HandlePartitionControl(i)
  PROVE  Uninvolved
  <1> DEFINE split == Head(control[i]).action = "partition"
  <1>1. /\ state' = [state EXCEPT ![i] = LeadAfter(i, split)]
        /\ UNCHANGED <<current_term, votes, elected, net>>
    BY DEF HandlePartitionControl
  <1>2. LeadAfter(i, split) = Candidate => CandidacyKept(i)
    BY <1>1 DEF LeadAfter, CandidacyKept, Candidate, Follower, LocalLeader
  <1> HIDE DEF split
  <1>3. \A n \in Node : CandidacyKept(n)
    BY <1>1, <1>2, OneCandidacy
  <1> QED
    BY <1>1, <1>3 DEF Uninvolved, NoNewBallots

LEMMA EnvironmentUninvolved ==
  ASSUME TypeOK, Environment
  PROVE  Uninvolved
  <1>1. net \in Network
    BY DEF TypeOK, Network
  <1>2. ASSUME UNCHANGED <<state, current_term, votes, elected, net>> PROVE Uninvolved
    BY <1>2, SameCandidacies DEF Uninvolved, NoNewBallots
  <1>3. ASSUME NEW i \in Node, NEW level \in Levels, DemoSetBattery(i, level)
        PROVE  Uninvolved
    BY <1>3, CheckedCandidacies DEF DemoSetBattery, Uninvolved, NoNewBallots
  <1>4. ASSUME NEW s \in Node, NEW d \in Node, DropBlocked(s, d) \/ Lose(s, d)
        PROVE  Uninvolved
    <2>1. net[s][d] # <<>> /\ net' = Unread(s, d) /\ UNCHANGED electionVars
      BY <1>4 DEF DropBlocked, Lose
    <2>2. NoNewBallots
      BY <1>1, <2>1, UnreadContent DEF NoNewBallots
    <2> QED
      BY <2>1, <2>2, SameCandidacies DEF electionVars, Uninvolved
  <1>5. ASSUME NEW i \in Node, NEW reading \in Reading, LeafReport(i, reading)
        PROVE  Uninvolved
    BY <1>1, <1>5, TakeReadingUninvolved DEF LeafReport
  <1>6. \/ UNCHANGED <<state, current_term, votes, elected, net>>
        \/ \E i \in Node, level \in Levels : DemoSetBattery(i, level)
        \/ \E i \in Node, reading \in Reading : LeafReport(i, reading)
        \/ \E s, d \in Node : DropBlocked(s, d) \/ Lose(s, d)
    BY DEF Environment, BatteryMoves, PublishControl, electionVars
  <1> QED
    BY <1>2, <1>3, <1>4, <1>5, <1>6

-----------------------------------------------------------------------------
(* The invariant *)

LEMMA BallotTerms ==
  ASSUME TypeOK
  PROVE  \A s, d \in Node : \A o \in Content(net[s][d]) : IsBallot(o) => o.term \in Int
  <1> SUFFICES ASSUME NEW s \in Node, NEW d \in Node, NEW k \in DOMAIN net[s][d],
                      IsBallot(net[s][d][k])
               PROVE  net[s][d][k].term \in Int
    BY DEF Content
  <1>1. net[s][d] \in Seq(Message)
    BY DEF TypeOK
  <1>2. net[s][d][k] \in Message
    BY <1>1, ElementOfSeq, LenProperties
  <1> QED
    BY <1>2, MessageFields DEF IsBallot

\* The parts of the invariant after a step, with what the step makes of the channels.
LEMMA TruthfulNext ==
  ASSUME \A c, v \in Node : \A o \in Content(net'[c][v]) : o.type = "request_vote" =>
           /\ c # v /\ o.term <= current_term'[c]
           /\ state'[c] = Candidate /\ o.term = current_term'[c]
              => o.battery_level = votes'[c][c]
  PROVE  RequestsTruthful'
  BY DEF RequestsTruthful, Content

LEMMA EligibleNext ==
  ASSUME \A v, c \in Node : \A o \in Content(net'[v][c]) : o.type = "vote_response" =>
           /\ v # c
           /\ o.vote_granted =>
                /\ o.term <= current_term'[c]
                /\ state'[c] = Candidate /\ o.term = current_term'[c]
                   => Eligible(votes'[c][c])
  PROVE  GrantsEligible'
  BY DEF GrantsEligible, Content, Eligible

LEMMA UninvolvedKeepsGate ==
  ASSUME TypeOK, TypeOK', GateInv, Uninvolved,
         \A n \in Node : current_term'[n] >= current_term[n]
  PROVE  GateInv'
  <1>0. \A n \in Node : current_term[n] \in Int /\ current_term'[n] \in Int
    BY DEF TypeOK
  <1>1. \A s, d \in Node : \A o \in Content(net[s][d]) : IsBallot(o) => o.term \in Int
    BY BallotTerms
  <1>2. RequestsTruthful'
    <2> SUFFICES ASSUME NEW c \in Node, NEW v \in Node, NEW o \in Content(net'[c][v]),
                        o.type = "request_vote"
                 PROVE  /\ c # v /\ o.term <= current_term'[c]
                        /\ state'[c] = Candidate /\ o.term = current_term'[c]
                           => o.battery_level = votes'[c][c]
      BY TruthfulNext
    <2>1. o \in Content(net[c][v]) /\ o.term \in Int
      BY <1>1 DEF Uninvolved, NoNewBallots, IsBallot
    <2> QED
      BY <1>0, <2>1 DEF GateInv, RequestsTruthful, Uninvolved, CandidacyKept
  <1>3. GrantsEligible'
    <2> SUFFICES ASSUME NEW v \in Node, NEW c \in Node, NEW o \in Content(net'[v][c]),
                        o.type = "vote_response"
                 PROVE  /\ v # c
                        /\ o.vote_granted =>
                             /\ o.term <= current_term'[c]
                             /\ state'[c] = Candidate /\ o.term = current_term'[c]
                                => Eligible(votes'[c][c])
      BY EligibleNext
    <2>1. o \in Content(net[v][c]) /\ o.term \in Int
      BY <1>1 DEF Uninvolved, NoNewBallots, IsBallot
    <2> QED
      BY <1>0, <2>1 DEF GateInv, GrantsEligible, Uninvolved, CandidacyKept
  <1>4. VotesEligible' /\ EnergyGate'
    BY DEF GateInv, VotesEligible, EnergyGate, Uninvolved, CandidacyKept, Eligible
  <1> QED
    BY <1>2, <1>3, <1>4 DEF GateInv

\* A new candidate asks with the battery it voted for itself with, in a term that
\* no earlier ballot of its has reached.
LEMMA StartElectionKeepsGate ==
  ASSUME TypeOK, GateInv, NEW i \in Node, NEW rest \in Network,
         \A v, c \in Node : Content(rest[v][c]) \subseteq Content(net[v][c]),
         NEW term \in Nat, term >= current_term[i], StartElection(rest, i, term)
  PROVE  GateInv'
  <1> DEFINE m == [type |-> "request_vote", term |-> term + 1, last_log_index |-> Len(log[i]),
                   last_log_term |-> LastTerm(log[i]), battery_level |-> battery[i]]
  <1>1. /\ current_term \in [Node -> Nat] /\ state \in [Node -> NodeState]
        /\ votes \in [Node -> [Node -> Levels \cup {None}]]
        /\ log[i] \in Seq(LogEntry) /\ battery[i] \in Levels
    BY DEF TypeOK
  <1>2. /\ current_term'[i] = term + 1 /\ elected' = elected
        /\ votes'[i] = [NoVotes EXCEPT ![i] = battery[i]]
        /\ \A n \in Node \ {i} : /\ current_term'[n] = current_term[n]
                                 /\ state'[n] = state[n] /\ votes'[n] = votes[n]
    BY <1>1 DEF StartElection
  <1>3. /\ votes'[i][i] = battery[i]
        /\ \A v \in Node \ {i} : votes'[i][v] = None
    BY <1>2 DEF NoVotes
  <1>4. /\ m.type = "request_vote" /\ m.term = term + 1 /\ m.battery_level = battery[i]
        /\ Transmit(rest, i, ToPeers(i, m))
    BY DEF StartElection
  <1>5. m \in Message
    <2>1. Len(log[i]) \in Nat /\ LastTerm(log[i]) \in Nat
      BY <1>1, LenProperties, TermOfLogType
    <2> QED
      BY <1>1, <2>1 DEF Message
  <1> HIDE DEF m
  <1>6. ASSUME NEW v \in Node, NEW c \in Node, NEW o \in Content(net'[v][c])
        PROVE  o \in Content(net[v][c]) \/ (v = i /\ c # i /\ o = m)
    <2>1. o \in Content(rest[v][c]) \/ (v = i /\ o \in Content(ToPeers(i, m)[c]))
      BY <1>4, <1>5, ToPeersType, TransmitContent
    <2>2. ToPeers(i, m)[c] = <<>> \/ (c # i /\ ToPeers(i, m)[c] = <<m>>)
      BY DEF ToPeers
    <2>3. Content(<<>>) = {} /\ Content(<<m>>) = {m}
      BY ContentOfShort
    <2>4. Content(ToPeers(i, m)[c]) = {} \/ (c # i /\ Content(ToPeers(i, m)[c]) = {m})
      BY <2>2, <2>3, Zenon
    <2> QED
      BY <2>1, <2>4
  <1>7. \A v, c \in Node : \A o \in Content(net[v][c]) : IsBallot(o) => o.term \in Int
    BY BallotTerms
  <1>8. RequestsTruthful'
    <2> SUFFICES ASSUME NEW c \in Node, NEW v \in Node, NEW o \in Content(net'[c][v]),
                        o.type = "request_vote"
                 PROVE  /\ c # v /\ o.term <= current_term'[c]
                        /\ state'[c] = Candidate /\ o.term = current_term'[c]
                           => o.battery_level = votes'[c][c]
      BY TruthfulNext
    <2>1. CASE o \in Content(net[c][v])
      <3>1. /\ c # v /\ o.term <= current_term[c] /\ o.term \in Int
            /\ state[c] = Candidate /\ o.term = current_term[c]
               => o.battery_level = votes[c][c]
        BY <1>7, <2>1 DEF GateInv, RequestsTruthful, IsBallot
      <3>2. CASE c = i
        BY <1>1, <1>2, <3>1, <3>2
      <3>3. CASE c # i
        BY <1>2, <3>1, <3>3
      <3> QED
        BY <3>2, <3>3
    <2>2. CASE c = i /\ v # i /\ o = m
      <3>1. o.term = term + 1 /\ o.battery_level = battery[i] /\ term + 1 <= term + 1
        BY <1>4, <2>2
      <3>2. current_term'[c] = term + 1 /\ votes'[c][c] = battery[i]
        BY <1>2, <1>3, <2>2
      <3> QED
        BY <2>2, <3>1, <3>2
    <2> QED
      BY <1>6, <2>1, <2>2
  <1>9. GrantsEligible'
    <2> SUFFICES ASSUME NEW v \in Node, NEW c \in Node, NEW o \in Content(net'[v][c]),
                        o.type = "vote_response"
                 PROVE  /\ v # c
                        /\ o.vote_granted =>
                             /\ o.term <= current_term'[c]
                             /\ state'[c] = Candidate /\ o.term = current_term'[c]
                                => Eligible(votes'[c][c])
      BY EligibleNext
    <2>1. o \in Content(net[v][c]) /\ o.term \in Int
      BY <1>4, <1>6, <1>7 DEF IsBallot
    <2>2. /\ v # c
          /\ o.vote_granted =>
               /\ o.term <= current_term[c]
               /\ state[c] = Candidate /\ o.term = current_term[c] => Eligible(votes[c][c])
      BY <2>1 DEF GateInv, GrantsEligible
    <2>3. CASE c = i
      BY <1>1, <1>2, <2>1, <2>2, <2>3
    <2>4. CASE c # i
      BY <1>2, <2>2, <2>4
    <2> QED
      BY <2>3, <2>4
  <1>10. VotesEligible'
    BY <1>2, <1>3 DEF GateInv, VotesEligible, Eligible
  <1>11. EnergyGate'
    BY <1>2 DEF GateInv, EnergyGate
  <1> QED
    BY <1>8, <1>9, <1>10, <1>11 DEF GateInv

\* A voter grants only what is eligible by the request, hence by the candidate's own
\* vote, if it is still a candidate in that term.
LEMMA HandleRequestVoteKeepsGate ==
  ASSUME TypeInv, TypeOK', GateInv, NEW i \in Node, NEW s \in Node,
         HandleRequestVote(i, s), \A n \in Node : current_term'[n] >= current_term[n]
  PROVE  GateInv'
  <1> DEFINE m == Head(net[s][i])
             term == TermAfter(i, m.term)
             grant == Grants(i, s, m)
             answer == [type |-> "vote_response", term |-> term, vote_granted |-> grant,
                        voter_battery |-> battery[i]]
  <1>1. /\ TypeOK /\ Arrives(s, i, "request_vote") /\ UNCHANGED <<votes, elected>>
        /\ Transmit(Unread(s, i), i, Only(s, <<answer>>))
    BY DEF TypeInv, HandleRequestVote
  <1>2. /\ Unread(s, i) \in Network /\ m \in Message /\ m.type = "request_vote"
        /\ m \in Content(net[s][i])
        /\ \A v, c \in Node : Content(Unread(s, i)[v][c]) \subseteq Content(net[v][c])
    BY <1>1, ReceiveRest
  <1>3. m.term \in Nat
    BY <1>2, MessageFields
  <1>4. term \in Nat /\ grant \in BOOLEAN
    BY <1>3, StepDownType DEF Grants
  <1>5. /\ s # i /\ m.term <= current_term[s]
        /\ state[s] = Candidate /\ m.term = current_term[s] => m.battery_level = votes[s][s]
    BY <1>2 DEF GateInv, RequestsTruthful
  <1>6. grant => term = m.term /\ Eligible(m.battery_level)
    BY DEF Grants
  <1>7. Only(s, <<answer>>) \in Outbox
    BY <1>4, VoteResponseMessage
  <1>8. answer.type = "vote_response" /\ answer.vote_granted = grant /\ answer.term = term
    OBVIOUS
  <1>9. \A n \in Node : CandidacyKept(n)
    BY <1>1, <1>3, StepDownCandidacies DEF HandleRequestVote
  <1>10. current_term'[s] = current_term[s] /\ state'[s] = state[s]
    BY <1>1, <1>5 DEF HandleRequestVote, TypeOK
  <1>11. \A n \in Node : current_term[n] \in Int /\ current_term'[n] \in Int
    BY <1>1 DEF TypeOK
  <1>12. \A v, c \in Node : \A o \in Content(net[v][c]) : IsBallot(o) => o.term \in Int
    BY <1>1, BallotTerms
  <1> HIDE DEF answer, grant, term
  <1>13. ASSUME NEW v \in Node, NEW c \in Node, NEW o \in Content(net'[v][c])
         PROVE  o \in Content(net[v][c]) \/ (v = i /\ c = s /\ o = answer)
    <2>1. o \in Content(Unread(s, i)[v][c]) \/ (v = i /\ o \in Content(Only(s, <<answer>>)[c]))
      BY <1>1, <1>2, <1>7, TransmitContent
    <2>2. \/ Only(s, <<answer>>)[c] = <<>>
          \/ c = s /\ Only(s, <<answer>>)[c] = <<answer>>
      BY DEF Only
    <2>3. Content(<<>>) = {} /\ Content(<<answer>>) = {answer}
      BY ContentOfShort
    <2>4. \/ Content(Only(s, <<answer>>)[c]) = {}
          \/ c = s /\ Content(Only(s, <<answer>>)[c]) = {answer}
      BY <2>2, <2>3, Zenon
    <2> QED
      BY <1>2, <2>1, <2>4
  <1>14. RequestsTruthful'
    <2> SUFFICES ASSUME NEW c \in Node, NEW v \in Node, NEW o \in Content(net'[c][v]),
                        o.type = "request_vote"
                 PROVE  /\ c # v /\ o.term <= current_term'[c]
                        /\ state'[c] = Candidate /\ o.term = current_term'[c]
                           => o.battery_level = votes'[c][c]
      BY TruthfulNext
    <2>1. o \in Content(net[c][v]) /\ o.term \in Int
      BY <1>8, <1>12, <1>13 DEF IsBallot
    <2> QED
      BY <1>1, <1>9, <1>11, <2>1 DEF GateInv, RequestsTruthful, CandidacyKept
  <1>15. GrantsEligible'
    <2> SUFFICES ASSUME NEW v \in Node, NEW c \in Node, NEW o \in Content(net'[v][c]),
                        o.type = "vote_response"
                 PROVE  /\ v # c
                        /\ o.vote_granted =>
                             /\ o.term <= current_term'[c]
                             /\ state'[c] = Candidate /\ o.term = current_term'[c]
                                => Eligible(votes'[c][c])
      BY EligibleNext
    <2>1. CASE o \in Content(net[v][c])
      <3>1. o.term \in Int
        BY <1>12, <2>1 DEF IsBallot
      <3> QED
        BY <1>1, <1>9, <1>11, <2>1, <3>1 DEF GateInv, GrantsEligible, CandidacyKept
    <2>2. CASE v = i /\ c = s /\ o = answer
      BY <1>1, <1>5, <1>6, <1>8, <1>10, <2>2
    <2> QED
      BY <1>13, <2>1, <2>2
  <1>16. VotesEligible' /\ EnergyGate'
    BY <1>1, <1>9 DEF GateInv, VotesEligible, EnergyGate, CandidacyKept, Eligible
  <1> QED
    BY <1>14, <1>15, <1>16 DEF GateInv

\* A majority of two or more coordinators has a member besides i.
LEMMA MajorityBeyondOne ==
  ASSUME NEW i \in Node, NEW s \in Node, s # i, NEW Q \in SUBSET Node, IsMajority(Q)
  PROVE  \E v \in Q : v # i
  <1>1. IsFiniteSet({i}) /\ IsFiniteSet({s}) /\ IsFiniteSet({i, s})
    BY NodeAssumption, FS_Subset
  <1>2. Cardinality({i}) = 1 /\ Cardinality({i, s}) = 2
    <2>1. Cardinality({i}) = 1
      BY FS_Singleton
    <2>2. {i, s} = {i} \cup {s} /\ s \notin {i}
      OBVIOUS
    <2>3. Cardinality({i} \cup {s}) = Cardinality({i}) + 1
      BY <1>1, <2>2, FS_AddElement
    <2> QED
      BY <2>1, <2>2, <2>3
  <1>3. 2 <= Cardinality(Node) /\ Cardinality(Node) \in Nat
    BY <1>2, NodeAssumption, FS_Subset, FS_CardinalityType
  <1>4. IsFiniteSet(Q) /\ Cardinality(Q) \in Nat
    BY NodeAssumption, FS_Subset, FS_CardinalityType
  <1>5. Cardinality(Q) > 1
    BY <1>3, <1>4 DEF IsMajority
  <1>6. ASSUME Q \subseteq {i} PROVE FALSE
    <2>1. Cardinality(Q) <= Cardinality({i})
      BY <1>1, <1>6, FS_Subset
    <2> QED
      BY <1>2, <1>4, <1>5, <2>1
  <1> QED
    BY <1>6

\* A vote counts for an eligible battery only, and nobody wins with its own alone.
LEMMA HandleVoteResponseKeepsGate ==
  ASSUME TypeInv, TypeOK', GateInv, NEW i \in Node, NEW s \in Node,
         HandleVoteResponse(i, s), \A n \in Node : current_term'[n] >= current_term[n]
  PROVE  GateInv'
  <1> DEFINE m == Head(net[s][i])
             rest == Unread(s, i)
             ballots == IF m.vote_granted THEN [votes[i] EXCEPT ![s] = m.voter_battery]
                        ELSE votes[i]
             next == [p \in Node |-> Len(log[i]) + 1]
             cmds == Proposed(Singletons(pending_triggers[i]))
             claim == IF Protocol = "raft" THEN Heartbeats(i, next)
                      ELSE ToPeers(i, Ping(i, current_term[i]))
  <1>1. TypeOK /\ Arrives(s, i, "vote_response")
    BY DEF TypeInv, HandleVoteResponse
  <1>2. /\ rest \in Network /\ m \in Message /\ m.type = "vote_response"
        /\ m \in Content(net[s][i])
        /\ \A v, c \in Node : Content(rest[v][c]) \subseteq Content(net[v][c])
    BY <1>1, ReceiveRest
  <1>3. m.term \in Nat /\ m.vote_granted \in BOOLEAN
    BY <1>2, MessageFields
  <1>4. /\ s # i
        /\ m.vote_granted => (state[i] = Candidate /\ m.term = current_term[i]
                              => Eligible(votes[i][i]))
    BY <1>2 DEF GateInv, GrantsEligible
  <1>5. CASE /\ StepDown(i, m.term) /\ Transmit(rest, i, Nothing)
             /\ UNCHANGED <<votes, elected>>
    <2>1. NoNewBallots
      BY <1>1, <1>5, NothingType, NothingNoBallots, ReceiveNoBallots
    <2>2. Uninvolved
      BY <1>1, <1>3, <1>5, <2>1, StepDownCandidacies DEF StepDown, Uninvolved
    <2> QED
      BY <1>1, <2>2, UninvolvedKeepsGate
  <1>6. ASSUME state[i] = Candidate, m.term = current_term[i],
               NEW v \in Node, v # i, ballots[v] # None
        PROVE  Eligible(votes[i][i])
    <2>1. CASE m.vote_granted
      BY <1>4, <1>6, <2>1
    <2>2. CASE ~m.vote_granted
      BY <1>6, <2>2 DEF GateInv, VotesEligible
    <2> QED
      BY <2>1, <2>2
  <1>7. ballots[i] = votes[i][i] /\ ballots \in [Node -> Levels \cup {None}]
    <2>1. votes[i] \in [Node -> Levels \cup {None}]
      BY <1>1 DEF TypeOK
    <2> QED
      BY <1>2, <1>4, <2>1, MessageFields
  <1> HIDE DEF ballots
  \* What the two outcomes of a counted vote have in common.
  <1>8. ASSUME NoNewBallots, state[i] = Candidate, m.term = current_term[i],
               votes' = [votes EXCEPT ![i] = ballots], UNCHANGED current_term,
               \A n \in Node : state'[n] = Candidate => state[n] = Candidate
        PROVE  RequestsTruthful' /\ GrantsEligible' /\ VotesEligible'
    <2>1. /\ \A n \in Node : votes'[n][n] = votes[n][n]
          /\ \A n \in Node \ {i} : votes'[n] = votes[n]
          /\ votes'[i] = ballots
      BY <1>1, <1>7, <1>8 DEF TypeOK
    <2>2. RequestsTruthful'
      <3> SUFFICES ASSUME NEW c \in Node, NEW v \in Node, NEW o \in Content(net'[c][v]),
                          o.type = "request_vote"
                   PROVE  /\ c # v /\ o.term <= current_term'[c]
                          /\ state'[c] = Candidate /\ o.term = current_term'[c]
                             => o.battery_level = votes'[c][c]
        BY TruthfulNext
      <3>1. o \in Content(net[c][v])
        BY <1>8 DEF NoNewBallots, IsBallot
      <3> QED
        BY <1>8, <2>1, <3>1 DEF GateInv, RequestsTruthful
    <2>3. GrantsEligible'
      <3> SUFFICES ASSUME NEW v \in Node, NEW c \in Node, NEW o \in Content(net'[v][c]),
                          o.type = "vote_response"
                   PROVE  /\ v # c
                          /\ o.vote_granted =>
                               /\ o.term <= current_term'[c]
                               /\ state'[c] = Candidate /\ o.term = current_term'[c]
                                  => Eligible(votes'[c][c])
        BY EligibleNext
      <3>1. o \in Content(net[v][c])
        BY <1>8 DEF NoNewBallots, IsBallot
      <3> QED
        BY <1>8, <2>1, <3>1 DEF GateInv, GrantsEligible
    <2>4. ASSUME NEW c \in Node, NEW v \in Node, state'[c] = Candidate, v # c,
                 votes'[c][v] # None
          PROVE  Eligible(votes'[c][c])
      <3>1. CASE c = i
        BY <1>6, <1>8, <2>1, <2>4, <3>1
      <3>2. CASE c # i
        BY <1>8, <2>1, <2>4, <3>2 DEF GateInv, VotesEligible
      <3> QED
        BY <3>1, <3>2
    <2>5. VotesEligible'
      BY <2>4 DEF VotesEligible, Eligible
    <2> QED
      BY <2>2, <2>3, <2>5
  <1>9. CASE /\ state[i] = Candidate /\ m.term = current_term[i]
             /\ votes' = [votes EXCEPT ![i] = ballots]
             /\ Transmit(rest, i, Nothing)
             /\ UNCHANGED <<state, elected, current_term>>
    <2>1. NoNewBallots
      BY <1>1, <1>9, NothingType, NothingNoBallots, ReceiveNoBallots
    <2>2. RequestsTruthful' /\ GrantsEligible' /\ VotesEligible'
      BY <1>8, <1>9, <2>1
    <2> QED
      BY <1>9, <2>2 DEF GateInv, EnergyGate
  <1>10. CASE /\ state[i] = Candidate /\ m.term = current_term[i]
              /\ votes' = [votes EXCEPT ![i] = ballots]
              /\ IsMajority(Voters(ballots)) /\ BecomeLeader(rest, i, ballots)
              /\ UNCHANGED current_term
    <2>1. /\ elected' = elected \cup
               {[term |-> current_term[i], leader |-> i, quorum |-> Voters(ballots),
                 battery_level |-> ballots[i]]}
          /\ state' = [state EXCEPT ![i] = Leader]
          /\ Transmit(rest, i, Then(claim, Rounds(i, cmds, next)))
      BY <1>10 DEF BecomeLeader
    <2>2. NoNewBallots
      <3>1. /\ pending_triggers[i] \in Seq(Reading) /\ current_term[i] \in Nat
            /\ log[i] \in Seq(LogEntry)
        BY <1>1 DEF TypeOK
      <3>2. Len(log[i]) \in Nat
        BY <3>1, LenProperties
      <3>3. next \in [Node -> Nat \ {0}] /\ cmds \in Seq(Command)
        BY <3>1, <3>2, ContentType, ProposedType
      <3> HIDE DEF next, cmds
      <3>4. claim \in Outbox /\ NoBallots(claim)
        BY <1>1, <3>1, <3>3, HeartbeatsType, HeartbeatsNoBallots, PingType, ToPeersType,
           PingsNoBallots
      <3> HIDE DEF claim
      <3>5. Rounds(i, cmds, next) \in Outbox /\ NoBallots(Rounds(i, cmds, next))
        BY <1>1, <3>3, RoundsType, RoundsNoBallots
      <3>6. /\ Then(claim, Rounds(i, cmds, next)) \in Outbox
            /\ NoBallots(Then(claim, Rounds(i, cmds, next)))
        BY <3>4, <3>5, ThenType, ThenNoBallots
      <3> QED
        BY <1>1, <2>1, <3>6, ReceiveNoBallots
    <2>3. \A n \in Node : state'[n] = Candidate => state[n] = Candidate
      BY <1>1, <1>10, <2>1 DEF TypeOK
    <2>4. RequestsTruthful' /\ GrantsEligible' /\ VotesEligible'
      BY <1>8, <1>10, <2>2, <2>3
    <2>5. Eligible(ballots[i])
      <3>1. PICK v \in Voters(ballots) : v # i
        BY <1>4, <1>10, MajorityBeyondOne DEF Voters
      <3>2. v \in Node /\ ballots[v] # None
        BY DEF Voters
      <3> QED
        BY <1>6, <1>7, <1>10, <3>1, <3>2
    <2>6. EnergyGate'
      BY <2>1, <2>5 DEF GateInv, EnergyGate, Eligible
    <2> QED
      BY <2>4, <2>6 DEF GateInv
  <1> QED
    BY <1>5, <1>9, <1>10 DEF HandleVoteResponse, ballots

LEMMA HandleLeadershipHandoffKeepsGate ==
  ASSUME TypeOK, TypeOK', GateInv, NEW i \in Node, NEW s \in Node,
         HandleLeadershipHandoff(i, s), \A n \in Node : current_term'[n] >= current_term[n]
  PROVE  GateInv'
  <1> DEFINE m == Head(net[s][i])
  <1>1. Arrives(s, i, "leadership_handoff") /\ current_term[i] \in Nat
    BY DEF TypeOK, HandleLeadershipHandoff
  <1>2. m.term \in Nat
    BY <1>1, ReceiveRest, MessageFields
  <1>3. CASE StartElection(Unread(s, i), i, TermAfter(i, m.term))
    <2>1. TermAfter(i, m.term) \in Nat /\ TermAfter(i, m.term) >= current_term[i]
      BY <1>1, <1>2 DEF TermAfter
    <2> QED
      BY <1>1, <1>3, <2>1, ReceiveRest, StartElectionKeepsGate
  <1>4. CASE Transmit(Unread(s, i), i, Nothing) /\ UNCHANGED electionVars
    <2>1. NoNewBallots
      BY <1>1, <1>4, NothingType, NothingNoBallots, ReceiveNoBallots
    <2>2. Uninvolved
      BY <1>4, <2>1, SameCandidacies DEF electionVars, Uninvolved
    <2> QED
      BY <2>2, UninvolvedKeepsGate
  <1> QED
    BY <1>3, <1>4 DEF HandleLeadershipHandoff

LEMMA NextGate ==
  ASSUME TypeInv, TypeInv', GateInv, [Next]_vars
  PROVE  GateInv'
  <1>1. /\ TypeOK /\ TypeOK' /\ net \in Network
        /\ \A n \in Node : current_term'[n] >= current_term[n]
    BY NextTerms DEF TypeInv, TypeOK, Network
  <1>2. ASSUME NEW i \in Node, ElectionTimeout(i) PROVE GateInv'
    <2>1. /\ current_term[i] \in Nat /\ current_term[i] >= current_term[i]
          /\ StartElection(net, i, current_term[i])
      BY <1>1, <1>2 DEF TypeOK, ElectionTimeout
    <2> QED
      BY <1>1, <2>1, StartElectionKeepsGate
  <1>3. ASSUME NEW i \in Node, Tick(i) PROVE GateInv'
    BY <1>1, <1>2, <1>3, TickUninvolved, UninvolvedKeepsGate
  <1>4. ASSUME NEW i \in Node, NEW s \in Node, Receive(i, s) PROVE GateInv'
    BY <1>1, <1>4, ReceiveUninvolved, UninvolvedKeepsGate, HandleRequestVoteKeepsGate,
       HandleVoteResponseKeepsGate, HandleLeadershipHandoffKeepsGate DEF Receive
  <1>5. ASSUME NEW i \in Node, HandlePartitionControl(i) PROVE GateInv'
    BY <1>1, <1>5, HandlePartitionControlUninvolved, UninvolvedKeepsGate
  <1>6. CASE Environment
    BY <1>1, <1>6, EnvironmentUninvolved, UninvolvedKeepsGate
  <1>7. CASE UNCHANGED vars
    <2>1. Uninvolved
      BY <1>7, SameCandidacies DEF vars, electionVars, Uninvolved, NoNewBallots
    <2> QED
      BY <1>1, <2>1, UninvolvedKeepsGate
  <1> QED
    BY <1>3, <1>4, <1>5, <1>6, <1>7 DEF Next

\* No election of echo or echod is won by a coordinator that stood in it below T_LOW:
\* neither by one that a handoff made a candidate before its battery was checked,
\* nor by one whose battery recovered or ran down while its requests were under way.
THEOREM WinnersHadPower == Spec => []EnergyGate
  <1>1. Init => GateInv
    <2> SUFFICES ASSUME Init PROVE GateInv
      OBVIOUS
    <2>1. \A s, d \in Node : Content(net[s][d]) = {}
      BY ContentOfShort DEF Init, Nothing
    <2>2. elected = {} /\ \A n \in Node : state[n] # Candidate
      BY DEF Init, Follower, Candidate
    <2> QED
      BY <2>1, <2>2
      DEF GateInv, RequestsTruthful, GrantsEligible, VotesEligible, EnergyGate
  <1>2. TypeInv /\ TypeInv' /\ GateInv /\ [Next]_vars => GateInv'
    BY NextGate
  <1>3. GateInv => EnergyGate
    BY DEF GateInv
  <1> QED
    BY <1>1, <1>2, <1>3, TypeInvariant, PTL DEF Spec
=============================================================================
