------------------------ MODULE EchoReplication_proofs -----------------------
(***************************************************************************)
(* What a leader keeps, and what becomes of a report.  A local leader is   *)
(* in provisional mode, and as long as it leads locally its commit index   *)
(* stands still; and whoever leads, globally or locally, never loses an    *)
(* entry of its log.                                                       *)
(*                                                                         *)
(* The last two rest on EntriesFromWinners: an AppendEntries comes from    *)
(* the winner of its term, so one that reaches a leader of the same term   *)
(* would come from that leader itself, and no coordinator writes to        *)
(* itself.  It is proved from what each handler may send (MessageStep):    *)
(* a message is old, or is the request, claim or round of a coordinator    *)
(* that stands or leads in the term it states.                             *)
(*                                                                         *)
(* The places of a reading are counted: reports under way, kept until      *)
(* there is a leader, held in a batch, and the entries known of, in a log  *)
(* or in a round.  Every step that adds a place gives one up or takes a    *)
(* new report (ReportsKept), unless logs are merged after a partition      *)
(* (NoneProvisional), which replays entries; so the places are never more  *)
(* than the reports (ReportsInv).                                          *)
(***************************************************************************)
EXTENDS EchoElection_proofs

-----------------------------------------------------------------------------
(* Who becomes a local leader *)

\* Nobody becomes a local leader, and no epoch changes.
RolesKept ==
  /\ partition_epoch' = partition_epoch
  /\ \A n \in Node : state'[n] = LocalLeader => state[n] = LocalLeader

\* A step that gives i the role st.
LEMMA OneRoleKept ==
  ASSUME TypeOK, UNCHANGED partition_epoch, NEW i, NEW st,
         state' = [state EXCEPT ![i] = st], st = LocalLeader => state[i] = LocalLeader
  PROVE  RolesKept
  BY DEF RolesKept, TypeOK

LEMMA SameRolesKept ==
  ASSUME UNCHANGED <<partition_epoch, state>>
  PROVE  RolesKept
  BY DEF RolesKept

LEMMA CheckedRoleKept ==
  ASSUME NEW i \in Node, NEW level, CheckedState(i, level) = LocalLeader
  PROVE  state[i] = LocalLeader
  BY DEF CheckedState, Observer, Follower, LocalLeader

LEMMA StepDownRoleKept ==
  ASSUME NEW i \in Node, NEW term, StateAfter(i, term) = LocalLeader
  PROVE  state[i] = LocalLeader
  BY DEF StateAfter, Follower, LocalLeader

LEMMA TickRolesKept ==
  ASSUME TypeOK, NEW i \in Node, Tick(i)
  PROVE  RolesKept
  <1>1. CASE IdleTick(i)
    BY <1>1, CheckedRoleKept, OneRoleKept DEF IdleTick, partitionVars
  <1>2. CASE ElectionTimeout(i)
    BY <1>2, OneRoleKept
    DEF ElectionTimeout, StartElection, partitionVars, Candidate, LocalLeader
  <1>3. CASE RaftLeaderTick(i) \/ EchoLeaderTick(i)
    BY <1>3, SameRolesKept DEF RaftLeaderTick, EchoLeaderTick, electionVars, partitionVars
  <1>4. CASE EchodLeaderTick(i)
    <2>1. UNCHANGED partition_epoch /\ (UNCHANGED state \/ state' = HandedOver(i))
      BY <1>4 DEF EchodLeaderTick, partitionVars
    <2> QED
      BY <2>1, SameRolesKept, OneRoleKept DEF HandedOver, Follower, LocalLeader
  <1> QED
    BY <1>1, <1>2, <1>3, <1>4 DEF Tick

LEMMA ReceiveRolesKept ==
  ASSUME TypeOK, NEW i \in Node, NEW s \in Node, Receive(i, s)
  PROVE  RolesKept
  <1> DEFINE m == Head(net[s][i])
  <1>1. CASE HandleRequestVote(i, s)
    BY <1>1, StepDownRoleKept, OneRoleKept DEF HandleRequestVote, partitionVars
  <1>2. CASE HandleVoteResponse(i, s)
    <2>1. UNCHANGED partition_epoch
      BY <1>2 DEF HandleVoteResponse, partitionVars
    <2>2. \/ UNCHANGED state
          \/ state' = [state EXCEPT ![i] = Leader]
          \/ state' = [state EXCEPT ![i] = StateAfter(i, m.term)]
      BY <1>2 DEF HandleVoteResponse, BecomeLeader, StepDown
    <2>3. Leader # LocalLeader
      BY DEF Leader, LocalLeader
    <2> QED
      BY <2>1, <2>2, <2>3, StepDownRoleKept, OneRoleKept, SameRolesKept
  <1>3. CASE HandleAppendEntries(i, s)
    <2>1. UNCHANGED partition_epoch
      BY <1>3 DEF HandleAppendEntries, partitionVars
    <2>2. \/ UNCHANGED state
          \/ state' = [state EXCEPT ![i] =
               IF StateAfter(i, m.term) = Candidate THEN Follower ELSE StateAfter(i, m.term)]
      BY <1>3 DEF HandleAppendEntries
    <2>3. Follower # LocalLeader
      BY DEF Follower, LocalLeader
    <2> QED
      BY <2>1, <2>2, <2>3, StepDownRoleKept, OneRoleKept, SameRolesKept
  <1>4. CASE HandleAppendResponse(i, s)
    BY <1>4, StepDownRoleKept, OneRoleKept DEF HandleAppendResponse, StepDown, partitionVars
  <1>5. CASE HandleLivenessPing(i, s)
    BY <1>5, StepDownRoleKept, OneRoleKept DEF HandleLivenessPing, StepDown, partitionVars
  <1>6. CASE HandleSensorData(i, s) \/ HandleReconcileBatch(i, s)
    BY <1>6, SameRolesKept
    DEF HandleSensorData, TakeReading, HandleReconcileBatch, electionVars, partitionVars
  <1>7. CASE HandleLeadershipHandoff(i, s)
    BY <1>7, OneRoleKept, SameRolesKept
    DEF HandleLeadershipHandoff, StartElection, electionVars, partitionVars, Candidate,
        LocalLeader
  <1> QED
    BY <1>1, <1>2, <1>3, <1>4, <1>5, <1>6, <1>7 DEF Receive

LEMMA EnvironmentRolesKept ==
  ASSUME TypeOK, Environment
  PROVE  RolesKept
  <1>1. ASSUME NEW i \in Node, NEW level \in Levels, DemoSetBattery(i, level)
        PROVE  RolesKept
    BY <1>1, CheckedRoleKept, OneRoleKept DEF DemoSetBattery, partitionVars
  <1>2. \/ \E i \in Node, level \in Levels : DemoSetBattery(i, level)
        \/ UNCHANGED <<partition_epoch, state>>
    BY DEF Environment, BatteryMoves, LeafReport, TakeReading, PublishControl, DropBlocked,
           Lose, electionVars, partitionVars
  <1> QED
    BY <1>1, <1>2, SameRolesKept

LEMMA ControlKeepsProvisional ==
  ASSUME TypeOK, LocalLeaderIsProvisional, NEW i \in Node, HandlePartitionControl(i)
  PROVE  LocalLeaderIsProvisional'
  <1> DEFINE split == Head(control[i]).action = "partition"
  <1>1. /\ partition_epoch' = [partition_epoch EXCEPT ![i] = EpochAfter(i, split)]
        /\ state' = [state EXCEPT ![i] = LeadAfter(i, split)]
    BY DEF HandlePartitionControl
  <1>2. partition_epoch \in [Node -> Nat] /\ state \in [Node -> NodeState]
    BY DEF TypeOK
  <1>3. LeadAfter(i, split) = LocalLeader => EpochAfter(i, split) > 0
    BY <1>2
    DEF LeadAfter, EpochAfter, LocalLeaderIsProvisional, Leader, LocalLeader, Follower
  <1> HIDE DEF split
  <1> QED
    BY <1>1, <1>2, <1>3 DEF LocalLeaderIsProvisional

LEMMA NextProvisional ==
  ASSUME TypeOK, LocalLeaderIsProvisional, [Next]_vars
  PROVE  LocalLeaderIsProvisional'
  <1>1. ASSUME RolesKept PROVE LocalLeaderIsProvisional'
    BY <1>1 DEF RolesKept, LocalLeaderIsProvisional
  <1>2. CASE UNCHANGED vars
    BY <1>1, <1>2, SameRolesKept DEF vars, electionVars, partitionVars
  <1> QED
    BY <1>1, <1>2, TickRolesKept, ReceiveRolesKept, EnvironmentRolesKept,
       ControlKeepsProvisional DEF Next

\* Whichever way partition and heal commands, elections and messages of other
\* terms interleave, no coordinator is left leading locally outside provisional
\* mode, where it would append global entries without having to commit them.
THEOREM LocalLeadersAreProvisional == Spec => []LocalLeaderIsProvisional
  <1>1. Init => LocalLeaderIsProvisional
    BY DEF Init, LocalLeaderIsProvisional, Follower, LocalLeader
  <1>2. TypeInv /\ LocalLeaderIsProvisional /\ [Next]_vars => LocalLeaderIsProvisional'
    BY NextProvisional DEF TypeInv
  <1> QED
    BY <1>1, <1>2, TypeInvariant, PTL DEF Spec

-----------------------------------------------------------------------------
(* Logs that grow *)

\* The log of n is a continuation of what it was.
LogGrows(n) == SubSeq(log'[n], 1, Len(log[n])) = log[n]

LEMMA SameLogGrows ==
  ASSUME TypeOK, NEW n \in Node, log'[n] = log[n]
  PROVE  LogGrows(n)
  <1>1. log[n] \in Seq(LogEntry)
    BY DEF TypeOK
  <1> QED
    BY <1>1 DEF LogGrows

LEMMA ExtendedGrows ==
  ASSUME TypeOK, NEW i \in Node, NEW cmds \in Seq(Command), NEW n \in Node,
         log' = [log EXCEPT ![i] = Extended(i, cmds)]
  PROVE  LogGrows(n)
  <1>1. CASE n # i
    <2>1. log'[n] = log[n]
      BY <1>1 DEF TypeOK
    <2> QED
      BY <2>1, SameLogGrows
  <1>2. CASE n = i
    <2>1. log[i] \in Seq(LogEntry) /\ log'[i] = Extended(i, cmds)
      BY DEF TypeOK
    <2>2. /\ Extended(i, cmds) \in Seq(LogEntry)
          /\ Len(Extended(i, cmds)) = Len(log[i]) + Len(cmds)
      BY ExtendedType
    <2>3. Len(log[i]) \in Nat /\ Len(cmds) \in Nat
      BY <2>1, LenProperties
    <2>4. \A k \in 1 .. Len(log[i]) : Extended(i, cmds)[k] = log[i][k]
      BY <2>1, <2>2, <2>3 DEF Extended
    <2> HIDE DEF LogGrows
    <2>5. SubSeq(Extended(i, cmds), 1, Len(log[i])) = log[i]
      BY <2>1, <2>2, <2>3, <2>4
    <2> QED
      BY <1>2, <2>1, <2>5 DEF LogGrows
  <1> QED
    BY <1>1, <1>2

-----------------------------------------------------------------------------
(* What a step sends *)

WonTerm(i) == \E e \in elected' : e.leader = i /\ e.term = current_term[i]

\* i, which leads its term or has just won it, sends d the entries that its log
\* holds from the next index of d on: outside raft at least one of them is new.
SentEntries(i, d, o) ==
  /\ d # i /\ o.term = current_term[i] /\ current_term'[i] = current_term[i] /\ WonTerm(i)
  /\ Leading(state[i]) \/ Leading(state'[i])
  /\ \E n \in 0 .. Len(log'[i]) :
       /\ Protocol # "raft" => n > Len(log[i])
       /\ o = AppendEntries(i, SubSeq(log'[i], 1, n), next_index'[i][d])

SentPing(i, d, o) ==
  d # i /\ o.term = current_term[i] /\ WonTerm(i)

\* i nominates heir, and nobody else, for the term it leads and gives up.
SentHandoff(heir, i, d, o) ==
  /\ d = heir /\ o.term = current_term[i] /\ Leading(state[i])
  /\ state' = HandedOver(i) /\ current_term' = current_term

SentRequest(i, d, o) ==
  /\ d # i /\ o.term = current_term'[i] /\ state'[i] = Candidate /\ log' = log
  /\ o.last_log_index = Len(log[i]) /\ o.last_log_term = LastTerm(log[i])

\* i grants the request of d that it handles.
SentVote(i, d, o) ==
  LET m == Head(net[d][i])
  IN  /\ m \in Content(net[d][i]) /\ m.type = "request_vote"
      /\ Grants(i, d, m) /\ o.term = m.term /\ current_term'[i] = m.term /\ log' = log

\* i acknowledges the entries of d that it merges.
SentAck(i, d, o) ==
  LET m == Head(net[d][i])
  IN  /\ m \in Content(net[d][i]) /\ m.type = "append_entries"
      /\ m.term >= current_term[i] /\ current_term'[i] = m.term
      /\ Consistent(log[i], m.prev_log_index, m.prev_log_term)
      /\ log' = [log EXCEPT ![i] = Merged(log[i], m.prev_log_index, m.entries)]
      /\ o.term = m.term /\ o.match_index = Len(log'[i])

\* o is a message that i may send to d in this step.
Sent(heir, i, d, o) ==
  /\ o.type = "append_entries" => SentEntries(i, d, o)
  /\ o.type = "liveness_ping" => SentPing(i, d, o)
  /\ o.type = "leadership_handoff" => SentHandoff(heir, i, d, o)
  /\ o.type = "request_vote" => SentRequest(i, d, o)
  /\ o.type = "vote_response" /\ o.vote_granted => SentVote(i, d, o)
  /\ o.type = "append_response" /\ o.success => SentAck(i, d, o)

Outgoing(heir, i, out) == \A d \in Node : \A o \in Content(out[d]) : Sent(heir, i, d, o)

\* Whatever is under way after the step was before, or is sent by i.
MessagesOf(heir, i) ==
  \A s, d \in Node : \A o \in Content(net'[s][d]) :
    o \in Content(net[s][d]) \/ (s = i /\ Sent(heir, i, d, o))

MessageStep ==
  \E heir : \A s, d \in Node : \A o \in Content(net'[s][d]) :
    o \in Content(net[s][d]) \/ Sent(heir, s, d, o)

LEMMA TransmitSends ==
  ASSUME NEW heir, NEW rest \in Network, NEW i \in Node, NEW out \in Outbox,
         Transmit(rest, i, out), Outgoing(heir, i, out),
         \A v, c \in Node : Content(rest[v][c]) \subseteq Content(net[v][c])
  PROVE  MessagesOf(heir, i)
  <1> SUFFICES ASSUME NEW v \in Node, NEW c \in Node, NEW o \in Content(net'[v][c])
               PROVE  o \in Content(net[v][c]) \/ (v = i /\ Sent(heir, i, c, o))
    BY DEF MessagesOf
  <1>1. o \in Content(rest[v][c]) \/ (v = i /\ o \in Content(out[c]))
    BY TransmitContent
  <1> QED
    BY <1>1 DEF Outgoing

LEMMA SameNetSends ==
  ASSUME net' = net, NEW heir, NEW i
  PROVE  MessagesOf(heir, i)
  BY DEF MessagesOf

\* A handler of i that publishes out.
LEMMA ReceiveSends ==
  ASSUME TypeOK, NEW heir, NEW i \in Node, NEW s \in Node, NEW type, Arrives(s, i, type),
         NEW out \in Outbox, Outgoing(heir, i, out), Transmit(Unread(s, i), i, out)
  PROVE  MessagesOf(heir, i)
  <1>1. net \in Network /\ net[s][i] # <<>>
    BY DEF TypeOK, Network, Arrives
  <1>2. /\ Unread(s, i) \in Network
        /\ \A v, c \in Node : Content(Unread(s, i)[v][c]) \subseteq Content(net[v][c])
    BY <1>1, UnreadType, UnreadContent
  <1> QED
    BY <1>2, TransmitSends

LEMMA NothingSent == ASSUME NEW heir, NEW i PROVE Outgoing(heir, i, Nothing)
  BY ContentOfShort DEF Outgoing, Nothing

LEMMA OnlySent ==
  ASSUME NEW heir, NEW i, NEW d, NEW ms, \A o \in Content(ms) : Sent(heir, i, d, o)
  PROVE  Outgoing(heir, i, Only(d, ms))
  BY ContentOfShort DEF Outgoing, Only

LEMMA OnlyOneSent ==
  ASSUME NEW heir, NEW i, NEW d, NEW m, Sent(heir, i, d, m)
  PROVE  Outgoing(heir, i, Only(d, <<m>>))
  <1>1. Content(<<m>>) = {m}
    BY ContentOfShort
  <1> QED
    BY <1>1, OnlySent

LEMMA ToPeersSent ==
  ASSUME NEW heir, NEW i, NEW m, \A d \in Node \ {i} : Sent(heir, i, d, m)
  PROVE  Outgoing(heir, i, ToPeers(i, m))
  <1> SUFFICES ASSUME NEW d \in Node, NEW o \in Content(ToPeers(i, m)[d])
               PROVE  Sent(heir, i, d, o)
    BY DEF Outgoing
  <1>1. CASE d = i
    BY <1>1, ContentOfShort DEF ToPeers
  <1>2. CASE d # i
    <2>1. ToPeers(i, m)[d] = <<m>>
      BY <1>2 DEF ToPeers
    <2>2. o = m
      BY <2>1, ContentOfShort
    <2> QED
      BY <1>2, <2>2
  <1> QED
    BY <1>1, <1>2

LEMMA ThenSent ==
  ASSUME NEW heir, NEW i, NEW out \in Outbox, NEW more \in Outbox,
         Outgoing(heir, i, out), Outgoing(heir, i, more)
  PROVE  Outgoing(heir, i, Then(out, more))
  <1>1. ASSUME NEW d \in Node
        PROVE  Content(Then(out, more)[d]) = Content(out[d]) \cup Content(more[d])
    BY ContentOfConcat DEF Then, Outbox
  <1> QED
    BY <1>1 DEF Outgoing

\* A step in which i leads its term, or wins it, and may extend its log.
Leads(i) ==
  /\ current_term'[i] = current_term[i] /\ WonTerm(i)
  /\ Leading(state[i]) \/ Leading(state'[i])

\* Messages without entries are told apart by their type alone.
LEMMA PingSent ==
  ASSUME NEW heir, NEW i, Leads(i)
  PROVE  Outgoing(heir, i, ToPeers(i, Ping(i, current_term[i])))
  <1>1. \A d \in Node \ {i} : Sent(heir, i, d, Ping(i, current_term[i]))
    BY DEF Sent, Ping, SentPing, Leads
  <1> QED
    BY <1>1, ToPeersSent

LEMMA EntriesSent ==
  ASSUME NEW heir, NEW i \in Node, NEW d \in Node \ {i}, Leads(i), NEW n \in 0 .. Len(log'[i]),
         Protocol # "raft" => n > Len(log[i])
  PROVE  Sent(heir, i, d, AppendEntries(i, SubSeq(log'[i], 1, n), next_index'[i][d]))
  <1> DEFINE m == AppendEntries(i, SubSeq(log'[i], 1, n), next_index'[i][d])
  <1>1. m.type = "append_entries" /\ m.term = current_term[i]
    BY DEF AppendEntries
  <1> HIDE DEF m
  <1>2. SentEntries(i, d, m)
    BY <1>1 DEF SentEntries, Leads, m
  <1> QED
    BY <1>1, <1>2 DEF Sent, m

LEMMA HeartbeatsSent ==
  ASSUME TypeOK, NEW heir, NEW i \in Node, Leads(i), Protocol = "raft",
         NEW next, next_index'[i] = next,
         Len(log[i]) <= Len(log'[i]), SubSeq(log'[i], 1, Len(log[i])) = log[i]
  PROVE  Outgoing(heir, i, Heartbeats(i, next))
  <1>0. Len(log[i]) \in 0 .. Len(log[i]) /\ Len(log[i]) \in Nat
    BY LenProperties DEF TypeOK
  <1>1. Len(log[i]) \in 0 .. Len(log'[i])
    BY <1>0
  <1> SUFFICES ASSUME NEW d \in Node, NEW o \in Content(Heartbeats(i, next)[d])
               PROVE  Sent(heir, i, d, o)
    BY DEF Outgoing
  <1>2. d # i
    BY ContentOfShort DEF Heartbeats
  <1> DEFINE m == AppendEntries(i, log[i], next[d])
  <1>3. Heartbeats(i, next)[d] = <<m>>
    BY <1>2 DEF Heartbeats
  <1>4. Sent(heir, i, d, m)
    BY <1>1, <1>2, EntriesSent
  <1> HIDE DEF m
  <1>5. o = m
    BY <1>3, ContentOfShort
  <1> QED
    BY <1>4, <1>5

LEMMA RoundsSent ==
  ASSUME TypeOK, NEW heir, NEW i \in Node, NEW cmds \in Seq(Command), Leads(i),
         NEW next, next_index'[i] = next, log'[i] = Extended(i, cmds)
  PROVE  Outgoing(heir, i, Rounds(i, cmds, next))
  <1> SUFFICES ASSUME NEW d \in Node, NEW o \in Content(Rounds(i, cmds, next)[d])
               PROVE  Sent(heir, i, d, o)
    BY DEF Outgoing
  <1>1. d # i
    BY ContentOfShort DEF Rounds
  <1>2. PICK k \in DOMAIN cmds :
          o = AppendEntries(i, SubSeq(Extended(i, cmds), 1, Len(log[i]) + k), next[d])
    BY <1>1 DEF Rounds, Content
  <1>3. /\ Len(log'[i]) = Len(log[i]) + Len(cmds) /\ DOMAIN cmds = 1 .. Len(cmds)
        /\ Len(log[i]) \in Nat /\ Len(cmds) \in Nat
    BY ExtendedType, LenProperties DEF TypeOK
  <1>4. Len(log[i]) + k \in 0 .. Len(log'[i]) /\ Len(log[i]) + k > Len(log[i])
    BY <1>3
  <1> QED
    BY <1>1, <1>2, <1>4, EntriesSent

\* A step of a leader of a term it won, which stays on record.
LEMMA LeaderLeads ==
  ASSUME LeadersOnRecord, NEW i \in Node, Leading(state[i]), elected \subseteq elected',
         current_term'[i] = current_term[i]
  PROVE  Leads(i)
  BY DEF LeadersOnRecord, WonTerm, Leads

LEMMA ReplicateSends ==
  ASSUME TypeOK, NEW heir, NEW rest \in Network, NEW i \in Node, NEW cmds \in Seq(Command),
         Replicate(rest, i, cmds), Leads(i), next_index' = next_index,
         \A v, c \in Node : Content(rest[v][c]) \subseteq Content(net[v][c])
  PROVE  MessagesOf(heir, i)
  <1>1. next_index[i] \in [Node -> Nat \ {0}] /\ log \in [Node -> Seq(LogEntry)]
    BY DEF TypeOK
  <1>2. Rounds(i, cmds, next_index[i]) \in Outbox
    BY <1>1, RoundsType
  <1>3. log'[i] = Extended(i, cmds) /\ next_index'[i] = next_index[i]
    BY <1>1 DEF Replicate
  <1> QED
    BY <1>2, <1>3, RoundsSent, TransmitSends DEF Replicate

LEMMA StartElectionSends ==
  ASSUME TypeOK, NEW heir, NEW i \in Node, NEW rest \in Network, NEW term \in Nat,
         \A v, c \in Node : Content(rest[v][c]) \subseteq Content(net[v][c]),
         StartElection(rest, i, term), log' = log
  PROVE  MessagesOf(heir, i)
  <1> DEFINE m == [type |-> "request_vote", term |-> term + 1, last_log_index |-> Len(log[i]),
                   last_log_term |-> LastTerm(log[i]), battery_level |-> battery[i]]
  <1>1. log[i] \in Seq(LogEntry) /\ battery[i] \in Levels
    BY DEF TypeOK
  <1>2. Len(log[i]) \in Nat /\ LastTerm(log[i]) \in Nat
    BY <1>1, LenProperties, TermOfLogType
  <1>3. m \in Message
    BY <1>1, <1>2 DEF Message
  <1>4. Transmit(rest, i, ToPeers(i, m))
    BY DEF StartElection
  <1>5. current_term'[i] = term + 1 /\ state'[i] = Candidate
    BY DEF StartElection, TypeOK
  <1>6. \A d \in Node \ {i} : Sent(heir, i, d, m)
    BY <1>5 DEF Sent, SentRequest
  <1> HIDE DEF m
  <1> QED
    BY <1>3, <1>4, <1>6, ToPeersType, ToPeersSent, TransmitSends

LEMMA EchodLeaderTickSends ==
  ASSUME TypeOK, LeadersOnRecord, elected \subseteq elected', NEW i \in Node,
         EchodLeaderTick(i)
  PROVE  \E heir : MessagesOf(heir, i)
  <1> DEFINE batch(flush) == IF flush THEN <<Content(batch_buffer[i])>> ELSE <<>>
             rounds(flush) == Rounds(i, batch(flush), next_index[i])
             pings(ping) == IF ping THEN ToPeers(i, Ping(i, current_term[i])) ELSE Nothing
             m == [type |-> "leadership_handoff", term |-> current_term[i]]
  <1>1. /\ net \in Network /\ current_term[i] \in Nat /\ log \in [Node -> Seq(LogEntry)]
        /\ next_index[i] \in [Node -> Nat \ {0}] /\ batch_buffer[i] \in Seq(Reading)
    BY DEF TypeOK, Network
  <1>2. PICK flush \in BOOLEAN, ping \in BOOLEAN :
          /\ log' = [log EXCEPT ![i] = Extended(i, batch(flush))]
          /\ \/ Transmit(net, i, Then(rounds(flush), pings(ping)))
             \/ /\ \E p \in Successors(i) :
                     Transmit(net, i, Then(Then(rounds(flush), pings(ping)), Only(p, <<m>>)))
                /\ state' = HandedOver(i)
    BY DEF EchodLeaderTick
  <1>3. batch(flush) \in Seq(Command)
    BY <1>1, ContentType, EmptySeq
  <1>4. Leading(state[i]) /\ UNCHANGED <<current_term, next_index>>
    BY DEF EchodLeaderTick, CheckedState, Leading, Observer, Follower, Leader, LocalLeader
  <1>5. Leads(i) /\ log'[i] = Extended(i, batch(flush)) /\ next_index'[i] = next_index[i]
    BY <1>1, <1>2, <1>4, LeaderLeads
  <1> HIDE DEF batch
  <1>6. ASSUME NEW heir
        PROVE  rounds(flush) \in Outbox /\ Outgoing(heir, i, rounds(flush))
    BY <1>1, <1>3, <1>5, RoundsType, RoundsSent
  <1>7. ASSUME NEW heir
        PROVE  pings(ping) \in Outbox /\ Outgoing(heir, i, pings(ping))
    BY <1>1, <1>5, PingType, ToPeersType, NothingType, PingSent, NothingSent
  <1> HIDE DEF rounds, pings
  <1>8. ASSUME NEW heir
        PROVE  /\ Then(rounds(flush), pings(ping)) \in Outbox
               /\ Outgoing(heir, i, Then(rounds(flush), pings(ping)))
    BY <1>6, <1>7, ThenType, ThenSent
  <1>9. CASE Transmit(net, i, Then(rounds(flush), pings(ping)))
    BY <1>1, <1>8, <1>9, TransmitSends
  <1>10. ASSUME NEW p \in Successors(i), state' = HandedOver(i),
                Transmit(net, i, Then(Then(rounds(flush), pings(ping)), Only(p, <<m>>)))
         PROVE  MessagesOf(p, i)
    <2>1. m \in Message
      BY <1>1, HandoffType
    <2>2. Sent(p, i, p, m)
      BY <1>4, <1>10 DEF Sent, SentHandoff
    <2> HIDE DEF m
    <2>3. <<m>> \in Seq(Message)
      BY <2>1, MessagesAreSeq
    <2>4. Only(p, <<m>>) \in Outbox /\ Outgoing(p, i, Only(p, <<m>>))
      BY <2>2, <2>3, OnlyType, OnlyOneSent
    <2>5. /\ Then(Then(rounds(flush), pings(ping)), Only(p, <<m>>)) \in Outbox
          /\ Outgoing(p, i, Then(Then(rounds(flush), pings(ping)), Only(p, <<m>>)))
      BY <1>8, <2>4, ThenType, ThenSent
    <2> QED
      BY <1>1, <1>10, <2>5, TransmitSends
  <1> QED
    BY <1>2, <1>9, <1>10


\* The heartbeats of a leader carry the log that it has.
LEMMA RaftLeaderTickSends ==
  ASSUME TypeOK, LeadersOnRecord, elected \subseteq elected', NEW heir, NEW i \in Node,
         RaftLeaderTick(i)
  PROVE  MessagesOf(heir, i)
  <1>1. net \in Network /\ next_index[i] \in [Node -> Nat \ {0}] /\ log[i] \in Seq(LogEntry)
    BY DEF TypeOK, Network
  <1>2. /\ Leading(state[i]) /\ Protocol = "raft"
        /\ UNCHANGED <<current_term, log, next_index>>
        /\ Transmit(net, i, Heartbeats(i, next_index[i]))
    BY DEF RaftLeaderTick, electionVars, replicationVars
  <1>3. Leads(i)
    BY <1>2, LeaderLeads
  <1>4. Len(log[i]) <= Len(log'[i]) /\ SubSeq(log'[i], 1, Len(log[i])) = log[i]
    BY <1>1, <1>2
  <1>5. Outgoing(heir, i, Heartbeats(i, next_index[i]))
    BY <1>2, <1>3, <1>4, HeartbeatsSent
  <1> QED
    BY <1>1, <1>2, <1>5, HeartbeatsType, TransmitSends

LEMMA EchoLeaderTickSends ==
  ASSUME TypeOK, LeadersOnRecord, elected \subseteq elected', NEW heir, NEW i \in Node,
         EchoLeaderTick(i)
  PROVE  MessagesOf(heir, i)
  <1>1. net \in Network /\ current_term[i] \in Nat
    BY DEF TypeOK, Network
  <1>2. Leading(state[i]) /\ UNCHANGED current_term
    BY DEF EchoLeaderTick, electionVars, CheckedState, Leading, Observer, Follower, Leader,
           LocalLeader
  <1>3. Outgoing(heir, i, ToPeers(i, Ping(i, current_term[i])))
    BY <1>2, LeaderLeads, PingSent
  <1> QED
    BY <1>1, <1>3, PingType, ToPeersType, TransmitSends DEF EchoLeaderTick

LEMMA TickSends ==
  ASSUME TypeOK, LeadersOnRecord, elected \subseteq elected', NEW i \in Node, Tick(i)
  PROVE  \E heir : MessagesOf(heir, i)
  <1>1. net \in Network /\ current_term[i] \in Nat
    BY DEF TypeOK, Network
  <1>2. CASE IdleTick(i)
    BY <1>2, SameNetSends DEF IdleTick
  <1>3. CASE ElectionTimeout(i)
    BY <1>1, <1>3, StartElectionSends DEF ElectionTimeout, replicationVars
  <1> QED
    BY <1>2, <1>3, RaftLeaderTickSends, EchoLeaderTickSends, EchodLeaderTickSends DEF Tick

LEMMA TakeReadingSends ==
  ASSUME TypeOK, LeadersOnRecord, elected \subseteq elected', NEW heir, NEW i \in Node,
         NEW rest \in Network, NEW reading \in Reading,
         \A v, c \in Node : Content(rest[v][c]) \subseteq Content(net[v][c]),
         TakeReading(rest, i, reading)
  PROVE  MessagesOf(heir, i)
  <1> DEFINE m == [type |-> "sensor_data", reading |-> reading]
             batch == Append(batch_buffer[i], reading)
  <1>1. batch \in Seq(Reading)
    BY AppendProperties DEF TypeOK
  <1>2. <<{reading}>> \in Seq(Command) /\ <<Content(batch)>> \in Seq(Command)
    <2>1. {reading} \in Command
      BY DEF Command
    <2>2. Content(batch) \in Command
      BY <1>1, ContentType
    <2> QED
      BY <2>1, <2>2
  <1>3. CASE Transmit(rest, i, Only(current_leader_id[i], <<m>>))
    <2>1. m \in Message /\ Sent(heir, i, current_leader_id[i], m)
      BY DEF Message, Sent
    <2> HIDE DEF m
    <2>2. <<m>> \in Seq(Message)
      BY <2>1, MessagesAreSeq
    <2>3. /\ Only(current_leader_id[i], <<m>>) \in Outbox
          /\ Outgoing(heir, i, Only(current_leader_id[i], <<m>>))
      BY <2>1, <2>2, OnlyType, OnlyOneSent
    <2> QED
      BY <1>3, <2>3, TransmitSends
  <1>4. CASE Transmit(rest, i, Nothing)
    BY <1>4, NothingType, NothingSent, TransmitSends
  <1>5. ASSUME Leading(state[i]), UNCHANGED <<current_term, next_index>>,
               Replicate(rest, i, <<{reading}>>) \/ Replicate(rest, i, <<Content(batch)>>)
        PROVE  MessagesOf(heir, i)
    <2>1. Leads(i)
      BY <1>5, LeaderLeads
    <2> QED
      BY <1>2, <1>5, <2>1, ReplicateSends, Zenon
  <1> QED
    BY <1>3, <1>4, <1>5 DEF TakeReading, electionVars

LEMMA HandleSensorDataSends ==
  ASSUME TypeOK, LeadersOnRecord, elected \subseteq elected', NEW heir, NEW i \in Node,
         NEW s \in Node, HandleSensorData(i, s)
  PROVE  MessagesOf(heir, i)
  <1> DEFINE m == Head(net[s][i])
  <1>1. /\ net \in Network /\ net[s][i] # <<>> /\ m \in Message /\ m.type = "sensor_data"
        /\ TakeReading(Unread(s, i), i, m.reading)
    BY ArrivesType DEF TypeOK, Network, HandleSensorData, Arrives
  <1>2. m.reading \in Reading
    BY <1>1, MessageFields
  <1>3. /\ Unread(s, i) \in Network
        /\ \A v, c \in Node : Content(Unread(s, i)[v][c]) \subseteq Content(net[v][c])
    BY <1>1, UnreadType, UnreadContent
  <1> QED
    BY <1>1, <1>2, <1>3, TakeReadingSends

LEMMA HandleReconcileBatchSends ==
  ASSUME TypeOK, LeadersOnRecord, elected \subseteq elected', NEW heir, NEW i \in Node,
         NEW s \in Node, HandleReconcileBatch(i, s)
  PROVE  MessagesOf(heir, i)
  <1> DEFINE m == Head(net[s][i])
             P == FreshPositions(m.commands, recent_reconciles[i])
             fresh(at) == [k \in DOMAIN at |-> m.commands[at[k]]]
  <1>1. /\ net \in Network /\ net[s][i] # <<>> /\ m \in Message /\ m.type = "reconcile_batch"
        /\ UNCHANGED <<current_term, next_index>>
    BY ArrivesType DEF TypeOK, Network, HandleReconcileBatch, Arrives, electionVars
  <1>2. m.commands \in Seq(Command)
    BY <1>1, MessageFields
  <1>3. /\ Unread(s, i) \in Network
        /\ \A v, c \in Node : Content(Unread(s, i)[v][c]) \subseteq Content(net[v][c])
    BY <1>1, UnreadType, UnreadContent
  <1>4. CASE Transmit(Unread(s, i), i, Nothing)
    BY <1>3, <1>4, NothingType, NothingSent, TransmitSends
  <1>5. ASSUME Leading(state[i]), NEW at \in InOrder(P),
               Replicate(Unread(s, i), i, Proposed(fresh(at)))
        PROVE  MessagesOf(heir, i)
    <2>1. Proposed(fresh(at)) \in Seq(Command)
      BY <1>2, <1>5, FreshCommandsType, ProposedType
    <2>2. Leads(i)
      BY <1>1, <1>5, LeaderLeads
    <2> HIDE DEF fresh
    <2> QED
      BY <1>1, <1>3, <1>5, <2>1, <2>2, ReplicateSends
  <1> QED
    BY <1>4, <1>5 DEF HandleReconcileBatch

LEMMA HandleRequestVoteSends ==
  ASSUME TypeInv, NEW heir, NEW i \in Node, NEW s \in Node, HandleRequestVote(i, s)
  PROVE  MessagesOf(heir, i)
  <1> DEFINE m == Head(net[s][i])
             term == TermAfter(i, m.term)
             grant == Grants(i, s, m)
             answer == [type |-> "vote_response", term |-> term, vote_granted |-> grant,
                        voter_battery |-> battery[i]]
  <1>1. /\ TypeOK /\ net \in Network /\ net[s][i] # <<>>
        /\ m \in Message /\ m.type = "request_vote" /\ Arrives(s, i, "request_vote")
        /\ Transmit(Unread(s, i), i, Only(s, <<answer>>))
        /\ log' = log /\ current_term' = [current_term EXCEPT ![i] = term]
    BY ArrivesType DEF TypeInv, TypeOK, Network, HandleRequestVote, Arrives, replicationVars
  <1>2. term \in Nat /\ grant \in BOOLEAN
    BY <1>1, MessageFields, StepDownType DEF Grants
  <1>3. Only(s, <<answer>>) \in Outbox
    BY <1>2, VoteResponseMessage
  <1>4. current_term'[i] = term /\ m \in Content(net[s][i])
    BY <1>1, UnreadContent DEF TypeOK
  <1>5. grant => m.term = term
    BY DEF Grants
  <1>6. /\ answer.type = "vote_response" /\ answer.term = term
        /\ answer.vote_granted = grant
    OBVIOUS
  <1> HIDE DEF answer, term
  <1>7. Sent(heir, i, s, answer)
    BY <1>1, <1>4, <1>5, <1>6 DEF Sent, SentVote
  <1>8. Outgoing(heir, i, Only(s, <<answer>>))
    BY <1>7, OnlyOneSent
  <1> QED
    BY <1>1, <1>3, <1>8, ReceiveSends

LEMMA HandleVoteResponseSends ==
  ASSUME TypeOK, NEW heir, NEW i \in Node, NEW s \in Node, HandleVoteResponse(i, s)
  PROVE  MessagesOf(heir, i)
  <1> DEFINE m == Head(net[s][i])
             rest == Unread(s, i)
             ballots == IF m.vote_granted THEN [votes[i] EXCEPT ![s] = m.voter_battery]
                        ELSE votes[i]
             next == [p \in Node |-> Len(log[i]) + 1]
             cmds == Proposed(Singletons(pending_triggers[i]))
             claim == IF Protocol = "raft" THEN Heartbeats(i, next)
                      ELSE ToPeers(i, Ping(i, current_term[i]))
  <1>1. Arrives(s, i, "vote_response")
    BY DEF HandleVoteResponse
  <1>2. CASE Transmit(rest, i, Nothing)
    BY <1>1, <1>2, NothingType, NothingSent, ReceiveSends
  <1>3. CASE BecomeLeader(rest, i, ballots) /\ UNCHANGED current_term
    <2>1. /\ Transmit(rest, i, Then(claim, Rounds(i, cmds, next)))
          /\ next_index' = [next_index EXCEPT ![i] = next]
          /\ state' = [state EXCEPT ![i] = Leader]
          /\ log' = [log EXCEPT ![i] = Extended(i, cmds)]
      BY <1>3 DEF BecomeLeader
    <2>2. WonTerm(i)
      <3> DEFINE win == [term |-> current_term[i], leader |-> i, quorum |-> Voters(ballots),
                         battery_level |-> ballots[i]]
      <3>1. win.leader = i /\ win.term = current_term[i] /\ win \in elected'
        BY <1>3 DEF BecomeLeader
      <3> QED
        BY <3>1 DEF WonTerm
    <2>3. /\ pending_triggers[i] \in Seq(Reading) /\ current_term[i] \in Nat
          /\ log \in [Node -> Seq(LogEntry)] /\ state \in [Node -> NodeState]
          /\ next_index \in [Node -> [Node -> Nat \ {0}]]
      BY DEF TypeOK
    <2>4. Len(log[i]) \in Nat
      BY <2>3, LenProperties
    <2>5. next \in [Node -> Nat \ {0}] /\ cmds \in Seq(Command)
      BY <2>3, <2>4, ContentType, ProposedType
    <2> HIDE DEF next, cmds, rest
    <2>6. next_index'[i] = next /\ log'[i] = Extended(i, cmds) /\ Leading(state'[i])
      BY <2>1, <2>3 DEF Leading, Leader
    <2>7. Leads(i)
      BY <1>3, <2>2, <2>6 DEF Leads
    <2>8. Len(log[i]) <= Len(log'[i]) /\ SubSeq(log'[i], 1, Len(log[i])) = log[i]
      <3>1. Len(log'[i]) = Len(log[i]) + Len(cmds) /\ Len(cmds) \in Nat
        BY <2>5, <2>6, ExtendedType, LenProperties
      <3>2. LogGrows(i)
        BY <2>1, <2>5, ExtendedGrows
      <3> QED
        BY <2>4, <3>1, <3>2 DEF LogGrows
    <2>9. claim \in Outbox /\ Outgoing(heir, i, claim)
      BY <2>3, <2>5, <2>6, <2>7, <2>8, HeartbeatsType, HeartbeatsSent, PingType, PingSent,
         ToPeersType
    <2> HIDE DEF claim
    <2>10. Rounds(i, cmds, next) \in Outbox /\ Outgoing(heir, i, Rounds(i, cmds, next))
      BY <2>5, <2>6, <2>7, RoundsType, RoundsSent
    <2>11. /\ Then(claim, Rounds(i, cmds, next)) \in Outbox
           /\ Outgoing(heir, i, Then(claim, Rounds(i, cmds, next)))
      BY <2>9, <2>10, ThenType, ThenSent
    <2> QED
      BY <1>1, <2>1, <2>11, ReceiveSends DEF rest
  <1> QED
    BY <1>2, <1>3 DEF HandleVoteResponse

LEMMA HandleAppendEntriesSends ==
  ASSUME TypeInv, NEW heir, NEW i \in Node, NEW s \in Node, HandleAppendEntries(i, s)
  PROVE  MessagesOf(heir, i)
  <1> DEFINE m == Head(net[s][i])
             answer == AppendResponse(i, TermAfter(i, m.term), FALSE, 0)
             refusal == Only(s, <<answer>>)
  <1>1. /\ TypeOK /\ Arrives(s, i, "append_entries") /\ net \in Network /\ net[s][i] # <<>>
        /\ m \in Message /\ m.type = "append_entries"
    BY ArrivesType DEF TypeInv, TypeOK, Network, HandleAppendEntries, Arrives
  <1>2. /\ m.term \in Nat /\ m.prev_log_index \in Nat /\ m.entries \in Seq(LogEntry)
        /\ m \in Content(net[s][i])
    BY <1>1, MessageFields, UnreadContent
  <1>3. CASE Transmit(Unread(s, i), i, refusal)
    <2>1. TermAfter(i, m.term) \in Nat
      BY <1>2, StepDownType
    <2>2. answer \in Message /\ answer.type = "append_response" /\ ~answer.success
      BY <1>1, <2>1, AppendResponseType DEF AppendResponse
    <2> HIDE DEF answer
    <2>3. <<answer>> \in Seq(Message) /\ Sent(heir, i, s, answer)
      BY <2>2, MessagesAreSeq DEF Sent
    <2>4. refusal \in Outbox /\ Outgoing(heir, i, refusal)
      BY <2>3, OnlyType, OnlyOneSent
    <2> QED
      BY <1>1, <1>3, <2>4, ReceiveSends
  <1>4. ASSUME MergeEntries(Unread(s, i), i, s, m), m.term >= current_term[i],
               current_term' = [current_term EXCEPT ![i] = m.term],
               Consistent(log[i], m.prev_log_index, m.prev_log_term)
        PROVE  MessagesOf(heir, i)
    <2> DEFINE merged == Merged(log[i], m.prev_log_index, m.entries)
               Fits(o) == /\ o.type \in {"append_response", "reconcile_batch"}
                          /\ o.type = "append_response" =>
                               o = AppendResponse(i, m.term, TRUE, Len(merged))
    <2>1. PICK ms \in Seq(Message) :
            /\ Transmit(Unread(s, i), i, Only(s, ms))
            /\ \A o \in Content(ms) : Fits(o)
      BY <1>2, <1>4, MergeEntriesSends
    <2>2. /\ log' = [log EXCEPT ![i] = merged] /\ log'[i] = merged
          /\ current_term'[i] = m.term
      BY <1>1, <1>4 DEF MergeEntries, TypeOK
    <2>3. ASSUME NEW o \in Content(ms) PROVE Sent(heir, i, s, o)
      <3>1. /\ o.type \in {"append_response", "reconcile_batch"}
            /\ o.type = "append_response" => o.term = m.term /\ o.match_index = Len(merged)
        BY <2>1 DEF AppendResponse
      <3>2. o.type = "append_response" => SentAck(i, s, o)
        BY <1>1, <1>2, <1>4, <2>2, <3>1 DEF SentAck
      <3> QED
        BY <3>1, <3>2 DEF Sent
    <2>4. Only(s, ms) \in Outbox /\ Outgoing(heir, i, Only(s, ms))
      BY <2>3, OnlyType, OnlySent
    <2> QED
      BY <1>1, <2>1, <2>4, ReceiveSends
  <1> QED
    BY <1>3, <1>4 DEF HandleAppendEntries

LEMMA ReceivingSends ==
  ASSUME TypeInv, LeadersOnRecord, elected \subseteq elected', NEW heir, NEW i \in Node,
         NEW s \in Node, Receive(i, s)
  PROVE  MessagesOf(heir, i)
  <1>1. TypeOK
    BY DEF TypeInv
  <1>2. CASE HandleAppendResponse(i, s)
    BY <1>1, <1>2, NothingType, NothingSent, ReceiveSends DEF HandleAppendResponse
  <1>3. CASE HandleLivenessPing(i, s)
    BY <1>1, <1>3, NothingType, NothingSent, ReceiveSends DEF HandleLivenessPing
  <1>4. CASE HandleLeadershipHandoff(i, s)
    <2> DEFINE m == Head(net[s][i])
    <2>1. /\ net \in Network /\ net[s][i] # <<>> /\ m \in Message /\ log' = log
          /\ m.type = "leadership_handoff" /\ Arrives(s, i, "leadership_handoff")
      BY <1>1, <1>4, ArrivesType
      DEF TypeOK, Network, HandleLeadershipHandoff, Arrives, replicationVars
    <2>2. TermAfter(i, m.term) \in Nat
      BY <2>1, MessageFields, StepDownType
    <2>3. /\ Unread(s, i) \in Network
          /\ \A v, c \in Node : Content(Unread(s, i)[v][c]) \subseteq Content(net[v][c])
      BY <2>1, UnreadType, UnreadContent
    <2>4. CASE StartElection(Unread(s, i), i, TermAfter(i, m.term))
      BY <1>1, <2>1, <2>2, <2>3, <2>4, StartElectionSends
    <2>5. CASE Transmit(Unread(s, i), i, Nothing)
      BY <1>1, <2>1, <2>5, NothingType, NothingSent, ReceiveSends
    <2> QED
      BY <1>4, <2>4, <2>5 DEF HandleLeadershipHandoff
  <1> QED
    BY <1>1, <1>2, <1>3, <1>4, HandleRequestVoteSends, HandleVoteResponseSends,
       HandleAppendEntriesSends, HandleSensorDataSends, HandleReconcileBatchSends
    DEF Receive

LEMMA EnvironmentSends ==
  ASSUME TypeOK, LeadersOnRecord, elected \subseteq elected', Environment
  PROVE  MessageStep
  <1>1. net \in Network
    BY DEF TypeOK, Network
  <1>2. ASSUME net' = net PROVE MessageStep
    BY <1>2 DEF MessageStep
  <1>3. ASSUME NEW v \in Node, NEW c \in Node, DropBlocked(v, c) \/ Lose(v, c)
        PROVE  MessageStep
    <2>1. net[v][c] # <<>> /\ net' = Unread(v, c)
      BY <1>3 DEF DropBlocked, Lose
    <2> QED
      BY <1>1, <2>1, UnreadContent DEF MessageStep
  <1>4. ASSUME NEW i \in Node, NEW reading \in Reading, LeafReport(i, reading)
        PROVE  MessageStep
    <2>1. TakeReading(net, i, reading)
      BY <1>4 DEF LeafReport
    <2>2. MessagesOf(i, i)
      BY <1>1, <2>1, TakeReadingSends
    <2> QED
      BY <2>2 DEF MessagesOf, MessageStep
  <1>5. \/ net' = net
        \/ \E i \in Node, reading \in Reading : LeafReport(i, reading)
        \/ \E v, c \in Node : DropBlocked(v, c) \/ Lose(v, c)
    BY DEF Environment, BatteryMoves, DemoSetBattery, PublishControl
  <1> QED
    BY <1>2, <1>3, <1>4, <1>5

\* What is under way after a step was under way before it, or is one of the messages
\* above, sent in this step.
LEMMA NextSends ==
  ASSUME TypeInv, LeadersOnRecord, elected \subseteq elected', [Next]_vars
  PROVE  MessageStep
  <1>0. TypeOK
    BY DEF TypeInv
  <1>1. ASSUME NEW i \in Node, NEW heir, MessagesOf(heir, i) PROVE MessageStep
    BY <1>1 DEF MessagesOf, MessageStep
  <1>2. ASSUME net' = net PROVE MessageStep
    BY <1>2 DEF MessageStep
  <1>3. ASSUME NEW i \in Node, Tick(i) PROVE MessageStep
    BY <1>0, <1>1, <1>3, TickSends
  <1>4. ASSUME NEW i \in Node, NEW s \in Node, Receive(i, s) PROVE MessageStep
    BY <1>1, <1>4, ReceivingSends
  <1>5. ASSUME NEW i \in Node, HandlePartitionControl(i) PROVE MessageStep
    BY <1>2, <1>5 DEF HandlePartitionControl
  <1>6. CASE UNCHANGED vars
    BY <1>2, <1>6 DEF vars
  <1> QED
    BY <1>0, <1>3, <1>4, <1>5, <1>6, EnvironmentSends DEF Next

LEMMA WinnersStayOnRecord ==
  ASSUME NoRecovery, TypeInv, TypeInv', ElectionInv, [Next]_vars
  PROVE  elected \subseteq elected'
  BY StepsMoveOrWin DEF MoveStep, WinStep

LEMMA NextEntriesFromWinners ==
  ASSUME NoRecovery, TypeInv, TypeInv', ElectionInv, EntriesFromWinners, [Next]_vars
  PROVE  EntriesFromWinners'
  <1>1. elected \subseteq elected' /\ LeadersOnRecord
    BY WinnersStayOnRecord DEF ElectionInv
  <1> SUFFICES ASSUME NEW s \in Node, NEW d \in Node, NEW o \in Content(net'[s][d]),
                      o.type = "append_entries"
               PROVE  s # d /\ \E e \in elected' : e.leader = s /\ e.term = o.term
    BY DEF EntriesFromWinners, Content
  <1>2. o \in Content(net[s][d]) \/ SentEntries(s, d, o)
    BY <1>1, NextSends DEF MessageStep, Sent
  <1> QED
    BY <1>1, <1>2 DEF EntriesFromWinners, SentEntries, WonTerm

\* Entries are only ever sent by a coordinator that won the term they are sent in, and
\* never to itself: what keeps a leader from being overwritten in its own term.
THEOREM EntriesAreWinners == NoRecovery => (Spec => []EntriesFromWinners)
  <1> SUFFICES ASSUME NoRecovery PROVE Spec => []EntriesFromWinners
    OBVIOUS
  <1>1. Init => EntriesFromWinners
    BY ContentOfShort DEF Init, Nothing, EntriesFromWinners
  <1>2. TypeInv /\ TypeInv' /\ ElectionInv /\ EntriesFromWinners /\ [Next]_vars
        => EntriesFromWinners'
    BY NextEntriesFromWinners
  <1> QED
    BY <1>1, <1>2, TypeInvariant, ElectionInvariant, PTL DEF Spec

-----------------------------------------------------------------------------
(* When the commit index moves *)

\* Only an AppendEntries, and a response that a global leader counts, move it.
LEMMA CommitMoves ==
  ASSUME TypeOK, [Next]_vars
  PROVE  \/ UNCHANGED commit_index
         \/ \E i, s \in Node :
              \/ HandleAppendEntries(i, s)
              \/ HandleAppendResponse(i, s) /\ state[i] = Leader
  <1>1. ASSUME NEW i \in Node, NEW s \in Node, HandleAppendResponse(i, s)
        PROVE  UNCHANGED commit_index \/ state[i] = Leader
    BY <1>1 DEF HandleAppendResponse, CountsResponses
  <1>2. ASSUME NEW i \in Node, Tick(i) PROVE UNCHANGED commit_index
    BY <1>2 DEF Tick, IdleTick, ElectionTimeout, RaftLeaderTick, EchoLeaderTick,
                EchodLeaderTick, replicationVars
  <1>3. ASSUME NEW i \in Node, NEW s \in Node, Receive(i, s)
        PROVE  \/ UNCHANGED commit_index
               \/ HandleAppendEntries(i, s) \/ HandleAppendResponse(i, s)
    BY <1>3 DEF Receive, HandleRequestVote, HandleVoteResponse, HandleLivenessPing,
                HandleSensorData, TakeReading, HandleLeadershipHandoff, HandleReconcileBatch,
                replicationVars
  <1>4. Environment \/ (\E i \in Node : HandlePartitionControl(i)) \/ UNCHANGED vars
        => UNCHANGED commit_index
    BY DEF Environment, BatteryMoves, DemoSetBattery, LeafReport, TakeReading, PublishControl,
           DropBlocked, Lose, HandlePartitionControl, replicationVars, vars
  <1> QED
    BY <1>1, <1>2, <1>3, <1>4 DEF Next

\* A local leader that handles an AppendEntries refuses it or steps down: one of its
\* own term would come from the winner of that term, which is itself.
LEMMA LocalLeaderRefuses ==
  ASSUME TypeInv, ElectionInv, EntriesFromWinners, NEW i \in Node, NEW s \in Node,
         HandleAppendEntries(i, s), state[i] = LocalLeader, state'[i] = LocalLeader
  PROVE  UNCHANGED commit_index
  <1> DEFINE m == Head(net[s][i])
             st == StateAfter(i, m.term)
  <1>1. /\ TypeOK /\ Arrives(s, i, "append_entries") /\ net \in Network /\ net[s][i] # <<>>
        /\ m \in Message /\ m.type = "append_entries" /\ current_term[i] \in Nat
        /\ state \in [Node -> NodeState]
    BY ArrivesType DEF TypeInv, TypeOK, Network, HandleAppendEntries, Arrives
  <1>2. m.term \in Nat /\ m \in Content(net[s][i])
    BY <1>1, MessageFields, UnreadContent
  <1>3. PICK e \in elected : s # i /\ e.leader = s /\ e.term = m.term
    BY <1>1, <1>2 DEF EntriesFromWinners
  <1>4. PICK f \in elected : f.leader = i /\ f.term = current_term[i]
    BY DEF ElectionInv, LeadersOnRecord, Leading
  <1>5. m.term # current_term[i]
    BY <1>1, <1>3, <1>4, OneWinner DEF ElectionSafety
  <1>6. ~(m.term > current_term[i] /\ state' = [state EXCEPT ![i] =
            IF st = Candidate THEN Follower ELSE st])
    BY <1>1 DEF StateAfter, Candidate, Follower, LocalLeader
  <1>7. \/ UNCHANGED commit_index
        \/ /\ m.term >= current_term[i]
           /\ state' = [state EXCEPT ![i] = IF st = Candidate THEN Follower ELSE st]
    BY DEF HandleAppendEntries
  <1> QED
    BY <1>1, <1>2, <1>5, <1>6, <1>7

LEMMA OthersCommit ==
  ASSUME NEW i \in Node, NEW s \in Node, NEW n \in Node, n # i, TypeOK,
         HandleAppendEntries(i, s) \/ HandleAppendResponse(i, s)
  PROVE  commit_index'[n] = commit_index[n]
  BY DEF TypeOK, HandleAppendEntries, MergeEntries, HandleAppendResponse, TryAdvanceCommit

LEMMA LocalLeaderKeepsCommit ==
  ASSUME TypeInv, ElectionInv, EntriesFromWinners, [Next]_vars, NEW n \in Node,
         state[n] = LocalLeader, state'[n] = LocalLeader
  PROVE  commit_index'[n] = commit_index[n]
  <1>1. TypeOK /\ LocalLeader # Leader
    BY DEF TypeInv, LocalLeader, Leader
  <1>2. ASSUME NEW i \in Node, NEW s \in Node, HandleAppendEntries(i, s)
        PROVE  commit_index'[n] = commit_index[n]
    BY <1>1, <1>2, LocalLeaderRefuses, OthersCommit
  <1>3. ASSUME NEW i \in Node, NEW s \in Node, HandleAppendResponse(i, s), state[i] = Leader
        PROVE  commit_index'[n] = commit_index[n]
    BY <1>1, <1>3, OthersCommit
  <1> QED
    BY <1>1, <1>2, <1>3, CommitMoves

\* While a coordinator leads locally its commit index stands still: nothing that is
\* proposed on one side of a partition is committed there, neither by a majority
\* that answers nor on the word of another leader of the same term.
THEOREM LocalLeadersNeverCommit == NoRecovery => (Spec => LocalLeaderNeverCommits)
  <1> SUFFICES ASSUME NoRecovery PROVE Spec => LocalLeaderNeverCommits
    OBVIOUS
  <1>1. TypeInv /\ ElectionInv /\ EntriesFromWinners /\ [Next]_vars
        => [\A i \in Node : state[i] = LocalLeader /\ state'[i] = LocalLeader
              => commit_index'[i] = commit_index[i]]_vars
    BY LocalLeaderKeepsCommit
  <1> QED
    BY <1>1, TypeInvariant, ElectionInvariant, EntriesAreWinners, PTL
    DEF Spec, LocalLeaderNeverCommits

-----------------------------------------------------------------------------
(* When the log of a leader changes *)

LEMMA TakeReadingGrows ==
  ASSUME TypeOK, NEW i \in Node, NEW rest, NEW reading \in Reading,
         TakeReading(rest, i, reading), NEW n \in Node
  PROVE  LogGrows(n)
  <1> DEFINE batch == Append(batch_buffer[i], reading)
  <1>1. batch \in Seq(Reading)
    BY AppendProperties DEF TypeOK
  <1>2. <<{reading}>> \in Seq(Command) /\ <<Content(batch)>> \in Seq(Command)
    <2>1. {reading} \in Command
      BY DEF Command
    <2>2. Content(batch) \in Command
      BY <1>1, ContentType
    <2> QED
      BY <2>1, <2>2
  <1>3. \/ UNCHANGED log
        \/ log' = [log EXCEPT ![i] = Extended(i, <<{reading}>>)]
        \/ log' = [log EXCEPT ![i] = Extended(i, <<Content(batch)>>)]
    BY DEF TakeReading, Replicate
  <1> HIDE DEF batch
  <1>4. CASE UNCHANGED log
    BY <1>4, SameLogGrows
  <1>5. CASE log' = [log EXCEPT ![i] = Extended(i, <<{reading}>>)]
    BY <1>2, <1>5, ExtendedGrows, Zenon
  <1>6. CASE log' = [log EXCEPT ![i] = Extended(i, <<Content(batch)>>)]
    BY <1>2, <1>6, ExtendedGrows, Zenon
  <1> QED
    BY <1>3, <1>4, <1>5, <1>6

LEMMA TickGrows ==
  ASSUME TypeOK, NEW i \in Node, Tick(i), NEW n \in Node
  PROVE  LogGrows(n)
  <1>1. CASE EchodLeaderTick(i)
    <2> DEFINE batch(flush) == IF flush THEN <<Content(batch_buffer[i])>> ELSE <<>>
    <2>1. PICK flush \in BOOLEAN : log' = [log EXCEPT ![i] = Extended(i, batch(flush))]
      BY <1>1 DEF EchodLeaderTick
    <2>2. batch_buffer[i] \in Seq(Reading)
      BY DEF TypeOK
    <2>3. batch(flush) \in Seq(Command)
      BY <2>2, ContentType, EmptySeq
    <2> HIDE DEF batch
    <2> QED
      BY <2>1, <2>3, ExtendedGrows
  <1>2. CASE UNCHANGED log
    BY <1>2, SameLogGrows
  <1> QED
    BY <1>1, <1>2
    DEF Tick, IdleTick, ElectionTimeout, RaftLeaderTick, EchoLeaderTick, replicationVars

\* A leader that handles an AppendEntries and leads on in its term has refused it.
LEMMA LeaderRefusesEntries ==
  ASSUME TypeInv, ElectionInv, EntriesFromWinners, NEW i \in Node, NEW s \in Node,
         HandleAppendEntries(i, s), Leading(state[i]), current_term'[i] = current_term[i]
  PROVE  UNCHANGED log
  <1> DEFINE m == Head(net[s][i])
  <1>1. /\ TypeOK /\ Arrives(s, i, "append_entries") /\ net \in Network /\ net[s][i] # <<>>
        /\ m \in Message /\ m.type = "append_entries" /\ current_term \in [Node -> Nat]
    BY ArrivesType DEF TypeInv, TypeOK, Network, HandleAppendEntries, Arrives
  <1>2. m.term \in Nat /\ m \in Content(net[s][i])
    BY <1>1, MessageFields, UnreadContent
  <1>3. PICK e \in elected : s # i /\ e.leader = s /\ e.term = m.term
    BY <1>1, <1>2 DEF EntriesFromWinners
  <1>4. PICK f \in elected : f.leader = i /\ f.term = current_term[i]
    BY DEF ElectionInv, LeadersOnRecord
  <1>5. m.term # current_term[i]
    BY <1>1, <1>3, <1>4, OneWinner DEF ElectionSafety
  <1>6. UNCHANGED log \/ current_term' = [current_term EXCEPT ![i] = m.term]
    BY DEF HandleAppendEntries
  <1> QED
    BY <1>1, <1>5, <1>6

LEMMA ReceiveGrows ==
  ASSUME TypeInv, ElectionInv, EntriesFromWinners, NEW i \in Node, NEW s \in Node,
         Receive(i, s), NEW n \in Node, Leading(state[n]), current_term'[n] = current_term[n]
  PROVE  LogGrows(n)
  <1> DEFINE m == Head(net[s][i])
  <1>1. TypeOK
    BY DEF TypeInv
  <1>2. CASE UNCHANGED log
    BY <1>1, <1>2, SameLogGrows
  <1>3. CASE HandleAppendEntries(i, s)
    <2>1. CASE n = i
      BY <1>2, <1>3, <2>1, LeaderRefusesEntries
    <2>2. CASE n # i
      <3>1. log'[n] = log[n]
        <4>1. log \in [Node -> Seq(LogEntry)]
          BY <1>1 DEF TypeOK
        <4>2. log' = log \/ \E lg : log' = [log EXCEPT ![i] = lg]
          BY <1>3 DEF HandleAppendEntries, MergeEntries
        <4> QED
          BY <2>2, <4>1, <4>2
      <3> QED
        BY <1>1, <3>1, SameLogGrows
    <2> QED
      BY <2>1, <2>2
  <1>4. CASE HandleVoteResponse(i, s)
    <2>1. CASE n = i
      BY <1>2, <1>4, <2>1
      DEF HandleVoteResponse, Leading, Candidate, Leader, LocalLeader
    <2>2. CASE n # i
      <3>1. log'[n] = log[n]
        BY <1>1, <1>4, <2>2 DEF TypeOK, HandleVoteResponse, BecomeLeader
      <3> QED
        BY <1>1, <3>1, SameLogGrows
    <2> QED
      BY <2>1, <2>2
  <1>5. CASE HandleSensorData(i, s)
    <2>1. m \in Message /\ m.type = "sensor_data" /\ TakeReading(Unread(s, i), i, m.reading)
      BY <1>1, <1>5, ArrivesType DEF HandleSensorData
    <2>2. m.reading \in Reading
      BY <2>1, MessageFields
    <2> QED
      BY <1>1, <2>1, <2>2, TakeReadingGrows
  <1>6. CASE HandleReconcileBatch(i, s)
    <2> DEFINE P == FreshPositions(m.commands, recent_reconciles[i])
               fresh(at) == [k \in DOMAIN at |-> m.commands[at[k]]]
    <2>1. m \in Message /\ m.type = "reconcile_batch"
      BY <1>1, <1>6, ArrivesType DEF HandleReconcileBatch
    <2>2. m.commands \in Seq(Command)
      BY <2>1, MessageFields
    <2>3. \/ UNCHANGED log
          \/ \E at \in InOrder(P) :
               log' = [log EXCEPT ![i] = Extended(i, Proposed(fresh(at)))]
      BY <1>6 DEF HandleReconcileBatch, Replicate
    <2>4. \A at \in InOrder(P) : Proposed(fresh(at)) \in Seq(Command)
      BY <2>2, FreshCommandsType, ProposedType
    <2> HIDE DEF fresh, P
    <2> QED
      BY <1>1, <1>2, <2>3, <2>4, ExtendedGrows
  <1> QED
    BY <1>2, <1>3, <1>4, <1>5, <1>6
    DEF Receive, HandleRequestVote, HandleAppendResponse, HandleLivenessPing,
        HandleLeadershipHandoff, replicationVars

LEMMA NextGrows ==
  ASSUME TypeInv, ElectionInv, EntriesFromWinners, [Next]_vars, NEW n \in Node,
         Leading(state[n]), current_term'[n] = current_term[n]
  PROVE  LogGrows(n)
  <1>1. TypeOK
    BY DEF TypeInv
  <1>2. CASE UNCHANGED log
    BY <1>1, <1>2, SameLogGrows
  <1>3. CASE Environment
    <2>1. UNCHANGED log \/ \E i \in Node, reading \in Reading : TakeReading(net, i, reading)
      BY <1>3 DEF Environment, BatteryMoves, DemoSetBattery, LeafReport, PublishControl,
                  DropBlocked, Lose, replicationVars
    <2> QED
      BY <1>1, <1>2, <2>1, TakeReadingGrows
  <1>4. (\E i \in Node : HandlePartitionControl(i)) \/ UNCHANGED vars => UNCHANGED log
    BY DEF HandlePartitionControl, replicationVars, vars
  <1> QED
    BY <1>1, <1>2, <1>3, <1>4, TickGrows, ReceiveGrows DEF Next

\* Whoever leads through a step keeps every entry of its log: a batch, a replayed
\* report, a reconciled command or a heal adds entries, and no AppendEntries that is
\* still under way can cut one off.
THEOREM LeadersAppendOnly == NoRecovery => (Spec => LeaderAppendOnly)
  <1> SUFFICES ASSUME NoRecovery PROVE Spec => LeaderAppendOnly
    OBVIOUS
  <1>1. TypeInv /\ ElectionInv /\ EntriesFromWinners /\ [Next]_vars
        => [\A i \in Node :
              Leading(state[i]) /\ Leading(state'[i]) /\ current_term'[i] = current_term[i]
              => SubSeq(log'[i], 1, Len(log[i])) = log[i]]_vars
    BY NextGrows DEF LogGrows
  <1> QED
    BY <1>1, TypeInvariant, ElectionInvariant, EntriesAreWinners, PTL
    DEF Spec, LeaderAppendOnly

-----------------------------------------------------------------------------
(* Outboxes whose messages are all of one set *)

Outboxes(S) == [Node -> Seq(S)]
Publishes(rest, i, S) == \E out \in Outboxes(S) : Transmit(rest, i, out)

LEMMA NothingIn == ASSUME NEW S PROVE Nothing \in Outboxes(S)
  BY EmptySeq DEF Nothing, Outboxes

LEMMA OnlyIn ==
  ASSUME NEW S, NEW d, NEW m \in S
  PROVE  Only(d, <<m>>) \in Outboxes(S)
  <1>1. <<m>> \in Seq(S) /\ <<>> \in Seq(S)
    BY EmptySeq
  <1> QED
    BY <1>1 DEF Only, Outboxes

LEMMA ToPeersIn ==
  ASSUME NEW S, NEW i, NEW m \in S
  PROVE  ToPeers(i, m) \in Outboxes(S)
  <1>1. <<m>> \in Seq(S) /\ <<>> \in Seq(S)
    BY EmptySeq
  <1> QED
    BY <1>1 DEF ToPeers, Outboxes

LEMMA ThenIn ==
  ASSUME NEW S, NEW out \in Outboxes(S), NEW more \in Outboxes(S)
  PROVE  Then(out, more) \in Outboxes(S)
  <1>1. ASSUME NEW d \in Node PROVE out[d] \o more[d] \in Seq(S)
    BY ConcatProperties DEF Outboxes
  <1> QED
    BY <1>1 DEF Then, Outboxes

LEMMA WiderOutboxes ==
  ASSUME NEW S, NEW T, S \subseteq T, NEW out \in Outboxes(S)
  PROVE  out \in Outboxes(T)
  <1>1. \A d \in Node : out[d] \in Seq(T)
    BY SeqSubset DEF Outboxes
  <1> QED
    BY <1>1 DEF Outboxes

\* The AppendEntries whose entries are those of the log lg at the same positions.
Copies(lg) ==
  {m \in Message :
     /\ m.type = "append_entries"
     /\ \A k \in DOMAIN m.entries :
          /\ m.prev_log_index + k \in DOMAIN lg
          /\ m.entries[k] = lg[m.prev_log_index + k]}

LEMMA FrontCopied ==
  ASSUME TypeOK, NEW i \in Node, NEW lg \in Seq(LogEntry), NEW n \in 0 .. Len(lg),
         NEW next \in Nat \ {0}
  PROVE  AppendEntries(i, SubSeq(lg, 1, n), next) \in Copies(lg)
  <1> DEFINE front == SubSeq(lg, 1, n)
             prev == next - 1
             m == AppendEntries(i, front, next)
  <1>1. /\ front \in Seq(LogEntry) /\ DOMAIN front = 1 .. n
        /\ \A k \in 1 .. n : k \in DOMAIN lg /\ front[k] = lg[k]
    <2>1. Len(lg) \in Nat /\ DOMAIN lg = 1 .. Len(lg)
      BY LenProperties
    <2>2. front \in Seq(LogEntry)
      BY FrontIsSeq
    <2>3. Len(front) = n /\ \A k \in 1 .. n : front[k] = lg[k]
      BY <2>1
    <2> HIDE DEF front
    <2>4. DOMAIN front = 1 .. n
      BY <2>2, <2>3, LenProperties
    <2> QED
      BY <2>1, <2>2, <2>3, <2>4
  <1> HIDE DEF front
  <1>2. m \in Message /\ m.type = "append_entries" /\ m.prev_log_index = prev
        /\ m.entries = Suffix(front, prev) /\ prev \in Nat
    BY <1>1, AppendEntriesType DEF AppendEntries
  <1> HIDE DEF m
  <1>3. ASSUME NEW k \in DOMAIN m.entries
        PROVE  /\ m.prev_log_index + k \in DOMAIN lg
               /\ m.entries[k] = lg[m.prev_log_index + k]
    <2>1. k + prev \in DOMAIN front /\ k \in Nat /\ m.entries[k] = front[k + prev]
      BY <1>1, <1>2, SuffixEntries
    <2>2. k + prev = prev + k
      BY <1>2, <2>1
    <2> QED
      BY <1>1, <1>2, <2>1, <2>2
  <1>4. m \in Copies(lg)
    BY <1>2, <1>3 DEF Copies
  <1> QED
    BY <1>4 DEF m, front

LEMMA HeartbeatsIn ==
  ASSUME TypeOK, NEW i \in Node, NEW next \in [Node -> Nat \ {0}]
  PROVE  Heartbeats(i, next) \in Outboxes(Copies(log[i]))
  <1>1. log[i] \in Seq(LogEntry) /\ Len(log[i]) \in 0 .. Len(log[i])
    BY LenProperties DEF TypeOK
  <1>2. SubSeq(log[i], 1, Len(log[i])) = log[i]
    BY <1>1
  <1>3. ASSUME NEW d \in Node
        PROVE  <<AppendEntries(i, log[i], next[d])>> \in Seq(Copies(log[i]))
    <2>1. AppendEntries(i, log[i], next[d]) \in Copies(log[i])
      BY <1>1, <1>2, FrontCopied
    <2> QED
      BY <2>1
  <1> QED
    BY <1>3, EmptySeq DEF Heartbeats, Outboxes

LEMMA RoundsIn ==
  ASSUME TypeOK, NEW i \in Node, NEW cmds \in Seq(Command), NEW next \in [Node -> Nat \ {0}]
  PROVE  Rounds(i, cmds, next) \in Outboxes(Copies(Extended(i, cmds)))
  <1> DEFINE lg == Extended(i, cmds)
             round(d, k) == AppendEntries(i, SubSeq(lg, 1, Len(log[i]) + k), next[d])
  <1>1. DOMAIN cmds = 1 .. Len(cmds) /\ Len(cmds) \in Nat /\ Len(log[i]) \in Nat
    BY LenProperties DEF TypeOK
  <1>2. lg \in Seq(LogEntry) /\ Len(lg) = Len(log[i]) + Len(cmds)
    BY ExtendedType
  <1> HIDE DEF lg
  <1>3. ASSUME NEW d \in Node, NEW k \in DOMAIN cmds PROVE round(d, k) \in Copies(lg)
    <2>1. Len(log[i]) + k \in 0 .. Len(lg) /\ next[d] \in Nat \ {0}
      BY <1>1, <1>2
    <2> QED
      BY <1>2, <2>1, FrontCopied
  <1> HIDE DEF round
  <1>4. ASSUME NEW d \in Node PROVE [k \in DOMAIN cmds |-> round(d, k)] \in Seq(Copies(lg))
    BY <1>1, <1>3
  <1> QED
    BY <1>4, EmptySeq DEF Rounds, Outboxes, round, lg

\* Messages that carry no report, and no entry but those of the log of i; and those
\* that may carry a report.
Silent(i) ==
  {m \in Message : m.type \notin {"append_entries", "sensor_data", "reconcile_batch"}}
    \cup Copies(log[i]) \cup Copies(log'[i])
Plain(i) == Silent(i) \cup {m \in Message : m.type = "sensor_data"}

LEMMA HeartbeatsSilent ==
  ASSUME TypeOK, NEW i \in Node, NEW next \in [Node -> Nat \ {0}]
  PROVE  Heartbeats(i, next) \in Outboxes(Silent(i))
  <1>1. Copies(log[i]) \subseteq Silent(i)
    BY DEF Silent
  <1> QED
    BY <1>1, HeartbeatsIn, WiderOutboxes

LEMMA RoundsSilent ==
  ASSUME TypeOK, NEW i \in Node, NEW cmds \in Seq(Command), NEW next \in [Node -> Nat \ {0}],
         log'[i] = Extended(i, cmds)
  PROVE  Rounds(i, cmds, next) \in Outboxes(Silent(i))
  <1>1. Copies(Extended(i, cmds)) \subseteq Silent(i)
    BY DEF Silent
  <1> QED
    BY <1>1, RoundsIn, WiderOutboxes

LEMMA PingSilent ==
  ASSUME TypeOK, NEW i \in Node
  PROVE  ToPeers(i, Ping(i, current_term[i])) \in Outboxes(Silent(i))
  <1>1. current_term[i] \in Nat
    BY DEF TypeOK
  <1>2. Ping(i, current_term[i]) \in Message /\ Ping(i, current_term[i]).type = "liveness_ping"
    BY <1>1, PingType DEF Ping
  <1>3. Ping(i, current_term[i]) \in Silent(i)
    BY <1>2 DEF Silent
  <1> QED
    BY <1>3, ToPeersIn

LEMMA ReplicateSilent ==
  ASSUME TypeOK, NEW rest, NEW i \in Node, NEW cmds \in Seq(Command), Replicate(rest, i, cmds)
  PROVE  Publishes(rest, i, Silent(i)) /\ log'[i] = Extended(i, cmds)
  <1>1. next_index[i] \in [Node -> Nat \ {0}] /\ log'[i] = Extended(i, cmds)
    BY DEF TypeOK, Replicate
  <1>2. Rounds(i, cmds, next_index[i]) \in Outboxes(Silent(i))
    BY <1>1, RoundsSilent
  <1> QED
    BY <1>1, <1>2 DEF Replicate, Publishes

-----------------------------------------------------------------------------
(* Where a reading is: under way, waiting for a leader, or in a batch *)

ReportsOf(r) == {m \in Message : m.type = "sensor_data" /\ m.reading = r}
Channels(n) == [c \in Node \X Node |-> n[c[1]][c[2]]]
ReportsIn(n, r) == Places(Node \X Node, Channels(n), ReportsOf(r))

UnderWay(r) == ReportsIn(net, r)
Pending(r) == Places(Node, pending_triggers, {r})
Batched(r) == Places(Node, batch_buffer, {r})

LEMMA ChannelsType ==
  ASSUME NEW n \in Network
  PROVE  Channels(n) \in [Node \X Node -> Seq(Message)]
  <1>1. ASSUME NEW c \in Node \X Node PROVE n[c[1]][c[2]] \in Seq(Message)
    BY DEF Network
  <1> QED
    BY <1>1 DEF Channels

\* Taking a message takes its report away.
LEMMA TakenReports ==
  ASSUME net \in Network, NEW s \in Node, NEW d \in Node, net[s][d] # <<>>, NEW r
  PROVE  Grows(ReportsIn(Unread(s, d), r), UnderWay(r),
               IF Head(net[s][d]) \in ReportsOf(r) THEN -1 ELSE 0)
  <1> DEFINE box == Channels(net)
             rest == Channels(Unread(s, d))
             o == <<s, d>>
  <1>1. /\ box \in [Node \X Node -> Seq(Message)] /\ o \in Node \X Node
        /\ box[o] = net[s][d]
    BY ChannelsType DEF Channels
  <1>2. ASSUME NEW c \in Node \X Node
        PROVE  rest[c] = IF c = o THEN Tail(box[o]) ELSE box[c]
    <2>1. c = <<c[1], c[2]>> /\ c[1] \in Node /\ c[2] \in Node
      OBVIOUS
    <2>2. Unread(s, d)[c[1]][c[2]] = IF c[1] = s /\ c[2] = d THEN Tail(net[s][d])
                                     ELSE net[c[1]][c[2]]
      BY <2>1 DEF Unread, Network
    <2>3. c = o <=> c[1] = s /\ c[2] = d
      BY <2>1
    <2>4. rest[c] = Unread(s, d)[c[1]][c[2]] /\ box[c] = net[c[1]][c[2]]
      BY DEF Channels
    <2> QED
      BY <1>1, <2>2, <2>3, <2>4
  <1> HIDE DEF box, rest, o
  <1>3. Grows(Places(Node \X Node, rest, ReportsOf(r)), Places(Node \X Node, box, ReportsOf(r)),
              IF Head(box[o]) \in ReportsOf(r) THEN -1 ELSE 0)
    BY <1>1, <1>2, PlacesTail
  <1> QED
    BY <1>1, <1>3 DEF ReportsIn, UnderWay, box, rest

\* Taking one never adds a report.
LEMMA UnreadReports ==
  ASSUME net \in Network, NEW s \in Node, NEW d \in Node, net[s][d] # <<>>, NEW r
  PROVE  Grows(ReportsIn(Unread(s, d), r), UnderWay(r), 0)
  <1>1. Grows(ReportsIn(Unread(s, d), r), UnderWay(r),
              IF Head(net[s][d]) \in ReportsOf(r) THEN -1 ELSE 0)
    BY TakenReports
  <1> QED
    BY <1>1, GrowsNot

\* What is on the channels once i has published out.
LEMMA TransmitChannels ==
  ASSUME NEW rest \in Network, NEW i \in Node, NEW out \in Outbox, Transmit(rest, i, out),
         NEW c \in Node \X Node
  PROVE  Channels(net')[c] =
           IF c[1] = i THEN Channels(rest)[c] \o out[c[2]] ELSE Channels(rest)[c]
  <1>1. c[1] \in Node /\ c[2] \in Node
    OBVIOUS
  <1>2. net'[c[1]][c[2]] = IF c[1] = i THEN rest[c[1]][c[2]] \o out[c[2]]
                           ELSE rest[c[1]][c[2]]
    BY <1>1 DEF Transmit, Then, Network
  <1>3. Channels(net')[c] = net'[c[1]][c[2]] /\ Channels(rest)[c] = rest[c[1]][c[2]]
    BY DEF Channels
  <1> QED
    BY <1>2, <1>3

LEMMA SilentSent ==
  ASSUME NEW rest \in Network, NEW i \in Node, Publishes(rest, i, Silent(i)), NEW r
  PROVE  Grows(ReportsIn(net', r), ReportsIn(rest, r), 0)
  <1>1. PICK out \in Outboxes(Silent(i)) : Transmit(rest, i, out)
    BY DEF Publishes
  <1> DEFINE outs == [c \in Node \X Node |-> IF c[1] = i THEN out[c[2]] ELSE <<>>]
             owners == Node \X Node
             box == Channels(net')
             kept == Channels(rest)
  <1>2. Silent(i) \subseteq Message /\ Silent(i) \cap ReportsOf(r) = {}
    BY DEF Silent, Copies, ReportsOf
  <1>3. out \in Outbox
    BY <1>2, WiderOutboxes DEF Outboxes, Outbox
  <1>4. outs \in [owners -> Seq(Message)] /\ kept \in [owners -> Seq(Message)]
    <2>1. ASSUME NEW c \in owners PROVE outs[c] \in Seq(Message)
      BY <1>3, EmptySeq DEF Outbox
    <2> QED
      BY <2>1, ChannelsType
  <1>5. ASSUME NEW c \in owners PROVE box[c] \in {kept[c], kept[c] \o outs[c]}
    <2>1. box[c] = IF c[1] = i THEN kept[c] \o out[c[2]] ELSE kept[c]
      BY <1>1, <1>3, TransmitChannels
    <2> HIDE DEF box, kept
    <2> QED
      BY <2>1
  <1>6. ASSUME NEW c \in owners, NEW k \in DOMAIN outs[c] PROVE outs[c][k] \notin ReportsOf(r)
    <2>1. CASE c[1] = i
      <3>1. outs[c] \in Seq(Silent(i))
        BY <1>1, <2>1 DEF Outboxes
      <3>2. outs[c][k] \in Silent(i)
        BY <1>6, <3>1, ElementOfSeq, LenProperties
      <3> QED
        BY <1>2, <3>2
    <2>2. CASE c[1] # i
      <3>1. outs[c] = <<>>
        BY <2>2
      <3> QED
        BY <1>6, <3>1, EmptySeq
    <2> QED
      BY <2>1, <2>2
  <1> HIDE DEF outs, owners, box, kept
  <1>7. Grows(Places(owners, box, ReportsOf(r)), Places(owners, kept, ReportsOf(r)), 0)
    BY <1>4, <1>5, <1>6, PlacesOthers
  <1> QED
    BY <1>7 DEF ReportsIn, owners, box, kept

LEMMA ReportSent ==
  ASSUME NEW rest \in Network, NEW i \in Node, NEW d, NEW m \in Message,
         Transmit(rest, i, Only(d, <<m>>)), NEW r
  PROVE  Grows(ReportsIn(net', r), ReportsIn(rest, r), IF m \in ReportsOf(r) THEN 1 ELSE 0)
  <1> DEFINE owners == Node \X Node
             box == Channels(net')
             kept == Channels(rest)
             o == <<i, d>>
  <1>1. Only(d, <<m>>) \in Outbox
    BY OnlyIn DEF Outboxes, Outbox
  <1>2. kept \in [owners -> Seq(Message)]
    BY ChannelsType
  <1>3. ASSUME NEW c \in owners
        PROVE  box[c] = kept[c] \/ (c = o /\ box[c] = kept[c] \o <<m>>)
    <2>1. box[c] = IF c[1] = i THEN kept[c] \o Only(d, <<m>>)[c[2]] ELSE kept[c]
      BY <1>1, TransmitChannels
    <2>2. Only(d, <<m>>)[c[2]] = IF c[2] = d THEN <<m>> ELSE <<>>
      BY DEF Only
    <2>3. c = <<c[1], c[2]>>
      OBVIOUS
    <2>4. kept[c] \o <<>> = kept[c]
      BY <1>2, ConcatEmptySeq
    <2> HIDE DEF box, kept
    <2> QED
      BY <2>1, <2>2, <2>3, <2>4
  <1>4. Gains(owners, box, kept, o, m)
    BY <1>3 DEF Gains
  <1> HIDE DEF owners, box, kept, o
  <1>5. Grows(Places(owners, box, ReportsOf(r)), Places(owners, kept, ReportsOf(r)),
              IF m \in ReportsOf(r) THEN 1 ELSE 0)
    BY <1>2, <1>4, PlacesOne
  <1> QED
    BY <1>5 DEF ReportsIn, owners, box, kept

\* A buffer that gains a reading, and one that is emptied.
LEMMA BufferExtended ==
  ASSUME NEW buffer \in [Node -> Seq(Reading)], NEW i \in Node, NEW reading \in Reading, NEW r
  PROVE  Grows(Places(Node, [buffer EXCEPT ![i] = Append(buffer[i], reading)], {r}),
               Places(Node, buffer, {r}), IF reading = r THEN 1 ELSE 0)
  <1> DEFINE longer == [buffer EXCEPT ![i] = Append(buffer[i], reading)]
  <1>1. Append(buffer[i], reading) = buffer[i] \o <<reading>>
    BY AppendIsConcat
  <1>2. Gains(Node, longer, buffer, i, reading)
    BY <1>1 DEF Gains
  <1> HIDE DEF longer
  <1>3. Grows(Places(Node, longer, {r}), Places(Node, buffer, {r}),
              IF reading \in {r} THEN 1 ELSE 0)
    BY <1>2, PlacesOne
  <1> QED
    BY <1>3 DEF longer

LEMMA BufferEmptied ==
  ASSUME NEW buffer \in [Node -> Seq(Reading)], NEW i \in Node, NEW r
  PROVE  Grows(Places(Node, [buffer EXCEPT ![i] = <<>>], {r}), Places(Node, buffer, {r}),
               IF r \in Content(buffer[i]) THEN -1 ELSE 0)
  <1>1. (\E k \in DOMAIN buffer[i] : buffer[i][k] \in {r}) <=> r \in Content(buffer[i])
    BY DEF Content
  <1> QED
    BY <1>1, PlacesEmptied

-----------------------------------------------------------------------------
(* The entries in the logs and under way *)

\* The entry e is at position n of some log, or some AppendEntries offers it there.
Known ==
  {x \in Nat \X LogEntry :
     \/ \E i \in Node : x[1] \in DOMAIN log[i] /\ log[i][x[1]] = x[2]
     \/ \E s, d \in Node : \E m \in Content(net[s][d]) :
          /\ m.type = "append_entries" /\ x[1] - m.prev_log_index \in DOMAIN m.entries
          /\ m.entries[x[1] - m.prev_log_index] = x[2]}

\* The places, by position and term, of the entries that carry r.
Entered(r) ==
  {p \in Nat \X Nat : \E e \in LogEntry :
     <<p[1], e>> \in Known /\ e.term = p[2] /\ r \in e.command}

\* Nothing was ever done in provisional mode.
NoneProvisional ==
  /\ \A i \in Node : partition_epoch[i] = 0
  /\ \A x \in Known : x[2].epoch = 0
  /\ \A s, d \in Node : \A m \in Content(net[s][d]) : m.type # "reconcile_batch"

LEMMA LogKnown ==
  ASSUME TypeOK, NEW i \in Node, NEW n \in DOMAIN log[i]
  PROVE  <<n, log[i][n]>> \in Known
  <1>1. log[i] \in Seq(LogEntry)
    BY DEF TypeOK
  <1>2. n \in Nat /\ log[i][n] \in LogEntry
    BY <1>1, ElementOfSeq, LenProperties
  <1> QED
    BY <1>2 DEF Known

LEMMA OfferKnown ==
  ASSUME TypeOK, NEW s \in Node, NEW d \in Node, NEW m \in Content(net[s][d]),
         m.type = "append_entries", NEW n \in Nat, n - m.prev_log_index \in DOMAIN m.entries
  PROVE  <<n, m.entries[n - m.prev_log_index]>> \in Known
  <1>1. net[s][d] \in Seq(Message)
    BY DEF TypeOK
  <1>2. m \in Message
    BY <1>1, ElementOfSeq, LenProperties DEF Content
  <1>3. m.entries \in Seq(LogEntry)
    BY <1>2, MessageFields
  <1>4. m.entries[n - m.prev_log_index] \in LogEntry
    BY <1>3, ElementOfSeq, LenProperties
  <1> QED
    BY <1>4 DEF Known

\* A step that publishes copies of a log makes nothing known but what it writes to
\* a log: A stands for that.
LEMMA KnownAfter ==
  ASSUME TypeOK, NEW rest \in Network, NEW i \in Node, Publishes(rest, i, Plain(i)),
         \A v, c \in Node : Content(rest[v][c]) \subseteq Content(net[v][c]),
         NEW A, \A j \in Node : \A n \in DOMAIN log'[j] : <<n, log'[j][n]>> \in Known \cup A
  PROVE  /\ Known' \subseteq Known \cup A
         /\ \A s, d \in Node : \A m \in Content(net'[s][d]) :
              m.type = "reconcile_batch" => m \in Content(net[s][d])
  <1>1. PICK out \in Outboxes(Plain(i)) : Transmit(rest, i, out)
    BY DEF Publishes
  <1>2. Plain(i) \subseteq Message
    BY DEF Plain, Silent, Copies
  <1>3. out \in Outbox
    BY <1>2, WiderOutboxes DEF Outboxes, Outbox
  <1>4. ASSUME NEW s \in Node, NEW d \in Node, NEW m \in Content(net'[s][d])
        PROVE  m \in Content(net[s][d]) \/ m \in Plain(i)
    <2>1. m \in Content(rest[s][d]) \/ m \in Content(out[d])
      BY <1>1, <1>3, TransmitContent
    <2>2. ASSUME m \in Content(out[d]) PROVE m \in Plain(i)
      <3>1. out[d] \in Seq(Plain(i))
        BY DEF Outboxes
      <3> QED
        BY <2>2, <3>1, ElementOfSeq, LenProperties DEF Content
    <2> QED
      BY <2>1, <2>2
  <1>5. ASSUME NEW x \in Known' PROVE x \in Known \cup A
    <2>1. x \in Nat \X LogEntry /\ x = <<x[1], x[2]>> /\ x[1] \in Nat
      BY DEF Known
    <2>2. CASE \E j \in Node : x[1] \in DOMAIN log'[j] /\ log'[j][x[1]] = x[2]
      BY <2>1, <2>2
    <2>3. ASSUME NEW s \in Node, NEW d \in Node, NEW m \in Content(net'[s][d]),
                 m.type = "append_entries", x[1] - m.prev_log_index \in DOMAIN m.entries,
                 m.entries[x[1] - m.prev_log_index] = x[2]
          PROVE  x \in Known \cup A
      <3>1. CASE m \in Content(net[s][d])
        BY <2>1, <2>3, <3>1, OfferKnown
      <3>2. ASSUME NEW lg, m \in Copies(lg)
            PROVE  x[1] \in DOMAIN lg /\ lg[x[1]] = x[2]
        <4>1. m \in Message
          BY <3>2 DEF Copies
        <4>2. m.prev_log_index \in Nat
          BY <2>3, <4>1, MessageFields
        <4>3. m.prev_log_index + (x[1] - m.prev_log_index) = x[1]
          BY <2>1, <4>2
        <4> QED
          BY <2>3, <3>2, <4>3 DEF Copies
      <3>3. CASE m \in Copies(log[i])
        BY <2>1, <3>2, <3>3, LogKnown
      <3>4. CASE m \in Copies(log'[i])
        BY <2>2, <3>2, <3>4
      <3> QED
        BY <1>4, <2>3, <3>1, <3>3, <3>4 DEF Plain, Silent
    <2> QED
      BY <2>2, <2>3 DEF Known
  <1>6. ASSUME NEW m \in Plain(i) PROVE m.type # "reconcile_batch"
    BY DEF Plain, Silent, Copies
  <1> QED
    BY <1>4, <1>5, <1>6

\* The entries that a proposal of cmds adds to the log of i.
Additions(i, cmds) ==
  {<<Len(log[i]) + k, NewEntries(i, cmds)[k]>> : k \in DOMAIN cmds}

LEMMA ExtendedEntries ==
  ASSUME TypeOK, NEW i \in Node, NEW cmds \in Seq(Command),
         log' = [log EXCEPT ![i] = Extended(i, cmds)],
         NEW j \in Node, NEW n \in DOMAIN log'[j]
  PROVE  <<n, log'[j][n]>> \in Known \cup Additions(i, cmds)
  <1> DEFINE lg == log[i]
             new == NewEntries(i, cmds)
             longer == Extended(i, cmds)
  <1>1. /\ lg \in Seq(LogEntry) /\ Len(lg) \in Nat /\ DOMAIN lg = 1 .. Len(lg)
        /\ Len(cmds) \in Nat /\ DOMAIN cmds = 1 .. Len(cmds)
    BY LenProperties DEF TypeOK
  <1>2. longer \in Seq(LogEntry) /\ Len(longer) = Len(lg) + Len(cmds)
    BY ExtendedType
  <1>3. longer = lg \o new /\ Len(new) = Len(cmds)
    BY <1>1 DEF Extended, NewEntries
  <1>4. /\ \A k \in 1 .. Len(lg) : longer[k] = lg[k]
        /\ \A k \in Len(lg) + 1 .. Len(longer) : longer[k] = new[k - Len(lg)]
    BY <1>1, <1>2, <1>3
  <1>5. CASE j # i
    <2>1. log'[j] = log[j]
      BY <1>5 DEF TypeOK
    <2> QED
      BY <2>1, LogKnown
  <1>6. CASE j = i
    <2>1. log'[j] = longer
      BY <1>6 DEF TypeOK
    <2> HIDE DEF lg, new, longer
    <2>2. n \in 1 .. Len(longer)
      BY <1>2, <2>1, LenProperties
    <2>3. CASE n \in 1 .. Len(lg)
      BY <1>1, <1>4, <1>6, <2>1, <2>3, LogKnown DEF lg
    <2>4. CASE n \notin 1 .. Len(lg)
      <3>1. /\ n \in Len(lg) + 1 .. Len(longer) /\ n - Len(lg) \in DOMAIN cmds
            /\ Len(lg) + (n - Len(lg)) = n
        BY <1>1, <1>2, <2>2, <2>4
      <3>2. log'[j][n] = new[n - Len(lg)]
        BY <1>4, <2>1, <3>1
      <3> QED
        BY <3>1, <3>2 DEF Additions, lg, new
    <2> QED
      BY <2>3, <2>4
  <1> QED
    BY <1>5, <1>6

LEMMA MergedKnown ==
  ASSUME TypeOK, NEW i \in Node, NEW s \in Node, NEW m \in Content(net[s][i]), m \in Message,
         m.type = "append_entries", Consistent(log[i], m.prev_log_index, m.prev_log_term),
         log' = [log EXCEPT ![i] = Merged(log[i], m.prev_log_index, m.entries)],
         NEW j \in Node, NEW n \in DOMAIN log'[j]
  PROVE  <<n, log'[j][n]>> \in Known
  <1> DEFINE prev == m.prev_log_index
             merged == Merged(log[i], prev, m.entries)
  <1>1. /\ log[i] \in Seq(LogEntry) /\ Len(log[i]) \in Nat
        /\ prev \in Nat /\ m.entries \in Seq(LogEntry)
    BY MessageFields, LenProperties DEF TypeOK
  <1>2. prev <= Len(log[i])
    BY <1>1 DEF Consistent
  <1>3. CASE j # i
    <2>1. log'[j] = log[j]
      BY <1>3 DEF TypeOK
    <2> QED
      BY <2>1, LogKnown
  <1>4. CASE j = i
    <2>1. log'[j] = merged
      BY <1>4 DEF TypeOK
    <2>2. merged \in Seq(LogEntry)
      BY <1>1, <1>2, MergeIsSeq
    <2> HIDE DEF prev
    <2>3. \/ n \in DOMAIN log[i] /\ merged[n] = log[i][n]
          \/ n - prev \in DOMAIN m.entries /\ merged[n] = m.entries[n - prev]
      BY <1>1, <1>2, <2>1, MergedEntries
    <2> HIDE DEF merged
    <2>4. n \in Nat
      BY <2>1, <2>2, LenProperties
    <2> QED
      BY <1>1, <2>1, <2>3, <2>4, LogKnown, OfferKnown DEF prev
  <1> QED
    BY <1>3, <1>4

-----------------------------------------------------------------------------
(* What a step does to the places of a reading *)

Moves(r, u, w, b, p) ==
  /\ Grows(UnderWay(r)', UnderWay(r), u)
  /\ Grows(Pending(r)', Pending(r), w)
  /\ Grows(Batched(r)', Batched(r), b)
  /\ Grows(Entered(r)', Entered(r), p)

\* A step that makes no more places of any reading than new reports are made, and
\* does nothing in provisional mode.
ReportsKept ==
  /\ NoneProvisional'
  /\ \A r \in Reading : \E u, w, b, p \in Int :
       Moves(r, u, w, b, p) /\ u + w + b + p <= reports' - reports

\* What is left of the channels when messages are taken, not published.
Drained(rest) ==
  /\ rest \in Network
  /\ \A v, c \in Node : Content(rest[v][c]) \subseteq Content(net[v][c])
  /\ \A r : Grows(ReportsIn(rest, r), UnderWay(r), 0)

\* The logs after a proposal of cmds, or of nothing, by i.
Writes(i, cmds) ==
  \A j \in Node : \A n \in DOMAIN log'[j] : <<n, log'[j][n]>> \in Known \cup Additions(i, cmds)

\* The places that such a proposal gives r.
NewPlaces(i, cmds, r) ==
  {<<Len(log[i]) + k, current_term[i]>> : k \in {n \in DOMAIN cmds : r \in cmds[n]}}

LEMMA NetDrained == ASSUME TypeOK PROVE Drained(net)
  <1>1. net \in Network
    BY DEF TypeOK, Network
  <1>2. \A r : Grows(ReportsIn(net, r), UnderWay(r), 0)
    BY GrowsSubset DEF UnderWay
  <1> QED
    BY <1>1, <1>2 DEF Drained

LEMMA UnreadDrained ==
  ASSUME TypeOK, NEW s \in Node, NEW d \in Node, net[s][d] # <<>>
  PROVE  Drained(Unread(s, d))
  <1>1. net \in Network
    BY DEF TypeOK, Network
  <1> QED
    BY <1>1, UnreadType, UnreadContent, UnreadReports DEF Drained

LEMMA UnpublishedSilent ==
  ASSUME NEW rest \in Network, net' = rest, NEW i \in Node, NEW S
  PROVE  Publishes(rest, i, S)
  <1>1. ASSUME NEW d \in Node PROVE rest[i][d] \o <<>> = rest[i][d]
    BY ConcatEmptySeq DEF Network
  <1>2. Then(rest[i], Nothing) = rest[i]
    BY <1>1 DEF Then, Nothing, Network
  <1>3. Transmit(rest, i, Nothing)
    BY <1>2 DEF Transmit, Network
  <1> QED
    BY <1>3, NothingIn DEF Publishes

LEMMA WritesEntered ==
  ASSUME TypeOK, NoneProvisional, partition_epoch' = partition_epoch,
         NEW rest, Drained(rest), NEW i \in Node, Publishes(rest, i, Plain(i)),
         NEW cmds \in Seq(Command), Writes(i, cmds)
  PROVE  /\ NoneProvisional'
         /\ \A r : Entered(r)' \subseteq Entered(r) \cup NewPlaces(i, cmds, r)
  <1>1. /\ Known' \subseteq Known \cup Additions(i, cmds)
        /\ \A s, d \in Node : \A m \in Content(net'[s][d]) :
             m.type = "reconcile_batch" => m \in Content(net[s][d])
    BY KnownAfter DEF Drained, Writes
  <1>2. ASSUME NEW x \in Additions(i, cmds)
        PROVE  \E k \in DOMAIN cmds :
                 /\ x[1] = Len(log[i]) + k /\ x[2].term = current_term[i]
                 /\ x[2].command = cmds[k] /\ x[2].epoch = partition_epoch[i]
    <2>1. PICK k \in DOMAIN cmds : x = <<Len(log[i]) + k, NewEntries(i, cmds)[k]>>
      BY DEF Additions
    <2> QED
      BY <2>1 DEF NewEntries
  <1>3. NoneProvisional'
    BY <1>1, <1>2 DEF NoneProvisional
  <1>4. ASSUME NEW r, NEW p \in Entered(r)'
        PROVE  p \in Entered(r) \cup NewPlaces(i, cmds, r)
    <2>1. p \in Nat \X Nat /\ p = <<p[1], p[2]>>
      BY DEF Entered
    <2>2. PICK e \in LogEntry : <<p[1], e>> \in Known' /\ e.term = p[2] /\ r \in e.command
      BY DEF Entered
    <2>3. CASE <<p[1], e>> \in Known
      BY <2>1, <2>2, <2>3 DEF Entered
    <2>4. CASE <<p[1], e>> \in Additions(i, cmds)
      <3>1. PICK k \in DOMAIN cmds :
              p[1] = Len(log[i]) + k /\ e.term = current_term[i] /\ e.command = cmds[k]
        BY <1>2, <2>4
      <3> QED
        BY <2>1, <2>2, <3>1 DEF NewPlaces
    <2> QED
      BY <1>1, <2>2, <2>3, <2>4
  <1> QED
    BY <1>3, <1>4

LEMMA NoneAdded ==
  ASSUME NEW i
  PROVE  /\ <<>> \in Seq(Command) /\ Additions(i, <<>>) = {}
         /\ \A r : NewPlaces(i, <<>>, r) = {}
  <1>1. <<>> \in Seq(Command) /\ DOMAIN <<>> = {}
    BY EmptySeq
  <1> QED
    BY <1>1 DEF Additions, NewPlaces

\* A step that changes none of it.
LEMMA UnchangedKept ==
  ASSUME TypeOK, NoneProvisional,
         UNCHANGED <<net, log, pending_triggers, batch_buffer, reports>>,
         \A i \in Node : partition_epoch'[i] = 0
  PROVE  ReportsKept
  <1>1. Known' = Known
    BY DEF Known
  <1>2. NoneProvisional'
    BY <1>1 DEF NoneProvisional
  <1>3. ASSUME NEW r PROVE Moves(r, 0, 0, 0, 0)
    <2>1. /\ UnderWay(r)' = UnderWay(r) /\ Pending(r)' = Pending(r)
          /\ Batched(r)' = Batched(r) /\ Entered(r)' = Entered(r)
      BY <1>1 DEF UnderWay, Pending, Batched, Entered
    <2> QED
      BY <2>1, GrowsSubset DEF Moves
  <1>4. 0 + 0 + 0 + 0 <= reports' - reports
    BY DEF TypeOK
  <1> QED
    BY <1>2, <1>3, <1>4 DEF ReportsKept

\* A step that publishes no report and proposes nothing.
Hushed(rest, i) ==
  /\ Drained(rest) /\ Publishes(rest, i, Silent(i))
  /\ UNCHANGED <<pending_triggers, batch_buffer, reports, partition_epoch>>
  /\ \A j \in Node : \A n \in DOMAIN log'[j] : <<n, log'[j][n]>> \in Known

LEMMA SilentIsPlain ==
  ASSUME NEW rest, NEW i, Publishes(rest, i, Silent(i))
  PROVE  Publishes(rest, i, Plain(i))
  <1>1. Silent(i) \subseteq Plain(i)
    BY DEF Plain
  <1> QED
    BY <1>1, WiderOutboxes DEF Publishes

LEMMA SilentMoves ==
  ASSUME NEW rest, Drained(rest), NEW i \in Node, Publishes(rest, i, Silent(i)), NEW r
  PROVE  Grows(UnderWay(r)', UnderWay(r), 0)
  <1>1. Grows(ReportsIn(net', r), ReportsIn(rest, r), 0)
    BY SilentSent DEF Drained
  <1>2. Grows(ReportsIn(rest, r), UnderWay(r), 0)
    BY DEF Drained
  <1>3. Grows(ReportsIn(net', r), UnderWay(r), 0 + 0)
    BY <1>1, <1>2, GrowsThen
  <1>4. UnderWay(r)' = ReportsIn(net', r)
    BY DEF UnderWay, ReportsIn
  <1> QED
    BY <1>3, <1>4

LEMMA HushedKept ==
  ASSUME TypeOK, NoneProvisional, NEW rest, NEW i \in Node, Hushed(rest, i)
  PROVE  ReportsKept
  <1>1. Writes(i, <<>>)
    BY DEF Hushed, Writes
  <1>2. NoneProvisional' /\ \A r : Entered(r)' \subseteq Entered(r) \cup NewPlaces(i, <<>>, r)
    BY <1>1, NoneAdded, SilentIsPlain, WritesEntered DEF Hushed
  <1>3. ASSUME NEW r PROVE Moves(r, 0, 0, 0, 0)
    <2>1. Grows(UnderWay(r)', UnderWay(r), 0)
      BY SilentMoves DEF Hushed
    <2>2. Pending(r)' = Pending(r) /\ Batched(r)' = Batched(r)
      BY DEF Hushed, Pending, Batched
    <2>3. Entered(r)' \subseteq Entered(r)
      BY <1>2, NoneAdded
    <2> QED
      BY <2>1, <2>2, <2>3, GrowsSubset DEF Moves
  <1>4. 0 + 0 + 0 + 0 <= reports' - reports
    BY DEF TypeOK, Hushed
  <1> QED
    BY <1>2, <1>3, <1>4 DEF ReportsKept

-----------------------------------------------------------------------------
(* The steps that have nothing to do with reports *)

\* A step that writes no log.
LEMMA WritesNoLog ==
  ASSUME TypeOK, NEW rest, Drained(rest), NEW i \in Node, Publishes(rest, i, Silent(i)),
         UNCHANGED <<log, pending_triggers, batch_buffer, reports, partition_epoch>>
  PROVE  Hushed(rest, i)
  BY LogKnown DEF Hushed

LEMMA QuietHushed ==
  ASSUME TypeOK, NEW rest, Drained(rest), NEW i \in Node,
         net' = rest \/ Transmit(rest, i, Nothing),
         UNCHANGED <<log, pending_triggers, batch_buffer, reports, partition_epoch>>
  PROVE  Hushed(rest, i)
  <1>1. Publishes(rest, i, Silent(i))
    BY UnpublishedSilent, NothingIn DEF Drained, Publishes
  <1> QED
    BY <1>1, WritesNoLog

LEMMA StartElectionHushed ==
  ASSUME TypeOK, NEW rest, Drained(rest), NEW i \in Node, NEW term \in Nat,
         StartElection(rest, i, term),
         UNCHANGED <<log, pending_triggers, batch_buffer, reports, partition_epoch>>
  PROVE  Hushed(rest, i)
  <1> DEFINE m == [type |-> "request_vote", term |-> term + 1,
                   last_log_index |-> Len(log[i]), last_log_term |-> LastTerm(log[i]),
                   battery_level |-> battery[i]]
  <1>1. log[i] \in Seq(LogEntry) /\ battery[i] \in Levels
    BY DEF TypeOK
  <1>2. Len(log[i]) \in Nat /\ LastTerm(log[i]) \in Nat
    BY <1>1, LenProperties, TermOfLogType
  <1>3. m \in Silent(i)
    BY <1>1, <1>2 DEF Message, Silent
  <1>4. Transmit(rest, i, ToPeers(i, m))
    BY DEF StartElection
  <1> HIDE DEF m
  <1>5. Publishes(rest, i, Silent(i))
    BY <1>3, <1>4, ToPeersIn DEF Publishes
  <1> QED
    BY <1>5, WritesNoLog

LEMMA TickHushed ==
  ASSUME TypeOK, NEW i \in Node, Tick(i), ~EchodLeaderTick(i)
  PROVE  Hushed(net, i)
  <1>1. Drained(net) /\ current_term[i] \in Nat /\ next_index[i] \in [Node -> Nat \ {0}]
    BY NetDrained DEF TypeOK
  <1>2. CASE IdleTick(i)
    BY <1>1, <1>2, QuietHushed DEF IdleTick, replicationVars, triggerVars, partitionVars
  <1>3. CASE ElectionTimeout(i)
    BY <1>1, <1>3, StartElectionHushed
    DEF ElectionTimeout, replicationVars, triggerVars, partitionVars
  <1>4. CASE RaftLeaderTick(i)
    <2>1. Publishes(net, i, Silent(i))
      BY <1>1, <1>4, HeartbeatsSilent DEF RaftLeaderTick, Publishes
    <2> QED
      BY <1>1, <1>4, <2>1, WritesNoLog
      DEF RaftLeaderTick, replicationVars, triggerVars, partitionVars
  <1>5. CASE EchoLeaderTick(i)
    <2>1. Publishes(net, i, Silent(i))
      BY <1>1, <1>5, PingSilent DEF EchoLeaderTick, Publishes
    <2> QED
      BY <1>1, <1>5, <2>1, WritesNoLog
      DEF EchoLeaderTick, replicationVars, triggerVars, partitionVars
  <1> QED
    BY <1>2, <1>3, <1>4, <1>5 DEF Tick

LEMMA HandleRequestVoteHushed ==
  ASSUME TypeInv, NEW i \in Node, NEW s \in Node, HandleRequestVote(i, s),
         Drained(Unread(s, i))
  PROVE  Hushed(Unread(s, i), i)
  <1> DEFINE m == Head(net[s][i])
             answer == [type |-> "vote_response", term |-> TermAfter(i, m.term),
                        vote_granted |-> Grants(i, s, m), voter_battery |-> battery[i]]
  <1>1. TypeOK /\ m \in Message /\ m.type = "request_vote"
    BY ArrivesType DEF TypeInv, HandleRequestVote
  <1>2. TermAfter(i, m.term) \in Nat /\ Grants(i, s, m) \in BOOLEAN /\ battery[i] \in Levels
    BY <1>1, MessageFields, StepDownType DEF Grants, TypeOK
  <1>3. answer \in Silent(i)
    BY <1>2 DEF Message, Silent
  <1>4. Transmit(Unread(s, i), i, Only(s, <<answer>>))
    BY DEF HandleRequestVote
  <1> HIDE DEF answer
  <1>5. Publishes(Unread(s, i), i, Silent(i))
    BY <1>3, <1>4, OnlyIn DEF Publishes
  <1> QED
    BY <1>1, <1>5, WritesNoLog
    DEF HandleRequestVote, replicationVars, triggerVars, partitionVars

\* What a merge cuts off was not appended in provisional mode.
LEMMA NothingToReplay ==
  ASSUME TypeOK, NoneProvisional, NEW i \in Node, NEW prev \in Nat, NEW es \in Seq(LogEntry),
         prev <= Len(log[i])
  PROVE  {k \in DOMAIN Truncated(log[i], prev, es) :
            Truncated(log[i], prev, es)[k].epoch # 0} = {}
  <1> DEFINE kept == Kept(log[i], prev, es)
             cut == Truncated(log[i], prev, es)
  <1>1. log[i] \in Seq(LogEntry) /\ Len(log[i]) \in Nat
    BY LenProperties DEF TypeOK
  <1>2. kept \in Nat
    BY <1>1, KeptBounds, LenProperties
  <1>3. cut = Suffix(log[i], kept)
    BY DEF Truncated
  <1> HIDE DEF kept, cut
  <1>4. ASSUME NEW k \in DOMAIN cut PROVE cut[k].epoch = 0
    <2>1. k + kept \in DOMAIN log[i] /\ cut[k] = log[i][k + kept]
      BY <1>1, <1>2, <1>3, SuffixEntries
    <2>2. <<k + kept, cut[k]>> \in Known
      BY <2>1, LogKnown
    <2> QED
      BY <2>2 DEF NoneProvisional
  <1> QED
    BY <1>4 DEF cut

LEMMA HandleAppendEntriesHushed ==
  ASSUME TypeInv, NoneProvisional, NEW i \in Node, NEW s \in Node, HandleAppendEntries(i, s),
         Drained(Unread(s, i))
  PROVE  Hushed(Unread(s, i), i)
  <1> DEFINE m == Head(net[s][i])
             answer(term, success, index) == AppendResponse(i, term, success, index)
  <1>1. /\ TypeOK /\ m \in Message /\ m.type = "append_entries"
        /\ net \in Network /\ net[s][i] # <<>>
    BY ArrivesType DEF TypeInv, HandleAppendEntries, Arrives, TypeOK, Network
  <1>2. /\ m.term \in Nat /\ TermAfter(i, m.term) \in Nat /\ m.prev_log_index \in Nat
        /\ m.entries \in Seq(LogEntry) /\ m \in Content(net[s][i])
        /\ log[i] \in Seq(LogEntry) /\ Len(log[i]) \in Nat
    BY <1>1, MessageFields, StepDownType, UnreadContent, LenProperties DEF TypeOK
  <1>3. ASSUME NEW term \in Nat, NEW success \in BOOLEAN, NEW index \in Nat,
               Transmit(Unread(s, i), i, Only(s, <<answer(term, success, index)>>))
        PROVE  Publishes(Unread(s, i), i, Silent(i))
    <2>1. /\ answer(term, success, index) \in Message
          /\ answer(term, success, index).type = "append_response"
      BY <1>1, AppendResponseType DEF AppendResponse
    <2>2. answer(term, success, index) \in Silent(i)
      BY <2>1 DEF Silent
    <2> HIDE DEF answer
    <2> QED
      BY <1>3, <2>2, OnlyIn DEF Publishes
  <1>4. UNCHANGED <<pending_triggers, batch_buffer, reports, partition_epoch>>
    BY DEF HandleAppendEntries, triggerVars, partitionVars
  <1>5. CASE /\ Transmit(Unread(s, i), i, Only(s, <<answer(TermAfter(i, m.term), FALSE, 0)>>))
             /\ UNCHANGED log
    <2>1. Publishes(Unread(s, i), i, Silent(i))
      BY <1>2, <1>3, <1>5
    <2> QED
      BY <1>1, <1>4, <1>5, <2>1, WritesNoLog
  <1>6. CASE /\ MergeEntries(Unread(s, i), i, s, m)
             /\ Consistent(log[i], m.prev_log_index, m.prev_log_term)
    <2> DEFINE merged == Merged(log[i], m.prev_log_index, m.entries)
    <2>1. m.prev_log_index <= Len(log[i])
      BY <1>2, <1>6 DEF Consistent
    <2>2. /\ log' = [log EXCEPT ![i] = merged]
          /\ Transmit(Unread(s, i), i, Only(s, <<answer(m.term, TRUE, Len(merged))>>))
      BY <1>1, <1>2, <1>6, <2>1, NothingToReplay DEF MergeEntries
    <2>3. Len(merged) \in Nat
      BY <1>2, <2>1, MergeIsSeq, LenProperties
    <2> HIDE DEF answer
    <2>4. Publishes(Unread(s, i), i, Silent(i))
      BY <1>2, <1>3, <2>2, <2>3
    <2> HIDE DEF m
    <2>5. \A j \in Node : \A n \in DOMAIN log'[j] : <<n, log'[j][n]>> \in Known
      BY <1>1, <1>2, <1>6, <2>2, MergedKnown
    <2> QED
      BY <1>4, <2>4, <2>5 DEF Hushed
  <1> QED
    BY <1>5, <1>6 DEF HandleAppendEntries

\* Only a report and the votes that make a leader do more.
LEMMA ReceiveHushed ==
  ASSUME TypeInv, NoneProvisional, NEW i \in Node, NEW s \in Node, Receive(i, s),
         ~HandleSensorData(i, s)
  PROVE  \/ Hushed(Unread(s, i), i)
         \/ /\ HandleVoteResponse(i, s)
            /\ \E ballots : BecomeLeader(Unread(s, i), i, ballots)
  <1> DEFINE m == Head(net[s][i])
             rest == Unread(s, i)
  <1>1. TypeOK /\ net[s][i] # <<>>
    BY DEF TypeInv, Receive, HandleRequestVote, HandleVoteResponse, HandleAppendEntries,
           HandleAppendResponse, HandleLivenessPing, HandleLeadershipHandoff,
           HandleReconcileBatch, Arrives
  <1>2. Drained(rest)
    BY <1>1, UnreadDrained
  <1>3. net \in Network /\ m \in Message /\ m \in Content(net[s][i])
    BY <1>1, UnreadType, UnreadContent DEF TypeOK, Network
  <1>4. CASE HandleVoteResponse(i, s)
    <2>1. \/ \E ballots : BecomeLeader(rest, i, ballots)
          \/ /\ Transmit(rest, i, Nothing)
             /\ UNCHANGED <<log, pending_triggers, batch_buffer, reports, partition_epoch>>
      BY <1>4 DEF HandleVoteResponse, partitionVars
    <2> HIDE DEF rest
    <2> QED
      BY <1>1, <1>2, <1>4, <2>1, QuietHushed DEF rest
  <1>5. CASE HandleAppendResponse(i, s)
    BY <1>1, <1>2, <1>5, QuietHushed DEF HandleAppendResponse, triggerVars, partitionVars
  <1>6. CASE HandleLivenessPing(i, s)
    BY <1>1, <1>2, <1>6, QuietHushed
    DEF HandleLivenessPing, replicationVars, triggerVars, partitionVars
  <1>7. CASE HandleLeadershipHandoff(i, s)
    <2>1. m.type = "leadership_handoff"
      BY <1>7 DEF HandleLeadershipHandoff, Arrives
    <2>2. m.term \in Nat
      BY <1>3, <2>1, MessageFields
    <2>3. TermAfter(i, m.term) \in Nat
      BY <2>2, StepDownType
    <2>4. /\ UNCHANGED <<log, pending_triggers, batch_buffer, reports, partition_epoch>>
          /\ \/ StartElection(rest, i, TermAfter(i, m.term))
             \/ Transmit(rest, i, Nothing)
      BY <1>7 DEF HandleLeadershipHandoff, replicationVars, triggerVars, partitionVars
    <2> HIDE DEF rest, m
    <2>5. Hushed(rest, i)
      BY <1>1, <1>2, <2>3, <2>4, QuietHushed, StartElectionHushed
    <2> QED
      BY <2>5 DEF rest
  <1>8. ~HandleReconcileBatch(i, s)
    BY <1>3 DEF HandleReconcileBatch, Arrives, NoneProvisional
  <1> QED
    BY <1>2, <1>4, <1>5, <1>6, <1>7, <1>8, HandleRequestVoteHushed, HandleAppendEntriesHushed
    DEF Receive

-----------------------------------------------------------------------------
(* The steps that take, keep or propose a report *)

\* A step that writes the log of i, or no log when cmds is empty.
LEMMA ProposedEntered ==
  ASSUME TypeOK, NoneProvisional, partition_epoch' = partition_epoch,
         NEW rest, Drained(rest), NEW i \in Node, Publishes(rest, i, Silent(i)),
         NEW cmds \in Seq(Command), log' = [log EXCEPT ![i] = Extended(i, cmds)]
  PROVE  /\ NoneProvisional'
         /\ \A r : Entered(r)' \subseteq Entered(r) \cup NewPlaces(i, cmds, r)
  <1>1. Writes(i, cmds)
    BY ExtendedEntries DEF Writes
  <1> QED
    BY <1>1, SilentIsPlain, WritesEntered

LEMMA SameLogEntered ==
  ASSUME TypeOK, NoneProvisional, UNCHANGED <<partition_epoch, log>>,
         NEW rest, Drained(rest), NEW i \in Node, Publishes(rest, i, Plain(i))
  PROVE  /\ NoneProvisional'
         /\ \A r : Grows(Entered(r)', Entered(r), 0)
  <1>1. Writes(i, <<>>)
    BY LogKnown DEF Writes
  <1>2. /\ NoneProvisional'
        /\ \A r : Entered(r)' \subseteq Entered(r) \cup NewPlaces(i, <<>>, r)
    BY <1>1, NoneAdded, WritesEntered
  <1> QED
    BY <1>2, NoneAdded, GrowsSubset

\* A proposal of one command gives a place to each of its readings.
LEMMA OneProposed ==
  ASSUME NEW i, NEW c, NEW r, Entered(r)' \subseteq Entered(r) \cup NewPlaces(i, <<c>>, r)
  PROVE  Grows(Entered(r)', Entered(r), IF r \in c THEN 1 ELSE 0)
  <1> DEFINE place == <<Len(log[i]) + 1, current_term[i]>>
  <1>1. DOMAIN <<c>> = {1} /\ <<c>>[1] = c
    OBVIOUS
  <1>2. CASE r \in c
    <2>1. Entered(r)' \subseteq Entered(r) \cup {place}
      BY <1>1 DEF NewPlaces
    <2>2. Grows(Entered(r)', Entered(r), 1)
      BY <2>1, GrowsAdd
    <2> QED
      BY <1>2, <2>2
  <1>3. CASE r \notin c
    <2>1. Entered(r)' \subseteq Entered(r)
      BY <1>1, <1>3 DEF NewPlaces
    <2>2. Grows(Entered(r)', Entered(r), 0)
      BY <2>1, GrowsSubset
    <2> QED
      BY <1>3, <2>2
  <1> QED
    BY <1>2, <1>3

LEMMA EchodTickPublishes ==
  ASSUME TypeOK, NEW i \in Node, EchodLeaderTick(i)
  PROVE  \E flush \in BOOLEAN :
           LET batch == IF flush THEN <<Content(batch_buffer[i])>> ELSE <<>>
           IN  /\ batch \in Seq(Command)
               /\ log' = [log EXCEPT ![i] = Extended(i, batch)]
               /\ batch_buffer' = [batch_buffer EXCEPT ![i] = IF flush THEN <<>> ELSE @]
               /\ Publishes(net, i, Silent(i))
  <1> DEFINE batch(flush) == IF flush THEN <<Content(batch_buffer[i])>> ELSE <<>>
             rounds(flush) == Rounds(i, batch(flush), next_index[i])
             pings(ping) == IF ping THEN ToPeers(i, Ping(i, current_term[i])) ELSE Nothing
             m == [type |-> "leadership_handoff", term |-> current_term[i]]
  <1>1. /\ current_term[i] \in Nat /\ log \in [Node -> Seq(LogEntry)]
        /\ next_index[i] \in [Node -> Nat \ {0}] /\ batch_buffer[i] \in Seq(Reading)
    BY DEF TypeOK
  <1>2. PICK flush \in BOOLEAN, ping \in BOOLEAN :
          /\ log' = [log EXCEPT ![i] = Extended(i, batch(flush))]
          /\ batch_buffer' = [batch_buffer EXCEPT ![i] = IF flush THEN Flushed(@) ELSE @]
          /\ \/ Transmit(net, i, Then(rounds(flush), pings(ping)))
             \/ \E p \in Successors(i) :
                  Transmit(net, i, Then(Then(rounds(flush), pings(ping)), Only(p, <<m>>)))
    BY DEF EchodLeaderTick
  <1>3. batch(flush) \in Seq(Command)
    BY <1>1, ContentType, EmptySeq
  <1>4. log'[i] = Extended(i, batch(flush))
    BY <1>1, <1>2
  <1>5. m \in Silent(i)
    BY <1>1, HandoffType DEF Silent
  <1> HIDE DEF m, batch
  <1>6. rounds(flush) \in Outboxes(Silent(i)) /\ pings(ping) \in Outboxes(Silent(i))
    BY <1>1, <1>3, <1>4, RoundsSilent, PingSilent, NothingIn
  <1> HIDE DEF rounds, pings
  <1>7. Then(rounds(flush), pings(ping)) \in Outboxes(Silent(i))
    BY <1>6, ThenIn
  <1>8. Publishes(net, i, Silent(i))
    BY <1>2, <1>5, <1>7, OnlyIn, ThenIn DEF Publishes
  <1> QED
    BY <1>2, <1>3, <1>8 DEF batch, Flushed

LEMMA EchodLeaderTickKept ==
  ASSUME TypeOK, NoneProvisional, NEW i \in Node, EchodLeaderTick(i)
  PROVE  ReportsKept
  <1> DEFINE batch(flush) == IF flush THEN <<Content(batch_buffer[i])>> ELSE <<>>
  <1>1. UNCHANGED <<pending_triggers, reports, partition_epoch>> /\ Drained(net)
    BY NetDrained DEF EchodLeaderTick, partitionVars
  <1>2. PICK flush \in BOOLEAN :
          /\ batch(flush) \in Seq(Command)
          /\ log' = [log EXCEPT ![i] = Extended(i, batch(flush))]
          /\ batch_buffer' = [batch_buffer EXCEPT ![i] = IF flush THEN <<>> ELSE @]
          /\ Publishes(net, i, Silent(i))
    BY EchodTickPublishes
  <1> HIDE DEF batch
  <1>3. /\ NoneProvisional'
        /\ \A r : Entered(r)' \subseteq Entered(r) \cup NewPlaces(i, batch(flush), r)
    BY <1>1, <1>2, ProposedEntered
  <1>4. ASSUME NEW r
        PROVE  /\ Grows(UnderWay(r)', UnderWay(r), 0) /\ Grows(Pending(r)', Pending(r), 0)
    <2>1. Pending(r)' = Pending(r)
      BY <1>1 DEF Pending
    <2> QED
      BY <1>1, <1>2, <2>1, SilentMoves, GrowsSubset
  <1>5. batch_buffer \in [Node -> Seq(Reading)] /\ reports' - reports = 0
    BY <1>1 DEF TypeOK
  <1>6. CASE flush
    <2>1. ASSUME NEW r
          PROVE  \E u, w, b, p \in Int :
                   Moves(r, u, w, b, p) /\ u + w + b + p <= reports' - reports
      <3> DEFINE b == IF r \in Content(batch_buffer[i]) THEN -1 ELSE 0
                 p == IF r \in Content(batch_buffer[i]) THEN 1 ELSE 0
      <3>1. batch(flush) = <<Content(batch_buffer[i])>>
        BY <1>6 DEF batch
      <3>2. Grows(Entered(r)', Entered(r), p)
        BY <1>3, <3>1, OneProposed
      <3>3. Grows(Batched(r)', Batched(r), b)
        BY <1>2, <1>5, <1>6, BufferEmptied DEF Batched
      <3>4. b \in Int /\ p \in Int /\ 0 + 0 + b + p <= reports' - reports
        BY <1>5
      <3> HIDE DEF b, p
      <3>5. Moves(r, 0, 0, b, p)
        BY <1>4, <3>2, <3>3 DEF Moves
      <3> QED
        BY <3>4, <3>5
    <2> QED
      BY <1>3, <2>1 DEF ReportsKept
  <1>7. CASE ~flush
    <2>1. ASSUME NEW r PROVE Moves(r, 0, 0, 0, 0)
      <3>1. batch(flush) = <<>>
        BY <1>7 DEF batch
      <3>2. Entered(r)' \subseteq Entered(r)
        BY <1>3, <3>1, NoneAdded
      <3>3. Batched(r)' = Batched(r)
        BY <1>2, <1>5, <1>7 DEF Batched
      <3> QED
        BY <1>4, <3>2, <3>3, GrowsSubset DEF Moves
    <2>2. 0 + 0 + 0 + 0 <= reports' - reports
      BY <1>5
    <2> QED
      BY <1>3, <2>1, <2>2 DEF ReportsKept
  <1> QED
    BY <1>6, <1>7

\* What handling a report of reading r takes from a network rest and adds.
MovesFrom(rest, r, u, w, b, p) ==
  /\ Grows(UnderWay(r)', ReportsIn(rest, r), u)
  /\ Grows(Pending(r)', Pending(r), w)
  /\ Grows(Batched(r)', Batched(r), b)
  /\ Grows(Entered(r)', Entered(r), p)

\* The report is forwarded, kept, dropped, proposed or batched: it has one place
\* afterwards, or none.
TakenOnce(rest, reading) ==
  /\ NoneProvisional'
  /\ \A r : \E u, w, b, p \in Int :
       MovesFrom(rest, r, u, w, b, p) /\ u + w + b + p <= IF reading = r THEN 1 ELSE 0

LEMMA TakeReadingMoves ==
  ASSUME TypeOK, NoneProvisional, NEW i \in Node, NEW rest, Drained(rest),
         NEW reading \in Reading, TakeReading(rest, i, reading)
  PROVE  TakenOnce(rest, reading)
  <1> DEFINE m == [type |-> "sensor_data", reading |-> reading]
             batch == Append(batch_buffer[i], reading)
             one(r) == IF reading = r THEN 1 ELSE 0
             held(r) == IF r \in Content(batch_buffer[i]) THEN -1 ELSE 0
  <1>1. /\ UNCHANGED partition_epoch /\ rest \in Network
        /\ pending_triggers \in [Node -> Seq(Reading)] /\ batch_buffer \in [Node -> Seq(Reading)]
        /\ batch_buffer[i] \in Seq(Reading)
    BY DEF TakeReading, partitionVars, Drained, TypeOK
  <1>2. batch \in Seq(Reading) /\ Content(batch) = Content(batch_buffer[i]) \cup {reading}
    <2>1. batch = batch_buffer[i] \o <<reading>> /\ <<reading>> \in Seq(Reading)
      BY <1>1, AppendIsConcat
    <2>2. Content(<<reading>>) = {reading}
      BY ContentOfShort
    <2>3. Content(batch_buffer[i] \o <<reading>>)
            = Content(batch_buffer[i]) \cup Content(<<reading>>)
      BY <1>1, <2>1, ContentOfConcat
    <2>4. batch \in Seq(Reading)
      BY <1>1, AppendProperties
    <2> QED
      BY <2>1, <2>2, <2>3, <2>4
  <1>3. <<{reading}>> \in Seq(Command) /\ <<Content(batch)>> \in Seq(Command)
    <2>1. {reading} \in Command
      BY DEF Command
    <2>2. Content(batch) \in Command
      BY <1>2, ContentType
    <2> QED
      BY <2>1, <2>2
  <1>4. ASSUME Transmit(rest, i, Nothing)
        PROVE  /\ Publishes(rest, i, Silent(i)) /\ Publishes(rest, i, Plain(i))
               /\ \A r : Grows(UnderWay(r)', ReportsIn(rest, r), 0)
    <2>1. Publishes(rest, i, Silent(i))
      BY <1>4, NothingIn DEF Publishes
    <2>2. \A r : UnderWay(r)' = ReportsIn(net', r)
      BY DEF UnderWay, ReportsIn
    <2> QED
      BY <1>1, <2>1, <2>2, SilentIsPlain, SilentSent
  <1>5. UNCHANGED pending_triggers => \A r : Grows(Pending(r)', Pending(r), 0)
    BY GrowsSubset DEF Pending
  <1>6. UNCHANGED batch_buffer => \A r : Grows(Batched(r)', Batched(r), 0)
    BY GrowsSubset DEF Batched
  <1>7. CASE /\ Transmit(rest, i, Only(current_leader_id[i], <<m>>))
             /\ UNCHANGED <<log, pending_triggers, batch_buffer>>
    <2>1. m \in Message /\ m \in Plain(i) /\ \A r : m \in ReportsOf(r) <=> reading = r
      BY DEF Message, Plain, ReportsOf
    <2> HIDE DEF m
    <2>2. Publishes(rest, i, Plain(i))
      BY <1>7, <2>1, OnlyIn DEF Publishes
    <2>3. NoneProvisional' /\ \A r : Grows(Entered(r)', Entered(r), 0)
      BY <1>1, <1>7, <2>2, SameLogEntered
    <2>4. ASSUME NEW r PROVE Grows(UnderWay(r)', ReportsIn(rest, r), one(r))
      <3>1. Grows(ReportsIn(net', r), ReportsIn(rest, r), IF m \in ReportsOf(r) THEN 1 ELSE 0)
        BY <1>1, <1>7, <2>1, ReportSent
      <3>2. UnderWay(r)' = ReportsIn(net', r)
        BY DEF UnderWay, ReportsIn
      <3> QED
        BY <2>1, <3>1, <3>2
    <2>5. \A r : MovesFrom(rest, r, one(r), 0, 0, 0)
      BY <1>5, <1>6, <1>7, <2>3, <2>4 DEF MovesFrom
    <2>6. \A r : one(r) \in Int /\ one(r) + 0 + 0 + 0 <= one(r)
      OBVIOUS
    <2> HIDE DEF one
    <2>7. \A r : \E u, w, b, p \in Int :
            MovesFrom(rest, r, u, w, b, p) /\ u + w + b + p <= one(r)
      BY <2>5, <2>6
    <2> QED
      BY <2>3, <2>7 DEF one, TakenOnce
  <1>8. CASE /\ Transmit(rest, i, Nothing)
             /\ pending_triggers' = [pending_triggers EXCEPT ![i] = Append(@, reading)]
             /\ UNCHANGED <<log, batch_buffer>>
    <2>1. NoneProvisional' /\ \A r : Grows(Entered(r)', Entered(r), 0)
      BY <1>1, <1>4, <1>8, SameLogEntered
    <2>2. \A r : Grows(Pending(r)', Pending(r), one(r))
      BY <1>1, <1>8, BufferExtended DEF Pending
    <2>3. \A r : MovesFrom(rest, r, 0, one(r), 0, 0)
      BY <1>4, <1>6, <1>8, <2>1, <2>2 DEF MovesFrom
    <2>4. \A r : one(r) \in Int /\ 0 + one(r) + 0 + 0 <= one(r)
      OBVIOUS
    <2> HIDE DEF one
    <2>5. \A r : \E u, w, b, p \in Int :
            MovesFrom(rest, r, u, w, b, p) /\ u + w + b + p <= one(r)
      BY <2>3, <2>4
    <2> QED
      BY <2>1, <2>5 DEF one, TakenOnce
  <1>9. CASE Transmit(rest, i, Nothing) /\ UNCHANGED <<log, pending_triggers, batch_buffer>>
    <2>1. NoneProvisional' /\ \A r : Grows(Entered(r)', Entered(r), 0)
      BY <1>1, <1>4, <1>9, SameLogEntered
    <2>2. \A r : MovesFrom(rest, r, 0, 0, 0, 0)
      BY <1>4, <1>5, <1>6, <1>9, <2>1 DEF MovesFrom
    <2>3. \A r : 0 + 0 + 0 + 0 <= one(r)
      OBVIOUS
    <2> HIDE DEF one
    <2>4. \A r : \E u, w, b, p \in Int :
            MovesFrom(rest, r, u, w, b, p) /\ u + w + b + p <= one(r)
      BY <2>2, <2>3
    <2> QED
      BY <2>1, <2>4 DEF one, TakenOnce
  <1>10. ASSUME NEW c, <<c>> \in Seq(Command), Replicate(rest, i, <<c>>)
         PROVE  /\ NoneProvisional'
                /\ \A r : /\ Grows(UnderWay(r)', ReportsIn(rest, r), 0)
                          /\ Grows(Entered(r)', Entered(r), IF r \in c THEN 1 ELSE 0)
    <2> DEFINE cmds == <<c>>
    <2>1. cmds \in Seq(Command) /\ Replicate(rest, i, cmds)
      BY <1>10
    <2> HIDE DEF cmds
    <2>2. Publishes(rest, i, Silent(i)) /\ log' = [log EXCEPT ![i] = Extended(i, cmds)]
      BY <2>1, ReplicateSilent DEF Replicate
    <2>3. /\ NoneProvisional'
          /\ \A r : Entered(r)' \subseteq Entered(r) \cup NewPlaces(i, cmds, r)
      BY <1>1, <2>1, <2>2, ProposedEntered
    <2>4. \A r : Grows(Entered(r)', Entered(r), IF r \in c THEN 1 ELSE 0)
      BY <2>3, OneProposed DEF cmds
    <2>5. \A r : UnderWay(r)' = ReportsIn(net', r)
      BY DEF UnderWay, ReportsIn
    <2>6. \A r : Grows(UnderWay(r)', ReportsIn(rest, r), 0)
      BY <1>1, <2>2, <2>5, SilentSent
    <2> QED
      BY <2>3, <2>4, <2>6
  <1>11. CASE Replicate(rest, i, <<{reading}>>) /\ UNCHANGED <<pending_triggers, batch_buffer>>
    <2>1. NoneProvisional' /\ \A r : Grows(UnderWay(r)', ReportsIn(rest, r), 0)
      BY <1>3, <1>10, <1>11
    <2>2. ASSUME NEW r PROVE Grows(Entered(r)', Entered(r), one(r))
      <3>1. Grows(Entered(r)', Entered(r), IF r \in {reading} THEN 1 ELSE 0)
        BY <1>3, <1>10, <1>11
      <3> QED
        BY <3>1
    <2>3. \A r : MovesFrom(rest, r, 0, 0, 0, one(r))
      BY <1>5, <1>6, <1>11, <2>1, <2>2 DEF MovesFrom
    <2>4. \A r : one(r) \in Int /\ 0 + 0 + 0 + one(r) <= one(r)
      OBVIOUS
    <2> HIDE DEF one
    <2>5. \A r : \E u, w, b, p \in Int :
            MovesFrom(rest, r, u, w, b, p) /\ u + w + b + p <= one(r)
      BY <2>3, <2>4
    <2> QED
      BY <2>1, <2>5 DEF one, TakenOnce
  <1>12. CASE /\ Replicate(rest, i, <<Content(batch)>>)
              /\ batch_buffer' = [batch_buffer EXCEPT ![i] = <<>>]
              /\ UNCHANGED pending_triggers
    <2> DEFINE full(r) == IF r \in Content(batch) THEN 1 ELSE 0
    <2>1. /\ NoneProvisional'
          /\ \A r : /\ Grows(UnderWay(r)', ReportsIn(rest, r), 0)
                    /\ Grows(Entered(r)', Entered(r), full(r))
      BY <1>3, <1>10, <1>12
    <2>2. \A r : Grows(Batched(r)', Batched(r), held(r))
      BY <1>1, <1>12, BufferEmptied DEF Batched
    <2>3. \A r : MovesFrom(rest, r, 0, 0, held(r), full(r))
      BY <1>5, <1>12, <2>1, <2>2 DEF MovesFrom
    <2>4. \A r : held(r) \in Int /\ full(r) \in Int /\ 0 + 0 + held(r) + full(r) <= one(r)
      BY <1>2
    <2> HIDE DEF one, held, full
    <2>5. \A r : \E u, w, b, p \in Int :
            MovesFrom(rest, r, u, w, b, p) /\ u + w + b + p <= one(r)
      BY <2>3, <2>4
    <2> QED
      BY <2>1, <2>5 DEF one, TakenOnce
  <1>13. CASE /\ Transmit(rest, i, Nothing)
              /\ batch_buffer' = [batch_buffer EXCEPT ![i] = batch]
              /\ UNCHANGED <<log, pending_triggers>>
    <2>1. NoneProvisional' /\ \A r : Grows(Entered(r)', Entered(r), 0)
      BY <1>1, <1>4, <1>13, SameLogEntered
    <2>2. \A r : Grows(Batched(r)', Batched(r), one(r))
      BY <1>1, <1>13, BufferExtended DEF Batched
    <2>3. \A r : MovesFrom(rest, r, 0, 0, one(r), 0)
      BY <1>4, <1>5, <1>13, <2>1, <2>2 DEF MovesFrom
    <2>4. \A r : one(r) \in Int /\ 0 + 0 + one(r) + 0 <= one(r)
      OBVIOUS
    <2> HIDE DEF one
    <2>5. \A r : \E u, w, b, p \in Int :
            MovesFrom(rest, r, u, w, b, p) /\ u + w + b + p <= one(r)
      BY <2>3, <2>4
    <2> QED
      BY <2>1, <2>5 DEF one, TakenOnce
  <1> HIDE DEF one, held, m
  <1> QED
    BY <1>7, <1>8, <1>9, <1>11, <1>12, <1>13 DEF TakeReading, Flushed, m

LEMMA LeafReportKept ==
  ASSUME TypeOK, NoneProvisional, NEW i \in Node, NEW reading \in Reading,
         LeafReport(i, reading)
  PROVE  ReportsKept
  <1>1. TakeReading(net, i, reading) /\ reports' = reports + 1 /\ reports \in Nat
    BY DEF LeafReport, TypeOK
  <1>2. TakenOnce(net, reading)
    BY <1>1, NetDrained, TakeReadingMoves
  <1>3. ASSUME NEW r
        PROVE  \E u, w, b, p \in Int : Moves(r, u, w, b, p) /\ u + w + b + p <= reports' - reports
    <2>1. PICK u \in Int, w \in Int, b \in Int, p \in Int :
            MovesFrom(net, r, u, w, b, p) /\ u + w + b + p <= IF reading = r THEN 1 ELSE 0
      BY <1>2 DEF TakenOnce
    <2>2. Moves(r, u, w, b, p)
      BY <2>1 DEF MovesFrom, Moves, UnderWay
    <2>3. u + w + b + p <= reports' - reports
      BY <1>1, <2>1
    <2> QED
      BY <2>2, <2>3
  <1> QED
    BY <1>2, <1>3 DEF ReportsKept, TakenOnce

LEMMA HandleSensorDataKept ==
  ASSUME TypeOK, NoneProvisional, NEW i \in Node, NEW s \in Node, HandleSensorData(i, s)
  PROVE  ReportsKept
  <1> DEFINE m == Head(net[s][i])
             rest == Unread(s, i)
             taken == m.reading
  <1>1. Arrives(s, i, "sensor_data") /\ TakeReading(rest, i, taken) /\ reports' - reports = 0
    BY DEF HandleSensorData, TypeOK
  <1>2. m \in Message /\ m.type = "sensor_data" /\ net[s][i] # <<>> /\ net \in Network
    BY <1>1, ArrivesType DEF TypeOK, Arrives, Network
  <1>3. taken \in Reading /\ Drained(rest)
    BY <1>2, MessageFields, UnreadDrained
  <1> HIDE DEF rest, taken
  <1>4. TakenOnce(rest, taken)
    BY <1>1, <1>3, TakeReadingMoves
  <1>5. ASSUME NEW r
        PROVE  \E u, w, b, p \in Int : Moves(r, u, w, b, p) /\ u + w + b + p <= reports' - reports
    <2> DEFINE t == IF taken = r THEN -1 ELSE 0
    <2>1. PICK u \in Int, w \in Int, b \in Int, p \in Int :
            /\ MovesFrom(rest, r, u, w, b, p)
            /\ u + w + b + p <= IF taken = r THEN 1 ELSE 0
      BY <1>4 DEF TakenOnce
    <2>2. m \in ReportsOf(r) <=> taken = r
      BY <1>2 DEF ReportsOf, taken
    <2>3. Grows(ReportsIn(rest, r), UnderWay(r), t)
      BY <1>2, <2>2, TakenReports DEF rest
    <2>4. t \in Int /\ u + t \in Int /\ (u + t) + w + b + p <= reports' - reports
      BY <1>1, <2>1
    <2> HIDE DEF t
    <2>5. Grows(UnderWay(r)', UnderWay(r), u + t)
      BY <2>1, <2>3, <2>4, GrowsThen DEF MovesFrom
    <2>6. Moves(r, u + t, w, b, p)
      BY <2>1, <2>5 DEF MovesFrom, Moves
    <2> QED
      BY <2>4, <2>6
  <1> QED
    BY <1>4, <1>5 DEF ReportsKept, TakenOnce

\* A winner proposes what it kept: as many places as it gives up, or fewer when
\* the readings go into one batch.
LEMMA PendingPlaces ==
  ASSUME TypeOK, NEW i \in Node, NEW r,
         NEW X, X = {<<i, k>> : k \in {n \in DOMAIN pending_triggers[i] :
                                         pending_triggers[i][n] \in {r}}}
  PROVE  /\ IsFiniteSet(X) /\ X \subseteq Pending(r)
         /\ Grows(NewPlaces(i, Proposed(Singletons(pending_triggers[i])), r), X, 0)
  <1> DEFINE kept == pending_triggers[i]
             single == Singletons(kept)
             cmds == Proposed(single)
             Y == NewPlaces(i, cmds, r)
             len == Len(log[i])
             term == current_term[i]
  <1>1. /\ kept \in Seq(Reading) /\ DOMAIN kept = 1 .. Len(kept) /\ Len(kept) \in Nat
        /\ len \in Nat
    BY LenProperties DEF TypeOK
  <1>2. DOMAIN single = DOMAIN kept /\ \A k \in DOMAIN kept : single[k] = {kept[k]}
    BY DEF Singletons
  <1>3. X \subseteq {i} \X (1 .. Len(kept))
    BY <1>1
  <1>4. IsFiniteSet({i}) /\ IsFiniteSet(1 .. Len(kept))
    <2>1. IsFiniteSet({i})
      BY FS_Singleton
    <2>2. Len(kept) \in Int /\ 1 \in Int
      BY <1>1
    <2>3. IsFiniteSet(1 .. Len(kept))
      BY <2>2, FS_Interval
    <2> QED
      BY <2>1, <2>3
  <1>5. IsFiniteSet(X)
    BY <1>3, <1>4, FS_Product, FS_Subset
  <1>6. X \subseteq Pending(r)
    BY <1>1 DEF Pending, Places
  <1> HIDE DEF kept, single, len, term
  <1>7. CASE cmds = single
    <2> DEFINE f == [y \in Y |-> <<i, y[1] - len>>]
    <2>1. ASSUME NEW y \in Y
          PROVE  y = <<y[1], y[2]>> /\ y[2] = term /\ y[1] \in Nat /\ f[y] = <<i, y[1] - len>>
                 /\ f[y] \in X
      <3>1. PICK k \in DOMAIN cmds : y = <<len + k, term>> /\ r \in cmds[k]
        BY DEF NewPlaces, len, term
      <3>2. k \in DOMAIN kept /\ kept[k] \in {r} /\ k \in Nat
        BY <1>1, <1>2, <1>7, <3>1
      <3>3. y[1] - len = k /\ y[1] \in Nat
        BY <1>1, <3>1, <3>2
      <3> QED
        BY <3>1, <3>2, <3>3 DEF kept
    <2>2. f \in [Y -> X]
      BY <2>1
    <2>3. ASSUME NEW y \in Y, NEW z \in Y, f[y] = f[z] PROVE y = z
      <3>1. /\ y = <<y[1], y[2]>> /\ y[2] = term /\ y[1] \in Nat /\ f[y] = <<i, y[1] - len>>
            /\ z = <<z[1], z[2]>> /\ z[2] = term /\ z[1] \in Nat /\ f[z] = <<i, z[1] - len>>
        BY <2>1
      <3> HIDE DEF f
      <3>2. <<i, y[1] - len>> = <<i, z[1] - len>>
        BY <2>3, <3>1
      <3>3. len \in Nat /\ y[1] - len = z[1] - len
        BY <1>1, <3>2 DEF len
      <3>4. y[1] = z[1]
        BY <3>1, <3>3
      <3> QED
        BY <3>1, <3>4
    <2> HIDE DEF f, Y
    <2>4. Grows(Y, X, 0)
      BY <2>2, <2>3, GrowsInjection
    <2> QED
      BY <1>5, <1>6, <2>4 DEF Y, cmds, single, kept
  <1>8. CASE cmds = <<UNION Content(single)>>
    <2>1. ASSUME NEW y \in Y PROVE y = <<len + 1, term>> /\ X # {}
      <3>1. PICK k \in DOMAIN cmds : y = <<len + k, term>> /\ r \in cmds[k]
        BY DEF NewPlaces, len, term
      <3>2. k = 1 /\ r \in UNION Content(single)
        BY <1>8, <3>1
      <3>3. PICK n \in DOMAIN single : r \in single[n]
        BY <3>2 DEF Content
      <3>4. <<i, n>> \in X
        BY <1>2, <3>3 DEF kept
      <3> QED
        BY <3>1, <3>2, <3>4
    <2> HIDE DEF Y
    <2>2. CASE Y = {}
      <3>1. Y \subseteq X
        BY <2>2
      <3> QED
        BY <1>5, <1>6, <3>1, GrowsSubset DEF Y, cmds, single, kept
    <2>3. CASE Y # {}
      <3>1. PICK x \in X : TRUE
        BY <2>1, <2>3
      <3> DEFINE f == [y \in Y |-> x]
      <3>2. f \in [Y -> X] /\ \A y, z \in Y : f[y] = f[z] => y = z
        BY <2>1
      <3> HIDE DEF f
      <3>3. Grows(Y, X, 0)
        BY <3>2, GrowsInjection
      <3> QED
        BY <1>5, <1>6, <3>3 DEF Y, cmds, single, kept
    <2> QED
      BY <2>2, <2>3
  <1> QED
    BY <1>7, <1>8 DEF Proposed

LEMMA BecomeLeaderKept ==
  ASSUME TypeOK, NoneProvisional, NEW i \in Node, NEW rest, Drained(rest), NEW ballots,
         BecomeLeader(rest, i, ballots), UNCHANGED <<batch_buffer, reports, partition_epoch>>
  PROVE  ReportsKept
  <1> DEFINE next == [p \in Node |-> Len(log[i]) + 1]
             cmds == Proposed(Singletons(pending_triggers[i]))
             claim == IF Protocol = "raft" THEN Heartbeats(i, next)
                      ELSE ToPeers(i, Ping(i, current_term[i]))
             kept(r) == {<<i, k>> : k \in {n \in DOMAIN pending_triggers[i] :
                                             pending_triggers[i][n] \in {r}}}
  <1>1. /\ pending_triggers \in [Node -> Seq(Reading)] /\ pending_triggers[i] \in Seq(Reading)
        /\ log[i] \in Seq(LogEntry)
    BY DEF TypeOK
  <1>2. next \in [Node -> Nat \ {0}]
    <2>1. Len(log[i]) \in Nat
      BY <1>1, LenProperties
    <2> QED
      BY <2>1
  <1>3. cmds \in Seq(Command)
    BY <1>1, ContentType, ProposedType
  <1>4. /\ Transmit(rest, i, Then(claim, Rounds(i, cmds, next)))
        /\ log' = [log EXCEPT ![i] = Extended(i, cmds)] /\ log'[i] = Extended(i, cmds)
        /\ pending_triggers' = [pending_triggers EXCEPT ![i] = <<>>]
    BY DEF BecomeLeader, Flushed, TypeOK
  <1>5. claim \in Outboxes(Silent(i))
    BY <1>2, HeartbeatsSilent, PingSilent
  <1> HIDE DEF next, cmds, claim, kept
  <1>6. Rounds(i, cmds, next) \in Outboxes(Silent(i))
    BY <1>2, <1>3, <1>4, RoundsSilent
  <1>7. Publishes(rest, i, Silent(i))
    BY <1>4, <1>5, <1>6, ThenIn DEF Publishes
  <1>8. /\ NoneProvisional'
        /\ \A r : Entered(r)' \subseteq Entered(r) \cup NewPlaces(i, cmds, r)
    BY <1>3, <1>4, <1>7, ProposedEntered
  <1>9. ASSUME NEW r
        PROVE  \E u, w, b, p \in Int : Moves(r, u, w, b, p) /\ u + w + b + p <= reports' - reports
    <2> DEFINE c == Cardinality(kept(r))
    <2>1. /\ IsFiniteSet(kept(r)) /\ kept(r) \subseteq Pending(r)
          /\ Grows(NewPlaces(i, cmds, r), kept(r), 0)
      BY PendingPlaces DEF kept, cmds
    <2>2. c \in Nat
      BY <2>1, FS_CardinalityType
    <2>3. IsFiniteSet(NewPlaces(i, cmds, r)) /\ Cardinality(NewPlaces(i, cmds, r)) <= c
      BY <2>1, <2>2 DEF Grows
    <2>4. Grows(Entered(r)', Entered(r), c)
      BY <1>8, <2>2, <2>3, GrowsAddSet
    <2>5. Pending(r)' \subseteq Pending(r) \ kept(r)
      BY <1>1, <1>4, PlacesEmptied DEF Pending, kept
    <2>6. Grows(Pending(r)', Pending(r), 0 - c)
      BY <2>1, <2>5, GrowsRemoveSet
    <2>7. Grows(UnderWay(r)', UnderWay(r), 0) /\ Grows(Batched(r)', Batched(r), 0)
      <3>1. Batched(r)' = Batched(r)
        BY DEF Batched
      <3> QED
        BY <1>7, <3>1, SilentMoves, GrowsSubset
    <2>8. reports' - reports = 0
      BY DEF TypeOK
    <2> HIDE DEF c
    <2>9. 0 - c \in Int /\ c \in Int /\ 0 + (0 - c) + 0 + c <= reports' - reports
      BY <2>2, <2>8
    <2>10. Moves(r, 0, 0 - c, 0, c)
      BY <2>4, <2>6, <2>7 DEF Moves
    <2> QED
      BY <2>9, <2>10
  <1> QED
    BY <1>8, <1>9 DEF ReportsKept

-----------------------------------------------------------------------------
(* Every step, when nothing is ever partitioned *)

\* No partition can be injected, or the protocol has no provisional mode.
Unsplit == Splits = {} \/ Protocol = "raft"

LEMMA PartitionControlKept ==
  ASSUME TypeOK, NoneProvisional, Unsplit, NEW i \in Node, HandlePartitionControl(i)
  PROVE  ReportsKept
  <1>1. control[i] \in Seq(Control) /\ control[i] # <<>>
    BY DEF TypeOK, HandlePartitionControl
  <1>2. Head(control[i]) \in Control
    BY <1>1, HeadTailProperties
  <1>3. Protocol # "raft" => Head(control[i]).action = "heal"
    BY <1>2 DEF Unsplit, Control
  <1>4. \A j \in Node : partition_epoch'[j] = 0
    BY <1>3 DEF HandlePartitionControl, EpochAfter, NoneProvisional, TypeOK
  <1>5. UNCHANGED <<net, log, pending_triggers, batch_buffer, reports>>
    BY DEF HandlePartitionControl, replicationVars, triggerVars
  <1> QED
    BY <1>4, <1>5, UnchangedKept

LEMMA EnvironmentKept ==
  ASSUME TypeOK, NoneProvisional, Environment
  PROVE  ReportsKept
  <1>1. CASE UNCHANGED <<net, log, pending_triggers, batch_buffer, reports, partition_epoch>>
    <2>1. \A j \in Node : partition_epoch'[j] = 0
      BY <1>1 DEF NoneProvisional
    <2> QED
      BY <1>1, <2>1, UnchangedKept
  <1>2. CASE \E i \in Node, reading \in Reading : LeafReport(i, reading)
    BY <1>2, LeafReportKept
  <1>3. CASE \E s, d \in Node : DropBlocked(s, d) \/ Lose(s, d)
    <2>1. PICK s \in Node, d \in Node : DropBlocked(s, d) \/ Lose(s, d)
      BY <1>3
    <2>2. /\ net[s][d] # <<>> /\ net' = Unread(s, d)
          /\ UNCHANGED <<log, pending_triggers, batch_buffer, reports, partition_epoch>>
      BY <2>1 DEF DropBlocked, Lose, replicationVars, triggerVars, partitionVars
    <2>3. Drained(Unread(s, d))
      BY <2>2, UnreadDrained
    <2> QED
      BY <2>2, <2>3, QuietHushed, HushedKept
  <1> QED
    BY <1>1, <1>2, <1>3
    DEF Environment, BatteryMoves, DemoSetBattery, PublishControl, replicationVars,
        triggerVars, partitionVars

LEMMA NextKept ==
  ASSUME TypeInv, NoneProvisional, Unsplit, [Next]_vars
  PROVE  ReportsKept
  <1> USE DEF TypeInv
  <1>1. CASE UNCHANGED vars
    <2>1. /\ UNCHANGED <<net, log, pending_triggers, batch_buffer, reports, partition_epoch>>
      BY <1>1 DEF vars, replicationVars, triggerVars, partitionVars
    <2>2. \A j \in Node : partition_epoch'[j] = 0
      BY <2>1 DEF NoneProvisional
    <2> QED
      BY <2>1, <2>2, UnchangedKept
  <1>2. ASSUME NEW i \in Node, Tick(i) PROVE ReportsKept
    BY <1>2, TickHushed, HushedKept, EchodLeaderTickKept
  <1>3. ASSUME NEW i \in Node, NEW s \in Node, Receive(i, s) PROVE ReportsKept
    <2>1. CASE HandleSensorData(i, s)
      BY <2>1, HandleSensorDataKept
    <2>2. CASE Hushed(Unread(s, i), i)
      BY <2>2, HushedKept
    <2>3. CASE HandleVoteResponse(i, s) /\ \E ballots : BecomeLeader(Unread(s, i), i, ballots)
      <3>1. /\ net[s][i] # <<>>
            /\ UNCHANGED <<batch_buffer, reports, partition_epoch>>
        BY <2>3 DEF HandleVoteResponse, Arrives, partitionVars
      <3>2. Drained(Unread(s, i))
        BY <3>1, UnreadDrained
      <3> QED
        BY <2>3, <3>1, <3>2, BecomeLeaderKept
    <2> QED
      BY <1>3, <2>1, <2>2, <2>3, ReceiveHushed
  <1> QED
    BY <1>1, <1>2, <1>3, PartitionControlKept, EnvironmentKept DEF Next

\* The places of a reading, wherever they are, are no more than the reports made.
ReportsInv ==
  \A r \in Reading :
    /\ IsFiniteSet(UnderWay(r)) /\ IsFiniteSet(Pending(r))
    /\ IsFiniteSet(Batched(r)) /\ IsFiniteSet(Entered(r))
    /\ Cardinality(UnderWay(r)) + Cardinality(Pending(r)) + Cardinality(Batched(r))
         + Cardinality(Entered(r)) <= reports

LEMMA WithinLimit ==
  ASSUME NEW before \in Int, NEW after \in Int, NEW more \in Int, NEW limit \in Int,
         NEW raised \in Int, before <= limit, after <= before + more, more <= raised - limit
  PROVE  after <= raised
  OBVIOUS

LEMMA ReportsInvKept ==
  ASSUME TypeOK, TypeOK', ReportsInv, ReportsKept
  PROVE  ReportsInv' /\ NoneProvisional'
  <1>1. ASSUME NEW r \in Reading
        PROVE  /\ IsFiniteSet(UnderWay(r)') /\ IsFiniteSet(Pending(r)')
               /\ IsFiniteSet(Batched(r)') /\ IsFiniteSet(Entered(r)')
               /\ Cardinality(UnderWay(r)') + Cardinality(Pending(r)') + Cardinality(Batched(r)')
                    + Cardinality(Entered(r)') <= reports'
    <2>1. PICK u \in Int, w \in Int, b \in Int, p \in Int :
            Moves(r, u, w, b, p) /\ u + w + b + p <= reports' - reports
      BY DEF ReportsKept
    <2> DEFINE U == UnderWay(r)
               W == Pending(r)
               B == Batched(r)
               P == Entered(r)
               X == UnderWay(r)'
               Y == Pending(r)'
               C == Batched(r)'
               Q == Entered(r)'
    <2>2. /\ IsFiniteSet(U) /\ IsFiniteSet(W) /\ IsFiniteSet(B) /\ IsFiniteSet(P)
          /\ Cardinality(U) + Cardinality(W) + Cardinality(B) + Cardinality(P) <= reports
      BY DEF ReportsInv
    <2>3. Grows(X, U, u) /\ Grows(Y, W, w) /\ Grows(C, B, b) /\ Grows(Q, P, p)
      BY <2>1 DEF Moves
    <2>4. reports \in Nat /\ reports' \in Nat
      BY DEF TypeOK
    <2> HIDE DEF U, W, B, P, X, Y, C, Q
    <2>5. /\ IsFiniteSet(X) /\ Cardinality(X) <= Cardinality(U) + u
          /\ IsFiniteSet(Y) /\ Cardinality(Y) <= Cardinality(W) + w
          /\ IsFiniteSet(C) /\ Cardinality(C) <= Cardinality(B) + b
          /\ IsFiniteSet(Q) /\ Cardinality(Q) <= Cardinality(P) + p
      BY <2>2, <2>3 DEF Grows
    <2>6. /\ Cardinality(U) \in Nat /\ Cardinality(W) \in Nat
          /\ Cardinality(B) \in Nat /\ Cardinality(P) \in Nat
          /\ Cardinality(X) \in Nat /\ Cardinality(Y) \in Nat
          /\ Cardinality(C) \in Nat /\ Cardinality(Q) \in Nat
      BY <2>2, <2>5, FS_CardinalityType
    <2>7. Cardinality(X) + Cardinality(Y) + Cardinality(C) + Cardinality(Q) <= reports'
      <3>1. Cardinality(X) + Cardinality(Y) <= Cardinality(U) + Cardinality(W) + (u + w)
        BY <2>5, <2>6
      <3>2. Cardinality(C) + Cardinality(Q) <= Cardinality(B) + Cardinality(P) + (b + p)
        BY <2>5, <2>6
      <3>3. /\ u + w + b + p <= reports' - reports
            /\ u \in Int /\ w \in Int /\ b \in Int /\ p \in Int
        BY <2>1
      <3> DEFINE before == Cardinality(U) + Cardinality(W) + Cardinality(B) + Cardinality(P)
                 after == Cardinality(X) + Cardinality(Y) + Cardinality(C) + Cardinality(Q)
                 more == u + w + b + p
      <3>4. before \in Int /\ after \in Int /\ before <= reports
        BY <2>2, <2>6
      <3>5. after <= before + more /\ more \in Int /\ more <= reports' - reports
        BY <2>6, <3>1, <3>2, <3>3
      <3> HIDE DEF before, after, more
      <3>6. reports \in Int /\ reports' \in Int
        BY <2>4
      <3>7. after <= reports'
        BY <3>4, <3>5, <3>6, WithinLimit
      <3> QED
        BY <3>7 DEF after
    <2> QED
      BY <2>5, <2>7 DEF X, Y, C, Q
  <1> QED
    BY <1>1 DEF ReportsInv, ReportsKept

LEMMA InitReports == Init => TypeOK /\ ReportsInv /\ NoneProvisional
  <1> SUFFICES ASSUME Init PROVE TypeOK /\ ReportsInv /\ NoneProvisional
    OBVIOUS
  <1>1. TypeOK
    BY InitType DEF TypeInv
  <1>2. /\ \A s, d \in Node : net[s][d] = <<>> /\ Content(net[s][d]) = {}
        /\ \A i \in Node : /\ log[i] = <<>> /\ DOMAIN log[i] = {} /\ pending_triggers[i] = <<>>
                           /\ batch_buffer[i] = <<>> /\ partition_epoch[i] = 0
        /\ reports = 0
    <2>1. DOMAIN <<>> = {} /\ Content(<<>>) = {}
      BY EmptySeq DEF Content
    <2> QED
      BY <2>1 DEF Init, Nothing
  <1>3. Known = {}
    BY <1>2 DEF Known
  <1>4. ASSUME NEW r
        PROVE  UnderWay(r) = {} /\ Pending(r) = {} /\ Batched(r) = {} /\ Entered(r) = {}
    <2>1. DOMAIN <<>> = {}
      BY EmptySeq
    <2>2. \A c \in Node \X Node : Channels(net)[c] = <<>>
      BY <1>2 DEF Channels
    <2>3. UnderWay(r) = {}
      BY <2>1, <2>2 DEF UnderWay, ReportsIn, Places
    <2>4. Pending(r) = {} /\ Batched(r) = {}
      BY <1>2, <2>1 DEF Pending, Batched, Places
    <2> QED
      BY <1>3, <2>3, <2>4 DEF Entered
  <1>5. IsFiniteSet({}) /\ Cardinality({}) = 0
    BY FS_EmptySet
  <1>6. ReportsInv
    <2>1. 0 + 0 + 0 + 0 <= reports
      BY <1>2
    <2> QED
      BY <1>4, <1>5, <2>1 DEF ReportsInv
  <1>7. NoneProvisional
    BY <1>2, <1>3 DEF NoneProvisional
  <1> QED
    BY <1>1, <1>6, <1>7

\* A log, and the buffers beside it, hold a reading in places of its own.
LEMMA EnteredInLog ==
  ASSUME TypeOK, NEW i \in Node, NEW r
  PROVE  Grows({n \in DOMAIN log[i] : r \in log[i][n].command}, Entered(r), 0)
  <1> DEFINE S == {n \in DOMAIN log[i] : r \in log[i][n].command}
             f == [n \in S |-> <<n, log[i][n].term>>]
  <1>1. ASSUME NEW n \in S PROVE f[n] \in Entered(r) /\ f[n] = <<n, log[i][n].term>>
    <2>1. <<n, log[i][n]>> \in Known /\ r \in log[i][n].command
      BY LogKnown
    <2>2. n \in Nat /\ log[i][n] \in LogEntry
      BY <2>1 DEF Known
    <2>3. log[i][n].term \in Nat
      BY <2>2 DEF LogEntry
    <2> QED
      BY <2>1, <2>2, <2>3 DEF Entered
  <1> HIDE DEF S
  <1>2. f \in [S -> Entered(r)]
    BY <1>1
  <1>3. ASSUME NEW x \in S, NEW y \in S, f[x] = f[y] PROVE x = y
    BY <1>1, <1>3
  <1> HIDE DEF f
  <1>4. Grows(S, Entered(r), 0)
    BY <1>2, <1>3, GrowsInjection
  <1> QED
    BY <1>4 DEF S

LEMMA PlacesInBuffer ==
  ASSUME NEW buffer \in [Node -> Seq(Reading)], NEW i \in Node, NEW r
  PROVE  Grows({n \in DOMAIN buffer[i] : buffer[i][n] = r}, Places(Node, buffer, {r}), 0)
  <1> DEFINE S == {n \in DOMAIN buffer[i] : buffer[i][n] = r}
             T == Places(Node, buffer, {r})
             f == [n \in S |-> <<i, n>>]
  <1>1. DOMAIN buffer[i] \subseteq Nat
    <2>1. buffer[i] \in Seq(Reading)
      OBVIOUS
    <2>2. DOMAIN buffer[i] = 1 .. Len(buffer[i]) /\ Len(buffer[i]) \in Nat
      BY <2>1, LenProperties
    <2> QED
      BY <2>2
  <1>2. ASSUME NEW n \in S PROVE f[n] \in T /\ f[n] = <<i, n>>
    BY <1>1 DEF Places
  <1> HIDE DEF S, T
  <1>3. f \in [S -> T]
    BY <1>2
  <1>4. ASSUME NEW x \in S, NEW y \in S, f[x] = f[y] PROVE x = y
    BY <1>2, <1>4
  <1> HIDE DEF f
  <1>5. Grows(S, T, 0)
    BY <1>3, <1>4, GrowsInjection
  <1> QED
    BY <1>5 DEF S, T

LEMMA ReportsCounted ==
  ASSUME TypeOK, ReportsInv
  PROVE  ReadingsNotDuplicated
  <1> SUFFICES ASSUME NEW i \in Node, NEW r \in Reading
               PROVE  Cardinality({n \in DOMAIN log[i] : r \in log[i][n].command})
                        + Cardinality({n \in DOMAIN pending_triggers[i] :
                                         pending_triggers[i][n] = r})
                        + Cardinality({n \in DOMAIN batch_buffer[i] : batch_buffer[i][n] = r})
                      <= reports
    BY DEF ReadingsNotDuplicated
  <1> DEFINE L == {n \in DOMAIN log[i] : r \in log[i][n].command}
             K == {n \in DOMAIN pending_triggers[i] : pending_triggers[i][n] = r}
             C == {n \in DOMAIN batch_buffer[i] : batch_buffer[i][n] = r}
  <1>1. Grows(L, Entered(r), 0)
    BY EnteredInLog
  <1>2. Grows(K, Pending(r), 0) /\ Grows(C, Batched(r), 0)
    BY PlacesInBuffer DEF TypeOK, Pending, Batched
  <1>3. /\ IsFiniteSet(UnderWay(r)) /\ IsFiniteSet(Pending(r))
        /\ IsFiniteSet(Batched(r)) /\ IsFiniteSet(Entered(r))
        /\ Cardinality(UnderWay(r)) + Cardinality(Pending(r)) + Cardinality(Batched(r))
             + Cardinality(Entered(r)) <= reports
    BY DEF ReportsInv
  <1> HIDE DEF L, K, C
  <1>4. /\ IsFiniteSet(L) /\ Cardinality(L) <= Cardinality(Entered(r)) + 0
        /\ IsFiniteSet(K) /\ Cardinality(K) <= Cardinality(Pending(r)) + 0
        /\ IsFiniteSet(C) /\ Cardinality(C) <= Cardinality(Batched(r)) + 0
    BY <1>1, <1>2, <1>3 DEF Grows
  <1>5. /\ Cardinality(UnderWay(r)) \in Nat /\ Cardinality(Pending(r)) \in Nat
        /\ Cardinality(Batched(r)) \in Nat /\ Cardinality(Entered(r)) \in Nat
        /\ Cardinality(L) \in Nat /\ Cardinality(K) \in Nat /\ Cardinality(C) \in Nat
        /\ reports \in Nat
    BY <1>3, <1>4, FS_CardinalityType DEF TypeOK
  <1>6. Cardinality(L) + Cardinality(K) + Cardinality(C) <= reports
    BY <1>3, <1>4, <1>5
  <1> QED
    BY <1>6 DEF L, K, C

\* Where nothing can be partitioned (or the protocol is raft, which has no provisional
\* mode), a report is proposed once: forwarding, keeping it until there is a leader,
\* batching and flushing each move it, a round or a merge puts an entry where the
\* leader has it, and so no log and the buffers beside it hold a reading more often
\* than leaves reported one.
THEOREM ReadingsProposedOnce == Unsplit => (Spec => []ReadingsNotDuplicated)
  <1> SUFFICES ASSUME Unsplit PROVE Spec => []ReadingsNotDuplicated
    OBVIOUS
  <1>1. Init => ReportsInv /\ NoneProvisional
    BY InitReports
  <1>2. /\ TypeInv /\ TypeInv' /\ ReportsInv /\ NoneProvisional /\ [Next]_vars
        => ReportsInv' /\ NoneProvisional'
    BY NextKept, ReportsInvKept DEF TypeInv
  <1>3. TypeInv /\ ReportsInv => ReadingsNotDuplicated
    BY ReportsCounted DEF TypeInv
  <1> QED
    BY <1>1, <1>2, <1>3, TypeInvariant, PTL DEF Spec
=============================================================================
