-------------------------- MODULE SimCluster_proofs --------------------------
(***************************************************************************)
(* Proofs about the simulated cluster, for any set of coordinators and     *)
(* leaves, any batteries, failures and partitions.                         *)
(*                                                                         *)
(* Every action sends messages of few kinds (Sends); what a message of a   *)
(* kind says about its sender is stated once and kept by all the actions   *)
(* that do not send one.                                                   *)
(***************************************************************************)
EXTENDS SimSafety, EchoLog_proofs

Inboxes == [NodeId -> Seq(Message)]

\* The messages of these types.
OfType(types) == {m \in Message : m.type \in types}

Content(s) == {s[k] : k \in DOMAIN s}

\* i sends messages of S, and rest is what the inboxes held besides.
Sends(rest, i, S) == \E out \in [NodeId -> Seq(S)] : Send(rest, i, out)

-----------------------------------------------------------------------------
(* Messages and inboxes *)

LEMMA NodesAreIds == Coordinator \subseteq NodeId /\ LeafId \subseteq NodeId
  BY DEF NodeId

\* What the type of a message says about its fields.
LEMMA MessageFields ==
  ASSUME NEW m \in Message
  PROVE  /\ m.type = "RequestVoteRPC" =>
              /\ m.from \in Coordinator /\ m.term \in Nat /\ m.battery_level \in Levels
              /\ m.last_log_index \in Nat /\ m.last_log_term \in Nat
         /\ m.type = "RequestVoteResponse" =>
              m.from \in Coordinator /\ m.term \in Nat /\ m.vote_granted \in BOOLEAN
         /\ m.type = "AppendEntriesRPC" =>
              /\ m.from \in Coordinator /\ m.term \in Nat /\ m.prev_log_index \in Nat
              /\ m.prev_log_term \in Nat /\ m.entries \in Seq(LogEntry)
              /\ m.leader_commit \in Nat
         /\ m.type = "AppendEntriesResponse" =>
              /\ m.from \in Coordinator /\ m.term \in Nat /\ m.success \in BOOLEAN
              /\ m.match_index \in Nat /\ m.responder_battery \in Levels
         /\ m.type \in {"LivenessPing", "LeadershipHandoff"} =>
              m.from \in Coordinator /\ m.term \in Nat
         /\ m.type = "LeafRegisterRequest" => m.from \in LeafId
         /\ m.type = "LeafRegisterResponse" => m.from \in Coordinator
         /\ m.type = "SensorDataReport" => m.reading \in Reading
  BY DEF Message

LEMMA QuietSends ==
  ASSUME NEW S
  PROVE  Quiet \in [NodeId -> Seq(S)]
  BY EmptySeq DEF Quiet

LEMMA OnlySends ==
  ASSUME NEW S, NEW d, NEW m \in S
  PROVE  Only(d, m) \in [NodeId -> Seq(S)]
  <1>1. <<m>> \in Seq(S)
    OBVIOUS
  <1> QED
    BY <1>1, QuietSends DEF Only, Quiet

LEMMA ToPeersSends ==
  ASSUME NEW S, NEW i, NEW m \in S
  PROVE  ToPeers(i, m) \in [NodeId -> Seq(S)]
  <1>1. <<m>> \in Seq(S) /\ << >> \in Seq(S)
    OBVIOUS
  <1> QED
    BY <1>1 DEF ToPeers

LEMMA ThenSends ==
  ASSUME NEW S, NEW out \in [NodeId -> Seq(S)], NEW more \in [NodeId -> Seq(S)]
  PROVE  Then(out, more) \in [NodeId -> Seq(S)]
  <1>1. ASSUME NEW d \in NodeId PROVE out[d] \o more[d] \in Seq(S)
    BY ConcatProperties
  <1> QED
    BY <1>1 DEF Then

\* Sending well-formed messages keeps the inboxes well-formed.
LEMMA SendsType ==
  ASSUME NEW rest \in Inboxes, NEW i, NEW S \in SUBSET Message, Sends(rest, i, S)
  PROVE  inbox' \in Inboxes
  <1>1. PICK out \in [NodeId -> Seq(S)] : Send(rest, i, out)
    BY DEF Sends
  <1>2. ASSUME NEW d \in NodeId PROVE rest[d] \o out[d] \in Seq(Message) /\ rest[d] \in Seq(Message)
    <2>1. out[d] \in Seq(Message)
      BY SeqSubset
    <2> QED
      BY <2>1, ConcatProperties DEF Inboxes
  <1> QED
    BY <1>1, <1>2 DEF Send, Inboxes

\* What is in an inbox afterwards was there or is sent.
LEMMA SendsContent ==
  ASSUME NEW rest \in Inboxes, NEW i, NEW S \in SUBSET Message, Sends(rest, i, S),
         NEW d \in NodeId, NEW m \in Content(inbox'[d])
  PROVE  m \in Content(rest[d]) \/ m \in S
  <1>1. PICK out \in [NodeId -> Seq(S)] : Send(rest, i, out)
    BY DEF Sends
  <1>2. PICK k \in DOMAIN inbox'[d] : m = inbox'[d][k]
    BY DEF Content
  <1>3. inbox'[d] = rest[d] \o out[d] \/ inbox'[d] = rest[d]
    BY <1>1 DEF Send
  <1>4. rest[d] \in Seq(Message) /\ out[d] \in Seq(S)
    BY DEF Inboxes
  <1>5. CASE inbox'[d] = rest[d]
    BY <1>2, <1>5 DEF Content
  <1>6. CASE inbox'[d] = rest[d] \o out[d]
    <2>1. out[d] \in Seq(Message)
      BY <1>4, SeqSubset
    <2>2. /\ Len(rest[d]) \in Nat /\ Len(out[d]) \in Nat
          /\ DOMAIN rest[d] = 1 .. Len(rest[d]) /\ DOMAIN out[d] = 1 .. Len(out[d])
      BY <1>4, LenProperties
    <2>3. k \in 1 .. Len(rest[d]) + Len(out[d])
      BY <1>2, <1>4, <1>6, <2>1, <2>2, ConcatProperties, LenProperties
    <2>4. m = IF k <= Len(rest[d]) THEN rest[d][k] ELSE out[d][k - Len(rest[d])]
      BY <1>2, <1>4, <1>6, <2>1, <2>3, ConcatProperties
    <2>5. CASE k <= Len(rest[d])
      BY <2>2, <2>3, <2>4, <2>5 DEF Content
    <2>6. CASE k > Len(rest[d])
      <3>1. k - Len(rest[d]) \in 1 .. Len(out[d])
        BY <2>2, <2>3, <2>6
      <3>2. out[d][k - Len(rest[d])] \in S
        BY <1>4, <3>1, ElementOfSeq
      <3> QED
        BY <2>2, <2>3, <2>4, <2>6, <3>2
    <2> QED
      BY <2>2, <2>3, <2>5, <2>6
  <1> QED
    BY <1>3, <1>5, <1>6

\* A message that is taken.
LEMMA TakesType ==
  ASSUME inbox \in Inboxes, NEW i \in NodeId, NEW type, Takes(i, type)
  PROVE  /\ Rest(i) \in Inboxes
         /\ Head(inbox[i]) \in Message
         /\ Head(inbox[i]).type = type
         /\ Head(inbox[i]) \in Content(inbox[i])
         /\ \A d \in NodeId : Content(Rest(i)[d]) \subseteq Content(inbox[d])
  <1>1. inbox[i] \in Seq(Message) /\ inbox[i] # <<>> /\ Head(inbox[i]).type = type
    BY DEF Inboxes, Takes
  <1>2. Head(inbox[i]) \in Message /\ Tail(inbox[i]) \in Seq(Message)
    BY <1>1, HeadTailProperties
  <1>3. Rest(i) \in Inboxes
    BY <1>2 DEF Rest, Inboxes
  <1>4. DOMAIN inbox[i] = 1 .. Len(inbox[i]) /\ Len(inbox[i]) \in Nat \ {0}
    BY <1>1, EmptySeq, LenProperties
  <1>5. Head(inbox[i]) = inbox[i][1]
    BY <1>1, HeadTailProperties
  <1>6. /\ DOMAIN Tail(inbox[i]) = 1 .. Len(inbox[i]) - 1
        /\ \A k \in 1 .. Len(inbox[i]) - 1 : Tail(inbox[i])[k] = inbox[i][k + 1]
    BY <1>1, <1>2, <1>4, HeadTailProperties, LenProperties
  <1>7. Content(Tail(inbox[i])) \subseteq Content(inbox[i])
    BY <1>4, <1>6 DEF Content
  <1>8. \A d \in NodeId : Rest(i)[d] = IF d = i THEN Tail(inbox[i]) ELSE inbox[d]
    BY DEF Rest, Inboxes
  <1>9. Head(inbox[i]) \in Content(inbox[i])
    <2>1. 1 \in DOMAIN inbox[i]
      BY <1>4
    <2> QED
      BY <1>5, <2>1 DEF Content
  <1> QED
    BY <1>1, <1>2, <1>3, <1>7, <1>8, <1>9

-----------------------------------------------------------------------------
(* What the actions send *)

LEMMA NothingSent ==
  ASSUME NEW rest \in Inboxes, NEW i
  PROVE  /\ inbox' = rest => Sends(rest, i, {})
         /\ Send(rest, i, Quiet) => Sends(rest, i, {})
  <1>1. Quiet \in [NodeId -> Seq({})]
    BY QuietSends
  <1>2. ASSUME NEW d \in NodeId PROVE rest[d] \o Quiet[d] = rest[d]
    <2>1. rest[d] \in Seq(Message) /\ Quiet[d] = <<>>
      BY DEF Inboxes, Quiet
    <2> QED
      BY <2>1, ConcatEmptySeq
  <1>3. inbox' = rest => Send(rest, i, Quiet)
    BY <1>2 DEF Send, Inboxes
  <1> QED
    BY <1>1, <1>3 DEF Sends

LEMMA SendsMore ==
  ASSUME NEW rest, NEW i, NEW S, NEW T, S \subseteq T, Sends(rest, i, S)
  PROVE  Sends(rest, i, T)
  <1>1. PICK out \in [NodeId -> Seq(S)] : Send(rest, i, out)
    BY DEF Sends
  <1>2. out \in [NodeId -> Seq(T)]
    <2>1. \A d \in NodeId : out[d] \in Seq(T)
      BY SeqSubset
    <2> QED
      BY <2>1
  <1> QED
    BY <1>1, <1>2 DEF Sends

LEMMA LogTermsType ==
  ASSUME NEW lg \in Seq(LogEntry)
  PROVE  /\ LastTerm(lg) \in Nat
         /\ \A n : TermAt(lg, n) \in Nat
         /\ \A n \in DOMAIN lg : lg[n].term \in Nat /\ lg[n].command \subseteq Reading
  <1>1. \A n \in 1 .. Len(lg) : lg[n] \in LogEntry
    BY ElementOfSeq
  <1>2. \A n \in 1 .. Len(lg) : lg[n].term \in Nat /\ lg[n].command \subseteq Reading
    BY <1>1 DEF LogEntry
  <1>3. lg # <<>> => Len(lg) \in 1 .. Len(lg)
    BY EmptySeq
  <1>4. DOMAIN lg = 1 .. Len(lg)
    BY LenProperties
  <1> QED
    BY <1>2, <1>3, <1>4 DEF LastTerm, TermAt

\* The rounds of AppendEntries that i may send when its log is lg.
RoundsOf(i, lg) == {AppendEntries(i, lg, next) : next \in Nat \ {0}}

LEMMA RoundsType ==
  ASSUME TypeOK, NEW i \in Coordinator, NEW lg \in Seq(LogEntry)
  PROVE  /\ RoundsOf(i, lg) \subseteq OfType({"AppendEntriesRPC"})
         /\ Rounds(i, lg) \in [NodeId -> Seq(RoundsOf(i, lg))]
  <1>1. ASSUME NEW next \in Nat \ {0}
        PROVE  AppendEntries(i, lg, next) \in OfType({"AppendEntriesRPC"})
    <2>1. next - 1 \in Nat
      OBVIOUS
    <2>2. Suffix(lg, next - 1) \in Seq(LogEntry)
      BY <2>1, SuffixIsSeq
    <2>3. TermAt(lg, next - 1) \in Nat
      BY LogTermsType
    <2>4. current_term[i] \in Nat /\ commit_index[i] \in Nat
      BY DEF TypeOK
    <2> QED
      BY <2>1, <2>2, <2>3, <2>4 DEF AppendEntries, Message, OfType
  <1>2. ASSUME NEW d \in Peers(i)
        PROVE  <<AppendEntries(i, lg, next_index[i][d])>> \in Seq(RoundsOf(i, lg))
    <2>1. next_index[i][d] \in Nat \ {0}
      BY DEF TypeOK, Peers
    <2>2. AppendEntries(i, lg, next_index[i][d]) \in RoundsOf(i, lg)
      BY <2>1 DEF RoundsOf
    <2> QED
      BY <2>2
  <1> QED
    BY <1>1, <1>2, EmptySeq DEF Rounds, RoundsOf

LEMMA ExtendedType ==
  ASSUME TypeOK, NEW i \in Coordinator, NEW command \in SUBSET Reading
  PROVE  Extended(i, command) \in Seq(LogEntry)
  <1>1. log[i] \in Seq(LogEntry) /\ current_term[i] \in Nat
    BY DEF TypeOK
  <1>2. [term |-> current_term[i], command |-> command] \in LogEntry
    BY <1>1 DEF LogEntry
  <1> QED
    BY <1>1, <1>2, AppendProperties DEF Extended

LEMMA ReplicateSends ==
  ASSUME TypeOK, NEW rest \in Inboxes, NEW i \in Coordinator, NEW command \in SUBSET Reading,
         Replicate(rest, i, command)
  PROVE  /\ Sends(rest, i, RoundsOf(i, log'[i]))
         /\ log' = [log EXCEPT ![i] = Extended(i, command)]
         /\ log'[i] = Extended(i, command) /\ log'[i] \in Seq(LogEntry)
         /\ log' \in [Coordinator -> Seq(LogEntry)]
         /\ inbox' \in Inboxes
  <1>1. log \in [Coordinator -> Seq(LogEntry)] /\ Extended(i, command) \in Seq(LogEntry)
    BY ExtendedType DEF TypeOK
  <1>2. log' = [log EXCEPT ![i] = Extended(i, command)] /\ log'[i] = Extended(i, command)
    BY <1>1 DEF Replicate
  <1>3. Sends(rest, i, RoundsOf(i, log'[i]))
    BY <1>1, <1>2, RoundsType DEF Replicate, Sends
  <1>4. RoundsOf(i, log'[i]) \subseteq Message
    BY <1>1, <1>2, RoundsType DEF OfType
  <1> QED
    BY <1>1, <1>2, <1>3, <1>4, SendsType

LEMMA PingType ==
  ASSUME TypeOK, NEW i \in Coordinator
  PROVE  Ping(i) \in OfType({"LivenessPing"})
  BY DEF Ping, OfType, Message, TypeOK

LEMMA AppendResponseType ==
  ASSUME TypeOK, NEW i \in Coordinator, NEW term \in Nat, NEW success \in BOOLEAN,
         NEW index \in Nat
  PROVE  AppendResponse(i, term, success, index) \in OfType({"AppendEntriesResponse"})
  BY DEF AppendResponse, OfType, Message, TypeOK

LEMMA StepDownType ==
  ASSUME TypeOK, NEW i \in Coordinator, NEW term \in Nat
  PROVE  /\ TermAfter(i, term) \in Nat
         /\ VoteAfter(i, term) \in Coordinator \cup {None}
         /\ StateAfter(i, term) \in NodeState
         /\ StepDown(i, term) =>
              /\ current_term' \in [Coordinator -> Nat]
              /\ voted_for' \in [Coordinator -> Coordinator \cup {None}]
              /\ state' \in [Coordinator -> NodeState]
  <1>1. /\ current_term \in [Coordinator -> Nat]
        /\ voted_for \in [Coordinator -> Coordinator \cup {None}]
        /\ state \in [Coordinator -> NodeState]
    BY DEF TypeOK
  <1>2. TermAfter(i, term) \in Nat /\ VoteAfter(i, term) \in Coordinator \cup {None}
    BY <1>1 DEF TermAfter, VoteAfter
  <1>3. StateAfter(i, term) \in NodeState
    BY <1>1 DEF StateAfter, NodeState
  <1> QED
    BY <1>1, <1>2, <1>3 DEF StepDown

LEMMA StartElectionSends ==
  ASSUME TypeOK, NEW rest \in Inboxes, NEW i \in Coordinator, NEW term \in Nat,
         StartElection(rest, i, term)
  PROVE  /\ Sends(rest, i, OfType({"RequestVoteRPC"}))
         /\ inbox' \in Inboxes
         /\ current_term' \in [Coordinator -> Nat]
         /\ state' \in [Coordinator -> NodeState]
         /\ voted_for' \in [Coordinator -> Coordinator \cup {None}]
         /\ votes_received' \in [Coordinator -> SUBSET Coordinator]
         /\ elected' = elected
  <1> DEFINE m == [type |-> "RequestVoteRPC", from |-> i, term |-> term + 1,
                   last_log_index |-> Len(log[i]), last_log_term |-> LastTerm(log[i]),
                   battery_level |-> battery[i]]
  <1>1. log[i] \in Seq(LogEntry) /\ battery[i] \in Levels
    BY DEF TypeOK
  <1>2. Len(log[i]) \in Nat /\ LastTerm(log[i]) \in Nat
    BY <1>1, LogTermsType, LenProperties
  <1>3. m \in OfType({"RequestVoteRPC"})
    BY <1>1, <1>2 DEF OfType, Message
  <1>4. Sends(rest, i, OfType({"RequestVoteRPC"}))
    BY <1>3, ToPeersSends DEF StartElection, Sends
  <1>5. inbox' \in Inboxes
    BY <1>4, SendsType DEF OfType
  <1> QED
    BY <1>4, <1>5 DEF StartElection, TypeOK, NodeState

-----------------------------------------------------------------------------
(* Type correctness, and what each action sends *)

LEMMA InboxesType == TypeOK => inbox \in Inboxes
  BY DEF TypeOK, Inboxes

LEMMA ContentType ==
  ASSUME TypeOK, NEW d \in NodeId, NEW m \in Content(inbox[d])
  PROVE  m \in Message
  <1>1. inbox[d] \in Seq(Message)
    BY DEF TypeOK
  <1> QED
    BY <1>1, ElementOfSeq, LenProperties DEF Content

LEMMA ElectionIdleType ==
  ASSUME TypeOK, NEW i \in Coordinator, ElectionIdle(i)
  PROVE  TypeOK' /\ Sends(inbox, i, OfType({"RequestVoteRPC"}))
  <1>1. inbox \in Inboxes /\ current_term[i] \in Nat
    BY DEF TypeOK, Inboxes
  <1>2. StartElection(inbox, i, current_term[i])
    BY DEF ElectionIdle
  <1> QED
    BY <1>1, <1>2, StartElectionSends
    DEF TypeOK, ElectionIdle, Inboxes, replicationVars, reportVars, handoffVars, leafVars,
        faultVars

LEMMA RaftIdleType ==
  ASSUME TypeOK, NEW i \in Coordinator, RaftIdle(i)
  PROVE  TypeOK' /\ Sends(inbox, i, RoundsOf(i, log[i]))
  <1>1. inbox \in Inboxes /\ log[i] \in Seq(LogEntry)
    BY DEF TypeOK, Inboxes
  <1>2. Sends(inbox, i, RoundsOf(i, log[i])) /\ RoundsOf(i, log[i]) \subseteq Message
    BY <1>1, RoundsType DEF RaftIdle, Sends, OfType
  <1>3. inbox' \in Inboxes
    BY <1>1, <1>2, SendsType
  <1> QED
    BY <1>2, <1>3
    DEF TypeOK, RaftIdle, Inboxes, electionVars, replicationVars, reportVars, handoffVars,
        leafVars, faultVars

LEMMA EchoIdleType ==
  ASSUME TypeOK, NEW i \in Coordinator, EchoIdle(i)
  PROVE  TypeOK' /\ Sends(inbox, i, OfType({"LivenessPing"}))
  <1>1. inbox \in Inboxes
    BY DEF TypeOK, Inboxes
  <1>2. Sends(inbox, i, OfType({"LivenessPing"}))
    BY PingType, ToPeersSends DEF EchoIdle, Sends
  <1>3. inbox' \in Inboxes
    BY <1>1, <1>2, SendsType DEF OfType
  <1> QED
    BY <1>2, <1>3
    DEF TypeOK, EchoIdle, Inboxes, electionVars, replicationVars, reportVars, handoffVars,
        leafVars, faultVars

\* What the idle pass of an echod leader may send.
EchodSends(i, lg) == RoundsOf(i, lg) \cup OfType({"LivenessPing", "LeadershipHandoff"})

LEMMA ReadingsType ==
  ASSUME NEW buffer \in Seq(Reading)
  PROVE  Readings(buffer) \subseteq Reading
  <1>1. \A k \in DOMAIN buffer : buffer[k] \in Reading
    BY ElementOfSeq, LenProperties
  <1> QED
    BY <1>1 DEF Readings

\* The cases of the idle pass of an echod leader: its log and what it sends
\* ahead of a nomination, and the nomination.
LEMMA EchodIdleCases ==
  ASSUME TypeOK, NEW i \in Coordinator, EchodIdle(i)
  PROVE  /\ Sends(inbox, i, EchodSends(i, log'[i]))
         /\ \/ log'[i] = log[i] /\ batch_buffer' = batch_buffer
            \/ /\ log'[i] = Extended(i, Readings(batch_buffer[i]))
               /\ batch_buffer[i] # <<>>
               /\ batch_buffer' = [batch_buffer EXCEPT ![i] = <<>>]
         /\ log' \in [Coordinator -> Seq(LogEntry)]
         /\ \A n \in Coordinator : n # i => log'[n] = log[n]
         /\ batch_buffer' \in [Coordinator -> Seq(Reading)]
         /\ handoff_sent' \in [Coordinator -> BOOLEAN]
         /\ \/ UNCHANGED <<state, voted_for, battery, count>>
            \/ \E level \in Spent(i) :
                 /\ battery' = [battery EXCEPT ![i] = level]
                 /\ voted_for' = [voted_for EXCEPT ![i] = IF level < T_LOW THEN None ELSE @]
                 /\ state' = [state EXCEPT ![i] = Follower]
                 /\ count' = [count EXCEPT !.others = IF level < battery[i] THEN @ + 1 ELSE @]
  <1> DEFINE lg(flush) == IF flush THEN Extended(i, Readings(batch_buffer[i])) ELSE log[i]
             ahead(flush, ping) == Then(IF flush THEN Rounds(i, lg(flush)) ELSE Quiet,
                                        IF ping THEN ToPeers(i, Ping(i)) ELSE Quiet)
             nomination == [type |-> "LeadershipHandoff", from |-> i, term |-> current_term[i]]
  <1>1. PICK flush \in BOOLEAN, ping \in BOOLEAN :
          /\ flush => batch_buffer[i] # <<>>
          /\ log' = [log EXCEPT ![i] = lg(flush)]
          /\ batch_buffer' = [batch_buffer EXCEPT ![i] = IF flush THEN <<>> ELSE @]
          /\ handoff_sent' = [handoff_sent EXCEPT ![i] = @ \/ HandoffDue(i)]
          /\ \/ /\ Send(inbox, i, ahead(flush, ping))
                /\ UNCHANGED <<state, voted_for, battery, count>>
             \/ \E p \in Successors(i), level \in Spent(i) :
                  HandOver(i, p, level, ahead(flush, ping))
    BY DEF EchodIdle
  <1>2. /\ log \in [Coordinator -> Seq(LogEntry)] /\ current_term[i] \in Nat
        /\ batch_buffer \in [Coordinator -> Seq(Reading)]
        /\ handoff_sent \in [Coordinator -> BOOLEAN]
    BY DEF TypeOK
  <1>3. lg(flush) \in Seq(LogEntry)
    <2>1. Readings(batch_buffer[i]) \in SUBSET Reading
      BY <1>2, ReadingsType
    <2> QED
      BY <1>2, <2>1, ExtendedType
  <1> HIDE DEF lg
  <1>4. log'[i] = lg(flush) /\ log' \in [Coordinator -> Seq(LogEntry)]
    BY <1>1, <1>2, <1>3
  <1> DEFINE S == EchodSends(i, lg(flush))
  <1>5. nomination \in S
    BY <1>2 DEF EchodSends, OfType, Message
  <1>6. ahead(flush, ping) \in [NodeId -> Seq(S)]
    <2>1. Rounds(i, lg(flush)) \in [NodeId -> Seq(S)]
      <3>1. \A d \in NodeId : Rounds(i, lg(flush))[d] \in Seq(RoundsOf(i, lg(flush)))
        BY <1>3, RoundsType
      <3>2. \A d \in NodeId : Rounds(i, lg(flush))[d] \in Seq(S)
        BY <3>1, SeqSubset DEF EchodSends
      <3> QED
        BY <3>2 DEF Rounds
    <2>2. ToPeers(i, Ping(i)) \in [NodeId -> Seq(S)]
      <3>1. Ping(i) \in S
        BY PingType DEF EchodSends, OfType
      <3> QED
        BY <3>1, ToPeersSends
    <2> QED
      BY <2>1, <2>2, QuietSends, ThenSends
  <1> HIDE DEF ahead, S
  <1>7. Sends(inbox, i, S)
    <2>1. CASE Send(inbox, i, ahead(flush, ping))
      BY <1>6, <2>1 DEF Sends
    <2>2. CASE \E p \in Successors(i), level \in Spent(i) :
                 HandOver(i, p, level, ahead(flush, ping))
      <3>1. PICK p \in Successors(i) : Send(inbox, i, Then(ahead(flush, ping), Only(p, nomination)))
        BY <2>2 DEF HandOver
      <3>2. Then(ahead(flush, ping), Only(p, nomination)) \in [NodeId -> Seq(S)]
        BY <1>5, <1>6, OnlySends, ThenSends
      <3> QED
        BY <3>1, <3>2 DEF Sends
    <2> QED
      BY <1>1, <2>1, <2>2
  <1>8. \/ log'[i] = log[i] /\ batch_buffer' = batch_buffer
        \/ /\ log'[i] = Extended(i, Readings(batch_buffer[i]))
           /\ batch_buffer[i] # <<>>
           /\ batch_buffer' = [batch_buffer EXCEPT ![i] = <<>>]
    BY <1>1, <1>2, <1>4 DEF lg
  <1>9. \/ UNCHANGED <<state, voted_for, battery, count>>
        \/ \E level \in Spent(i) :
             /\ battery' = [battery EXCEPT ![i] = level]
             /\ voted_for' = [voted_for EXCEPT ![i] = IF level < T_LOW THEN None ELSE @]
             /\ state' = [state EXCEPT ![i] = Follower]
             /\ count' = [count EXCEPT !.others = IF level < battery[i] THEN @ + 1 ELSE @]
    BY <1>1 DEF HandOver
  <1>10. /\ batch_buffer' \in [Coordinator -> Seq(Reading)]
         /\ handoff_sent' \in [Coordinator -> BOOLEAN]
    BY <1>1, <1>2, EmptySeq
  <1>11. \A n \in Coordinator : n # i => log'[n] = log[n]
    BY <1>1, <1>2
  <1> QED
    BY <1>4, <1>7, <1>8, <1>9, <1>10, <1>11 DEF S

LEMMA LevelsAreNumbers == \A level \in Levels : level \in Int
  BY SimAssumption

LEMMA SpentType ==
  ASSUME NEW i, NEW level \in Spent(i), battery[i] \in Levels
  PROVE  level \in Levels /\ level <= battery[i]
  <1>2. level = battery[i] \/ (level \in Levels /\ level < battery[i])
    BY DEF Spent
  <1>3. level \in Levels
    BY <1>2
  <1> QED
    BY LevelsAreNumbers, <1>2, <1>3

LEMMA EchodIdleType ==
  ASSUME TypeOK, NEW i \in Coordinator, EchodIdle(i)
  PROVE  TypeOK' /\ Sends(inbox, i, EchodSends(i, log'[i]))
  <1>1. /\ Sends(inbox, i, EchodSends(i, log'[i]))
        /\ log' \in [Coordinator -> Seq(LogEntry)]
        /\ batch_buffer' \in [Coordinator -> Seq(Reading)]
        /\ handoff_sent' \in [Coordinator -> BOOLEAN]
    BY EchodIdleCases
  <1>2. inbox' \in Inboxes
    <2>1. EchodSends(i, log'[i]) \subseteq Message
      BY <1>1, RoundsType DEF EchodSends, OfType
    <2> QED
      BY <1>1, <2>1, InboxesType, SendsType
  <1>3. /\ battery' \in [Coordinator -> Levels]
        /\ voted_for' \in [Coordinator -> Coordinator \cup {None}]
        /\ state' \in [Coordinator -> NodeState]
        /\ count' \in [{"reports", "registers", "others"} -> Nat]
    <2>1. CASE UNCHANGED <<state, voted_for, battery, count>>
      BY <2>1 DEF TypeOK
    <2>2. CASE \E level \in Spent(i) :
             /\ battery' = [battery EXCEPT ![i] = level]
             /\ voted_for' = [voted_for EXCEPT ![i] = IF level < T_LOW THEN None ELSE @]
             /\ state' = [state EXCEPT ![i] = Follower]
             /\ count' = [count EXCEPT !.others = IF level < battery[i] THEN @ + 1 ELSE @]
      <3>1. PICK level \in Spent(i) :
             /\ battery' = [battery EXCEPT ![i] = level]
             /\ voted_for' = [voted_for EXCEPT ![i] = IF level < T_LOW THEN None ELSE @]
             /\ state' = [state EXCEPT ![i] = Follower]
             /\ count' = [count EXCEPT !.others = IF level < battery[i] THEN @ + 1 ELSE @]
        BY <2>2
      <3>2. level \in Levels
        BY SpentType DEF TypeOK
      <3>3. count' \in [{"reports", "registers", "others"} -> Nat]
        <4>1. count \in [{"reports", "registers", "others"} -> Nat]
          BY DEF TypeOK
        <4>2. count["others"] + 1 \in Nat
          BY <4>1
        <4> QED
          BY <3>1, <4>1, <4>2
      <3> QED
        BY <3>1, <3>2, <3>3 DEF TypeOK, NodeState
    <2> QED
      BY <2>1, <2>2, EchodIdleCases
  <1> QED
    BY <1>1, <1>2, <1>3 DEF TypeOK, EchodIdle, Inboxes, leafVars, faultVars

LEMMA HandleRequestVoteType ==
  ASSUME TypeOK, NEW i \in Coordinator, HandleRequestVote(i)
  PROVE  TypeOK' /\ Sends(Rest(i), i, {[type |-> "RequestVoteResponse", from |-> i,
           term |-> TermAfter(i, Head(inbox[i]).term),
           vote_granted |-> Grants(i, Head(inbox[i]))]})
  <1> DEFINE m == Head(inbox[i])
             answer == [type |-> "RequestVoteResponse", from |-> i,
                        term |-> TermAfter(i, m.term), vote_granted |-> Grants(i, m)]
  <1>1. /\ Rest(i) \in Inboxes /\ m.from \in Coordinator /\ m.term \in Nat
    BY InboxesType, NodesAreIds, TakesType, MessageFields DEF HandleRequestVote
  <1>2. Grants(i, m) \in BOOLEAN
    BY DEF Grants
  <1>3. answer \in Message
    BY <1>1, <1>2, StepDownType DEF Message
  <1>4. Sends(Rest(i), i, {answer})
    BY OnlySends DEF HandleRequestVote, Sends
  <1>5. inbox' \in Inboxes
    BY <1>1, <1>3, <1>4, SendsType
  <1>6. /\ current_term' \in [Coordinator -> Nat]
        /\ state' \in [Coordinator -> NodeState]
        /\ voted_for' \in [Coordinator -> Coordinator \cup {None}]
    BY <1>1, StepDownType DEF TypeOK, HandleRequestVote
  <1> QED
    BY <1>4, <1>5, <1>6
    DEF TypeOK, HandleRequestVote, Inboxes, replicationVars, reportVars, handoffVars,
        leafVars, faultVars

\* The two outcomes of a vote, with what they have in common.
LEMMA HandleVoteResponseType ==
  ASSUME TypeOK, NEW i \in Coordinator, HandleVoteResponse(i)
  PROVE  TypeOK' /\ Sends(Rest(i), i, OfType({"LivenessPing"}))
  <1> DEFINE m == Head(inbox[i])
             votes == IF m.vote_granted THEN votes_received[i] \cup {m.from}
                      ELSE votes_received[i]
             counts == state[i] = Candidate /\ m.term = current_term[i]
  <1>1. /\ Rest(i) \in Inboxes /\ m.from \in Coordinator /\ m.term \in Nat
    BY InboxesType, NodesAreIds, TakesType, MessageFields DEF HandleVoteResponse
  <1>2. votes \subseteq Coordinator
    BY <1>1 DEF TypeOK
  <1>3. votes_received' \in [Coordinator -> SUBSET Coordinator]
    BY <1>2 DEF TypeOK, HandleVoteResponse
  <1>4. CASE counts /\ BecomeLeader(Rest(i), i, votes) /\ UNCHANGED <<current_term, voted_for>>
    <2>1. Sends(Rest(i), i, OfType({"LivenessPing"}))
      BY <1>4, PingType, ToPeersSends DEF BecomeLeader, Sends
    <2>2. inbox' \in Inboxes
      BY <1>1, <2>1, SendsType DEF OfType
    <2>3. Len(log[i]) + 1 \in Nat \ {0}
      BY LenProperties DEF TypeOK
    <2>4. /\ next_index' \in [Coordinator -> [Coordinator -> Nat \ {0}]]
          /\ match_index' \in [Coordinator -> [Coordinator -> Nat]]
          /\ handoff_sent' \in [Coordinator -> BOOLEAN]
          /\ state' \in [Coordinator -> NodeState]
      BY <1>4, <2>3 DEF TypeOK, BecomeLeader, NodeState
    <2>5. elected' \subseteq [term : Nat, leader : Coordinator, quorum : SUBSET Coordinator]
      BY <1>2, <1>4 DEF TypeOK, BecomeLeader
    <2> QED
      BY <1>3, <1>4, <2>1, <2>2, <2>4, <2>5
      DEF TypeOK, HandleVoteResponse, Inboxes, reportVars, leafVars, faultVars
  <1>5. CASE /\ StepDown(i, m.term) /\ inbox' = Rest(i)
             /\ UNCHANGED <<next_index, match_index, handoff_sent, elected>>
    <2>1. Sends(Rest(i), i, OfType({"LivenessPing"}))
      BY <1>1, <1>5, NothingSent, SendsMore
    <2> QED
      BY <1>1, <1>3, <1>5, <2>1, StepDownType
      DEF TypeOK, HandleVoteResponse, Inboxes, reportVars, leafVars, faultVars
  <1> QED
    BY <1>4, <1>5 DEF HandleVoteResponse

LEMMA HandleLivenessPingType ==
  ASSUME TypeOK, NEW i \in Coordinator, HandleLivenessPing(i)
  PROVE  TypeOK' /\ Sends(Rest(i), i, {})
  <1> DEFINE m == Head(inbox[i])
  <1>1. /\ Rest(i) \in Inboxes /\ m.from \in Coordinator /\ m.term \in Nat
    BY InboxesType, NodesAreIds, TakesType, MessageFields DEF HandleLivenessPing
  <1>2. inbox' = Rest(i) /\ StepDown(i, m.term)
    BY DEF HandleLivenessPing
  <1>3. current_leader_id' \in [Coordinator -> Coordinator \cup {None}]
    BY <1>1 DEF TypeOK, HandleLivenessPing
  <1> QED
    BY <1>1, <1>2, <1>3, StepDownType, NothingSent
    DEF TypeOK, HandleLivenessPing, Inboxes, replicationVars, reportVars, handoffVars,
        leafVars, faultVars

LEMMA HandleLeadershipHandoffType ==
  ASSUME TypeOK, NEW i \in Coordinator, HandleLeadershipHandoff(i)
  PROVE  TypeOK' /\ Sends(Rest(i), i, OfType({"RequestVoteRPC"}))
  <1> DEFINE m == Head(inbox[i])
  <1>1. /\ Rest(i) \in Inboxes /\ m.from \in Coordinator /\ m.term \in Nat
    BY InboxesType, NodesAreIds, TakesType, MessageFields DEF HandleLeadershipHandoff
  <1>2. TermAfter(i, m.term) \in Nat
    BY <1>1, StepDownType
  <1>3. CASE StartElection(Rest(i), i, TermAfter(i, m.term))
    BY <1>1, <1>2, <1>3, StartElectionSends
    DEF TypeOK, HandleLeadershipHandoff, Inboxes, replicationVars, reportVars, handoffVars,
        leafVars, faultVars
  <1>4. CASE inbox' = Rest(i) /\ UNCHANGED electionVars
    <2>1. Sends(Rest(i), i, OfType({"RequestVoteRPC"}))
      BY <1>1, <1>4, NothingSent, SendsMore
    <2> QED
      BY <1>1, <1>4, <2>1
      DEF TypeOK, HandleLeadershipHandoff, Inboxes, electionVars, replicationVars, reportVars,
          handoffVars, leafVars, faultVars
  <1> QED
    BY <1>3, <1>4 DEF HandleLeadershipHandoff

LEMMA MergedLogType ==
  ASSUME NEW S, NEW lg \in Seq(S), NEW es \in Seq(S), NEW prev \in Nat
  PROVE  MergedLog(lg, prev, es) \in Seq(S)
  <1>1. prev <= Len(lg) => Merged(lg, prev, es) \in Seq(S)
    BY MergeIsSeq
  <1>2. lg \o es \in Seq(S)
    BY ConcatProperties
  <1> QED
    BY <1>1, <1>2 DEF MergedLog

LEMMA HandleAppendEntriesType ==
  ASSUME TypeOK, NEW i \in Coordinator, HandleAppendEntries(i)
  PROVE  TypeOK' /\ Sends(Rest(i), i, OfType({"AppendEntriesResponse"}))
  <1> DEFINE m == Head(inbox[i])
             merged == MergedLog(log[i], m.prev_log_index, m.entries)
             refusal == Only(m.from, AppendResponse(i, TermAfter(i, m.term), FALSE, 0))
             answer == Only(m.from, AppendResponse(i, m.term, TRUE, Len(merged)))
             S == OfType({"AppendEntriesResponse"})
  <1>1. /\ Rest(i) \in Inboxes /\ m.from \in Coordinator /\ m.term \in Nat
        /\ m.prev_log_index \in Nat /\ m.entries \in Seq(LogEntry) /\ m.leader_commit \in Nat
    BY InboxesType, NodesAreIds, TakesType, MessageFields DEF HandleAppendEntries
  <1>2. merged \in Seq(LogEntry) /\ Len(merged) \in Nat
    <2>1. log[i] \in Seq(LogEntry)
      BY DEF TypeOK
    <2> QED
      BY <1>1, <2>1, MergedLogType, LenProperties
  <1>3. Send(Rest(i), i, refusal) \/ Send(Rest(i), i, answer)
    BY DEF HandleAppendEntries
  <1>4. refusal \in [NodeId -> Seq(S)] /\ answer \in [NodeId -> Seq(S)]
    BY <1>1, <1>2, AppendResponseType, StepDownType, OnlySends
  <1>5. Sends(Rest(i), i, S)
    BY <1>3, <1>4 DEF Sends
  <1>6. inbox' \in Inboxes
    BY <1>1, <1>5, SendsType DEF OfType
  <1>7. log' \in [Coordinator -> Seq(LogEntry)] /\ commit_index' \in [Coordinator -> Nat]
    <2>1. CASE UNCHANGED <<log, commit_index>>
      BY <2>1 DEF TypeOK
    <2>2. CASE /\ log' = [log EXCEPT ![i] = merged]
               /\ commit_index' = [commit_index EXCEPT ![i] =
                       CommitAfter(@, m.leader_commit, Len(merged))]
      <3>1. CommitAfter(commit_index[i], m.leader_commit, Len(merged)) \in Nat
        BY <1>1, <1>2 DEF TypeOK, CommitAfter
      <3> QED
        BY <1>2, <2>2, <3>1 DEF TypeOK
    <2> QED
      BY <2>1, <2>2 DEF HandleAppendEntries
  <1>8. /\ current_term' \in [Coordinator -> Nat]
        /\ voted_for' \in [Coordinator -> Coordinator \cup {None}]
    BY <1>1, StepDownType DEF TypeOK, HandleAppendEntries
  <1>10. state' \in [Coordinator -> NodeState]
    <2>1. Follower \in NodeState /\ StateAfter(i, m.term) \in NodeState
      BY <1>1, StepDownType DEF NodeState
    <2>2. state' = state \/ \E s \in NodeState : state' = [state EXCEPT ![i] = s]
      BY <2>1, Zenon DEF HandleAppendEntries
    <2> QED
      BY <2>2 DEF TypeOK
  <1>9. current_leader_id' \in [Coordinator -> Coordinator \cup {None}]
    BY <1>1 DEF TypeOK, HandleAppendEntries
  <1> QED
    BY <1>5, <1>6, <1>7, <1>8, <1>9, <1>10
    DEF TypeOK, HandleAppendEntries, Inboxes, reportVars, handoffVars, leafVars, faultVars

\* A nonempty set of numbers with an upper bound has a greatest element.
LEMMA GreatestOfBounded ==
  ASSUME NEW bound \in Nat, NEW P \in SUBSET (0 .. bound), P # {}
  PROVE  \E n \in P : \A k \in P : k <= n
  <1> DEFINE Gaps == {bound - n : n \in P}
  <1>1. Gaps \in SUBSET Nat /\ Gaps # {}
    <2>1. \A n \in P : n \in Int /\ 0 <= n /\ n <= bound
      OBVIOUS
    <2>2. \A n \in P : bound - n \in Nat
      BY <2>1
    <2> QED
      BY <2>2
  <1>2. PICK gap \in Gaps : \A other \in Gaps : gap <= other
    BY <1>1, LeastNatural
  <1>3. PICK n \in P : gap = bound - n
    OBVIOUS
  <1>4. ASSUME NEW k \in P PROVE k <= n
    <2>1. bound - n <= bound - k
      BY <1>2, <1>3
    <2>2. n \in Int /\ k \in Int
      OBVIOUS
    <2> QED
      BY <2>1, <2>2
  <1> QED
    BY <1>4

LEMMA HandleAppendResponseType ==
  ASSUME TypeOK, NEW i \in Coordinator, HandleAppendResponse(i)
  PROVE  TypeOK' /\ Sends(Rest(i), i, {})
  <1> DEFINE m == Head(inbox[i])
             counts == m.term <= current_term[i] /\ state[i] = Leader
             match == [match_index[i] EXCEPT ![m.from] = m.match_index]
             next == next_index[i][m.from]
             level == IF m.term > current_term[i] \/ m.responder_battery = 0
                      THEN peer_batteries[i][m.from] ELSE m.responder_battery
             ready == Committable(log[i], commit_index[i], current_term[i], match,
                                  Cardinality(Coordinator))
  <1>1. /\ Rest(i) \in Inboxes /\ m.from \in Coordinator /\ m.term \in Nat
        /\ m.success \in BOOLEAN /\ m.match_index \in Nat /\ m.responder_battery \in Levels
    BY InboxesType, NodesAreIds, TakesType, MessageFields DEF HandleAppendResponse
  <1>2. inbox' = Rest(i) /\ StepDown(i, m.term)
    BY DEF HandleAppendResponse
  <1>3. peer_batteries' \in [Coordinator -> [Coordinator -> Levels \cup {100}]]
    <2>1. peer_batteries \in [Coordinator -> [Coordinator -> Levels \cup {100}]]
      BY DEF TypeOK
    <2>2. level \in Levels \cup {100}
      BY <1>1, <2>1
    <2>3. peer_batteries' = [peer_batteries EXCEPT ![i][m.from] = level]
      BY DEF HandleAppendResponse
    <2> QED
      BY <1>1, <2>1, <2>2, <2>3
  <1>4. next_index' \in [Coordinator -> [Coordinator -> Nat \ {0}]]
    <2>1. next_index \in [Coordinator -> [Coordinator -> Nat \ {0}]]
      BY DEF TypeOK
    <2>2. NextIndex(next, m) \in Nat \ {0}
      <3>1. next \in Nat \ {0}
        BY <1>1, <2>1
      <3> QED
        BY <1>1, <3>1 DEF NextIndex
    <2>3. next_index' = [next_index EXCEPT ![i][m.from] =
                           IF counts THEN NextIndex(next, m) ELSE next]
      BY <2>1 DEF HandleAppendResponse
    <2> QED
      BY <1>1, <2>1, <2>2, <2>3
  <1>5. match_index' \in [Coordinator -> [Coordinator -> Nat]]
    <2>1. match_index' = match_index \/ match_index' = [match_index EXCEPT ![i] = match]
      BY DEF HandleAppendResponse
    <2>2. match \in [Coordinator -> Nat] /\ match_index \in [Coordinator -> [Coordinator -> Nat]]
      BY <1>1 DEF TypeOK
    <2> QED
      BY <2>1, <2>2
  <1>6. commit_index' \in [Coordinator -> Nat]
    <2>1. commit_index \in [Coordinator -> Nat] /\ Len(log[i]) \in Nat
      BY LenProperties DEF TypeOK
    <2>2. CASE UNCHANGED commit_index
      BY <2>1, <2>2
    <2>3. CASE TryAdvanceCommit(i, match)
      <3> DEFINE greatest == CHOOSE n \in ready : \A k \in ready : k <= n
      <3>1. \A n \in ready : n \in commit_index[i] + 1 .. Len(log[i])
        BY CommittableBounds, Zenon
      <3>2. ready # {} => greatest \in ready
        <4>1. \A n \in ready : n \in 0 .. Len(log[i])
          BY <2>1, <3>1
        <4> HIDE DEF ready
        <4>2. ready # {} => \E n \in ready : \A k \in ready : k <= n
          BY <2>1, <4>1, GreatestOfBounded
        <4> QED
          BY <4>2
      <3> HIDE DEF greatest, ready
      <3>3. ready # {} => greatest \in Nat
        <4>1. ready # {} => greatest \in commit_index[i] + 1 .. Len(log[i])
          BY <3>1, <3>2
        <4> QED
          BY <2>1, <4>1
      <3>4. commit_index' = [commit_index EXCEPT ![i] =
                               IF ready = {} THEN commit_index[i] ELSE greatest]
        BY <2>1, <2>3 DEF TryAdvanceCommit, greatest, ready
      <3> QED
        BY <2>1, <3>3, <3>4
    <2> QED
      BY <2>2, <2>3 DEF HandleAppendResponse
  <1> QED
    BY <1>1, <1>2, <1>3, <1>4, <1>5, <1>6, StepDownType, NothingSent
    DEF TypeOK, HandleAppendResponse, Inboxes, reportVars, leafVars, faultVars

LEMMA HandleLeafRegisterType ==
  ASSUME TypeOK, NEW i \in Coordinator, HandleLeafRegister(i)
  PROVE  /\ TypeOK'
         /\ Sends(Rest(i), i, {[type |-> "LeafRegisterResponse", from |-> i]})
         /\ Head(inbox[i]).from \in LeafId
  <1> DEFINE l == Head(inbox[i]).from
             answer == [type |-> "LeafRegisterResponse", from |-> i]
  <1>1. Rest(i) \in Inboxes /\ l \in LeafId
    BY InboxesType, NodesAreIds, TakesType, MessageFields DEF HandleLeafRegister
  <1>2. Sends(Rest(i), i, {answer})
    BY OnlySends DEF HandleLeafRegister, Sends
  <1>3. inbox' \in Inboxes
    <2>1. answer \in Message
      BY DEF Message
    <2> QED
      BY <1>1, <1>2, <2>1, SendsType
  <1>4. leaves' \in [Coordinator -> SUBSET LeafId]
    BY <1>1 DEF TypeOK, HandleLeafRegister, Registered
  <1> QED
    BY <1>1, <1>2, <1>3, <1>4
    DEF TypeOK, HandleLeafRegister, Inboxes, electionVars, replicationVars, reportVars,
        handoffVars, faultVars

\* What a coordinator does with a report: it sends it on, drops it, proposes it
\* (alone, or with the batch it fills) or keeps it in the batch.
LEMMA HandleSensorDataCases ==
  ASSUME TypeOK, NEW i \in Coordinator, HandleSensorData(i)
  PROVE  LET reading == Head(inbox[i]).reading
             relayed == [type |-> "SensorDataReport", from |-> i, reading |-> reading]
         IN  /\ Rest(i) \in Inboxes /\ reading \in Reading /\ relayed \in Message
             /\ \/ /\ \/ Send(Rest(i), i, Quiet)
                      \/ \E d \in Coordinator : Send(Rest(i), i, Only(d, relayed))
                   /\ batch_buffer' = [batch_buffer EXCEPT ![i] = Retained(i, reading)]
                   /\ UNCHANGED <<log, last_sensor>>
                \/ /\ inbox' = Rest(i)
                   /\ UNCHANGED <<log, last_sensor, batch_buffer>>
                \/ /\ last_sensor' = [last_sensor EXCEPT ![i][reading.leaf] = reading.value]
                   /\ \/ /\ Replicate(Rest(i), i, {reading})
                         /\ UNCHANGED batch_buffer
                      \/ /\ Replicate(Rest(i), i, Readings(Batched(i, reading)))
                         /\ batch_buffer' = [batch_buffer EXCEPT ![i] = <<>>]
                      \/ /\ inbox' = Rest(i)
                         /\ batch_buffer' = [batch_buffer EXCEPT ![i] = Batched(i, reading)]
                         /\ UNCHANGED log
  <1> DEFINE reading == Head(inbox[i]).reading
             relayed == [type |-> "SensorDataReport", from |-> i, reading |-> reading]
  <1>1. Rest(i) \in Inboxes /\ reading \in Reading
    BY InboxesType, NodesAreIds, TakesType, MessageFields DEF HandleSensorData
  <1>2. relayed \in Message
    BY <1>1, NodesAreIds DEF Message
  <1>3. current_leader_id[i] \notin {None, i} => current_leader_id[i] \in Coordinator
    BY DEF TypeOK
  <1> QED
    BY <1>1, <1>2, <1>3 DEF HandleSensorData

LEMMA BatchedType ==
  ASSUME TypeOK, NEW i \in Coordinator, NEW reading \in Reading
  PROVE  /\ Batched(i, reading) \in Seq(Reading)
         /\ Readings(Batched(i, reading)) \in SUBSET Reading
         /\ {reading} \in SUBSET Reading
         /\ batch_buffer[i] \in Seq(Reading)
  <1>1. batch_buffer[i] \in Seq(Reading)
    BY DEF TypeOK
  <1>2. Batched(i, reading) \in Seq(Reading)
    BY <1>1, AppendProperties DEF Batched
  <1> QED
    BY <1>1, <1>2, ReadingsType

\* What a coordinator sends when a report reaches it.
ReportSends(i, lg) == RoundsOf(i, lg) \cup OfType({"SensorDataReport"})

LEMMA HandleSensorDataType ==
  ASSUME TypeOK, NEW i \in Coordinator, HandleSensorData(i)
  PROVE  TypeOK' /\ Sends(Rest(i), i, ReportSends(i, log'[i]))
  <1> DEFINE reading == Head(inbox[i]).reading
             relayed == [type |-> "SensorDataReport", from |-> i, reading |-> reading]
             S == ReportSends(i, log'[i])
  <1>1. Rest(i) \in Inboxes /\ reading \in Reading /\ relayed \in S
    BY HandleSensorDataCases DEF ReportSends, OfType
  <1>2. /\ Sends(Rest(i), i, S) /\ inbox' \in Inboxes
        /\ log' \in [Coordinator -> Seq(LogEntry)]
    <2>1. CASE Send(Rest(i), i, Quiet) /\ UNCHANGED log
      <3>1. Sends(Rest(i), i, {})
        BY <1>1, <2>1, NothingSent
      <3> QED
        BY <1>1, <2>1, <3>1, SendsMore, SendsType DEF TypeOK
    <2>2. CASE (\E d \in Coordinator : Send(Rest(i), i, Only(d, relayed))) /\ UNCHANGED log
      <3>1. Sends(Rest(i), i, {relayed}) /\ relayed \in Message
        BY <2>2, OnlySends, HandleSensorDataCases DEF Sends
      <3>2. inbox' \in Inboxes
        BY <1>1, <3>1, SendsType
      <3>3. Sends(Rest(i), i, S)
        BY <1>1, <3>1, SendsMore
      <3> QED
        BY <2>2, <3>2, <3>3 DEF TypeOK
    <2>3. CASE inbox' = Rest(i) /\ UNCHANGED log
      <3>1. Sends(Rest(i), i, {})
        BY <1>1, <2>3, NothingSent
      <3> QED
        BY <1>1, <2>3, <3>1, SendsMore DEF TypeOK
    <2>4. ASSUME NEW command \in SUBSET Reading, Replicate(Rest(i), i, command)
          PROVE  /\ Sends(Rest(i), i, S) /\ inbox' \in Inboxes
                 /\ log' \in [Coordinator -> Seq(LogEntry)]
      BY <1>1, <2>4, ReplicateSends, SendsMore DEF ReportSends
    <2>5. CASE \/ Replicate(Rest(i), i, {reading})
               \/ Replicate(Rest(i), i, Readings(Batched(i, reading)))
      BY <1>1, <2>4, <2>5, BatchedType
    <2> QED
      BY <2>1, <2>2, <2>3, <2>5, HandleSensorDataCases
  <1>3. batch_buffer' \in [Coordinator -> Seq(Reading)]
    <2>1. batch_buffer \in [Coordinator -> Seq(Reading)]
      BY DEF TypeOK
    <2>2. Batched(i, reading) \in Seq(Reading) /\ <<>> \in Seq(Reading)
      BY <1>1, BatchedType, EmptySeq
    <2> QED
      BY <2>1, <2>2, HandleSensorDataCases DEF Retained
  <1>4. last_sensor' \in [Coordinator -> [LeafId -> Value \cup {None}]]
    <2>1. last_sensor \in [Coordinator -> [LeafId -> Value \cup {None}]]
      BY DEF TypeOK
    <2>2. reading.leaf \in LeafId /\ reading.value \in Value
      BY <1>1 DEF Reading
    <2>3. \/ last_sensor' = last_sensor
          \/ last_sensor' = [last_sensor EXCEPT ![i][reading.leaf] = reading.value]
      BY HandleSensorDataCases
    <2> QED
      BY <2>1, <2>2, <2>3
  <1> QED
    BY <1>2, <1>3, <1>4
    DEF TypeOK, HandleSensorData, Inboxes, electionVars, handoffVars, leafVars, faultVars

LEMMA CountType ==
  ASSUME TypeOK
  PROVE  \A field \in {"reports", "registers", "others"} :
           [count EXCEPT ![field] = @ + 1] \in [{"reports", "registers", "others"} -> Nat]
  <1>1. count \in [{"reports", "registers", "others"} -> Nat]
    BY DEF TypeOK
  <1>2. \A field \in {"reports", "registers", "others"} : count[field] + 1 \in Nat
    BY <1>1
  <1> QED
    BY <1>1, <1>2

LEMMA LeafIdleType ==
  ASSUME TypeOK, NEW l \in LeafId, NEW c \in Coordinator, LeafIdle(l, c)
  PROVE  TypeOK' /\ Sends(inbox, l, OfType({"LeafRegisterRequest"}))
  <1>1. [type |-> "LeafRegisterRequest", from |-> l] \in OfType({"LeafRegisterRequest"})
    BY DEF OfType, Message
  <1>2. Sends(inbox, l, OfType({"LeafRegisterRequest"}))
    BY <1>1, OnlySends DEF LeafIdle, Sends
  <1>3. inbox' \in Inboxes
    BY <1>2, InboxesType, SendsType DEF OfType
  <1>4. count' \in [{"reports", "registers", "others"} -> Nat]
    BY CountType DEF LeafIdle
  <1> QED
    BY <1>2, <1>3, <1>4
    DEF TypeOK, LeafIdle, Inboxes, electionVars, replicationVars, reportVars, handoffVars,
        leafVars, faultVars

LEMMA HandleLeafRegisterResponseType ==
  ASSUME TypeOK, NEW l \in LeafId, HandleLeafRegisterResponse(l)
  PROVE  TypeOK' /\ Sends(Rest(l), l, {})
  <1>1. Rest(l) \in Inboxes /\ Head(inbox[l]).from \in Coordinator
    BY InboxesType, NodesAreIds, TakesType, MessageFields DEF HandleLeafRegisterResponse
  <1>2. inbox' = Rest(l)
    BY DEF HandleLeafRegisterResponse
  <1>3. coordinator_id' \in [LeafId -> Coordinator \cup {None}]
    BY <1>1 DEF TypeOK, HandleLeafRegisterResponse
  <1>4. leaf_state' \in [LeafId -> LeafState]
    BY DEF TypeOK, HandleLeafRegisterResponse, LeafState
  <1> QED
    BY <1>1, <1>2, <1>3, <1>4, NothingSent
    DEF TypeOK, HandleLeafRegisterResponse, Inboxes, electionVars, replicationVars, reportVars,
        handoffVars, faultVars

LEMMA LeafTimeoutType ==
  ASSUME TypeOK, NEW l \in LeafId, LeafTimeout(l)
  PROVE  TypeOK'
  <1>1. coordinator_id' \in [LeafId -> Coordinator \cup {None}]
    BY DEF TypeOK, LeafTimeout
  <1>2. leaf_state' \in [LeafId -> LeafState]
    BY DEF TypeOK, LeafTimeout, LeafState
  <1> QED
    BY <1>1, <1>2
    DEF TypeOK, LeafTimeout, electionVars, replicationVars, reportVars, handoffVars, faultVars

\* A leaf reports its reading to its coordinator, or does not.
LEMMA LeafReadingCases ==
  ASSUME TypeOK, NEW l \in LeafId, NEW value \in Value, LeafReading(l, value)
  PROVE  LET report == [type |-> "SensorDataReport", from |-> l,
                        reading |-> [leaf |-> l, value |-> value]]
         IN  /\ report \in OfType({"SensorDataReport"})
             /\ \/ Send(inbox, l, Quiet) /\ count'.reports = count.reports
                \/ /\ coordinator_id[l] \in Coordinator
                   /\ Send(inbox, l, Only(coordinator_id[l], report))
                   /\ count'.reports = count.reports + 1
             /\ count' \in [{"reports", "registers", "others"} -> Nat]
  <1> DEFINE report == [type |-> "SensorDataReport", from |-> l,
                        reading |-> [leaf |-> l, value |-> value]]
             out == IF Suppressed(l, value) THEN Quiet ELSE Report(l, value)
  <1>1. report \in OfType({"SensorDataReport"})
    BY NodesAreIds DEF OfType, Message, Reading
  <1>2. out = Quiet \/ (coordinator_id[l] \in Coordinator /\ out = Only(coordinator_id[l], report))
    BY DEF Report, TypeOK
  <1>3. coordinator_id[l] \in Coordinator => Only(coordinator_id[l], report) # Quiet
    BY NodesAreIds DEF Only, Quiet
  <1>4. /\ Send(inbox, l, out)
        /\ count' = IF out = Quiet THEN [count EXCEPT !.others = @ + 1]
                    ELSE [count EXCEPT !.reports = @ + 1]
    BY DEF LeafReading
  <1>5. count \in [{"reports", "registers", "others"} -> Nat]
    BY DEF TypeOK
  <1>6. count' \in [{"reports", "registers", "others"} -> Nat]
    BY <1>4, CountType
  <1> HIDE DEF out, report
  <1>7. ASSUME out = Quiet
        PROVE  Send(inbox, l, Quiet) /\ count'.reports = count.reports
    <2>1. Send(inbox, l, Quiet)
      BY <1>4, <1>7, Zenon
    <2>2. count'.reports = count.reports
      BY <1>4, <1>5, <1>7
    <2> QED
      BY <2>1, <2>2
  <1>8. ASSUME coordinator_id[l] \in Coordinator, out = Only(coordinator_id[l], report)
        PROVE  /\ Send(inbox, l, Only(coordinator_id[l], report))
               /\ count'.reports = count.reports + 1
    <2>1. Send(inbox, l, Only(coordinator_id[l], report))
      BY <1>4, <1>8, Zenon
    <2>2. out # Quiet
      BY <1>3, <1>8 DEF report
    <2>3. count'.reports = count.reports + 1
      BY <1>4, <1>5, <2>2
    <2> QED
      BY <2>1, <2>3
  <1> QED
    BY <1>1, <1>2, <1>6, <1>7, <1>8 DEF report

LEMMA LeafReadingType ==
  ASSUME TypeOK, NEW l \in LeafId, NEW value \in Value, LeafReading(l, value)
  PROVE  TypeOK' /\ Sends(inbox, l, OfType({"SensorDataReport"}))
  <1>1. Sends(inbox, l, OfType({"SensorDataReport"}))
    BY LeafReadingCases, OnlySends, QuietSends DEF Sends
  <1>2. inbox' \in Inboxes
    BY <1>1, InboxesType, SendsType DEF OfType
  <1>3. count' \in [{"reports", "registers", "others"} -> Nat]
    BY LeafReadingCases
  <1>4. last_transmitted' \in [LeafId -> Value \cup {None}]
    BY DEF TypeOK, LeafReading
  <1> QED
    BY <1>1, <1>2, <1>3, <1>4
    DEF TypeOK, LeafReading, Inboxes, electionVars, replicationVars, reportVars, handoffVars,
        faultVars

\* Without a leaf that reports, what raft proposes is some reading.
LEMMA WorkloadCommand == {CHOOSE reading \in Reading : TRUE} \in SUBSET Reading
  <1>1. PICK l \in LeafId, value \in Value : TRUE
    BY SimAssumption
  <1>2. [leaf |-> l, value |-> value] \in Reading
    BY DEF Reading
  <1> QED
    BY <1>2

LEMMA WorkloadType ==
  ASSUME TypeOK, NEW i \in Coordinator, Workload(i)
  PROVE  TypeOK' /\ Sends(inbox, i, RoundsOf(i, log'[i]))
  <1>1. /\ Sends(inbox, i, RoundsOf(i, log'[i])) /\ inbox' \in Inboxes
        /\ log' \in [Coordinator -> Seq(LogEntry)]
    BY InboxesType, WorkloadCommand, ReplicateSends DEF Workload
  <1>2. count' \in [{"reports", "registers", "others"} -> Nat]
    BY CountType DEF Workload
  <1> QED
    BY <1>1, <1>2
    DEF TypeOK, Workload, Inboxes, electionVars, reportVars, handoffVars, leafVars, faultVars

LEMMA DrainType ==
  ASSUME TypeOK, NEW i \in Coordinator, NEW level \in Levels, Drain(i, level)
  PROVE  TypeOK'
  <1>1. count' \in [{"reports", "registers", "others"} -> Nat]
    BY CountType DEF Drain
  <1>2. /\ battery' \in [Coordinator -> Levels]
        /\ state' \in [Coordinator -> NodeState]
        /\ voted_for' \in [Coordinator -> Coordinator \cup {None}]
    BY DEF TypeOK, Drain, NodeState
  <1> QED
    BY <1>1, <1>2 DEF TypeOK, Drain, replicationVars, reportVars, leafVars, faultVars

LEMMA LateTickType ==
  ASSUME TypeOK, NEW i \in Coordinator, LateTick(i)
  PROVE  TypeOK'
  <1>1. /\ state' \in [Coordinator -> NodeState]
        /\ voted_for' \in [Coordinator -> Coordinator \cup {None}]
    BY DEF TypeOK, LateTick, NodeState
  <1> QED
    BY <1>1 DEF TypeOK, LateTick, replicationVars, reportVars, handoffVars, leafVars, faultVars

\* Failures and partitions change neither nodes nor inboxes.
LEMMA FaultsKeep ==
  ASSUME \/ \E i \in Coordinator : InjectFailure(i) \/ RecoverNode(i)
         \/ \E groups \in Splits : InjectPartition(groups)
         \/ HealPartition
  PROVE  UNCHANGED <<protocol, electionVars, current_leader_id, replicationVars, reportVars,
                     handoffVars, leafVars, inbox>>
  BY DEF InjectFailure, RecoverNode, InjectPartition, HealPartition

LEMMA FaultsType ==
  ASSUME TypeOK,
         \/ \E i \in Coordinator : InjectFailure(i) \/ RecoverNode(i)
         \/ \E groups \in Splits : InjectPartition(groups)
         \/ HealPartition
  PROVE  TypeOK'
  <1>1. count' \in [{"reports", "registers", "others"} -> Nat]
    <2>1. count \in [{"reports", "registers", "others"} -> Nat]
      BY DEF TypeOK
    <2>2. [count EXCEPT !.others = @ + 1] \in [{"reports", "registers", "others"} -> Nat]
      BY CountType
    <2>3. count' = count \/ count' = [count EXCEPT !.others = @ + 1]
      BY DEF InjectFailure, RecoverNode, InjectPartition, HealPartition
    <2> QED
      BY <2>1, <2>2, <2>3
  <1>2. failed' \subseteq Coordinator /\ partitions' \in Splits \cup {{}}
    BY DEF TypeOK, InjectFailure, RecoverNode, InjectPartition, HealPartition
  <1> QED
    BY <1>1, <1>2, FaultsKeep
    DEF TypeOK, electionVars, replicationVars, reportVars, handoffVars, leafVars

LEMMA InitType == Init => TypeOK
  <1> SUFFICES ASSUME Init PROVE TypeOK
    OBVIOUS
  <1>1. /\ log \in [Coordinator -> Seq(LogEntry)]
        /\ batch_buffer \in [Coordinator -> Seq(Reading)]
    BY EmptySeq DEF Init
  <1>2. inbox \in [NodeId -> Seq(Message)]
    BY QuietSends DEF Init
  <1>3. state \in [Coordinator -> NodeState] /\ leaf_state \in [LeafId -> LeafState]
    BY DEF Init, NodeState, LeafState
  <1>4. count \in [{"reports", "registers", "others"} -> Nat]
    BY DEF Init
  <1>5. battery \in [Coordinator -> Levels]
    BY SimAssumption DEF Init
  <1> QED
    BY <1>1, <1>2, <1>3, <1>4, <1>5 DEF Init, TypeOK

LEMMA NextType == TypeOK /\ [Next]_vars => TypeOK'
  <1> SUFFICES ASSUME TypeOK, [Next]_vars PROVE TypeOK'
    OBVIOUS
  <1>1. CASE \E i \in Coordinator : Idle(i)
    BY <1>1, ElectionIdleType, RaftIdleType, EchoIdleType, EchodIdleType DEF Idle
  <1>2. CASE \E i \in Coordinator : Handle(i)
    BY <1>2, HandleRequestVoteType, HandleVoteResponseType, HandleAppendEntriesType,
       HandleAppendResponseType, HandleLivenessPingType, HandleLeadershipHandoffType,
       HandleLeafRegisterType, HandleSensorDataType DEF Handle
  <1>3. CASE \E l \in LeafId : LeafStep(l)
    BY <1>3, LeafIdleType, HandleLeafRegisterResponseType, LeafTimeoutType, LeafReadingType
    DEF LeafStep
  <1>4. CASE Environment
    BY <1>4, WorkloadType, DrainType, LateTickType, FaultsType DEF Environment
  <1>5. CASE UNCHANGED vars
    BY <1>5 DEF vars, TypeOK, electionVars, replicationVars, reportVars, handoffVars, leafVars,
       faultVars
  <1> QED
    BY <1>1, <1>2, <1>3, <1>4, <1>5 DEF Next

\* Type correctness of the simulated cluster: no handler, timer or fault leaves a
\* variable or an inbox outside its type.
THEOREM SimTypeCorrect == Spec => []TypeOK
  BY InitType, NextType, PTL DEF Spec

-----------------------------------------------------------------------------
(* Who is drained does not lead *)

LEMMA DrainedKept ==
  ASSUME DrainedNeverLeads, UNCHANGED <<state, battery>>
  PROVE  DrainedNeverLeads'
  BY DEF DrainedNeverLeads

\* A handler that leaves an observer what it is, or a follower.
LEMMA DrainedTaker ==
  ASSUME TypeOK, DrainedNeverLeads, NEW i \in Coordinator, NEW type, Takes(i, type),
         battery' = battery,
         \A n \in Coordinator : n # i => state'[n] = state[n],
         state[i] = Observer => state'[i] \in {Observer, Follower}
  PROVE  DrainedNeverLeads'
  BY DEF DrainedNeverLeads, Takes

\* The handlers that change a role otherwise than by stepping down.
LEMMA HandlersDrained ==
  ASSUME TypeOK, DrainedNeverLeads, NEW i \in Coordinator, Handle(i)
  PROVE  DrainedNeverLeads'
  <1> DEFINE m == Head(inbox[i])
  <1>1. \A term : state[i] = Observer => StateAfter(i, term) = Observer
    BY DEF StateAfter, Observer, Candidate, Leader
  <1>2. \A s : \A n \in Coordinator : n # i => [state EXCEPT ![i] = s][n] = state[n]
    BY DEF TypeOK
  <1>3. \A s : [state EXCEPT ![i] = s][i] = s
    BY DEF TypeOK
  <1>4. CASE HandleRequestVote(i)
    BY <1>1, <1>2, <1>3, <1>4, DrainedTaker DEF HandleRequestVote, handoffVars
  <1>5. CASE HandleVoteResponse(i)
    <2>1. battery' = battery /\ Takes(i, "RequestVoteResponse")
      BY <1>5 DEF HandleVoteResponse
    <2>2. \/ state[i] = Candidate /\ state' = [state EXCEPT ![i] = Leader]
          \/ state' = [state EXCEPT ![i] = StateAfter(i, m.term)]
      BY <1>5 DEF HandleVoteResponse, BecomeLeader, StepDown
    <2>3. state[i] = Observer => state'[i] \in {Observer, Follower}
      BY <1>1, <1>3, <2>2 DEF Candidate, Observer
    <2>4. \A n \in Coordinator : n # i => state'[n] = state[n]
      BY <1>2, <2>2
    <2> QED
      BY <2>1, <2>3, <2>4, DrainedTaker
  <1>6. CASE HandleAppendEntries(i)
    <2>1. battery' = battery /\ Takes(i, "AppendEntriesRPC")
      BY <1>6 DEF HandleAppendEntries, handoffVars
    <2>2. \/ state' = state
          \/ state' = [state EXCEPT ![i] =
                IF StateAfter(i, m.term) = Candidate THEN Follower ELSE StateAfter(i, m.term)]
      BY <1>6 DEF HandleAppendEntries
    <2>3. state[i] = Observer => state'[i] \in {Observer, Follower}
      BY <1>1, <1>3, <2>2
    <2>4. \A n \in Coordinator : n # i => state'[n] = state[n]
      BY <1>2, <2>2
    <2> QED
      BY <2>1, <2>3, <2>4, DrainedTaker
  <1>7. CASE HandleAppendResponse(i) \/ HandleLivenessPing(i)
    <2>1. /\ battery' = battery
          /\ Takes(i, "AppendEntriesResponse") \/ Takes(i, "LivenessPing")
          /\ state' = [state EXCEPT ![i] = StateAfter(i, m.term)]
      BY <1>7 DEF HandleAppendResponse, HandleLivenessPing, StepDown, handoffVars
    <2> QED
      BY <1>1, <1>2, <1>3, <2>1, DrainedTaker
  <1>8. CASE HandleLeadershipHandoff(i)
    <2>1. battery' = battery /\ Takes(i, "LeadershipHandoff")
      BY <1>8 DEF HandleLeadershipHandoff, handoffVars
    <2>2. \/ state[i] # Observer /\ state' = [state EXCEPT ![i] = Candidate]
          \/ state' = state
      BY <1>8 DEF HandleLeadershipHandoff, Accepts, StartElection, electionVars
    <2>3. state[i] = Observer => state'[i] \in {Observer, Follower}
      BY <2>2
    <2>4. \A n \in Coordinator : n # i => state'[n] = state[n]
      BY <1>2, <2>2
    <2> QED
      BY <2>1, <2>3, <2>4, DrainedTaker
  <1>9. CASE HandleLeafRegister(i) \/ HandleSensorData(i)
    BY <1>9, DrainedKept DEF HandleLeafRegister, HandleSensorData, electionVars, handoffVars
  <1> QED
    BY <1>4, <1>5, <1>6, <1>7, <1>8, <1>9 DEF Handle

LEMMA IdleDrained ==
  ASSUME TypeOK, DrainedNeverLeads, NEW i \in Coordinator, Idle(i)
  PROVE  DrainedNeverLeads'
  <1>1. CASE ElectionIdle(i)
    <2>1. /\ state' = [state EXCEPT ![i] = Candidate] /\ battery' = battery
          /\ battery[i] >= T_LOW
      BY <1>1 DEF ElectionIdle, StartElection, handoffVars
    <2>2. ~(battery[i] < T_LOW)
      BY <2>1, LevelsAreNumbers DEF TypeOK, T_LOW
    <2> QED
      BY <2>1, <2>2 DEF DrainedNeverLeads, TypeOK
  <1>2. CASE RaftIdle(i) \/ EchoIdle(i)
    BY <1>2, DrainedKept DEF RaftIdle, EchoIdle, electionVars, handoffVars
  <1>3. CASE EchodIdle(i)
    <2>1. \/ UNCHANGED <<state, battery>>
          \/ \E level \in Spent(i) : /\ battery' = [battery EXCEPT ![i] = level]
                                     /\ state' = [state EXCEPT ![i] = Follower]
      BY <1>3, EchodIdleCases
    <2>2. CASE \E level \in Spent(i) : /\ battery' = [battery EXCEPT ![i] = level]
                                       /\ state' = [state EXCEPT ![i] = Follower]
      BY <2>2 DEF DrainedNeverLeads, TypeOK
    <2> QED
      BY <2>1, <2>2, DrainedKept
  <1> QED
    BY <1>1, <1>2, <1>3 DEF Idle

LEMMA NextDrained == TypeOK /\ DrainedNeverLeads /\ [Next]_vars => DrainedNeverLeads'
  <1> SUFFICES ASSUME TypeOK, DrainedNeverLeads, [Next]_vars PROVE DrainedNeverLeads'
    OBVIOUS
  <1>1. CASE \E i \in Coordinator : Idle(i) \/ Handle(i)
    BY <1>1, IdleDrained, HandlersDrained
  <1>2. CASE \E l \in LeafId : LeafStep(l)
    <2>1. UNCHANGED <<state, battery>>
      BY <1>2 DEF LeafStep, LeafIdle, HandleLeafRegisterResponse, LeafTimeout, LeafReading,
         electionVars, handoffVars
    <2> QED
      BY <2>1, DrainedKept
  <1>3. CASE Environment
    <2>1. CASE \E i \in Coordinator : Workload(i)
      BY <2>1, DrainedKept DEF Workload, electionVars, handoffVars
    <2>2. CASE \E i \in Coordinator, level \in Levels : Drain(i, level)
      <3>1. PICK i \in Coordinator, level \in Levels :
              /\ battery' = [battery EXCEPT ![i] = level]
              /\ state' = [state EXCEPT ![i] = IF level < T_LOW THEN Observer ELSE @]
        BY <2>2 DEF Drain
      <3>2. level < T_LOW => state'[i] = Observer
        BY <3>1 DEF TypeOK
      <3> QED
        BY <3>1, <3>2 DEF DrainedNeverLeads, TypeOK
    <2>3. CASE \E i \in Coordinator : LateTick(i)
      BY <2>3 DEF LateTick, DrainedNeverLeads, TypeOK, handoffVars
    <2>4. CASE \/ \E i \in Coordinator : InjectFailure(i) \/ RecoverNode(i)
               \/ \E groups \in Splits : InjectPartition(groups)
               \/ HealPartition
      BY <2>4, FaultsKeep, DrainedKept DEF electionVars, handoffVars
    <2> QED
      BY <1>3, <2>1, <2>2, <2>3, <2>4 DEF Environment
  <1>4. CASE UNCHANGED vars
    BY <1>4, DrainedKept DEF vars, electionVars, handoffVars
  <1> QED
    BY <1>1, <1>2, <1>3, <1>4 DEF Next

\* Below T_LOW nobody leads or is a candidate, for any schedule of battery
\* drain: a handler finds a drained coordinator an OBSERVER, which no message
\* brings back, and _initiate_handoff leaves a FOLLOWER at most.
THEOREM DrainedCoordinatorsYield == Spec => []DrainedNeverLeads
  <1>1. Init => DrainedNeverLeads
    BY DEF Init, DrainedNeverLeads
  <1> QED
    BY <1>1, NextDrained, SimTypeCorrect, PTL DEF Spec

-----------------------------------------------------------------------------
(* New messages *)

LEMMA SentNew ==
  ASSUME TypeOK, NEW i \in NodeId, NEW S \in SUBSET Message,
         \/ Sends(inbox, i, S)
         \/ Sends(Rest(i), i, S) /\ \E type : Takes(i, type)
  PROVE  \A d \in NodeId : \A m \in Content(inbox'[d]) : m \in Content(inbox[d]) \/ m \in S
  <1>1. inbox \in Inboxes
    BY InboxesType
  <1>2. CASE Sends(inbox, i, S)
    BY <1>1, <1>2, SendsContent
  <1>3. CASE Sends(Rest(i), i, S) /\ \E type : Takes(i, type)
    <2>1. /\ Rest(i) \in Inboxes
          /\ \A d \in NodeId : Content(Rest(i)[d]) \subseteq Content(inbox[d])
      BY <1>1, <1>3, TakesType
    <2> QED
      BY <1>3, <2>1, SendsContent
  <1> QED
    BY <1>2, <1>3

\* No message of this type is in an inbox that was not before.
NoneNew(type) ==
  \A d \in NodeId : \A m \in Content(inbox'[d]) : m.type = type => m \in Content(inbox[d])

\* A step that sends messages of other types only.
LEMMA OthersSent ==
  ASSUME TypeOK, NEW i \in NodeId, NEW S, NEW types, S \subseteq OfType(types),
         NEW type, type \notin types,
         \/ Sends(inbox, i, S)
         \/ Sends(Rest(i), i, S) /\ \E t : Takes(i, t)
  PROVE  NoneNew(type)
  <1>1. S \in SUBSET Message /\ \A m \in S : m.type # type
    BY DEF OfType
  <1> QED
    BY <1>1, SentNew DEF NoneNew

\* A handler that answers with one message.
LEMMA OnlyNew ==
  ASSUME TypeOK, NEW i \in NodeId, NEW type, Takes(i, type), NEW to, NEW answer \in Message,
         Send(Rest(i), i, Only(to, answer))
  PROVE  \A d \in NodeId : \A m \in Content(inbox'[d]) :
           m \in Content(inbox[d]) \/ (d = to /\ m = answer)
  <1>1. Sends(Rest(i), i, {answer})
    BY OnlySends DEF Sends
  <1>2. \A d \in NodeId : \A m \in Content(inbox'[d]) : m \in Content(inbox[d]) \/ m = answer
    BY <1>1, SentNew
  <1>3. ASSUME NEW d \in NodeId, d # to
        PROVE  \A m \in Content(inbox'[d]) : m \in Content(inbox[d])
    <2>1. Rest(i) \in Inboxes /\ Content(Rest(i)[d]) \subseteq Content(inbox[d])
      BY InboxesType, TakesType
    <2>2. inbox'[d] = Rest(i)[d] \/ inbox'[d] = Rest(i)[d] \o <<>>
      BY <1>3 DEF Send, Only, Quiet
    <2>3. Rest(i)[d] \o <<>> = Rest(i)[d]
      BY <2>1, ConcatEmptySeq DEF Inboxes
    <2> QED
      BY <2>1, <2>2, <2>3
  <1> QED
    BY <1>2, <1>3

\* Votes are sent by HandleRequestVote, answers to leaves by HandleLeafRegister.
LEMMA NewMessages ==
  ASSUME TypeOK, [Next]_vars
  PROVE  /\ (\E i \in Coordinator : HandleRequestVote(i)) \/ NoneNew("RequestVoteResponse")
         /\ (\E i \in Coordinator : HandleLeafRegister(i)) \/ NoneNew("LeafRegisterResponse")
  <1> DEFINE Neither == NoneNew("RequestVoteResponse") /\ NoneNew("LeafRegisterResponse")
             Others == {"RequestVoteRPC", "AppendEntriesRPC", "AppendEntriesResponse",
                        "LivenessPing", "LeadershipHandoff", "LeafRegisterRequest",
                        "SensorDataReport"}
             Kind == OfType(Others)
  <1>1. ASSUME NEW i \in NodeId, NEW S, S \subseteq Kind,
               \/ Sends(inbox, i, S)
               \/ Sends(Rest(i), i, S) /\ \E t : Takes(i, t)
        PROVE  Neither
    BY <1>1, OthersSent
  <1>2. ASSUME NEW i \in Coordinator, NEW lg \in Seq(LogEntry)
        PROVE  /\ RoundsOf(i, lg) \subseteq Kind
               /\ EchodSends(i, lg) \subseteq Kind
               /\ ReportSends(i, lg) \subseteq Kind
    BY RoundsType DEF EchodSends, ReportSends, OfType
  <1>3. /\ OfType({"RequestVoteRPC"}) \subseteq Kind /\ OfType({"LivenessPing"}) \subseteq Kind
        /\ OfType({"AppendEntriesResponse"}) \subseteq Kind
        /\ OfType({"LeafRegisterRequest"}) \subseteq Kind
        /\ OfType({"SensorDataReport"}) \subseteq Kind
    BY DEF OfType
  <1>4. log \in [Coordinator -> Seq(LogEntry)] /\ TypeOK'
    BY NextType DEF TypeOK
  <1>5. log' \in [Coordinator -> Seq(LogEntry)]
    BY <1>4 DEF TypeOK
  <1> HIDE DEF Kind, Neither
  <1>6. CASE \E i \in Coordinator : Idle(i)
    <2>1. PICK i \in Coordinator : Idle(i)
      BY <1>6
    <2>2. \E S : S \subseteq Kind /\ Sends(inbox, i, S)
      BY <1>2, <1>3, <1>4, <1>5, <2>1, ElectionIdleType, RaftIdleType, EchoIdleType,
         EchodIdleType DEF Idle
    <2>3. Neither
      BY <1>1, <2>2, NodesAreIds
    <2> QED
      BY <2>3 DEF Neither
  <1>7. CASE \E i \in Coordinator : Handle(i)
    <2>1. PICK i \in Coordinator : Handle(i)
      BY <1>7
    <2>2. i \in NodeId
      BY NodesAreIds
    <2>3. \E t : Takes(i, t)
      BY <2>1 DEF Handle, HandleRequestVote, HandleVoteResponse, HandleAppendEntries,
         HandleAppendResponse, HandleLivenessPing, HandleLeadershipHandoff, HandleLeafRegister,
         HandleSensorData
    <2>4. CASE HandleRequestVote(i)
      <3> DEFINE S == {[type |-> "RequestVoteResponse", from |-> i,
                        term |-> TermAfter(i, Head(inbox[i]).term),
                        vote_granted |-> Grants(i, Head(inbox[i]))]}
      <3>1. /\ Head(inbox[i]).term \in Nat
        BY <2>2, <2>4, InboxesType, TakesType, MessageFields DEF HandleRequestVote
      <3>2. TermAfter(i, Head(inbox[i]).term) \in Nat /\ Grants(i, Head(inbox[i])) \in BOOLEAN
        BY <3>1, StepDownType DEF Grants
      <3>3. S \subseteq OfType({"RequestVoteResponse"})
        BY <3>2 DEF OfType, Message
      <3>4. Sends(Rest(i), i, S)
        BY <2>4, HandleRequestVoteType
      <3>5. NoneNew("LeafRegisterResponse")
        BY <2>2, <2>3, <3>3, <3>4, OthersSent
      <3> QED
        BY <2>4, <3>5
    <2>5. CASE HandleLeafRegister(i)
      <3> DEFINE S == {[type |-> "LeafRegisterResponse", from |-> i]}
      <3>1. S \subseteq OfType({"LeafRegisterResponse"})
        BY DEF OfType, Message
      <3>2. Sends(Rest(i), i, S)
        BY <2>5, HandleLeafRegisterType
      <3>3. NoneNew("RequestVoteResponse")
        BY <2>2, <2>3, <3>1, <3>2, OthersSent
      <3> QED
        BY <2>5, <3>3
    <2>6. CASE \/ HandleVoteResponse(i) \/ HandleAppendEntries(i) \/ HandleAppendResponse(i)
               \/ HandleLivenessPing(i) \/ HandleLeadershipHandoff(i) \/ HandleSensorData(i)
      <3>1. \E S : S \subseteq Kind /\ Sends(Rest(i), i, S)
        <4>1. {} \subseteq Kind
          OBVIOUS
        <4> QED
          BY <1>2, <1>3, <1>5, <2>6, <4>1, HandleVoteResponseType, HandleAppendEntriesType,
             HandleAppendResponseType, HandleLivenessPingType, HandleLeadershipHandoffType,
             HandleSensorDataType
      <3>2. Neither
        BY <1>1, <2>2, <2>3, <3>1
      <3> QED
        BY <3>2 DEF Neither
    <2> QED
      BY <2>1, <2>4, <2>5, <2>6 DEF Handle
  <1>8. CASE \E l \in LeafId : LeafStep(l)
    <2>1. PICK l \in LeafId : LeafStep(l)
      BY <1>8
    <2>2. l \in NodeId
      BY NodesAreIds
    <2>3. CASE (\E c \in Coordinator : LeafIdle(l, c)) \/ \E value \in Value : LeafReading(l, value)
      <3>1. \E S : S \subseteq Kind /\ Sends(inbox, l, S)
        BY <1>3, <2>3, LeafIdleType, LeafReadingType
      <3>2. Neither
        BY <1>1, <2>2, <3>1
      <3> QED
        BY <3>2 DEF Neither
    <2>4. CASE HandleLeafRegisterResponse(l)
      <3>1. Sends(Rest(l), l, {}) /\ Takes(l, "LeafRegisterResponse")
        BY <2>4, HandleLeafRegisterResponseType DEF HandleLeafRegisterResponse
      <3>2. Neither
        BY <1>1, <2>2, <3>1
      <3> QED
        BY <3>2 DEF Neither
    <2>5. CASE LeafTimeout(l)
      BY <2>5 DEF LeafTimeout, NoneNew
    <2> QED
      BY <2>1, <2>3, <2>4, <2>5 DEF LeafStep
  <1>9. CASE Environment
    <2>1. CASE \E i \in Coordinator : Workload(i)
      <3>1. \E i \in NodeId : \E S : S \subseteq Kind /\ Sends(inbox, i, S)
        BY <1>2, <1>5, <2>1, WorkloadType, NodesAreIds
      <3>2. Neither
        BY <1>1, <3>1
      <3> QED
        BY <3>2 DEF Neither
    <2>2. CASE UNCHANGED inbox
      BY <2>2 DEF NoneNew
    <2> QED
      BY <1>9, <2>1, <2>2, FaultsKeep DEF Environment, Drain, LateTick
  <1>10. CASE UNCHANGED vars
    BY <1>10 DEF vars, NoneNew
  <1> QED
    BY <1>6, <1>7, <1>8, <1>9, <1>10 DEF Next

-----------------------------------------------------------------------------
(* Leaves *)

\* Who answers a leaf knows it: the answer is sent after the leaf is entered, and
\* no coordinator strikes a leaf off.
AnswersKnowLeaf ==
  \A l \in LeafId : \A m \in Content(inbox[l]) :
    m.type = "LeafRegisterResponse" => l \in leaves[m.from]

LeafInv == ActiveLeafIsRegistered /\ AnswersKnowLeaf

\* A step that takes no leaf off a list and answers none.
LEMMA LeavesKept ==
  ASSUME TypeOK, LeafInv, UNCHANGED <<leaf_state, coordinator_id>>,
         \A c \in Coordinator : leaves[c] \subseteq leaves'[c],
         NoneNew("LeafRegisterResponse")
  PROVE  LeafInv'
  <1>1. AnswersKnowLeaf'
    <2> SUFFICES ASSUME NEW l \in LeafId, NEW m \in Content(inbox'[l]),
                        m.type = "LeafRegisterResponse"
                 PROVE  l \in leaves'[m.from]
      BY DEF AnswersKnowLeaf
    <2>1. m \in Content(inbox[l])
      BY NodesAreIds DEF NoneNew
    <2>2. m.from \in Coordinator
      BY <2>1, ContentType, NodesAreIds, MessageFields
    <2> QED
      BY <2>1, <2>2 DEF LeafInv, AnswersKnowLeaf
  <1>2. ActiveLeafIsRegistered'
    BY DEF LeafInv, ActiveLeafIsRegistered, TypeOK
  <1> QED
    BY <1>1, <1>2 DEF LeafInv

LEMMA HandleLeafRegisterLeaves ==
  ASSUME TypeOK, LeafInv, NEW i \in Coordinator, HandleLeafRegister(i)
  PROVE  LeafInv'
  <1> DEFINE l == Head(inbox[i]).from
             answer == [type |-> "LeafRegisterResponse", from |-> i]
  <1>1. l \in LeafId /\ Takes(i, "LeafRegisterRequest") /\ Rest(i) \in Inboxes
    BY HandleLeafRegisterType, TakesType, InboxesType, NodesAreIds DEF HandleLeafRegister
  <1>2. \A d \in NodeId : \A m \in Content(inbox'[d]) :
          m \in Content(inbox[d]) \/ (d = l /\ m = answer)
    <2>1. answer \in Message
      BY DEF Message
    <2> QED
      BY <1>1, <2>1, OnlyNew, NodesAreIds DEF HandleLeafRegister
  <1>3. /\ leaves' = [leaves EXCEPT ![i] = leaves[i] \cup {l}]
        /\ UNCHANGED <<leaf_state, coordinator_id>>
    BY DEF HandleLeafRegister, Registered
  <1>4. \A c \in Coordinator : leaves[c] \subseteq leaves'[c]
    BY <1>3 DEF TypeOK
  <1>5. AnswersKnowLeaf'
    <2> SUFFICES ASSUME NEW k \in LeafId, NEW m \in Content(inbox'[k]),
                        m.type = "LeafRegisterResponse"
                 PROVE  k \in leaves'[m.from]
      BY DEF AnswersKnowLeaf
    <2>1. CASE m \in Content(inbox[k])
      <3>1. m.from \in Coordinator
        BY <2>1, ContentType, NodesAreIds, MessageFields
      <3> QED
        BY <1>4, <2>1, <3>1 DEF LeafInv, AnswersKnowLeaf
    <2>2. CASE k = l /\ m = answer
      BY <1>3, <2>2 DEF TypeOK
    <2> QED
      BY <1>2, <2>1, <2>2, NodesAreIds
  <1>6. ActiveLeafIsRegistered'
    BY <1>3, <1>4 DEF LeafInv, ActiveLeafIsRegistered, TypeOK
  <1> QED
    BY <1>5, <1>6 DEF LeafInv

LEMMA HandleLeafRegisterResponseLeaves ==
  ASSUME TypeOK, LeafInv, NEW l \in LeafId, HandleLeafRegisterResponse(l)
  PROVE  LeafInv'
  <1> DEFINE m == Head(inbox[l])
  <1>1. /\ Takes(l, "LeafRegisterResponse") /\ m \in Content(inbox[l])
        /\ m.type = "LeafRegisterResponse" /\ m.from \in Coordinator
    BY InboxesType, NodesAreIds, TakesType, MessageFields DEF HandleLeafRegisterResponse
  <1>2. m.from # None /\ l \in leaves[m.from]
    BY <1>1, SimAssumption DEF LeafInv, AnswersKnowLeaf
  <1>3. /\ coordinator_id' = [coordinator_id EXCEPT ![l] = m.from]
        /\ leaf_state' = [leaf_state EXCEPT ![l] = "ACTIVE"]
        /\ leaves' = leaves
    BY DEF HandleLeafRegisterResponse
  <1>4. ActiveLeafIsRegistered'
    BY <1>2, <1>3 DEF LeafInv, ActiveLeafIsRegistered, TypeOK
  <1>5. \A d \in NodeId : Content(inbox'[d]) \subseteq Content(inbox[d])
    BY <1>1, InboxesType, NodesAreIds, TakesType DEF HandleLeafRegisterResponse
  <1>6. AnswersKnowLeaf'
    BY <1>3, <1>5, NodesAreIds DEF LeafInv, AnswersKnowLeaf
  <1> QED
    BY <1>4, <1>6 DEF LeafInv

LEMMA NextLeaves == TypeOK /\ LeafInv /\ [Next]_vars => LeafInv'
  <1> SUFFICES ASSUME TypeOK, LeafInv, [Next]_vars PROVE LeafInv'
    OBVIOUS
  <1>1. CASE \E i \in Coordinator : HandleLeafRegister(i)
    BY <1>1, HandleLeafRegisterLeaves
  <1>2. CASE \E l \in LeafId : HandleLeafRegisterResponse(l)
    BY <1>2, HandleLeafRegisterResponseLeaves
  <1>3. CASE \E l \in LeafId : LeafTimeout(l)
    <2>1. PICK l \in LeafId : LeafTimeout(l)
      BY <1>3
    <2>2. ActiveLeafIsRegistered'
      BY <2>1 DEF LeafTimeout, LeafInv, ActiveLeafIsRegistered, TypeOK, reportVars
    <2>3. AnswersKnowLeaf'
      BY <2>1 DEF LeafTimeout, LeafInv, AnswersKnowLeaf
    <2> QED
      BY <2>2, <2>3 DEF LeafInv
  <1>4. CASE /\ ~ \E i \in Coordinator : HandleLeafRegister(i)
             /\ ~ \E l \in LeafId : HandleLeafRegisterResponse(l)
             /\ ~ \E l \in LeafId : LeafTimeout(l)
    <2>1. NoneNew("LeafRegisterResponse")
      BY <1>4, NewMessages
    <2>2. UNCHANGED <<leaf_state, coordinator_id, leaves>>
      <3>1. CASE \E i \in Coordinator : Idle(i)
        BY <3>1 DEF Idle, ElectionIdle, RaftIdle, EchoIdle, EchodIdle, leafVars
      <3>2. CASE \E i \in Coordinator : Handle(i)
        BY <1>4, <3>2 DEF Handle, HandleRequestVote, HandleVoteResponse, HandleAppendEntries,
           HandleAppendResponse, HandleLivenessPing, HandleLeadershipHandoff,
           HandleSensorData, leafVars
      <3>3. CASE \E l \in LeafId : LeafStep(l)
        BY <1>4, <3>3 DEF LeafStep, LeafIdle, LeafReading, leafVars
      <3>4. CASE Environment
        BY <3>4, FaultsKeep DEF Environment, Workload, Drain, LateTick, leafVars
      <3>5. CASE UNCHANGED vars
        BY <3>5 DEF vars, leafVars
      <3> QED
        BY <3>1, <3>2, <3>3, <3>4, <3>5 DEF Next
    <2> QED
      BY <2>1, <2>2, LeavesKept
  <1> QED
    BY <1>1, <1>2, <1>3, <1>4

\* A leaf that is ACTIVE has a coordinator, and one that has entered it in its
\* leaves, whichever of its registrations is answered last, and however late.
THEOREM ActiveLeavesAreRegistered == Spec => []ActiveLeafIsRegistered
  <1>1. Init => LeafInv
    <2>1. Init => ActiveLeafIsRegistered
      BY DEF Init, ActiveLeafIsRegistered
    <2>2. Init => AnswersKnowLeaf
      BY NodesAreIds DEF Init, AnswersKnowLeaf, Quiet, Content
    <2> QED
      BY <2>1, <2>2 DEF LeafInv
  <1>2. LeafInv => ActiveLeafIsRegistered
    BY DEF LeafInv
  <1> QED
    BY <1>1, <1>2, NextLeaves, SimTypeCorrect, PTL DEF Spec

-----------------------------------------------------------------------------
(* Elections *)

\* A vote of v for c in term t, wherever it is: on its way to c, counted by c, or
\* part of a majority that won.
Underway(v, t, c) ==
  \E m \in Content(inbox[c]) :
    m.type = "RequestVoteResponse" /\ m.from = v /\ m.term = t /\ m.vote_granted
Counted(v, t, c) ==
  \/ state[c] = Candidate /\ current_term[c] = t /\ v \in votes_received[c]
  \/ \E e \in elected : e.term = t /\ e.leader = c /\ v \in e.quorum
Voted(v, t, c) == Underway(v, t, c) \/ Counted(v, t, c)

\* A voter has been in the term of its vote, and remembers the vote while it is in
\* that term, unless it is drained.
VotersRemember ==
  \A v, c \in Coordinator : \A t \in Nat :
    Voted(v, t, c) =>
      /\ t <= current_term[v]
      /\ t = current_term[v] /\ battery[v] >= T_LOW => voted_for[v] = c

VotesOnce ==
  \A v, c, d \in Coordinator : \A t \in Nat : Voted(v, t, c) /\ Voted(v, t, d) => c = d

WonByMajority == \A e \in elected : HasMajority(e.quorum)

ElectionInv == VotersRemember /\ VotesOnce /\ WonByMajority

\* What every step does to terms, batteries and votes, of those other than x.
Faithful(x) ==
  /\ \A v \in Coordinator : current_term'[v] >= current_term[v] /\ battery'[v] <= battery[v]
  /\ \A v \in Coordinator :
       v # x /\ current_term'[v] = current_term[v] /\ battery'[v] >= T_LOW =>
         voted_for'[v] = voted_for[v]

\* A step without a new vote.
LEMMA VotesKept ==
  ASSUME TypeOK, TypeOK', ElectionInv, Faithful(None), WonByMajority',
         \A v, c \in Coordinator : \A t \in Nat : Voted(v, t, c)' => Voted(v, t, c)
  PROVE  ElectionInv'
  <1>1. VotesOnce'
    BY DEF ElectionInv, VotesOnce
  <1>2. VotersRemember'
    <2> SUFFICES ASSUME NEW v \in Coordinator, NEW c \in Coordinator, NEW t \in Nat,
                        Voted(v, t, c)'
                 PROVE  /\ t <= current_term'[v]
                        /\ t = current_term'[v] /\ battery'[v] >= T_LOW => voted_for'[v] = c
      BY DEF VotersRemember
    <2>1. /\ t <= current_term[v]
          /\ t = current_term[v] /\ battery[v] >= T_LOW => voted_for[v] = c
      BY DEF ElectionInv, VotersRemember
    <2>2. /\ current_term'[v] >= current_term[v] /\ battery'[v] <= battery[v]
          /\ current_term'[v] = current_term[v] /\ battery'[v] >= T_LOW =>
               voted_for'[v] = voted_for[v]
      BY SimAssumption DEF Faithful
    <2>3. /\ current_term[v] \in Nat /\ current_term'[v] \in Nat
          /\ battery[v] \in Levels /\ battery'[v] \in Levels
      BY DEF TypeOK
    <2> QED
      BY <2>1, <2>2, <2>3, LevelsAreNumbers DEF T_LOW
  <1> QED
    BY <1>1, <1>2 DEF ElectionInv

\* A step in which x votes for y in term u: it entered that term now, or had not
\* voted for anybody else.
LEMMA VoteGiven ==
  ASSUME TypeOK, TypeOK', ElectionInv, NEW x \in Coordinator, NEW y \in Coordinator,
         NEW u \in Nat, Faithful(x), elected' = elected,
         \A v, c \in Coordinator : \A t \in Nat :
           Voted(v, t, c)' => Voted(v, t, c) \/ (v = x /\ t = u /\ c = y),
         current_term'[x] = u, voted_for'[x] = y,
         \/ u > current_term[x]
         \/ u = current_term[x] /\ battery[x] >= T_LOW /\ voted_for[x] \in {None, y}
  PROVE  ElectionInv'
  <1>1. /\ \A v \in Coordinator : current_term[v] \in Int /\ current_term'[v] \in Int
        /\ \A v \in Coordinator : battery[v] \in Int /\ battery'[v] \in Int
    <2>1. \A v \in Coordinator : /\ current_term[v] \in Nat /\ current_term'[v] \in Nat
                                 /\ battery[v] \in Levels /\ battery'[v] \in Levels
      BY DEF TypeOK
    <2> QED
      BY <2>1, LevelsAreNumbers
  <1>2. ASSUME NEW c \in Coordinator, Voted(x, u, c) PROVE c = y
    <2>1. /\ u <= current_term[x]
          /\ u = current_term[x] /\ battery[x] >= T_LOW => voted_for[x] = c
      BY <1>2 DEF ElectionInv, VotersRemember
    <2> QED
      BY <1>1, <2>1, SimAssumption
  <1>3. VotesOnce'
    BY <1>2 DEF ElectionInv, VotesOnce
  <1>4. VotersRemember'
    <2> SUFFICES ASSUME NEW v \in Coordinator, NEW c \in Coordinator, NEW t \in Nat,
                        Voted(v, t, c)'
                 PROVE  /\ t <= current_term'[v]
                        /\ t = current_term'[v] /\ battery'[v] >= T_LOW => voted_for'[v] = c
      BY DEF VotersRemember
    <2>1. CASE v = x /\ t = u /\ c = y
      BY <1>1, <2>1
    <2>2. CASE Voted(v, t, c)
      <3>1. /\ t <= current_term[v]
            /\ t = current_term[v] /\ battery[v] >= T_LOW => voted_for[v] = c
        BY <2>2 DEF ElectionInv, VotersRemember
      <3>2. /\ current_term'[v] >= current_term[v] /\ battery'[v] <= battery[v]
            /\ v # x /\ current_term'[v] = current_term[v] /\ battery'[v] >= T_LOW =>
                 voted_for'[v] = voted_for[v]
        BY DEF Faithful
      <3>3. CASE v # x
        BY <1>1, <3>1, <3>2, <3>3 DEF T_LOW
      <3>4. CASE v = x
        BY <1>1, <1>2, <2>2, <3>1, <3>2, <3>4
      <3> QED
        BY <3>3, <3>4
    <2> QED
      BY <2>1, <2>2
  <1>5. WonByMajority'
    BY DEF ElectionInv, WonByMajority
  <1> QED
    BY <1>3, <1>4, <1>5 DEF ElectionInv

\* Stepping down changes the term to a greater one, or nothing.
LEMMA StepDownFaithful ==
  ASSUME TypeOK, NEW i \in Coordinator, NEW term \in Nat
  PROVE  /\ TermAfter(i, term) >= current_term[i]
         /\ TermAfter(i, term) = current_term[i] =>
              VoteAfter(i, term) = voted_for[i] /\ StateAfter(i, term) = state[i]
         /\ StateAfter(i, term) = Candidate =>
              state[i] = Candidate /\ TermAfter(i, term) = current_term[i]
  <1>1. current_term[i] \in Int
    BY DEF TypeOK
  <1> QED
    BY <1>1 DEF TermAfter, VoteAfter, StateAfter, Newer, Candidate, Follower

LEMMA BatteriesKept ==
  ASSUME TypeOK, battery' = battery
  PROVE  \A v \in Coordinator : battery'[v] <= battery[v]
  <1>1. \A v \in Coordinator : battery[v] \in Int
    BY LevelsAreNumbers DEF TypeOK
  <1> QED
    BY <1>1

LEMMA SameTerms ==
  ASSUME TypeOK, UNCHANGED <<current_term, battery, voted_for>>
  PROVE  Faithful(None)
  <1>1. \A v \in Coordinator : current_term[v] \in Int
    BY DEF TypeOK
  <1> QED
    BY <1>1, BatteriesKept DEF Faithful

\* A step that counts no vote and sends none.
LEMMA NoVoteSent ==
  ASSUME NoneNew("RequestVoteResponse"), elected' = elected, votes_received' = votes_received,
         \A c \in Coordinator :
           state'[c] = Candidate => state[c] = Candidate /\ current_term'[c] = current_term[c]
  PROVE  \A v, c \in Coordinator : \A t \in Nat : Voted(v, t, c)' => Voted(v, t, c)
  <1> SUFFICES ASSUME NEW v \in Coordinator, NEW c \in Coordinator, NEW t \in Nat,
                      Voted(v, t, c)'
               PROVE  Voted(v, t, c)
    OBVIOUS
  <1>1. CASE Underway(v, t, c)'
    BY <1>1, NodesAreIds DEF NoneNew, Underway, Voted
  <1>2. CASE Counted(v, t, c)'
    BY <1>2 DEF Counted, Voted
  <1> QED
    BY <1>1, <1>2 DEF Voted

\* A step that leaves terms, votes and roles as they are, or steps down.
LEMMA Uninvolved ==
  ASSUME TypeOK, TypeOK', ElectionInv, NoneNew("RequestVoteResponse"),
         UNCHANGED <<votes_received, elected>>, Faithful(None),
         \A c \in Coordinator :
           state'[c] = Candidate => state[c] = Candidate /\ current_term'[c] = current_term[c]
  PROVE  ElectionInv'
  BY NoVoteSent, VotesKept DEF ElectionInv, WonByMajority

LEMMA NoElection ==
  ASSUME TypeOK, TypeOK', ElectionInv, NoneNew("RequestVoteResponse"),
         UNCHANGED <<electionVars, battery>>
  PROVE  ElectionInv'
  BY SameTerms, Uninvolved DEF electionVars

LEMMA SteppedDown ==
  ASSUME TypeOK, TypeOK', ElectionInv, NoneNew("RequestVoteResponse"),
         NEW i \in Coordinator, NEW term \in Nat,
         UNCHANGED <<votes_received, elected, battery>>,
         current_term' = [current_term EXCEPT ![i] = TermAfter(i, term)],
         voted_for' = [voted_for EXCEPT ![i] = VoteAfter(i, term)],
         \A n \in Coordinator : n # i => state'[n] = state[n],
         state'[i] \in {Follower, StateAfter(i, term), state[i]},
         state'[i] = Candidate => StateAfter(i, term) = Candidate
  PROVE  ElectionInv'
  <1>1. /\ current_term \in [Coordinator -> Nat]
        /\ voted_for \in [Coordinator -> Coordinator \cup {None}]
    BY DEF TypeOK
  <1>2. Faithful(None)
    <2>1. \A v \in Coordinator : current_term[v] \in Int
      BY <1>1
    <2>2. \A v \in Coordinator : current_term'[v] >= current_term[v]
      BY <1>1, <2>1, StepDownFaithful
    <2>3. \A v \in Coordinator :
            current_term'[v] = current_term[v] => voted_for'[v] = voted_for[v]
      BY <1>1, StepDownFaithful
    <2> QED
      BY <2>2, <2>3, BatteriesKept DEF Faithful
  <1>3. \A c \in Coordinator :
          state'[c] = Candidate => state[c] = Candidate /\ current_term'[c] = current_term[c]
    BY <1>1, StepDownFaithful
  <1> QED
    BY <1>2, <1>3, Uninvolved

\* Who stands votes for itself, in a term it was not in before.
LEMMA StartElectionVotes ==
  ASSUME TypeOK, TypeOK', ElectionInv, NoneNew("RequestVoteResponse"), battery' = battery,
         NEW i \in Coordinator, NEW term \in Nat, term >= current_term[i],
         NEW rest, StartElection(rest, i, term)
  PROVE  ElectionInv'
  <1>1. /\ current_term' = [current_term EXCEPT ![i] = term + 1]
        /\ state' = [state EXCEPT ![i] = Candidate]
        /\ voted_for' = [voted_for EXCEPT ![i] = i]
        /\ votes_received' = [votes_received EXCEPT ![i] = {i}]
        /\ elected' = elected
    BY DEF StartElection
  <1>2. /\ current_term \in [Coordinator -> Nat] /\ state \in [Coordinator -> NodeState]
        /\ voted_for \in [Coordinator -> Coordinator \cup {None}]
        /\ votes_received \in [Coordinator -> SUBSET Coordinator]
    BY DEF TypeOK
  <1>3. \A v, c \in Coordinator : \A t \in Nat :
          Voted(v, t, c)' => Voted(v, t, c) \/ (v = i /\ t = term + 1 /\ c = i)
    <2> SUFFICES ASSUME NEW v \in Coordinator, NEW c \in Coordinator, NEW t \in Nat,
                        Voted(v, t, c)'
                 PROVE  Voted(v, t, c) \/ (v = i /\ t = term + 1 /\ c = i)
      OBVIOUS
    <2>1. CASE Underway(v, t, c)'
      BY <2>1, NodesAreIds DEF NoneNew, Underway, Voted
    <2>2. CASE Counted(v, t, c)'
      BY <1>1, <1>2, <2>2 DEF Counted, Voted
    <2> QED
      BY <2>1, <2>2 DEF Voted
  <1>4. Faithful(i)
    <2>1. \A v \in Coordinator : current_term[v] \in Int
      BY <1>2
    <2>2. \A v \in Coordinator : current_term'[v] >= current_term[v]
      BY <1>1, <1>2, <2>1
    <2> QED
      BY <1>1, <1>2, <2>2, BatteriesKept DEF Faithful
  <1>5. term + 1 \in Nat /\ term + 1 > current_term[i]
    BY <1>2
  <1>6. current_term'[i] = term + 1 /\ voted_for'[i] = i
    BY <1>1, <1>2
  <1> QED
    BY <1>1, <1>3, <1>4, <1>5, <1>6, VoteGiven

LEMMA HandleRequestVoteVotes ==
  ASSUME TypeOK, TypeOK', ElectionInv, NEW i \in Coordinator, HandleRequestVote(i)
  PROVE  ElectionInv'
  <1> DEFINE m == Head(inbox[i])
             answer == [type |-> "RequestVoteResponse", from |-> i,
                        term |-> TermAfter(i, m.term), vote_granted |-> Grants(i, m)]
  <1>1. /\ Takes(i, "RequestVoteRPC") /\ m.from \in Coordinator /\ m.term \in Nat
        /\ i \in NodeId /\ m.from \in NodeId
    BY InboxesType, NodesAreIds, TakesType, MessageFields DEF HandleRequestVote
  <1>2. answer \in Message
    <2>1. TermAfter(i, m.term) \in Nat /\ Grants(i, m) \in BOOLEAN
      BY <1>1, StepDownType DEF Grants
    <2> QED
      BY <2>1 DEF Message
  <1>3. \A d \in NodeId : \A o \in Content(inbox'[d]) :
          o \in Content(inbox[d]) \/ (d = m.from /\ o = answer)
    BY <1>1, <1>2, OnlyNew DEF HandleRequestVote
  <1>4. /\ current_term' = [current_term EXCEPT ![i] = TermAfter(i, m.term)]
        /\ state' = [state EXCEPT ![i] = StateAfter(i, m.term)]
        /\ voted_for' = [voted_for EXCEPT ![i] =
             IF Grants(i, m) THEN m.from ELSE VoteAfter(i, m.term)]
        /\ UNCHANGED <<votes_received, elected, battery>>
    BY DEF HandleRequestVote, handoffVars
  <1>5. /\ current_term \in [Coordinator -> Nat] /\ state \in [Coordinator -> NodeState]
        /\ voted_for \in [Coordinator -> Coordinator \cup {None}]
        /\ \A v \in Coordinator : current_term[v] \in Int
    <2>1. current_term \in [Coordinator -> Nat]
      BY DEF TypeOK
    <2>2. \A v \in Coordinator : current_term[v] \in Int
      BY <2>1
    <2> QED
      BY <2>2 DEF TypeOK
  <1>6. \A v, c \in Coordinator : \A t \in Nat :
          Voted(v, t, c)' =>
            Voted(v, t, c) \/ (v = i /\ t = TermAfter(i, m.term) /\ c = m.from /\ Grants(i, m))
    <2> SUFFICES ASSUME NEW v \in Coordinator, NEW c \in Coordinator, NEW t \in Nat,
                        Voted(v, t, c)'
                 PROVE  \/ Voted(v, t, c)
                        \/ v = i /\ t = TermAfter(i, m.term) /\ c = m.from /\ Grants(i, m)
      OBVIOUS
    <2>1. CASE Underway(v, t, c)'
      <3>1. PICK o \in Content(inbox'[c]) :
              o.type = "RequestVoteResponse" /\ o.from = v /\ o.term = t /\ o.vote_granted
        BY <2>1 DEF Underway
      <3>2. CASE o \in Content(inbox[c])
        BY <3>1, <3>2 DEF Underway, Voted
      <3>3. CASE c = m.from /\ o = answer
        BY <3>1, <3>3
      <3> QED
        BY <1>3, <3>2, <3>3, NodesAreIds
    <2>2. CASE Counted(v, t, c)'
      BY <1>1, <1>4, <1>5, <2>2, StepDownFaithful DEF Counted, Voted
    <2> QED
      BY <2>1, <2>2 DEF Voted
  <1>7. \A v \in Coordinator : current_term'[v] >= current_term[v]
    BY <1>1, <1>4, <1>5, StepDownFaithful
  <1>8. Faithful(i)
    BY <1>4, <1>5, <1>7, BatteriesKept DEF Faithful
  <1>9. CASE Grants(i, m)
    <2>1. /\ m.term = TermAfter(i, m.term) /\ StateAfter(i, m.term) # Observer
          /\ VoteAfter(i, m.term) \in {None, m.from}
      BY <1>9 DEF Grants
    <2>2. battery[i] >= T_LOW
      <3>1. state[i] = Observer => StateAfter(i, m.term) = Observer
        BY DEF StateAfter, Observer, Candidate, Leader
      <3>2. ~(battery[i] < T_LOW) /\ battery[i] \in Levels
        BY <1>1, <2>1, <3>1 DEF Takes, TypeOK
      <3> QED
        BY <3>2, LevelsAreNumbers DEF T_LOW
    <2>3. current_term'[i] = m.term /\ voted_for'[i] = m.from
      BY <1>4, <1>5, <1>9, <2>1
    <2>4. \/ m.term > current_term[i]
          \/ m.term = current_term[i] /\ voted_for[i] \in {None, m.from}
      BY <1>1, <1>5, <2>1, StepDownFaithful DEF TermAfter, Newer
    <2> QED
      BY <1>1, <1>4, <1>6, <1>8, <2>1, <2>2, <2>3, <2>4, VoteGiven
  <1>10. CASE ~Grants(i, m)
    <2>1. voted_for' = [voted_for EXCEPT ![i] = VoteAfter(i, m.term)]
      BY <1>4, <1>10
    <2>2. Faithful(None)
      BY <1>1, <1>4, <1>5, <1>7, <2>1, StepDownFaithful, BatteriesKept DEF Faithful
    <2>3. WonByMajority'
      BY <1>4 DEF ElectionInv, WonByMajority
    <2> QED
      BY <1>6, <1>10, <2>2, <2>3, VotesKept
  <1> QED
    BY <1>9, <1>10

LEMMA HandleVoteResponseVotes ==
  ASSUME TypeOK, TypeOK', ElectionInv, NoneNew("RequestVoteResponse"), NEW i \in Coordinator,
         HandleVoteResponse(i)
  PROVE  ElectionInv'
  <1> DEFINE m == Head(inbox[i])
             votes == IF m.vote_granted THEN votes_received[i] \cup {m.from}
                      ELSE votes_received[i]
             counts == state[i] = Candidate /\ m.term = current_term[i]
             win == [term |-> current_term[i], leader |-> i, quorum |-> votes]
  <1>1. /\ m.from \in Coordinator /\ m.term \in Nat /\ m \in Content(inbox[i])
        /\ m.type = "RequestVoteResponse"
    BY InboxesType, NodesAreIds, TakesType, MessageFields DEF HandleVoteResponse
  <1>2. /\ votes_received' = [votes_received EXCEPT ![i] = IF counts THEN votes ELSE @]
        /\ battery' = battery
    BY DEF HandleVoteResponse
  <1>3. /\ current_term \in [Coordinator -> Nat] /\ state \in [Coordinator -> NodeState]
        /\ voted_for \in [Coordinator -> Coordinator \cup {None}]
        /\ votes_received \in [Coordinator -> SUBSET Coordinator]
        /\ \A v \in Coordinator : current_term[v] \in Int
    <2>1. current_term \in [Coordinator -> Nat]
      BY DEF TypeOK
    <2>2. \A v \in Coordinator : current_term[v] \in Int
      BY <2>1
    <2> QED
      BY <2>2 DEF TypeOK
  \* A vote that is counted was counted before or is the one that arrives.
  <1>4. ASSUME NEW v \in Coordinator, v \in votes, counts
        PROVE  Voted(v, current_term[i], i)
    <2>1. CASE v \in votes_received[i]
      BY <1>4, <2>1 DEF Voted, Counted
    <2>2. CASE m.vote_granted /\ v = m.from
      BY <1>1, <1>4, <2>2 DEF Voted, Underway
    <2> QED
      BY <1>4, <2>1, <2>2
  <1>5. ASSUME NEW v \in Coordinator, NEW c \in Coordinator, NEW t \in Nat, Underway(v, t, c)'
        PROVE  Voted(v, t, c)
    BY <1>5, NodesAreIds DEF NoneNew, Underway, Voted
  <1> HIDE DEF votes
  <1>6. CASE /\ counts /\ HasMajority(votes)
             /\ state' = [state EXCEPT ![i] = Leader]
             /\ elected' = elected \cup {win}
             /\ UNCHANGED <<current_term, voted_for>>
    <2>1. ASSUME NEW v \in Coordinator, NEW c \in Coordinator, NEW t \in Nat, Counted(v, t, c)'
          PROVE  Voted(v, t, c)
      <3>1. CASE state'[c] = Candidate /\ current_term'[c] = t /\ v \in votes_received'[c]
        <4>1. c # i
          BY <1>3, <1>6, <3>1 DEF Candidate, Leader
        <4> QED
          BY <1>2, <1>3, <1>6, <3>1, <4>1 DEF Voted, Counted
      <3>2. CASE \E e \in elected : e.term = t /\ e.leader = c /\ v \in e.quorum
        BY <3>2 DEF Voted, Counted
      <3>3. CASE win.term = t /\ win.leader = c /\ v \in win.quorum
        BY <1>4, <1>6, <3>3
      <3> QED
        BY <1>6, <2>1, <3>1, <3>2, <3>3 DEF Counted
    <2>2. WonByMajority'
      BY <1>6 DEF ElectionInv, WonByMajority
    <2>3. Faithful(None)
      BY <1>2, <1>6, SameTerms
    <2>4. \A v, c \in Coordinator : \A t \in Nat : Voted(v, t, c)' => Voted(v, t, c)
      BY <1>5, <2>1 DEF Voted
    <2> QED
      BY <2>2, <2>3, <2>4, VotesKept
  <1>7. CASE ~(counts /\ HasMajority(votes)) /\ StepDown(i, m.term) /\ elected' = elected
    <2>1. /\ current_term' = [current_term EXCEPT ![i] = TermAfter(i, m.term)]
          /\ voted_for' = [voted_for EXCEPT ![i] = VoteAfter(i, m.term)]
          /\ state' = [state EXCEPT ![i] = StateAfter(i, m.term)]
      BY <1>7 DEF StepDown
    <2>2. ASSUME NEW v \in Coordinator, NEW c \in Coordinator, NEW t \in Nat, Counted(v, t, c)'
          PROVE  Voted(v, t, c)
      <3>1. CASE \E e \in elected : e.term = t /\ e.leader = c /\ v \in e.quorum
        BY <3>1 DEF Voted, Counted
      <3>2. CASE /\ state'[c] = Candidate /\ current_term'[c] = t /\ v \in votes_received'[c]
                 /\ c # i
        BY <1>2, <1>3, <2>1, <3>2 DEF Voted, Counted
      <3>3. CASE /\ state'[c] = Candidate /\ current_term'[c] = t /\ v \in votes_received'[c]
                 /\ c = i
        <4>1. state[i] = Candidate /\ current_term[i] = t
          BY <1>1, <1>3, <2>1, <3>3, StepDownFaithful
        <4>2. v \in votes_received[i] \/ (counts /\ v \in votes)
          BY <1>2, <1>3, <3>3
        <4> QED
          BY <1>4, <3>3, <4>1, <4>2 DEF Voted, Counted
      <3> QED
        BY <1>7, <2>2, <3>1, <3>2, <3>3 DEF Counted
    <2>3. WonByMajority'
      BY <1>7 DEF ElectionInv, WonByMajority
    <2>4. \A v \in Coordinator : current_term'[v] >= current_term[v]
      BY <1>1, <1>3, <2>1, StepDownFaithful
    <2>5. Faithful(None)
      BY <1>1, <1>2, <1>3, <2>1, <2>4, StepDownFaithful, BatteriesKept DEF Faithful
    <2>6. \A v, c \in Coordinator : \A t \in Nat : Voted(v, t, c)' => Voted(v, t, c)
      BY <1>5, <2>2 DEF Voted
    <2> QED
      BY <2>3, <2>5, <2>6, VotesKept
  <1> QED
    BY <1>6, <1>7 DEF HandleVoteResponse, BecomeLeader, votes

LEMMA HandlersElection ==
  ASSUME TypeOK, TypeOK', ElectionInv, NEW i \in Coordinator, Handle(i),
         NoneNew("RequestVoteResponse")
  PROVE  ElectionInv'
  <1> DEFINE m == Head(inbox[i])
  <1>1. CASE HandleRequestVote(i) \/ HandleVoteResponse(i)
    BY <1>1, HandleRequestVoteVotes, HandleVoteResponseVotes
  <1>2. CASE HandleAppendEntries(i)
    <2>1. /\ m.term \in Nat
          /\ UNCHANGED <<votes_received, elected, battery>>
          /\ current_term' = [current_term EXCEPT ![i] = TermAfter(i, m.term)]
          /\ voted_for' = [voted_for EXCEPT ![i] = VoteAfter(i, m.term)]
      BY <1>2, InboxesType, NodesAreIds, TakesType, MessageFields
      DEF HandleAppendEntries, handoffVars
    <2>2. state \in [Coordinator -> NodeState] /\ current_term[i] \in Nat
      BY DEF TypeOK
    <2>3. CASE m.term < current_term[i] /\ state' = state
      <3>1. StateAfter(i, m.term) = state[i]
        BY <2>1, <2>2, <2>3 DEF StateAfter, Newer
      <3> QED
        BY <2>1, <2>3, <3>1, SteppedDown
    <2>4. CASE state' = [state EXCEPT ![i] =
                 IF StateAfter(i, m.term) = Candidate THEN Follower ELSE StateAfter(i, m.term)]
      <3>1. /\ state'[i] \in {Follower, StateAfter(i, m.term)} /\ state'[i] # Candidate
            /\ \A n \in Coordinator : n # i => state'[n] = state[n]
        BY <2>2, <2>4 DEF Follower, Candidate
      <3> QED
        BY <2>1, <3>1, SteppedDown
    <2> QED
      BY <1>2, <2>3, <2>4 DEF HandleAppendEntries
  <1>3. CASE HandleAppendResponse(i) \/ HandleLivenessPing(i)
    <2>1. /\ m.term \in Nat /\ StepDown(i, m.term)
          /\ UNCHANGED <<votes_received, elected, battery>>
      BY <1>3, InboxesType, NodesAreIds, TakesType, MessageFields
      DEF HandleAppendResponse, HandleLivenessPing, handoffVars
    <2>2. /\ state'[i] = StateAfter(i, m.term)
          /\ \A n \in Coordinator : n # i => state'[n] = state[n]
          /\ current_term' = [current_term EXCEPT ![i] = TermAfter(i, m.term)]
          /\ voted_for' = [voted_for EXCEPT ![i] = VoteAfter(i, m.term)]
      BY <2>1 DEF StepDown, TypeOK
    <2> QED
      BY <2>1, <2>2, SteppedDown
  <1>4. CASE HandleLeadershipHandoff(i)
    <2>1. m.term \in Nat /\ battery' = battery
      BY <1>4, InboxesType, NodesAreIds, TakesType, MessageFields
      DEF HandleLeadershipHandoff, handoffVars
    <2>2. CASE StartElection(Rest(i), i, TermAfter(i, m.term))
      <3>1. TermAfter(i, m.term) \in Nat /\ TermAfter(i, m.term) >= current_term[i]
        BY <2>1, StepDownType, StepDownFaithful
      <3> QED
        BY <2>1, <2>2, <3>1, StartElectionVotes
    <2>3. CASE UNCHANGED electionVars
      BY <2>1, <2>3, NoElection
    <2> QED
      BY <1>4, <2>2, <2>3 DEF HandleLeadershipHandoff
  <1>5. CASE HandleLeafRegister(i) \/ HandleSensorData(i)
    BY <1>5, NoElection DEF HandleLeafRegister, HandleSensorData, handoffVars
  <1> QED
    BY <1>1, <1>2, <1>3, <1>4, <1>5 DEF Handle

\* A battery that falls, and what becomes of its owner.
LEMMA Drained ==
  ASSUME TypeOK, TypeOK', ElectionInv, NoneNew("RequestVoteResponse"),
         NEW i \in Coordinator, NEW level \in Levels, level <= battery[i],
         UNCHANGED <<current_term, votes_received, elected>>,
         battery' = [battery EXCEPT ![i] = level],
         \A v \in Coordinator : v # i \/ level >= T_LOW => voted_for'[v] = voted_for[v],
         \A c \in Coordinator : state'[c] = Candidate => state[c] = Candidate
  PROVE  ElectionInv'
  <1>1. /\ \A v \in Coordinator : current_term[v] \in Int
        /\ \A v \in Coordinator : battery[v] \in Levels
        /\ battery \in [Coordinator -> Levels]
    BY DEF TypeOK
  <1>2. Faithful(None)
    <2>1. \A v \in Coordinator : battery'[v] <= battery[v]
      BY <1>1, LevelsAreNumbers
    <2>2. \A v \in Coordinator : battery'[v] >= T_LOW => voted_for'[v] = voted_for[v]
      BY <1>1
    <2> QED
      BY <1>1, <2>1, <2>2 DEF Faithful
  <1> QED
    BY <1>2, Uninvolved

LEMMA IdleElection ==
  ASSUME TypeOK, TypeOK', ElectionInv, NEW i \in Coordinator, Idle(i),
         NoneNew("RequestVoteResponse")
  PROVE  ElectionInv'
  <1>1. CASE ElectionIdle(i)
    <2>1. /\ StartElection(inbox, i, current_term[i]) /\ battery' = battery
          /\ current_term[i] \in Nat /\ current_term[i] >= current_term[i]
      BY <1>1 DEF ElectionIdle, handoffVars, TypeOK
    <2> QED
      BY <2>1, StartElectionVotes
  <1>2. CASE RaftIdle(i) \/ EchoIdle(i)
    BY <1>2, NoElection DEF RaftIdle, EchoIdle, handoffVars
  <1>3. CASE EchodIdle(i)
    <2>1. UNCHANGED <<current_term, votes_received, elected>>
      BY <1>3 DEF EchodIdle
    <2>2. CASE UNCHANGED <<state, voted_for, battery>>
      BY <2>1, <2>2, NoElection DEF electionVars
    <2>3. CASE \E level \in Spent(i) :
                 /\ battery' = [battery EXCEPT ![i] = level]
                 /\ voted_for' = [voted_for EXCEPT ![i] = IF level < T_LOW THEN None ELSE @]
                 /\ state' = [state EXCEPT ![i] = Follower]
      <3>1. PICK level \in Spent(i) :
                 /\ battery' = [battery EXCEPT ![i] = level]
                 /\ voted_for' = [voted_for EXCEPT ![i] = IF level < T_LOW THEN None ELSE @]
                 /\ state' = [state EXCEPT ![i] = Follower]
        BY <2>3
      <3>2. level \in Levels /\ level <= battery[i]
        BY SpentType DEF TypeOK
      <3>3. level >= T_LOW => ~(level < T_LOW)
        BY <3>2, LevelsAreNumbers DEF T_LOW
      <3>4. \A v \in Coordinator : v # i \/ level >= T_LOW => voted_for'[v] = voted_for[v]
        BY <3>1, <3>3 DEF TypeOK
      <3>5. \A c \in Coordinator : state'[c] = Candidate => state[c] = Candidate
        BY <3>1 DEF TypeOK, Follower, Candidate
      <3> QED
        BY <2>1, <3>1, <3>2, <3>4, <3>5, Drained
    <2> QED
      BY <1>3, <2>2, <2>3, EchodIdleCases
  <1> QED
    BY <1>1, <1>2, <1>3 DEF Idle

LEMMA NextElection == TypeOK /\ ElectionInv /\ [Next]_vars => ElectionInv'
  <1> SUFFICES ASSUME TypeOK, ElectionInv, [Next]_vars PROVE ElectionInv'
    OBVIOUS
  <1>1. TypeOK'
    BY NextType
  <1>2. CASE \E i \in Coordinator : HandleRequestVote(i)
    BY <1>1, <1>2, HandleRequestVoteVotes
  <1>3. CASE ~ \E i \in Coordinator : HandleRequestVote(i)
    <2>1. NoneNew("RequestVoteResponse")
      BY <1>3, NewMessages
    <2>2. CASE \E i \in Coordinator : Idle(i) \/ Handle(i)
      BY <1>1, <2>1, <2>2, IdleElection, HandlersElection
    <2>3. CASE \E l \in LeafId : LeafStep(l)
      BY <1>1, <2>1, <2>3, NoElection DEF LeafStep, LeafIdle, HandleLeafRegisterResponse,
         LeafTimeout, LeafReading, handoffVars
    <2>4. CASE Environment
      <3>1. CASE \E i \in Coordinator : Workload(i)
        BY <1>1, <2>1, <3>1, NoElection DEF Workload, handoffVars
      <3>2. CASE \E i \in Coordinator, level \in Levels : Drain(i, level)
        <4>1. PICK i \in Coordinator, level \in Levels : Drain(i, level)
          BY <3>2
        <4>2. /\ level < battery[i] /\ battery' = [battery EXCEPT ![i] = level]
              /\ state' = [state EXCEPT ![i] = IF level < T_LOW THEN Observer ELSE @]
              /\ voted_for' = [voted_for EXCEPT ![i] =
                   IF level < T_LOW /\ state[i] # Observer THEN None ELSE @]
              /\ UNCHANGED <<current_term, votes_received, elected>>
          BY <4>1 DEF Drain
        <4>3. level <= battery[i] /\ (level >= T_LOW => ~(level < T_LOW))
          <5>1. battery[i] \in Levels
            BY DEF TypeOK
          <5> QED
            BY <4>2, <5>1, LevelsAreNumbers DEF T_LOW
        <4>4. \A v \in Coordinator : v # i \/ level >= T_LOW => voted_for'[v] = voted_for[v]
          BY <4>2, <4>3 DEF TypeOK
        <4>5. \A c \in Coordinator : state'[c] = Candidate => state[c] = Candidate
          BY <4>2 DEF TypeOK, Observer, Candidate
        <4> QED
          BY <1>1, <2>1, <4>2, <4>3, <4>4, <4>5, Drained
      <3>3. CASE \E i \in Coordinator : LateTick(i)
        <4>1. PICK i \in Coordinator : LateTick(i)
          BY <3>3
        <4>2. /\ battery[i] < T_LOW /\ state' = [state EXCEPT ![i] = Observer]
              /\ voted_for' = [voted_for EXCEPT ![i] = None]
              /\ UNCHANGED <<current_term, votes_received, elected, battery>>
          BY <4>1 DEF LateTick, handoffVars
        <4>3. battery[i] \in Levels /\ battery[i] <= battery[i] /\ ~(battery[i] >= T_LOW)
          <5>1. battery[i] \in Levels
            BY DEF TypeOK
          <5> QED
            BY <4>2, <5>1, LevelsAreNumbers DEF T_LOW
        <4>4. \A v \in Coordinator : v # i \/ battery[i] >= T_LOW => voted_for'[v] = voted_for[v]
          BY <4>2, <4>3 DEF TypeOK
        <4>5. \A c \in Coordinator : state'[c] = Candidate => state[c] = Candidate
          BY <4>2 DEF TypeOK, Observer, Candidate
        <4>6. battery' = [battery EXCEPT ![i] = battery[i]]
          BY <4>2 DEF TypeOK
        <4> QED
          BY <1>1, <2>1, <4>2, <4>3, <4>4, <4>5, <4>6, Drained
      <3>4. CASE \/ \E i \in Coordinator : InjectFailure(i) \/ RecoverNode(i)
                 \/ \E groups \in Splits : InjectPartition(groups)
                 \/ HealPartition
        BY <1>1, <2>1, <3>4, FaultsKeep, NoElection DEF handoffVars
      <3> QED
        BY <2>4, <3>1, <3>2, <3>3, <3>4 DEF Environment
    <2>5. CASE UNCHANGED vars
      BY <1>1, <2>1, <2>5, NoElection DEF vars, handoffVars
    <2> QED
      BY <2>2, <2>3, <2>4, <2>5 DEF Next
  <1> QED
    BY <1>2, <1>3

LEMMA InitElection == Init => ElectionInv
  <1> SUFFICES ASSUME Init PROVE ElectionInv
    OBVIOUS
  <1>1. \A v, c \in Coordinator : \A t \in Nat : ~Voted(v, t, c)
    <2>1. \A c \in Coordinator : Content(inbox[c]) = {} /\ state[c] # Candidate
      BY NodesAreIds DEF Init, Quiet, Content, Follower, Candidate
    <2> QED
      BY <2>1 DEF Init, Voted, Underway, Counted
  <1> QED
    BY <1>1 DEF Init, ElectionInv, VotersRemember, VotesOnce, WonByMajority

LEMMA OneWinner ==
  ASSUME TypeOK, ElectionInv
  PROVE  OneWinnerPerTerm
  <1> SUFFICES ASSUME NEW e \in elected, NEW f \in elected, e.term = f.term
               PROVE  e.leader = f.leader
    BY DEF OneWinnerPerTerm
  <1>1. /\ e.leader \in Coordinator /\ e.quorum \in SUBSET Coordinator /\ e.term \in Nat
        /\ f.leader \in Coordinator /\ f.quorum \in SUBSET Coordinator
    BY DEF TypeOK
  <1>2. HasMajority(e.quorum) /\ HasMajority(f.quorum)
    BY DEF ElectionInv, WonByMajority
  <1>3. IsFiniteSet(Coordinator) /\ IsFiniteSet(e.quorum) /\ IsFiniteSet(f.quorum)
    BY <1>1, SimAssumption, FS_Subset
  <1>4. /\ Cardinality(e.quorum) \in Nat /\ Cardinality(f.quorum) \in Nat
        /\ Cardinality(Coordinator) \in Nat
    BY <1>3, FS_CardinalityType
  <1>5. Cardinality(e.quorum) + Cardinality(f.quorum) > Cardinality(Coordinator)
    BY <1>2, <1>4 DEF HasMajority
  <1>6. e.quorum \cap f.quorum # {}
    BY <1>1, <1>3, <1>5, FS_MajoritiesIntersect
  <1>7. PICK v \in Coordinator : v \in e.quorum /\ v \in f.quorum
    BY <1>1, <1>6
  <1>8. Voted(v, e.term, e.leader) /\ Voted(v, e.term, f.leader)
    BY <1>7 DEF Voted, Counted
  <1> QED
    BY <1>1, <1>8 DEF ElectionInv, VotesOnce

\* No term is won twice in the simulated cluster, in raft, ECHO and echoD, for any
\* number of coordinators: a coordinator that forgets its vote, because it drains
\* or hands over, does not vote before it is in a later term.
THEOREM TermsAreWonOnce == Spec => []OneWinnerPerTerm
  <1>1. TypeOK /\ ElectionInv => OneWinnerPerTerm
    BY OneWinner
  <1> QED
    BY <1>1, InitElection, NextElection, SimTypeCorrect, PTL DEF Spec

-----------------------------------------------------------------------------
(* What is proposed *)

\* i sends rounds of its log, which is lg from now on, and nobody else's changes.
Proposes(i, lg) ==
  /\ lg \in Seq(LogEntry) /\ log' = [log EXCEPT ![i] = lg]
  /\ \A d \in NodeId : \A m \in Content(inbox'[d]) :
       m.type = "AppendEntriesRPC" => m \in Content(inbox[d]) \/ m \in RoundsOf(i, lg)

\* Nothing is proposed, and no round sent.
Idles == log' = log /\ NoneNew("AppendEntriesRPC")

LEMMA RoundsSent ==
  ASSUME TypeOK, NEW i \in NodeId, NEW j \in Coordinator, NEW lg \in Seq(LogEntry), NEW S, NEW more,
         S = RoundsOf(j, lg) \cup OfType(more), "AppendEntriesRPC" \notin more,
         log' = [log EXCEPT ![j] = lg],
         \/ Sends(inbox, i, S)
         \/ Sends(Rest(i), i, S) /\ \E t : Takes(i, t)
  PROVE  Proposes(j, lg)
  <1>1. S \in SUBSET Message
    BY RoundsType DEF OfType
  <1>2. \A m \in S : m.type = "AppendEntriesRPC" => m \in RoundsOf(j, lg)
    BY DEF OfType
  <1> QED
    BY <1>1, <1>2, SentNew DEF Proposes

\* The log of a coordinator changes when it leads and proposes, or merges.
LEMMA RaftIdleProposes ==
  ASSUME TypeOK, NEW i \in Coordinator, RaftIdle(i)
  PROVE  Proposes(i, log[i]) /\ state[i] = Leader
  <1>1. log \in [Coordinator -> Seq(LogEntry)]
    BY DEF TypeOK
  <1>2. log' = [log EXCEPT ![i] = log[i]] /\ state[i] = Leader
    BY <1>1 DEF RaftIdle, replicationVars
  <1>3. RoundsOf(i, log[i]) = RoundsOf(i, log[i]) \cup OfType({})
    BY DEF OfType
  <1> QED
    BY <1>1, <1>2, <1>3, NodesAreIds, RaftIdleType, RoundsSent

LEMMA EchodIdleProposes ==
  ASSUME TypeOK, NEW i \in Coordinator, EchodIdle(i)
  PROVE  Proposes(i, log'[i]) /\ state[i] = Leader
  <1>1. /\ log'[i] \in Seq(LogEntry) /\ Sends(inbox, i, EchodSends(i, log'[i]))
        /\ \A n \in Coordinator : n # i => log'[n] = log[n]
        /\ log' \in [Coordinator -> Seq(LogEntry)] /\ log \in [Coordinator -> Seq(LogEntry)]
    BY EchodIdleCases DEF TypeOK
  <1>2. log' = [log EXCEPT ![i] = log'[i]]
    BY <1>1
  <1>3. state[i] = Leader
    BY DEF EchodIdle
  <1> QED
    BY <1>1, <1>2, <1>3, NodesAreIds, RoundsSent DEF EchodSends

LEMMA WorkloadProposes ==
  ASSUME TypeOK, NEW i \in Coordinator, Workload(i)
  PROVE  /\ \E r \in Reading : Proposes(i, Extended(i, {r}))
         /\ state[i] = Leader
  <1> DEFINE r == CHOOSE reading \in Reading : TRUE
  <1>1. r \in Reading
    BY WorkloadCommand
  <1>2. Replicate(inbox, i, {r}) /\ state[i] = Leader
    BY DEF Workload
  <1> HIDE DEF r
  <1>3. /\ Extended(i, {r}) \in Seq(LogEntry)
        /\ log' = [log EXCEPT ![i] = Extended(i, {r})]
        /\ log'[i] = Extended(i, {r})
        /\ Sends(inbox, i, RoundsOf(i, log'[i]))
    BY <1>1, <1>2, InboxesType, ReplicateSends
  <1>4. RoundsOf(i, Extended(i, {r})) = RoundsOf(i, Extended(i, {r})) \cup OfType({})
    BY DEF OfType
  <1>5. Proposes(i, Extended(i, {r}))
    BY <1>3, <1>4, NodesAreIds, RoundsSent
  <1> QED
    BY <1>1, <1>2, <1>5

\* A leader that proposes a report.
LEMMA ReplicateProposes ==
  ASSUME TypeOK, NEW i \in Coordinator, NEW t, Takes(i, t), NEW command \in SUBSET Reading,
         Replicate(Rest(i), i, command)
  PROVE  Proposes(i, Extended(i, command))
  <1>1. Rest(i) \in Inboxes
    BY InboxesType, NodesAreIds, TakesType
  <1>2. /\ Extended(i, command) \in Seq(LogEntry)
        /\ log' = [log EXCEPT ![i] = Extended(i, command)]
        /\ Sends(Rest(i), i, RoundsOf(i, Extended(i, command)))
    BY <1>1, ReplicateSends
  <1>3. RoundsOf(i, Extended(i, command)) = RoundsOf(i, Extended(i, command)) \cup OfType({})
    BY DEF OfType
  <1> QED
    BY <1>2, <1>3, NodesAreIds, RoundsSent

LEMMA HandleAppendEntriesRounds ==
  ASSUME TypeOK, NEW i \in Coordinator, HandleAppendEntries(i)
  PROVE  NoneNew("AppendEntriesRPC")
  <1>1. /\ Sends(Rest(i), i, OfType({"AppendEntriesResponse"}))
        /\ Takes(i, "AppendEntriesRPC")
    BY HandleAppendEntriesType DEF HandleAppendEntries
  <1> QED
    BY <1>1, NodesAreIds, OthersSent

LEMMA HandleSensorDataProposes ==
  ASSUME TypeOK, NEW i \in Coordinator, HandleSensorData(i)
  PROVE  \/ Idles
         \/ /\ state[i] = Leader
            /\ \E command \in SUBSET Reading : Proposes(i, Extended(i, command))
  <1> DEFINE reading == Head(inbox[i]).reading
             relayed == [type |-> "SensorDataReport", from |-> i, reading |-> reading]
  <1>1. Takes(i, "SensorDataReport") /\ i \in NodeId /\ reading \in Reading
    BY HandleSensorDataCases, NodesAreIds DEF HandleSensorData
  <1>2. CASE state[i] = Leader /\ \E command \in SUBSET Reading : Replicate(Rest(i), i, command)
    BY <1>1, <1>2, ReplicateProposes
  <1>3. CASE log' = log /\ (Send(Rest(i), i, Quiet) \/ inbox' = Rest(i))
    <2>1. Rest(i) \in Inboxes
      BY <1>1, InboxesType, TakesType
    <2>2. Sends(Rest(i), i, {})
      BY <1>3, <2>1, NothingSent
    <2>3. {} \in SUBSET Message /\ \E t : Takes(i, t)
      BY <1>1
    <2>4. NoneNew("AppendEntriesRPC")
      BY <1>1, <2>2, <2>3, SentNew DEF NoneNew
    <2> QED
      BY <1>3, <2>4 DEF Idles
  <1>4. CASE log' = log /\ \E d \in Coordinator : Send(Rest(i), i, Only(d, relayed))
    <2>1. relayed \in OfType({"SensorDataReport"})
      BY HandleSensorDataCases DEF OfType
    <2>2. Sends(Rest(i), i, OfType({"SensorDataReport"}))
      BY <1>4, <2>1, OnlySends DEF Sends
    <2>3. "AppendEntriesRPC" \notin {"SensorDataReport"} /\ \E t : Takes(i, t)
      BY <1>1
    <2>4. OfType({"SensorDataReport"}) \subseteq OfType({"SensorDataReport"})
      OBVIOUS
    <2>5. NoneNew("AppendEntriesRPC")
      BY <1>1, <2>2, <2>3, <2>4, OthersSent
    <2> QED
      BY <1>4, <2>5 DEF Idles
  <1>5. \/ state[i] = Leader /\ \E command \in SUBSET Reading : Replicate(Rest(i), i, command)
        \/ log' = log /\ (Send(Rest(i), i, Quiet) \/ inbox' = Rest(i))
        \/ log' = log /\ \E d \in Coordinator : Send(Rest(i), i, Only(d, relayed))
    <2>1. CASE state[i] = Leader
      BY <1>1, <2>1, BatchedType DEF HandleSensorData
    <2>2. CASE state[i] # Leader
      <3>1. /\ log' = log
            /\ Send(Rest(i), i, IF current_leader_id[i] \in {None, i} THEN Quiet
                 ELSE Only(current_leader_id[i], relayed))
        BY <2>2 DEF HandleSensorData
      <3>2. current_leader_id[i] \in Coordinator \cup {None}
        BY DEF TypeOK
      <3> QED
        BY <3>1, <3>2
    <2> QED
      BY <2>1, <2>2
  <1> QED
    BY <1>2, <1>3, <1>4, <1>5

LEMMA OthersIdle ==
  ASSUME TypeOK, [Next]_vars
  PROVE  \/ \E i \in Coordinator : \/ RaftIdle(i) \/ EchodIdle(i) \/ HandleAppendEntries(i)
                                   \/ HandleSensorData(i) \/ Workload(i)
         \/ Idles
  <1>1. ASSUME NEW i \in NodeId, NEW S, NEW types, S \subseteq OfType(types),
               "AppendEntriesRPC" \notin types, log' = log,
               \/ Sends(inbox, i, S)
               \/ Sends(Rest(i), i, S) /\ \E t : Takes(i, t)
        PROVE  Idles
    BY <1>1, OthersSent DEF Idles
  <1>2. CASE \E i \in Coordinator : ElectionIdle(i) \/ EchoIdle(i)
    <2>1. PICK i \in Coordinator : ElectionIdle(i) \/ EchoIdle(i)
      BY <1>2
    <2>2. log' = log
      BY <2>1 DEF ElectionIdle, EchoIdle, replicationVars
    <2>3. Sends(inbox, i, OfType({"RequestVoteRPC"})) \/ Sends(inbox, i, OfType({"LivenessPing"}))
      BY <2>1, ElectionIdleType, EchoIdleType
    <2>4. Idles
      BY <1>1, <2>2, <2>3, NodesAreIds
    <2> QED
      BY <2>4
  <1>3. CASE \E i \in Coordinator :
               \/ HandleRequestVote(i) \/ HandleVoteResponse(i) \/ HandleAppendResponse(i)
               \/ HandleLivenessPing(i) \/ HandleLeadershipHandoff(i) \/ HandleLeafRegister(i)
    <2>1. PICK i \in Coordinator :
               \/ HandleRequestVote(i) \/ HandleVoteResponse(i) \/ HandleAppendResponse(i)
               \/ HandleLivenessPing(i) \/ HandleLeadershipHandoff(i) \/ HandleLeafRegister(i)
      BY <1>3
    <2>2. log' = log
      BY <2>1 DEF HandleRequestVote, HandleVoteResponse, HandleAppendResponse,
         HandleLivenessPing, HandleLeadershipHandoff, HandleLeafRegister, replicationVars
    <2>3. \E t : Takes(i, t)
      BY <2>1 DEF HandleRequestVote, HandleVoteResponse, HandleAppendResponse,
         HandleLivenessPing, HandleLeadershipHandoff, HandleLeafRegister
    <2>4. CASE HandleRequestVote(i)
      <3> DEFINE S == {[type |-> "RequestVoteResponse", from |-> i,
                        term |-> TermAfter(i, Head(inbox[i]).term),
                        vote_granted |-> Grants(i, Head(inbox[i]))]}
      <3>1. Head(inbox[i]).term \in Nat
        BY <2>4, NodesAreIds, InboxesType, TakesType, MessageFields DEF HandleRequestVote
      <3>2. TermAfter(i, Head(inbox[i]).term) \in Nat /\ Grants(i, Head(inbox[i])) \in BOOLEAN
        BY <3>1, StepDownType DEF Grants
      <3>3. S \subseteq OfType({"RequestVoteResponse"})
        BY <3>2 DEF OfType, Message
      <3>4. Sends(Rest(i), i, S)
        BY <2>4, HandleRequestVoteType
      <3> HIDE DEF S
      <3>5. "AppendEntriesRPC" \notin {"RequestVoteResponse"} /\ i \in NodeId
        BY NodesAreIds
      <3>6. Idles
        BY <1>1, <2>2, <2>3, <3>3, <3>4, <3>5
      <3> QED
        BY <3>6
    <2>5. CASE HandleLeafRegister(i)
      <3> DEFINE S == {[type |-> "LeafRegisterResponse", from |-> i]}
      <3>1. S \subseteq OfType({"LeafRegisterResponse"})
        BY DEF OfType, Message
      <3>2. Sends(Rest(i), i, S)
        BY <2>5, HandleLeafRegisterType
      <3>3. Idles
        BY <1>1, <2>2, <2>3, <3>1, <3>2, NodesAreIds
      <3> QED
        BY <3>3
    <2>6. CASE \/ HandleVoteResponse(i) \/ HandleAppendResponse(i)
               \/ HandleLivenessPing(i) \/ HandleLeadershipHandoff(i)
      <3>1. \/ Sends(Rest(i), i, {}) \/ Sends(Rest(i), i, OfType({"LivenessPing"}))
            \/ Sends(Rest(i), i, OfType({"RequestVoteRPC"}))
        BY <2>6, HandleVoteResponseType, HandleAppendResponseType, HandleLivenessPingType,
           HandleLeadershipHandoffType
      <3>2. {} \subseteq OfType({})
        OBVIOUS
      <3>3. Idles
        BY <1>1, <2>2, <2>3, <3>1, <3>2, NodesAreIds
      <3> QED
        BY <3>3
    <2> QED
      BY <2>1, <2>4, <2>5, <2>6
  <1>4. CASE \E l \in LeafId : LeafStep(l)
    <2>1. PICK l \in LeafId : LeafStep(l)
      BY <1>4
    <2>2. log' = log
      BY <2>1 DEF LeafStep, LeafIdle, HandleLeafRegisterResponse, LeafTimeout, LeafReading,
         replicationVars
    <2>3. CASE LeafTimeout(l)
      BY <2>2, <2>3 DEF LeafTimeout, Idles, NoneNew
    <2>4. CASE ~LeafTimeout(l)
      <3>1. \/ Sends(inbox, l, OfType({"LeafRegisterRequest"}))
            \/ Sends(inbox, l, OfType({"SensorDataReport"}))
            \/ Sends(Rest(l), l, {}) /\ Takes(l, "LeafRegisterResponse")
        BY <2>1, <2>4, LeafIdleType, LeafReadingType, HandleLeafRegisterResponseType
        DEF LeafStep, HandleLeafRegisterResponse
      <3>2. {} \subseteq OfType({})
        OBVIOUS
      <3>3. Idles
        BY <1>1, <2>2, <3>1, <3>2, NodesAreIds
      <3> QED
        BY <3>3
    <2> QED
      BY <2>3, <2>4
  <1>5. CASE Environment /\ ~ \E i \in Coordinator : Workload(i)
    <2>1. UNCHANGED <<log, inbox>>
      BY <1>5, FaultsKeep DEF Environment, Drain, LateTick, replicationVars
    <2> QED
      BY <2>1 DEF Idles, NoneNew
  <1>6. CASE UNCHANGED vars
    BY <1>6 DEF vars, replicationVars, Idles, NoneNew
  <1> QED
    BY <1>2, <1>3, <1>4, <1>5, <1>6 DEF Next, Idle, Handle


-----------------------------------------------------------------------------
(* Where the reports of a reading are *)

IsReport(m, r) == m.type = "SensorDataReport" /\ m.reading = r
ReportsOf(r) == {m \in Message : IsReport(m, r)}

\* UnderWay(r) when the inboxes are box, InBatch(r) when the batches are buffer.
ReportsIn(box, r) == Places(NodeId, box, ReportsOf(r))
BatchedIn(buffer, r) == Places(Coordinator, buffer, {r})

LEMMA UnderWayIs ==
  ASSUME NEW box \in Inboxes, NEW r
  PROVE  UNION {{<<d, n>> : n \in {k \in DOMAIN box[d] : /\ box[d][k].type = "SensorDataReport"
                                                         /\ box[d][k].reading = r}}
                  : d \in NodeId}
           = ReportsIn(box, r)
  <1> DEFINE At(d) == {k \in DOMAIN box[d] : box[d][k].type = "SensorDataReport"
                                             /\ box[d][k].reading = r}
             places == UNION {{<<d, n>> : n \in At(d)} : d \in NodeId}
  <1>1. \A d \in NodeId : \A n \in DOMAIN box[d] : n \in Nat /\ box[d][n] \in Message
    <2>1. \A d \in NodeId : DOMAIN box[d] = 1 .. Len(box[d]) /\ Len(box[d]) \in Nat
      BY LenProperties DEF Inboxes
    <2> QED
      BY <2>1, ElementOfSeq DEF Inboxes
  <1>2. ASSUME NEW p \in places PROVE p \in ReportsIn(box, r)
    <2>1. PICK d \in NodeId : p \in {<<d, n>> : n \in At(d)}
      BY <1>2
    <2>2. PICK n \in At(d) : p = <<d, n>>
      BY <2>1
    <2> QED
      BY <1>1, <2>2 DEF ReportsIn, ReportsOf, IsReport, Places
  <1>3. ASSUME NEW p \in ReportsIn(box, r) PROVE p \in places
    <2>1. PICK d \in NodeId, n \in Nat : p = <<d, n>> /\ n \in At(d)
      BY DEF ReportsIn, ReportsOf, IsReport, Places
    <2> QED
      BY <2>1
  <1> QED
    BY <1>2, <1>3

LEMMA InBatchIs ==
  ASSUME NEW buffer \in [Coordinator -> Seq(Reading)], NEW r
  PROVE  UNION {{<<i, n>> : n \in {k \in DOMAIN buffer[i] : buffer[i][k] = r}}
                  : i \in Coordinator}
           = BatchedIn(buffer, r)
  <1> DEFINE At(i) == {k \in DOMAIN buffer[i] : buffer[i][k] = r}
             places == UNION {{<<i, n>> : n \in At(i)} : i \in Coordinator}
  <1>1. \A i \in Coordinator : DOMAIN buffer[i] \subseteq Nat
    <2>1. \A i \in Coordinator : DOMAIN buffer[i] = 1 .. Len(buffer[i]) /\ Len(buffer[i]) \in Nat
      BY LenProperties
    <2> QED
      BY <2>1
  <1>2. ASSUME NEW p \in places PROVE p \in BatchedIn(buffer, r)
    <2>1. PICK i \in Coordinator : p \in {<<i, n>> : n \in At(i)}
      BY <1>2
    <2>2. PICK n \in At(i) : p = <<i, n>>
      BY <2>1
    <2> QED
      BY <1>1, <2>2 DEF BatchedIn, Places
  <1>3. ASSUME NEW p \in BatchedIn(buffer, r) PROVE p \in places
    <2>1. PICK i \in Coordinator, n \in Nat : p = <<i, n>> /\ n \in At(i)
      BY DEF BatchedIn, Places
    <2> QED
      BY <2>1
  <1> QED
    BY <1>2, <1>3

\* Taking a message takes its report away.
LEMMA TakenReports ==
  ASSUME TypeOK, NEW i \in NodeId, NEW type, Takes(i, type), NEW r
  PROVE  Grows(ReportsIn(Rest(i), r), ReportsIn(inbox, r),
               IF IsReport(Head(inbox[i]), r) THEN -1 ELSE 0)
  <1>1. /\ inbox \in [NodeId -> Seq(Message)] /\ inbox[i] # <<>> /\ Head(inbox[i]) \in Message
        /\ \A d \in NodeId : Rest(i)[d] = IF d = i THEN Tail(inbox[i]) ELSE inbox[d]
    BY InboxesType, TakesType DEF Inboxes, Takes, Rest
  <1>2. Head(inbox[i]) \in ReportsOf(r) <=> IsReport(Head(inbox[i]), r)
    BY <1>1 DEF ReportsOf
  <1>3. Grows(Places(NodeId, Rest(i), ReportsOf(r)), Places(NodeId, inbox, ReportsOf(r)),
              IF Head(inbox[i]) \in ReportsOf(r) THEN -1 ELSE 0)
    BY <1>1, PlacesTail
  <1> QED
    BY <1>2, <1>3 DEF ReportsIn

LEMMA SilentSent ==
  ASSUME NEW rest \in Inboxes, NEW i, NEW S \in SUBSET Message, Sends(rest, i, S),
         NEW r, \A m \in S : ~IsReport(m, r)
  PROVE  Grows(ReportsIn(inbox', r), ReportsIn(rest, r), 0)
  <1>1. PICK out \in [NodeId -> Seq(S)] : Send(rest, i, out)
    BY DEF Sends
  <1>2. out \in [NodeId -> Seq(Message)] /\ rest \in [NodeId -> Seq(Message)]
    <2>1. \A d \in NodeId : out[d] \in Seq(Message)
      BY SeqSubset
    <2> QED
      BY <2>1 DEF Inboxes
  <1>3. \A d \in NodeId : \A k \in DOMAIN out[d] : out[d][k] \notin ReportsOf(r)
    <2>1. \A d \in NodeId : \A k \in 1 .. Len(out[d]) : out[d][k] \in S
      BY ElementOfSeq
    <2>2. \A d \in NodeId : DOMAIN out[d] = 1 .. Len(out[d])
      BY LenProperties
    <2> QED
      BY <2>1, <2>2 DEF ReportsOf
  <1>4. \A d \in NodeId : inbox'[d] \in {rest[d], rest[d] \o out[d]}
    BY <1>1 DEF Send
  <1> QED
    BY <1>2, <1>3, <1>4, PlacesOthers DEF ReportsIn

LEMMA ReportSent ==
  ASSUME NEW rest \in Inboxes, NEW i, NEW d \in NodeId, NEW m \in Message,
         Send(rest, i, Only(d, m)), NEW r
  PROVE  Grows(ReportsIn(inbox', r), ReportsIn(rest, r), IF IsReport(m, r) THEN 1 ELSE 0)
  <1>1. \A n \in NodeId : Only(d, m)[n] = IF n = d THEN <<m>> ELSE <<>>
    BY DEF Only, Quiet
  <1>2. rest \in [NodeId -> Seq(Message)] /\ \A n \in NodeId : rest[n] \o <<>> = rest[n]
    BY ConcatEmptySeq DEF Inboxes
  <1>3. Gains(NodeId, inbox', rest, d, m)
    BY <1>1, <1>2 DEF Send, Gains
  <1>4. m \in ReportsOf(r) <=> IsReport(m, r)
    BY DEF ReportsOf
  <1>5. Grows(Places(NodeId, inbox', ReportsOf(r)), Places(NodeId, rest, ReportsOf(r)),
              IF m \in ReportsOf(r) THEN 1 ELSE 0)
    BY <1>2, <1>3, PlacesOne
  <1> QED
    BY <1>4, <1>5 DEF ReportsIn

LEMMA BatchEmptied ==
  ASSUME NEW buffer \in [Coordinator -> Seq(Reading)], NEW i \in Coordinator, NEW r
  PROVE  Grows(BatchedIn([buffer EXCEPT ![i] = <<>>], r), BatchedIn(buffer, r),
               IF r \in Readings(buffer[i]) THEN -1 ELSE 0)
  <1>1. (\E k \in DOMAIN buffer[i] : buffer[i][k] \in {r}) <=> r \in Readings(buffer[i])
    BY DEF Readings
  <1> QED
    BY <1>1, PlacesEmptied DEF BatchedIn

LEMMA BatchExtended ==
  ASSUME NEW buffer \in [Coordinator -> Seq(Reading)], NEW i \in Coordinator,
         NEW reading \in Reading, NEW r
  PROVE  Grows(BatchedIn([buffer EXCEPT ![i] = Append(buffer[i], reading)], r),
               BatchedIn(buffer, r), IF reading = r THEN 1 ELSE 0)
  <1> DEFINE longer == [buffer EXCEPT ![i] = Append(buffer[i], reading)]
  <1>1. Append(buffer[i], reading) = buffer[i] \o <<reading>>
    BY AppendIsConcat
  <1>2. Gains(Coordinator, longer, buffer, i, reading)
    BY <1>1 DEF Gains
  <1> HIDE DEF longer
  <1>3. Grows(Places(Coordinator, longer, {r}), Places(Coordinator, buffer, {r}),
              IF reading \in {r} THEN 1 ELSE 0)
    BY <1>2, PlacesOne
  <1> QED
    BY <1>3 DEF BatchedIn, longer

-----------------------------------------------------------------------------
(* Terms are positive *)

\* Who stands or leads is in a term after 0; so entries have such terms, and a
\* message with entries that follow an entry states its term.
WhoStandsIsInTerm ==
  \A i \in Coordinator : state[i] \in {Candidate, Leader} => current_term[i] > 0
EntriesHaveTerms ==
  \A i \in Coordinator : \A n \in DOMAIN log[i] : log[i][n].term > 0
RoundHasTerms(m) ==
  /\ \A n \in DOMAIN m.entries : m.entries[n].term > 0
  /\ m.prev_log_index = 0 \/ m.prev_log_term > 0 \/ m.entries = <<>>
RoundsHaveTerms ==
  \A d \in NodeId : \A m \in Content(inbox[d]) : m.type = "AppendEntriesRPC" => RoundHasTerms(m)
PositiveTerms == WhoStandsIsInTerm /\ EntriesHaveTerms /\ RoundsHaveTerms

\* Who stands or leads did so before, or in an earlier term.
StandsOn ==
  \A n \in Coordinator :
    /\ current_term'[n] >= current_term[n]
    /\ state'[n] \in {Candidate, Leader} =>
         state[n] \in {Candidate, Leader} \/ current_term'[n] > current_term[n]

LEMMA StandsOnSame ==
  ASSUME TypeOK, current_term' = current_term,
         \A n \in Coordinator : state'[n] \in {state[n], Follower, Observer}
  PROVE  StandsOn
  <1>1. \A n \in Coordinator : current_term[n] \in Int
    BY DEF TypeOK
  <1> QED
    BY <1>1 DEF StandsOn, Follower, Observer, Candidate, Leader

LEMMA StandsOnStep ==
  ASSUME TypeOK, NEW i \in Coordinator, NEW term \in Nat, term >= current_term[i], NEW s,
         current_term' = [current_term EXCEPT ![i] = term],
         state' = [state EXCEPT ![i] = s],
         s \in {Candidate, Leader} => state[i] \in {Candidate, Leader} \/ term > current_term[i]
  PROVE  StandsOn
  <1>1. /\ current_term \in [Coordinator -> Nat] /\ state \in [Coordinator -> NodeState]
    BY DEF TypeOK
  <1> QED
    BY <1>1 DEF StandsOn

LEMMA HandlersStandOn ==
  ASSUME TypeOK, NEW i \in Coordinator, Handle(i)
  PROVE  StandsOn
  <1> DEFINE m == Head(inbox[i])
  <1>1. /\ state \in [Coordinator -> NodeState]
        /\ current_term \in [Coordinator -> Nat]
    BY DEF TypeOK
  <1>2. ASSUME NEW term \in Nat
        PROVE  /\ TermAfter(i, term) \in Nat /\ TermAfter(i, term) >= current_term[i]
               /\ StateAfter(i, term) \in {state[i], Follower}
    BY <1>1, <1>2, StepDownType, StepDownFaithful DEF StateAfter
  <1>3. Follower \notin {Candidate, Leader}
    BY DEF Follower, Candidate, Leader
  <1>4. CASE HandleLeafRegister(i) \/ HandleSensorData(i)
    BY <1>4, StandsOnSame DEF HandleLeafRegister, HandleSensorData, electionVars
  <1>5. CASE ~(HandleLeafRegister(i) \/ HandleSensorData(i))
    <2>1. m.term \in Nat
      BY <1>5, InboxesType, NodesAreIds, TakesType, MessageFields
      DEF Handle, HandleRequestVote, HandleVoteResponse, HandleAppendEntries,
          HandleAppendResponse, HandleLivenessPing, HandleLeadershipHandoff
    <2>2. CASE /\ current_term' = [current_term EXCEPT ![i] = TermAfter(i, m.term)]
               /\ \E s \in {state[i], StateAfter(i, m.term), Follower} :
                    state' = [state EXCEPT ![i] = s]
      <3>1. PICK s \in {state[i], StateAfter(i, m.term), Follower} :
              state' = [state EXCEPT ![i] = s]
        BY <2>2
      <3>2. s \in {Candidate, Leader} => state[i] \in {Candidate, Leader}
        BY <1>2, <1>3, <2>1
      <3> QED
        BY <1>2, <2>1, <2>2, <3>1, <3>2, StandsOnStep
    <2>3. CASE HandleRequestVote(i) \/ HandleAppendResponse(i) \/ HandleLivenessPing(i)
      BY <2>2, <2>3 DEF HandleRequestVote, HandleAppendResponse, HandleLivenessPing, StepDown
    <2>4. CASE HandleVoteResponse(i)
      <3>1. CASE StepDown(i, m.term)
        BY <2>2, <3>1 DEF StepDown
      <3>2. CASE /\ state[i] = Candidate /\ state' = [state EXCEPT ![i] = Leader]
                 /\ current_term' = current_term
        <4>1. /\ current_term' = [current_term EXCEPT ![i] = current_term[i]]
              /\ current_term[i] \in Nat /\ current_term[i] >= current_term[i]
          BY <1>1, <3>2
        <4> QED
          BY <3>2, <4>1, StandsOnStep
      <3> QED
        BY <2>4, <3>1, <3>2 DEF HandleVoteResponse, BecomeLeader
    <2>5. CASE HandleAppendEntries(i)
      <3>1. state = [state EXCEPT ![i] = state[i]]
        BY <1>1
      <3>2. /\ current_term' = [current_term EXCEPT ![i] = TermAfter(i, m.term)]
            /\ \/ state' = state
               \/ state' = [state EXCEPT ![i] =
                    IF StateAfter(i, m.term) = Candidate THEN Follower ELSE StateAfter(i, m.term)]
        BY <2>5 DEF HandleAppendEntries
      <3> QED
        BY <2>2, <3>1, <3>2
    <2>6. CASE HandleLeadershipHandoff(i)
      <3>1. CASE UNCHANGED electionVars
        BY <3>1, StandsOnSame DEF electionVars
      <3>2. CASE StartElection(Rest(i), i, TermAfter(i, m.term))
        <4>1. /\ TermAfter(i, m.term) \in Nat /\ TermAfter(i, m.term) >= current_term[i]
              /\ current_term[i] \in Nat
          BY <1>1, <1>2, <2>1
        <4>2. /\ TermAfter(i, m.term) + 1 \in Nat
              /\ TermAfter(i, m.term) + 1 >= current_term[i]
              /\ TermAfter(i, m.term) + 1 > current_term[i]
          BY <4>1
        <4> QED
          BY <3>2, <4>2, StandsOnStep DEF StartElection
      <3> QED
        BY <2>6, <3>1, <3>2 DEF HandleLeadershipHandoff
    <2> QED
      BY <1>5, <2>3, <2>4, <2>5, <2>6 DEF Handle
  <1> QED
    BY <1>4, <1>5

LEMMA StepsStandOn ==
  ASSUME TypeOK, [Next]_vars
  PROVE  StandsOn
  <1>1. CASE \E i \in Coordinator : Handle(i)
    BY <1>1, HandlersStandOn
  <1>2. CASE \E i \in Coordinator : ElectionIdle(i)
    <2>1. PICK i \in Coordinator : StartElection(inbox, i, current_term[i])
      BY <1>2 DEF ElectionIdle
    <2>2. current_term[i] \in Nat
      BY DEF TypeOK
    <2>3. current_term[i] + 1 \in Nat /\ current_term[i] + 1 > current_term[i]
          /\ current_term[i] + 1 >= current_term[i]
      BY <2>2
    <2> QED
      BY <2>1, <2>3, StandsOnStep DEF StartElection
  <1>3. CASE \E i \in Coordinator : EchodIdle(i)
    <2>1. PICK i \in Coordinator : EchodIdle(i)
      BY <1>3
    <2>2. current_term' = current_term
      BY <2>1 DEF EchodIdle
    <2>3. state' = state \/ state' = [state EXCEPT ![i] = Follower]
      BY <2>1, EchodIdleCases
    <2>4. \A n \in Coordinator : state'[n] \in {state[n], Follower, Observer}
      BY <2>3 DEF TypeOK
    <2> QED
      BY <2>2, <2>4, StandsOnSame
  <1>4. CASE \E i \in Coordinator : RaftIdle(i) \/ EchoIdle(i) \/ Workload(i)
    BY <1>4, StandsOnSame DEF RaftIdle, EchoIdle, Workload, electionVars
  <1>5. CASE \E l \in LeafId : LeafStep(l)
    BY <1>5, StandsOnSame DEF LeafStep, LeafIdle, HandleLeafRegisterResponse, LeafTimeout,
       LeafReading, electionVars
  <1>6. CASE \/ \E i \in Coordinator : LateTick(i)
             \/ \E i \in Coordinator, level \in Levels : Drain(i, level)
    <2>1. current_term' = current_term
      BY <1>6 DEF LateTick, Drain
    <2>2. \A n \in Coordinator : state'[n] \in {state[n], Follower, Observer}
      BY <1>6 DEF LateTick, Drain, TypeOK
    <2> QED
      BY <2>1, <2>2, StandsOnSame
  <1>7. CASE \/ \E i \in Coordinator : InjectFailure(i) \/ RecoverNode(i)
             \/ \E groups \in Splits : InjectPartition(groups)
             \/ HealPartition
    BY <1>7, FaultsKeep, StandsOnSame DEF electionVars
  <1>8. CASE UNCHANGED vars
    BY <1>8, StandsOnSame DEF vars, electionVars
  <1> QED
    BY <1>1, <1>2, <1>3, <1>4, <1>5, <1>6, <1>7, <1>8 DEF Next, Idle, Environment

\* The entries of a suffix, of an extended and of a merged log.
LEMMA ExtendedEntries ==
  ASSUME TypeOK, NEW i \in Coordinator, NEW command \in SUBSET Reading,
         NEW n \in DOMAIN Extended(i, command)
  PROVE  \/ n \in DOMAIN log[i] /\ Extended(i, command)[n] = log[i][n]
         \/ /\ n = Len(log[i]) + 1
            /\ Extended(i, command)[n] = [term |-> current_term[i], command |-> command]
  <1> DEFINE entry == [term |-> current_term[i], command |-> command]
  <1>1. log[i] \in Seq(LogEntry) /\ entry \in LogEntry
    BY DEF TypeOK, LogEntry
  <1> HIDE DEF entry
  <1>2. /\ Len(log[i]) \in Nat /\ DOMAIN log[i] = 1 .. Len(log[i])
        /\ DOMAIN Append(log[i], entry) = 1 .. Len(log[i]) + 1
        /\ \A k \in 1 .. Len(log[i]) : Append(log[i], entry)[k] = log[i][k]
        /\ Append(log[i], entry)[Len(log[i]) + 1] = entry
    BY <1>1, AppendProperties, LenProperties
  <1>3. Extended(i, command) = Append(log[i], entry)
    BY DEF Extended, entry
  <1>4. n \in 1 .. Len(log[i]) \/ n = Len(log[i]) + 1
    BY <1>2, <1>3
  <1> QED
    BY <1>2, <1>3, <1>4 DEF entry

LEMMA MergedLogEntries ==
  ASSUME NEW lg \in Seq(LogEntry), NEW es \in Seq(LogEntry), NEW prev \in Nat,
         prev <= Len(lg) \/ es = <<>>,
         NEW n \in DOMAIN MergedLog(lg, prev, es)
  PROVE  \/ n \in DOMAIN lg /\ MergedLog(lg, prev, es)[n] = lg[n]
         \/ n - prev \in DOMAIN es /\ MergedLog(lg, prev, es)[n] = es[n - prev]
  <1>1. CASE ~(prev <= Len(lg))
    <2>1. lg \o <<>> = lg
      BY ConcatEmptySeq
    <2> QED
      BY <1>1, <2>1 DEF MergedLog
  <1>2. CASE prev <= Len(lg)
    <2>1. MergedLog(lg, prev, es) = Merged(lg, prev, es)
      BY <1>2 DEF MergedLog
    <2> QED
      BY <1>2, <2>1, MergedEntries
  <1> QED
    BY <1>1, <1>2

\* What HandleAppendEntries does to the logs: nothing, or it merges entries that
\* follow an entry the receiver has.
LEMMA HandleAppendEntriesMerges ==
  ASSUME TypeOK, PositiveTerms, NEW i \in Coordinator, HandleAppendEntries(i)
  PROVE  LET m == Head(inbox[i])
         IN  /\ m \in Content(inbox[i]) /\ m \in Message /\ m.type = "AppendEntriesRPC"
             /\ i \in NodeId /\ RoundHasTerms(m)
             /\ \/ log' = log
                \/ /\ log' = [log EXCEPT ![i] = MergedLog(log[i], m.prev_log_index, m.entries)]
                   /\ m.prev_log_index <= Len(log[i]) \/ m.entries = <<>>
  <1> DEFINE m == Head(inbox[i])
  <1>1. /\ m \in Content(inbox[i]) /\ m \in Message /\ m.type = "AppendEntriesRPC"
        /\ i \in NodeId
    BY InboxesType, NodesAreIds, TakesType DEF HandleAppendEntries
  <1>2. RoundHasTerms(m)
    BY <1>1 DEF PositiveTerms, RoundsHaveTerms
  <1>3. m.prev_log_index \in Nat /\ m.prev_log_term \in Nat
    BY <1>1, MessageFields
  <1>4. ASSUME Fits(i, m) PROVE m.prev_log_index <= Len(log[i]) \/ m.entries = <<>>
    <2>1. log[i] \in Seq(LogEntry)
      BY DEF TypeOK
    <2>2. Len(log[i]) \in Nat /\ DOMAIN log[i] = 1 .. Len(log[i])
      BY <2>1, LenProperties
    <2>3. CASE m.prev_log_index = 0
      BY <2>2, <2>3
    <2>4. CASE m.prev_log_index # 0 /\ m.prev_log_term > 0
      <3>1. TermAt(log[i], m.prev_log_index) > 0
        BY <1>3, <1>4, <2>4 DEF Fits
      <3>2. m.prev_log_index \in DOMAIN log[i]
        BY <3>1 DEF TermAt
      <3> QED
        BY <2>2, <3>2
    <2> QED
      BY <1>2, <2>3, <2>4 DEF RoundHasTerms
  <1>5. \/ log' = log
        \/ Fits(i, m) /\ log' = [log EXCEPT ![i] = MergedLog(log[i], m.prev_log_index, m.entries)]
    BY DEF HandleAppendEntries
  <1> QED
    BY <1>1, <1>2, <1>4, <1>5

\* The rounds of a log whose entries have terms.
LEMMA RoundsOfTerms ==
  ASSUME TypeOK, NEW i \in Coordinator, NEW lg \in Seq(LogEntry),
         \A n \in DOMAIN lg : lg[n].term > 0,
         NEW m \in RoundsOf(i, lg)
  PROVE  RoundHasTerms(m)
  <1>1. PICK next \in Nat \ {0} : m = AppendEntries(i, lg, next)
    BY DEF RoundsOf
  <1> DEFINE prev == next - 1
  <1>2. prev \in Nat
    OBVIOUS
  <1>3. /\ m.entries = Suffix(lg, prev) /\ m.prev_log_index = prev
        /\ m.prev_log_term = TermAt(lg, prev)
    BY <1>1 DEF AppendEntries
  <1> HIDE DEF prev
  <1>4. \A n \in DOMAIN m.entries : m.entries[n].term > 0
    BY <1>2, <1>3, SuffixEntries
  <1>5. prev = 0 \/ TermAt(lg, prev) > 0 \/ Suffix(lg, prev) = <<>>
    <2>1. CASE prev \in DOMAIN lg
      BY <2>1 DEF TermAt
    <2>2. CASE prev \notin DOMAIN lg
      BY <1>2, <2>2, SuffixEntries
    <2> QED
      BY <2>1, <2>2
  <1> QED
    BY <1>3, <1>4, <1>5 DEF RoundHasTerms

\* A leader proposes its log, extended or not.
LEMMA ProposedTerms ==
  ASSUME TypeOK, PositiveTerms, NEW i \in Coordinator, NEW lg, Proposes(i, lg),
         \A n \in DOMAIN lg : lg[n].term > 0
  PROVE  EntriesHaveTerms' /\ RoundsHaveTerms'
  <1>1. /\ lg \in Seq(LogEntry) /\ log' = [log EXCEPT ![i] = lg]
        /\ log \in [Coordinator -> Seq(LogEntry)]
    BY DEF Proposes, TypeOK
  <1>2. \A m \in RoundsOf(i, lg) : RoundHasTerms(m)
    BY <1>1, RoundsOfTerms
  <1>3. EntriesHaveTerms'
    <2> SUFFICES ASSUME NEW j \in Coordinator, NEW n \in DOMAIN log'[j]
                 PROVE  log'[j][n].term > 0
      BY DEF EntriesHaveTerms
    <2>1. log'[j] = IF j = i THEN lg ELSE log[j]
      BY <1>1
    <2> QED
      BY <2>1 DEF PositiveTerms, EntriesHaveTerms
  <1>4. RoundsHaveTerms'
    <2> SUFFICES ASSUME NEW d \in NodeId, NEW m \in Content(inbox'[d]),
                        m.type = "AppendEntriesRPC"
                 PROVE  RoundHasTerms(m)
      BY DEF RoundsHaveTerms, RoundHasTerms
    <2>1. m \in Content(inbox[d]) \/ m \in RoundsOf(i, lg)
      BY DEF Proposes
    <2> QED
      BY <1>2, <2>1 DEF PositiveTerms, RoundsHaveTerms
  <1> QED
    BY <1>3, <1>4

LEMMA ExtendedTerms ==
  ASSUME TypeOK, PositiveTerms, NEW i \in Coordinator, state[i] = Leader
  PROVE  /\ \A n \in DOMAIN log[i] : log[i][n].term > 0
         /\ \A command \in SUBSET Reading : \A n \in DOMAIN Extended(i, command) :
              Extended(i, command)[n].term > 0
  <1>1. \A n \in DOMAIN log[i] : log[i][n].term > 0
    BY DEF PositiveTerms, EntriesHaveTerms
  <1>2. current_term[i] > 0
    BY DEF PositiveTerms, WhoStandsIsInTerm
  <1>3. ASSUME NEW command \in SUBSET Reading, NEW n \in DOMAIN Extended(i, command)
        PROVE  Extended(i, command)[n].term > 0
    BY <1>1, <1>2, ExtendedEntries
  <1> QED
    BY <1>1, <1>3

LEMMA NextPositive == TypeOK /\ PositiveTerms /\ [Next]_vars => PositiveTerms'
  <1> SUFFICES ASSUME TypeOK, PositiveTerms, [Next]_vars PROVE PositiveTerms'
    OBVIOUS
  <1>1. WhoStandsIsInTerm'
    <2> SUFFICES ASSUME NEW i \in Coordinator, state'[i] \in {Candidate, Leader}
                 PROVE  current_term'[i] > 0
      BY DEF WhoStandsIsInTerm
    <2>1. TypeOK'
      BY NextType
    <2>2. current_term[i] \in Nat /\ current_term'[i] \in Nat
      BY <2>1 DEF TypeOK
    <2>3. current_term'[i] >= current_term[i]
          /\ (state[i] \in {Candidate, Leader} \/ current_term'[i] > current_term[i])
      BY StepsStandOn DEF StandsOn
    <2>4. state[i] \in {Candidate, Leader} => current_term[i] > 0
      BY DEF PositiveTerms, WhoStandsIsInTerm
    <2> QED
      BY <2>2, <2>3, <2>4
  <1>2. ASSUME NEW i \in Coordinator, NEW lg, Proposes(i, lg), state[i] = Leader,
               lg = log[i] \/ \E command \in SUBSET Reading : lg = Extended(i, command)
        PROVE  EntriesHaveTerms' /\ RoundsHaveTerms'
    BY <1>2, ExtendedTerms, ProposedTerms
  <1>3. CASE \E i \in Coordinator : RaftIdle(i)
    BY <1>1, <1>2, <1>3, RaftIdleProposes DEF PositiveTerms
  <1>4. CASE \E i \in Coordinator : EchodIdle(i)
    <2>1. PICK i \in Coordinator : EchodIdle(i)
      BY <1>4
    <2>2. /\ Proposes(i, log'[i]) /\ state[i] = Leader
          /\ log'[i] = log[i] \/ log'[i] = Extended(i, Readings(batch_buffer[i]))
      BY <2>1, EchodIdleProposes, EchodIdleCases
    <2>3. Readings(batch_buffer[i]) \in SUBSET Reading
      BY ReadingsType DEF TypeOK
    <2>4. EntriesHaveTerms' /\ RoundsHaveTerms'
      BY <1>2, <2>2, <2>3
    <2> QED
      BY <1>1, <2>4 DEF PositiveTerms
  <1>5. CASE \E i \in Coordinator : Workload(i)
    <2>1. PICK i \in Coordinator : Workload(i)
      BY <1>5
    <2>2. PICK r \in Reading : Proposes(i, Extended(i, {r})) /\ state[i] = Leader
      BY <2>1, WorkloadProposes
    <2>3. EntriesHaveTerms' /\ RoundsHaveTerms'
      BY <1>2, <2>2
    <2> QED
      BY <1>1, <2>3 DEF PositiveTerms
  <1>6. CASE Idles
    <2>1. EntriesHaveTerms'
      BY <1>6 DEF Idles, PositiveTerms, EntriesHaveTerms
    <2>2. RoundsHaveTerms'
      BY <1>6 DEF Idles, NoneNew, PositiveTerms, RoundsHaveTerms, RoundHasTerms
    <2> QED
      BY <1>1, <2>1, <2>2 DEF PositiveTerms
  <1>7. CASE \E i \in Coordinator : HandleSensorData(i)
    <2>1. PICK i \in Coordinator : HandleSensorData(i)
      BY <1>7
    <2>2. CASE state[i] = Leader /\ \E command \in SUBSET Reading :
                 Proposes(i, Extended(i, command))
      <3>1. EntriesHaveTerms' /\ RoundsHaveTerms'
        BY <1>2, <2>2
      <3> QED
        BY <1>1, <3>1 DEF PositiveTerms
    <2> QED
      BY <1>6, <2>1, <2>2, HandleSensorDataProposes
  <1>8. CASE \E i \in Coordinator : HandleAppendEntries(i)
    <2>1. PICK i \in Coordinator : HandleAppendEntries(i)
      BY <1>8
    <2> DEFINE m == Head(inbox[i])
    <2>2. /\ m \in Message /\ m.type = "AppendEntriesRPC" /\ RoundHasTerms(m)
          /\ \/ log' = log
             \/ /\ log' = [log EXCEPT ![i] = MergedLog(log[i], m.prev_log_index, m.entries)]
                /\ m.prev_log_index <= Len(log[i]) \/ m.entries = <<>>
      BY <2>1, HandleAppendEntriesMerges
    <2>3. m.prev_log_index \in Nat /\ m.entries \in Seq(LogEntry)
      BY <2>2, MessageFields
    <2>4. log \in [Coordinator -> Seq(LogEntry)]
      BY DEF TypeOK
    <2> HIDE DEF m
    <2>5. NoneNew("AppendEntriesRPC")
      BY <2>1, HandleAppendEntriesRounds
    <2>6. RoundsHaveTerms'
      BY <2>5 DEF NoneNew, PositiveTerms, RoundsHaveTerms, RoundHasTerms
    <2>7. EntriesHaveTerms'
      <3>1. CASE log' = log
        BY <3>1 DEF PositiveTerms, EntriesHaveTerms
      <3>2. CASE log' # log
        <4> SUFFICES ASSUME NEW j \in Coordinator, NEW n \in DOMAIN log'[j]
                     PROVE  log'[j][n].term > 0
          BY DEF EntriesHaveTerms
        <4>1. CASE j # i
          BY <2>2, <2>4, <4>1 DEF PositiveTerms, EntriesHaveTerms
        <4>2. CASE j = i
          <5>1. log'[i] = MergedLog(log[i], m.prev_log_index, m.entries)
            BY <2>2, <2>4, <3>2
          <5>2. \/ n \in DOMAIN log[i] /\ log'[i][n] = log[i][n]
                \/ /\ n - m.prev_log_index \in DOMAIN m.entries
                   /\ log'[i][n] = m.entries[n - m.prev_log_index]
            BY <2>2, <2>3, <2>4, <3>2, <4>2, <5>1, MergedLogEntries
          <5> QED
            BY <2>2, <4>2, <5>2 DEF PositiveTerms, EntriesHaveTerms, RoundHasTerms
        <4> QED
          BY <4>1, <4>2
      <3> QED
        BY <3>1, <3>2
    <2> QED
      BY <1>1, <2>6, <2>7 DEF PositiveTerms
  <1> QED
    BY <1>3, <1>4, <1>5, <1>6, <1>7, <1>8, OthersIdle

LEMMA InitPositive == Init => PositiveTerms
  <1> SUFFICES ASSUME Init PROVE PositiveTerms
    OBVIOUS
  <1>1. WhoStandsIsInTerm
    BY DEF Init, WhoStandsIsInTerm, Follower, Candidate, Leader
  <1>2. \A i \in Coordinator : log[i] = <<>>
    BY DEF Init
  <1>3. \A d \in NodeId : inbox[d] = <<>>
    BY DEF Init, Quiet
  <1>4. DOMAIN <<>> = {}
    BY EmptySeq
  <1> QED
    BY <1>1, <1>2, <1>3, <1>4 DEF PositiveTerms, EntriesHaveTerms, RoundsHaveTerms, Content

LEMMA TermsArePositive == Spec => []PositiveTerms
  <1> QED
    BY InitPositive, NextPositive, SimTypeCorrect, PTL DEF Spec

-----------------------------------------------------------------------------
(* Reports are not multiplied *)

\* The entry at p[1] of term p[2] is in the log lg, or in the entries lg that are
\* sent after the first prev, and carries r.
Holds(lg, prev, p, r) ==
  /\ p[1] - prev \in DOMAIN lg /\ lg[p[1] - prev].term = p[2]
  /\ r \in lg[p[1] - prev].command

\* The places in the replicated log that carry r: in some log, or in a round that
\* is under way and has not been merged.
Offered(r, p) ==
  \E d \in NodeId : \E m \in Content(inbox[d]) :
    m.type = "AppendEntriesRPC" /\ Holds(m.entries, m.prev_log_index, p, r)
Proposed(r) ==
  {p \in Nat \X Nat : (\E i \in Coordinator : Holds(log[i], 0, p, r)) \/ Offered(r, p)}

\* The places of a reading, wherever it is, are no more than the reports.
ReportsInv ==
  \A r \in Reading :
    /\ IsFiniteSet(UnderWay(r)) /\ IsFiniteSet(InBatch(r)) /\ IsFiniteSet(Proposed(r))
    /\ Cardinality(UnderWay(r)) + Cardinality(InBatch(r)) + Cardinality(Proposed(r))
         <= count.reports

\* What a step may do to the places of r.
Moves(r, u, b, p) ==
  /\ Grows(UnderWay(r)', UnderWay(r), u)
  /\ Grows(InBatch(r)', InBatch(r), b)
  /\ Grows(Proposed(r)', Proposed(r), p)

LEMMA MovesKeep ==
  ASSUME TypeOK, TypeOK', ReportsInv,
         \A r \in Reading : \E u, b, p \in Int :
           Moves(r, u, b, p) /\ u + b + p <= count'.reports - count.reports
  PROVE  ReportsInv'
  <1> SUFFICES ASSUME NEW r \in Reading
               PROVE  /\ IsFiniteSet(UnderWay(r)') /\ IsFiniteSet(InBatch(r)')
                      /\ IsFiniteSet(Proposed(r)')
                      /\ Cardinality(UnderWay(r)') + Cardinality(InBatch(r)')
                           + Cardinality(Proposed(r)') <= count'.reports
    BY DEF ReportsInv
  <1>1. PICK u \in Int, b \in Int, p \in Int :
          Moves(r, u, b, p) /\ u + b + p <= count'.reports - count.reports
    OBVIOUS
  <1> DEFINE U == UnderWay(r)
             B == InBatch(r)
             P == Proposed(r)
             V == UnderWay(r)'
             C == InBatch(r)'
             Q == Proposed(r)'
  <1>2. /\ IsFiniteSet(U) /\ IsFiniteSet(B) /\ IsFiniteSet(P)
        /\ Cardinality(U) + Cardinality(B) + Cardinality(P) <= count.reports
    BY DEF ReportsInv
  <1>3. Grows(V, U, u) /\ Grows(C, B, b) /\ Grows(Q, P, p)
    BY <1>1 DEF Moves
  <1>4. count.reports \in Nat /\ count'.reports \in Nat
    BY DEF TypeOK
  <1> HIDE DEF U, B, P, V, C, Q
  <1>5. /\ IsFiniteSet(V) /\ Cardinality(V) <= Cardinality(U) + u
        /\ IsFiniteSet(C) /\ Cardinality(C) <= Cardinality(B) + b
        /\ IsFiniteSet(Q) /\ Cardinality(Q) <= Cardinality(P) + p
    BY <1>2, <1>3 DEF Grows
  <1>6. /\ Cardinality(U) \in Nat /\ Cardinality(B) \in Nat /\ Cardinality(P) \in Nat
        /\ Cardinality(V) \in Nat /\ Cardinality(C) \in Nat /\ Cardinality(Q) \in Nat
    BY <1>2, <1>5, FS_CardinalityType
  <1>7. Cardinality(V) + Cardinality(C) + Cardinality(Q) <= count'.reports
    BY <1>1, <1>2, <1>4, <1>5, <1>6
  <1> QED
    BY <1>5, <1>7 DEF V, C, Q

LEMMA PlacesIn ==
  ASSUME TypeOK, TypeOK', NEW r
  PROVE  /\ UnderWay(r) = ReportsIn(inbox, r) /\ UnderWay(r)' = ReportsIn(inbox', r)
         /\ InBatch(r) = BatchedIn(batch_buffer, r)
         /\ InBatch(r)' = BatchedIn(batch_buffer', r)
  <1>1. /\ inbox \in Inboxes /\ inbox' \in Inboxes
        /\ batch_buffer \in [Coordinator -> Seq(Reading)]
        /\ batch_buffer' \in [Coordinator -> Seq(Reading)]
    BY DEF TypeOK, Inboxes
  <1>2. UnderWay(r) = ReportsIn(inbox, r)
    BY <1>1, UnderWayIs DEF UnderWay
  <1>3. UnderWay(r)' = ReportsIn(inbox', r)
    BY <1>1, UnderWayIs DEF UnderWay
  <1>4. InBatch(r) = BatchedIn(batch_buffer, r)
    BY <1>1, InBatchIs DEF InBatch
  <1>5. InBatch(r)' = BatchedIn(batch_buffer', r)
    BY <1>1, InBatchIs DEF InBatch
  <1> QED
    BY <1>2, <1>3, <1>4, <1>5

\* A round offers nothing that is not in the log it is made from.
LEMMA RoundsHold ==
  ASSUME TypeOK, NEW i \in Coordinator, NEW lg \in Seq(LogEntry), NEW m \in RoundsOf(i, lg),
         NEW p \in Nat \X Nat, NEW r, Holds(m.entries, m.prev_log_index, p, r)
  PROVE  Holds(lg, 0, p, r)
  <1>1. PICK next \in Nat \ {0} : m = AppendEntries(i, lg, next)
    BY DEF RoundsOf
  <1> DEFINE prev == next - 1
             k == p[1] - prev
  <1>2. prev \in Nat /\ p[1] \in Nat
    OBVIOUS
  <1>3. m.entries = Suffix(lg, prev) /\ m.prev_log_index = prev
    BY <1>1 DEF AppendEntries
  <1>4. k \in DOMAIN Suffix(lg, prev) /\ Suffix(lg, prev)[k].term = p[2]
        /\ r \in Suffix(lg, prev)[k].command
    BY <1>3 DEF Holds
  <1>5. k + prev \in DOMAIN lg /\ Suffix(lg, prev)[k] = lg[k + prev]
    BY <1>2, <1>4, SuffixEntries
  <1>6. k + prev = p[1] /\ p[1] - 0 = p[1]
    BY <1>2
  <1> QED
    BY <1>4, <1>5, <1>6 DEF Holds

LEMMA ProposedOnly ==
  ASSUME TypeOK, NEW i \in Coordinator, NEW lg, Proposes(i, lg), NEW r,
         NEW p \in Proposed(r)'
  PROVE  p \in Nat \X Nat /\ (p \in Proposed(r) \/ Holds(lg, 0, p, r))
  <1>1. /\ p \in Nat \X Nat
        /\ (\E j \in Coordinator : Holds(log'[j], 0, p, r)) \/ Offered(r, p)'
    BY DEF Proposed, Holds
  <1>2. CASE \E j \in Coordinator : Holds(log'[j], 0, p, r)
    <2>1. PICK j \in Coordinator : Holds(log'[j], 0, p, r)
      BY <1>2
    <2>2. log'[j] = IF j = i THEN lg ELSE log[j]
      BY DEF Proposes, TypeOK
    <2>3. Holds(log[j], 0, p, r) => p \in Proposed(r)
      BY <1>1 DEF Proposed
    <2> QED
      BY <1>1, <2>1, <2>2, <2>3
  <1>3. CASE Offered(r, p)'
    <2>0. PICK d \in NodeId :
            \E m \in Content(inbox'[d]) :
              m.type = "AppendEntriesRPC" /\ Holds(m.entries, m.prev_log_index, p, r)
      BY <1>3 DEF Offered, Holds, Content
    <2>1. PICK m \in Content(inbox'[d]) :
            m.type = "AppendEntriesRPC" /\ Holds(m.entries, m.prev_log_index, p, r)
      BY <2>0
    <2>2. m \in Content(inbox[d]) \/ m \in RoundsOf(i, lg)
      BY <2>1 DEF Proposes
    <2>3. CASE m \in Content(inbox[d])
      BY <1>1, <2>1, <2>3 DEF Offered, Proposed
    <2>4. CASE m \in RoundsOf(i, lg)
      <3>1. lg \in Seq(LogEntry)
        BY DEF Proposes
      <3> QED
        BY <1>1, <2>1, <2>4, <3>1, RoundsHold
    <2> QED
      BY <2>2, <2>3, <2>4
  <1> QED
    BY <1>1, <1>2, <1>3

\* Proposing the log as it is offers nothing new, extending it one place for each
\* reading of the command.
LEMMA ProposedSame ==
  ASSUME TypeOK, NEW i \in Coordinator, Proposes(i, log[i]), NEW r
  PROVE  Grows(Proposed(r)', Proposed(r), 0)
  <1>1. ASSUME NEW p \in Proposed(r)' PROVE p \in Proposed(r)
    <2>1. p \in Nat \X Nat /\ (p \in Proposed(r) \/ Holds(log[i], 0, p, r))
      BY ProposedOnly
    <2> QED
      BY <2>1 DEF Proposed
  <1> QED
    BY <1>1, GrowsSubset

LEMMA ProposedMore ==
  ASSUME TypeOK, NEW i \in Coordinator, NEW command \in SUBSET Reading,
         Proposes(i, Extended(i, command)), NEW r
  PROVE  Grows(Proposed(r)', Proposed(r), IF r \in command THEN 1 ELSE 0)
  <1> DEFINE place == <<Len(log[i]) + 1, current_term[i]>>
             lg == Extended(i, command)
  <1>1. ASSUME NEW p \in Proposed(r)'
        PROVE  p \in Proposed(r) \/ (p = place /\ r \in command)
    <2>1. p \in Nat \X Nat /\ (p \in Proposed(r) \/ Holds(lg, 0, p, r))
      BY ProposedOnly
    <2>2. CASE Holds(lg, 0, p, r)
      <3>1. p = <<p[1], p[2]>> /\ p[1] \in Nat /\ p[1] - 0 = p[1]
        BY <2>1
      <3>2. p[1] \in DOMAIN lg /\ lg[p[1]].term = p[2] /\ r \in lg[p[1]].command
        BY <2>2, <3>1 DEF Holds
      <3>3. CASE p[1] \in DOMAIN log[i] /\ lg[p[1]] = log[i][p[1]]
        <4>1. Holds(log[i], 0, p, r)
          BY <3>1, <3>2, <3>3 DEF Holds
        <4> QED
          BY <2>1, <4>1 DEF Proposed
      <3>4. CASE /\ p[1] = Len(log[i]) + 1
                 /\ lg[p[1]] = [term |-> current_term[i], command |-> command]
        <4>1. p[2] = current_term[i] /\ r \in command
          BY <3>2, <3>4
        <4> QED
          BY <3>1, <3>4, <4>1
      <3> HIDE DEF lg
      <3> QED
        BY <3>2, <3>3, <3>4, ExtendedEntries DEF lg
    <2> QED
      BY <2>1, <2>2
  <1> HIDE DEF place
  <1>2. CASE r \in command
    <2>1. Proposed(r)' \subseteq Proposed(r) \cup {place}
      BY <1>1
    <2>2. Grows(Proposed(r)', Proposed(r), 1)
      BY <2>1, GrowsAdd
    <2> QED
      BY <1>2, <2>2
  <1>3. CASE r \notin command
    <2>1. Proposed(r)' \subseteq Proposed(r)
      BY <1>1, <1>3
    <2>2. Grows(Proposed(r)', Proposed(r), 0)
      BY <2>1, GrowsSubset
    <2> QED
      BY <1>3, <2>2
  <1> QED
    BY <1>2, <1>3

LEMMA ProposedIdle ==
  ASSUME Idles, NEW r
  PROVE  Grows(Proposed(r)', Proposed(r), 0)
  <1>1. ASSUME NEW p \in Proposed(r)' PROVE p \in Proposed(r)
    <2>1. /\ p \in Nat \X Nat
          /\ (\E j \in Coordinator : Holds(log'[j], 0, p, r)) \/ Offered(r, p)'
      BY DEF Proposed, Holds
    <2>2. log' = log
      BY DEF Idles
    <2>3. Offered(r, p)' => Offered(r, p)
      BY DEF Idles, NoneNew, Offered, Holds, Content
    <2> QED
      BY <2>1, <2>2, <2>3 DEF Proposed
  <1> QED
    BY <1>1, GrowsSubset

\* A merge takes over what the round offered, at the same places.
LEMMA ProposedMerged ==
  ASSUME TypeOK, PositiveTerms, NEW i \in Coordinator, HandleAppendEntries(i), NEW r
  PROVE  Grows(Proposed(r)', Proposed(r), 0)
  <1> DEFINE m == Head(inbox[i])
  <1>1. /\ m \in Content(inbox[i]) /\ m \in Message /\ m.type = "AppendEntriesRPC"
        /\ i \in NodeId
        /\ \/ log' = log
           \/ /\ log' = [log EXCEPT ![i] = MergedLog(log[i], m.prev_log_index, m.entries)]
              /\ m.prev_log_index <= Len(log[i]) \/ m.entries = <<>>
    BY HandleAppendEntriesMerges
  <1>2. m.prev_log_index \in Nat /\ m.entries \in Seq(LogEntry)
    BY <1>1, MessageFields
  <1>3. log \in [Coordinator -> Seq(LogEntry)] /\ NoneNew("AppendEntriesRPC")
    BY HandleAppendEntriesRounds DEF TypeOK
  <1> HIDE DEF m
  <1>4. CASE log' = log
    BY <1>3, <1>4, ProposedIdle DEF Idles
  <1>5. CASE log' # log
    <2>1. ASSUME NEW p \in Proposed(r)' PROVE p \in Proposed(r)
      <3>1. /\ p \in Nat \X Nat /\ p[1] \in Nat /\ p[1] - 0 = p[1]
            /\ (\E j \in Coordinator : Holds(log'[j], 0, p, r)) \/ Offered(r, p)'
        BY DEF Proposed, Holds
      <3>2. CASE Offered(r, p)'
        <4>1. Offered(r, p)
          BY <1>3, <3>2 DEF NoneNew, Offered, Holds, Content
        <4> QED
          BY <3>1, <4>1 DEF Proposed
      <3>3. CASE \E j \in Coordinator : Holds(log'[j], 0, p, r)
        <4>1. PICK j \in Coordinator : Holds(log'[j], 0, p, r)
          BY <3>3
        <4>2. CASE j # i
          <5>1. log'[j] = log[j]
            BY <1>1, <1>3, <1>5, <4>2
          <5> QED
            BY <3>1, <4>1, <5>1 DEF Proposed
        <4>3. CASE j = i
          <5>1. /\ log'[i] = MergedLog(log[i], m.prev_log_index, m.entries)
                /\ m.prev_log_index <= Len(log[i]) \/ m.entries = <<>>
            BY <1>1, <1>3, <1>5
          <5>2. p[1] \in DOMAIN log'[i] /\ log'[i][p[1]].term = p[2]
                /\ r \in log'[i][p[1]].command
            BY <3>1, <4>1, <4>3 DEF Holds
          <5>3. \/ p[1] \in DOMAIN log[i] /\ log'[i][p[1]] = log[i][p[1]]
                \/ /\ p[1] - m.prev_log_index \in DOMAIN m.entries
                   /\ log'[i][p[1]] = m.entries[p[1] - m.prev_log_index]
            BY <1>2, <1>3, <5>1, <5>2, MergedLogEntries
          <5>4. Holds(log[i], 0, p, r) \/ Holds(m.entries, m.prev_log_index, p, r)
            BY <3>1, <5>2, <5>3 DEF Holds
          <5> QED
            BY <1>1, <3>1, <5>4 DEF Proposed, Offered
        <4> QED
          BY <4>1, <4>2, <4>3
      <3> QED
        BY <3>1, <3>2, <3>3
    <2> QED
      BY <2>1, GrowsSubset
  <1> QED
    BY <1>4, <1>5

\* What a report that is handled was counts for no longer, and nothing else was one.
LEMMA SilentTaken ==
  ASSUME TypeOK, NEW i \in NodeId, NEW type, Takes(i, type), NEW S \in SUBSET Message,
         Sends(Rest(i), i, S), NEW r, \A m \in S : ~IsReport(m, r)
  PROVE  Grows(ReportsIn(inbox', r), ReportsIn(inbox, r),
               IF IsReport(Head(inbox[i]), r) THEN -1 ELSE 0)
  <1> DEFINE k == IF IsReport(Head(inbox[i]), r) THEN -1 ELSE 0
  <1>1. Rest(i) \in Inboxes
    BY InboxesType, TakesType
  <1>2. Grows(ReportsIn(inbox', r), ReportsIn(Rest(i), r), 0)
    BY <1>1, SilentSent
  <1>3. Grows(ReportsIn(Rest(i), r), ReportsIn(inbox, r), k)
    BY TakenReports
  <1>4. k \in Int /\ 0 + k = k
    OBVIOUS
  <1> HIDE DEF k
  <1>5. Grows(ReportsIn(inbox', r), ReportsIn(inbox, r), 0 + k)
    BY <1>2, <1>3, <1>4, GrowsThen
  <1> QED
    BY <1>4, <1>5 DEF k

LEMMA NoReportSent ==
  ASSUME TypeOK, NEW i \in NodeId, NEW types, NEW S, S \subseteq OfType(types),
         "SensorDataReport" \notin types,
         \/ Sends(inbox, i, S)
         \/ Sends(Rest(i), i, S) /\ \E t : Takes(i, t),
         NEW r
  PROVE  Grows(ReportsIn(inbox', r), ReportsIn(inbox, r), 0)
  <1>1. S \in SUBSET Message /\ \A m \in S : ~IsReport(m, r)
    BY DEF OfType, IsReport
  <1>2. CASE Sends(inbox, i, S)
    BY <1>1, <1>2, InboxesType, SilentSent
  <1>3. CASE Sends(Rest(i), i, S) /\ \E t : Takes(i, t)
    <2>1. PICK t : Takes(i, t)
      BY <1>3
    <2>2. \/ Grows(ReportsIn(inbox', r), ReportsIn(inbox, r), -1)
          \/ Grows(ReportsIn(inbox', r), ReportsIn(inbox, r), 0)
      BY <1>1, <1>3, <2>1, SilentTaken
    <2> QED
      BY <2>2, GrowsNot
  <1> QED
    BY <1>2, <1>3

\* Only leaves report, and only coordinators that do not lead relay.
LEMMA OthersQuiet ==
  ASSUME TypeOK, [Next]_vars, ~ \E i \in Coordinator : HandleSensorData(i),
         ~ \E l \in LeafId : \E value \in Value : LeafReading(l, value), NEW r
  PROVE  Grows(ReportsIn(inbox', r), ReportsIn(inbox, r), 0)
  <1>1. ASSUME NEW i \in NodeId, NEW S, NEW types, S \subseteq OfType(types),
               "SensorDataReport" \notin types,
               \/ Sends(inbox, i, S)
               \/ Sends(Rest(i), i, S) /\ \E t : Takes(i, t)
        PROVE  Grows(ReportsIn(inbox', r), ReportsIn(inbox, r), 0)
    BY <1>1, NoReportSent
  <1>2. CASE inbox' = inbox
    BY <1>2, GrowsSubset
  <1>3. ASSUME NEW i \in Coordinator, NEW lg \in Seq(LogEntry)
        PROVE  /\ RoundsOf(i, lg) \subseteq OfType({"AppendEntriesRPC"})
               /\ EchodSends(i, lg)
                    \subseteq OfType({"AppendEntriesRPC", "LivenessPing", "LeadershipHandoff"})
    BY RoundsType DEF EchodSends, OfType
  <1>4. \A i \in Coordinator : log[i] \in Seq(LogEntry)
    BY DEF TypeOK
  <1>5. CASE \E i \in Coordinator : Idle(i) \/ Workload(i)
    <2>1. PICK i \in Coordinator : Idle(i) \/ Workload(i)
      BY <1>5
    <2>2. CASE ElectionIdle(i) \/ EchoIdle(i)
      <3>1. Sends(inbox, i, OfType({"RequestVoteRPC"})) \/ Sends(inbox, i, OfType({"LivenessPing"}))
        BY <2>2, ElectionIdleType, EchoIdleType
      <3> QED
        BY <1>1, <3>1, NodesAreIds
    <2>3. CASE RaftIdle(i)
      <3>1. Sends(inbox, i, RoundsOf(i, log[i]))
        BY <2>3, RaftIdleType
      <3> QED
        BY <1>1, <1>3, <1>4, <3>1, NodesAreIds
    <2>4. CASE EchodIdle(i)
      <3>1. Sends(inbox, i, EchodSends(i, log'[i])) /\ log'[i] \in Seq(LogEntry)
        BY <2>4, EchodIdleType DEF TypeOK
      <3>2. EchodSends(i, log'[i])
              \subseteq OfType({"AppendEntriesRPC", "LivenessPing", "LeadershipHandoff"})
        BY <1>3, <3>1
      <3> QED
        BY <1>1, <3>1, <3>2, NodesAreIds
    <2>5. CASE Workload(i)
      <3>1. Sends(inbox, i, RoundsOf(i, log'[i])) /\ log'[i] \in Seq(LogEntry)
        BY <2>5, WorkloadType DEF TypeOK
      <3> QED
        BY <1>1, <1>3, <3>1, NodesAreIds
    <2> QED
      BY <2>1, <2>2, <2>3, <2>4, <2>5 DEF Idle
  <1>6. CASE \E i \in Coordinator : Handle(i)
    <2>1. PICK i \in Coordinator :
               \/ HandleRequestVote(i) \/ HandleVoteResponse(i) \/ HandleAppendResponse(i)
               \/ HandleLivenessPing(i) \/ HandleLeadershipHandoff(i) \/ HandleLeafRegister(i)
               \/ HandleAppendEntries(i)
      BY <1>6 DEF Handle
    <2>2. \E t : Takes(i, t)
      BY <2>1 DEF HandleRequestVote, HandleVoteResponse, HandleAppendResponse,
         HandleLivenessPing, HandleLeadershipHandoff, HandleLeafRegister, HandleAppendEntries
    <2>3. CASE HandleRequestVote(i)
      <3> DEFINE S == {[type |-> "RequestVoteResponse", from |-> i,
                        term |-> TermAfter(i, Head(inbox[i]).term),
                        vote_granted |-> Grants(i, Head(inbox[i]))]}
      <3>1. Head(inbox[i]).term \in Nat
        BY <2>3, NodesAreIds, InboxesType, TakesType, MessageFields DEF HandleRequestVote
      <3>2. TermAfter(i, Head(inbox[i]).term) \in Nat /\ Grants(i, Head(inbox[i])) \in BOOLEAN
        BY <3>1, StepDownType DEF Grants
      <3>3. S \subseteq OfType({"RequestVoteResponse"})
        BY <3>2 DEF OfType, Message
      <3>4. Sends(Rest(i), i, S)
        BY <2>3, HandleRequestVoteType
      <3> HIDE DEF S
      <3>5. "SensorDataReport" \notin {"RequestVoteResponse"} /\ i \in NodeId
        BY NodesAreIds
      <3> QED
        BY <1>1, <2>2, <3>3, <3>4, <3>5
    <2>4. CASE HandleLeafRegister(i)
      <3> DEFINE S == {[type |-> "LeafRegisterResponse", from |-> i]}
      <3>1. S \subseteq OfType({"LeafRegisterResponse"})
        BY DEF OfType, Message
      <3>2. Sends(Rest(i), i, S)
        BY <2>4, HandleLeafRegisterType
      <3> HIDE DEF S
      <3>3. "SensorDataReport" \notin {"LeafRegisterResponse"} /\ i \in NodeId
        BY NodesAreIds
      <3> QED
        BY <1>1, <2>2, <3>1, <3>2, <3>3
    <2>5. CASE \/ HandleVoteResponse(i) \/ HandleAppendResponse(i) \/ HandleLivenessPing(i)
               \/ HandleLeadershipHandoff(i) \/ HandleAppendEntries(i)
      <3>1. \/ Sends(Rest(i), i, {}) \/ Sends(Rest(i), i, OfType({"LivenessPing"}))
            \/ Sends(Rest(i), i, OfType({"RequestVoteRPC"}))
            \/ Sends(Rest(i), i, OfType({"AppendEntriesResponse"}))
        BY <2>5, HandleVoteResponseType, HandleAppendResponseType, HandleLivenessPingType,
           HandleLeadershipHandoffType, HandleAppendEntriesType
      <3>2. Sends(Rest(i), i, {}) => Sends(Rest(i), i, OfType({"LivenessPing"}))
        BY SendsMore
      <3> QED
        BY <1>1, <2>2, <3>1, <3>2, NodesAreIds
    <2> QED
      BY <2>1, <2>3, <2>4, <2>5
  <1>7. CASE \E l \in LeafId : LeafStep(l)
    <2>1. PICK l \in LeafId :
            (\E c \in Coordinator : LeafIdle(l, c)) \/ HandleLeafRegisterResponse(l)
            \/ LeafTimeout(l)
      BY <1>7 DEF LeafStep
    <2>2. CASE LeafTimeout(l)
      BY <1>2, <2>2 DEF LeafTimeout
    <2>3. CASE \E c \in Coordinator : LeafIdle(l, c)
      <3>1. Sends(inbox, l, OfType({"LeafRegisterRequest"}))
        BY <2>3, LeafIdleType
      <3> QED
        BY <1>1, <3>1, NodesAreIds
    <2>4. CASE HandleLeafRegisterResponse(l)
      <3>1. Sends(Rest(l), l, {}) /\ \E t : Takes(l, t)
        BY <2>4, HandleLeafRegisterResponseType DEF HandleLeafRegisterResponse
      <3>2. {} \subseteq OfType({"LivenessPing"})
        OBVIOUS
      <3>3. Sends(Rest(l), l, OfType({"LivenessPing"})) /\ \E t : Takes(l, t)
        BY <3>1, <3>2, SendsMore
      <3> QED
        <4>1. l \in NodeId /\ "SensorDataReport" \notin {"LivenessPing"}
          BY NodesAreIds
        <4> QED
          BY <3>3, <4>1, NoReportSent
    <2> QED
      BY <2>1, <2>2, <2>3, <2>4
  <1>8. CASE Environment /\ ~ \E i \in Coordinator : Workload(i)
    BY <1>2, <1>8, FaultsKeep DEF Environment, Drain, LateTick
  <1>9. CASE UNCHANGED vars
    BY <1>2, <1>9 DEF vars
  <1> QED
    BY <1>5, <1>6, <1>7, <1>8, <1>9 DEF Next

LEMMA AppendReadings ==
  ASSUME NEW buffer \in Seq(Reading), NEW reading \in Reading,
         NEW r \in Readings(Append(buffer, reading))
  PROVE  r \in Readings(buffer) \/ reading = r
  <1>1. /\ Len(buffer) \in Nat /\ DOMAIN buffer = 1 .. Len(buffer)
        /\ DOMAIN Append(buffer, reading) = 1 .. Len(buffer) + 1
        /\ \A k \in 1 .. Len(buffer) : Append(buffer, reading)[k] = buffer[k]
        /\ Append(buffer, reading)[Len(buffer) + 1] = reading
    BY AppendProperties, LenProperties
  <1>2. PICK k \in 1 .. Len(buffer) + 1 : r = Append(buffer, reading)[k]
    BY <1>1 DEF Readings
  <1>3. CASE k \in 1 .. Len(buffer)
    BY <1>1, <1>2, <1>3 DEF Readings
  <1>4. CASE k = Len(buffer) + 1
    BY <1>1, <1>2, <1>4
  <1> QED
    BY <1>1, <1>2, <1>3, <1>4

\* What handling a report does: it is relayed, dropped, batched or proposed.
LEMMA SensorDataMoves ==
  ASSUME TypeOK, TypeOK', NEW i \in Coordinator, HandleSensorData(i), NEW r
  PROVE  \E u, b, p \in Int : Moves(r, u, b, p) /\ u + b + p <= 0
  <1> DEFINE reading == Head(inbox[i]).reading
             relayed == [type |-> "SensorDataReport", from |-> i, reading |-> reading]
             one == IF reading = r THEN 1 ELSE 0
             k == IF IsReport(Head(inbox[i]), r) THEN -1 ELSE 0
             U == ReportsIn(inbox, r)
             V == ReportsIn(inbox', r)
             B == BatchedIn(batch_buffer, r)
             C == BatchedIn(batch_buffer', r)
  <1>1. /\ i \in NodeId /\ Takes(i, "SensorDataReport") /\ Rest(i) \in Inboxes
        /\ reading \in Reading /\ relayed \in Message
    BY NodesAreIds, HandleSensorDataCases DEF HandleSensorData
  <1>2. k = -one
    BY <1>1 DEF Takes, IsReport
  <1>3. /\ batch_buffer \in [Coordinator -> Seq(Reading)]
        /\ log \in [Coordinator -> Seq(LogEntry)]
    BY DEF TypeOK
  <1>4. ASSUME NEW u \in Int, NEW b \in Int, NEW p \in Int, Grows(V, U, u), Grows(C, B, b),
               Grows(Proposed(r)', Proposed(r), p)
        PROVE  Moves(r, u, b, p)
    BY <1>4, PlacesIn DEF Moves
  <1>5. ASSUME NEW S \in SUBSET Message, Sends(Rest(i), i, S), \A m \in S : ~IsReport(m, r)
        PROVE  Grows(V, U, k)
    BY <1>1, <1>5, SilentTaken
  <1>6. ASSUME batch_buffer' = batch_buffer
        PROVE  Grows(C, B, 0)
    BY <1>6, GrowsSubset
  <1>7. ASSUME log' = log
        PROVE  Grows(Proposed(r)', Proposed(r), 0)
    <2>1. Idles
      <3>1. ASSUME NEW command, Proposes(i, Extended(i, command)) PROVE FALSE
        <4>1. log[i] = Extended(i, command)
          BY <1>3, <1>7, <3>1 DEF Proposes
        <4>2. /\ Len(log[i]) \in Nat
              /\ Len(Append(log[i], [term |-> current_term[i], command |-> command]))
                   = Len(log[i]) + 1
          <5>1. log[i] \in Seq(LogEntry) /\ Extended(i, command) \in Seq(LogEntry)
            BY <1>3, <3>1 DEF Proposes
          <5> QED
            BY <5>1, LenProperties, AppendProperties DEF Extended
        <4> QED
          BY <4>1, <4>2 DEF Extended
      <3> QED
        BY <3>1, HandleSensorDataProposes
    <2> QED
      BY <2>1, ProposedIdle
  <1>8. ASSUME NEW command \in SUBSET Reading, Replicate(Rest(i), i, command)
        PROVE  /\ Grows(V, U, k)
               /\ Grows(Proposed(r)', Proposed(r), IF r \in command THEN 1 ELSE 0)
    <2>1. Proposes(i, Extended(i, command))
      BY <1>1, <1>8, ReplicateProposes
    <2>2. Sends(Rest(i), i, RoundsOf(i, log'[i])) /\ log'[i] \in Seq(LogEntry)
      BY <1>1, <1>8, ReplicateSends
    <2>3. /\ RoundsOf(i, log'[i]) \in SUBSET Message
          /\ \A m \in RoundsOf(i, log'[i]) : ~IsReport(m, r)
      BY <2>2, RoundsType DEF OfType, IsReport
    <2> QED
      BY <1>5, <2>1, <2>2, <2>3, ProposedMore
  <1>9. one \in Int /\ k \in Int /\ one >= 0
    BY <1>2
  <1> HIDE DEF one, k, U, V, B, C, reading
  <1>10. CASE Send(Rest(i), i, Quiet) /\ log' = log /\ batch_buffer' = batch_buffer
    <2>1. Sends(Rest(i), i, {})
      BY <1>1, <1>10, NothingSent
    <2>2. Grows(V, U, k)
      BY <1>5, <2>1
    <2>3. Moves(r, k, 0, 0)
      BY <1>4, <1>6, <1>7, <1>9, <1>10, <2>2
    <2> QED
      BY <1>2, <1>9, <2>3
  <1>11. CASE /\ \E d \in Coordinator : Send(Rest(i), i, Only(d, relayed))
              /\ log' = log /\ batch_buffer' = batch_buffer
    <2>1. PICK d \in Coordinator : Send(Rest(i), i, Only(d, relayed))
      BY <1>11
    <2>2. IsReport(relayed, r) <=> reading = r
      BY DEF IsReport
    <2>3. Grows(V, ReportsIn(Rest(i), r), one)
      BY <1>1, <2>1, <2>2, NodesAreIds, ReportSent DEF V, one
    <2>4. Grows(ReportsIn(Rest(i), r), U, k)
      BY <1>1, TakenReports DEF U, k
    <2>5. Grows(V, U, one + k)
      BY <1>9, <2>3, <2>4, GrowsThen
    <2>6. one + k = 0
      BY <1>2, <1>9
    <2>7. Moves(r, 0, 0, 0)
      BY <1>4, <1>6, <1>7, <1>11, <2>5, <2>6
    <2> QED
      BY <2>7
  <1>12. CASE inbox' = Rest(i) /\ log' = log /\ batch_buffer' = batch_buffer
    <2>1. Sends(Rest(i), i, {})
      BY <1>1, <1>12, NothingSent
    <2>2. Grows(V, U, k)
      BY <1>5, <2>1
    <2>3. Moves(r, k, 0, 0)
      BY <1>4, <1>6, <1>7, <1>9, <1>12, <2>2
    <2> QED
      BY <1>2, <1>9, <2>3
  <1>13. CASE Replicate(Rest(i), i, {reading}) /\ batch_buffer' = batch_buffer
    <2>1. {reading} \in SUBSET Reading /\ (r \in {reading} <=> reading = r)
      BY <1>1
    <2>2. Grows(V, U, k) /\ Grows(Proposed(r)', Proposed(r), one)
      BY <1>8, <1>13, <2>1 DEF one
    <2>3. Moves(r, k, 0, one)
      BY <1>4, <1>6, <1>9, <1>13, <2>2
    <2>4. k + 0 + one <= 0
      BY <1>2, <1>9
    <2> QED
      BY <1>9, <2>3, <2>4
  <1>14. CASE /\ Replicate(Rest(i), i, Readings(Batched(i, reading)))
              /\ batch_buffer' = [batch_buffer EXCEPT ![i] = <<>>]
    <2> DEFINE taken == IF r \in Readings(batch_buffer[i]) THEN -1 ELSE 0
               added == IF r \in Readings(Batched(i, reading)) THEN 1 ELSE 0
    <2>1. Readings(Batched(i, reading)) \in SUBSET Reading /\ batch_buffer[i] \in Seq(Reading)
      BY <1>1, BatchedType
    <2>2. Grows(V, U, k) /\ Grows(Proposed(r)', Proposed(r), added)
      BY <1>8, <1>14, <2>1
    <2>3. Grows(C, B, taken)
      BY <1>3, <1>14, BatchEmptied DEF B, C
    <2>4. r \in Readings(Batched(i, reading)) => r \in Readings(batch_buffer[i]) \/ reading = r
      BY <1>1, <2>1, AppendReadings DEF Batched
    <2>5. taken \in Int /\ added \in Int
      OBVIOUS
    <2>6. k + taken + added <= 0
      BY <1>2, <1>9, <2>4 DEF one
    <2> HIDE DEF taken, added
    <2>7. Moves(r, k, taken, added)
      BY <1>4, <1>9, <2>2, <2>3, <2>5
    <2> QED
      BY <1>9, <2>5, <2>6, <2>7
  <1>15. CASE /\ inbox' = Rest(i) /\ log' = log
              /\ batch_buffer' = [batch_buffer EXCEPT ![i] = Batched(i, reading)]
    <2>1. Sends(Rest(i), i, {})
      BY <1>1, <1>15, NothingSent
    <2>2. Grows(V, U, k)
      BY <1>5, <2>1
    <2>3. Grows(C, B, one)
      BY <1>1, <1>3, <1>15, BatchExtended DEF B, C, one, Batched
    <2>4. Moves(r, k, one, 0)
      BY <1>4, <1>7, <1>9, <1>15, <2>2, <2>3
    <2>5. k + one + 0 <= 0
      BY <1>2, <1>9
    <2> QED
      BY <1>9, <2>4, <2>5
  <1>16. [batch_buffer EXCEPT ![i] = Retained(i, reading)] = batch_buffer
    BY <1>3 DEF Retained
  <1> QED
    BY <1>10, <1>11, <1>12, <1>13, <1>14, <1>15, <1>16, HandleSensorDataCases DEF reading

\* What the other steps do to the batches and to the count of the reports.
LEMMA OthersKeepBatches ==
  ASSUME TypeOK, [Next]_vars,
         ~ \E i \in Coordinator : HandleSensorData(i) \/ EchodIdle(i) \/ Workload(i),
         ~ \E l \in LeafId : \E value \in Value : LeafReading(l, value)
  PROVE  batch_buffer' = batch_buffer /\ count'.reports = count.reports
  <1>1. ASSUME \/ count' = count
               \/ count' = [count EXCEPT !.others = @ + 1]
               \/ count' = [count EXCEPT !.registers = @ + 1]
        PROVE  count'.reports = count.reports
    <2>1. count \in [{"reports", "registers", "others"} -> Nat]
      BY DEF TypeOK
    <2> QED
      BY <1>1, <2>1
  <1>2. CASE \E i \in Coordinator : ElectionIdle(i) \/ RaftIdle(i) \/ EchoIdle(i)
    BY <1>2 DEF ElectionIdle, RaftIdle, EchoIdle, reportVars
  <1>3. CASE \E i \in Coordinator :
               \/ HandleRequestVote(i) \/ HandleVoteResponse(i) \/ HandleAppendResponse(i)
               \/ HandleLivenessPing(i) \/ HandleLeadershipHandoff(i) \/ HandleLeafRegister(i)
               \/ HandleAppendEntries(i)
    BY <1>3 DEF HandleRequestVote, HandleVoteResponse, HandleAppendResponse,
       HandleLivenessPing, HandleLeadershipHandoff, HandleLeafRegister, HandleAppendEntries,
       reportVars
  <1>4. CASE \E l \in LeafId : \/ \E c \in Coordinator : LeafIdle(l, c)
                               \/ HandleLeafRegisterResponse(l) \/ LeafTimeout(l)
    BY <1>1, <1>4 DEF LeafIdle, HandleLeafRegisterResponse, LeafTimeout, reportVars
  <1>5. CASE \/ \E i \in Coordinator : \E level \in Levels : Drain(i, level)
             \/ \E i \in Coordinator : LateTick(i) \/ InjectFailure(i) \/ RecoverNode(i)
             \/ \E groups \in Splits : InjectPartition(groups)
             \/ HealPartition
    BY <1>1, <1>5 DEF Drain, LateTick, InjectFailure, RecoverNode, InjectPartition,
       HealPartition, reportVars
  <1>6. CASE UNCHANGED vars
    BY <1>6 DEF vars, reportVars
  <1> QED
    BY <1>2, <1>3, <1>4, <1>5, <1>6 DEF Next, Idle, Handle, LeafStep, Environment

\* A flush moves what is batched to the log.
LEMMA EchodIdleMoves ==
  ASSUME TypeOK, NEW i \in Coordinator, EchodIdle(i), NEW r
  PROVE  /\ count'.reports = count.reports
         /\ \E b, p \in Int : /\ Grows(BatchedIn(batch_buffer', r), BatchedIn(batch_buffer, r), b)
                              /\ Grows(Proposed(r)', Proposed(r), p)
                              /\ b + p <= 0
  <1> DEFINE B == BatchedIn(batch_buffer, r)
             C == BatchedIn(batch_buffer', r)
  <1>1. count'.reports = count.reports
    <2>1. count \in [{"reports", "registers", "others"} -> Nat]
      BY DEF TypeOK
    <2>2. count' = count \/ \E n : count' = [count EXCEPT !.others = n]
      BY EchodIdleCases
    <2> QED
      BY <2>1, <2>2
  <1>2. Proposes(i, log'[i]) /\ batch_buffer \in [Coordinator -> Seq(Reading)]
    BY EchodIdleProposes DEF TypeOK
  <1>3. CASE log'[i] = log[i] /\ batch_buffer' = batch_buffer
    <2>1. Grows(C, B, 0)
      BY <1>3, GrowsSubset
    <2>2. Grows(Proposed(r)', Proposed(r), 0)
      BY <1>2, <1>3, ProposedSame
    <2> QED
      BY <1>1, <2>1, <2>2
  <1>4. CASE /\ log'[i] = Extended(i, Readings(batch_buffer[i]))
             /\ batch_buffer' = [batch_buffer EXCEPT ![i] = <<>>]
    <2> DEFINE taken == IF r \in Readings(batch_buffer[i]) THEN -1 ELSE 0
               added == IF r \in Readings(batch_buffer[i]) THEN 1 ELSE 0
    <2>1. Readings(batch_buffer[i]) \in SUBSET Reading
      BY <1>2, ReadingsType
    <2>2. Grows(Proposed(r)', Proposed(r), added)
      BY <1>2, <1>4, <2>1, ProposedMore
    <2>3. Grows(C, B, taken)
      BY <1>2, <1>4, BatchEmptied
    <2>4. taken \in Int /\ added \in Int /\ taken + added <= 0
      OBVIOUS
    <2> HIDE DEF taken, added
    <2> QED
      BY <1>1, <2>2, <2>3, <2>4
  <1> QED
    BY <1>3, <1>4, EchodIdleCases

LEMMA StepMoves ==
  ASSUME TypeOK, TypeOK', PositiveTerms, [Next]_vars, NEW r \in Reading
  PROVE  \E u, b, p \in Int : Moves(r, u, b, p) /\ u + b + p <= count'.reports - count.reports
  <1> DEFINE U == ReportsIn(inbox, r)
             V == ReportsIn(inbox', r)
             B == BatchedIn(batch_buffer, r)
             C == BatchedIn(batch_buffer', r)
  <1>1. ASSUME NEW u \in Int, NEW b \in Int, NEW p \in Int, Grows(V, U, u), Grows(C, B, b),
               Grows(Proposed(r)', Proposed(r), p)
        PROVE  Moves(r, u, b, p)
    BY <1>1, PlacesIn DEF Moves
  <1>2. /\ count \in [{"reports", "registers", "others"} -> Nat]
        /\ count.reports \in Nat /\ count'.reports \in Nat
    BY DEF TypeOK
  <1>3. ASSUME batch_buffer' = batch_buffer
        PROVE  Grows(C, B, 0)
    BY <1>3, GrowsSubset
  <1> HIDE DEF U, V, B, C
  <1>4. CASE \E i \in Coordinator : HandleSensorData(i)
    <2>1. count' = count
      BY <1>4 DEF HandleSensorData
    <2>2. PICK u \in Int, b \in Int, p \in Int : Moves(r, u, b, p) /\ u + b + p <= 0
      BY <1>4, SensorDataMoves
    <2>3. u + b + p <= count'.reports - count.reports
      BY <1>2, <2>1, <2>2
    <2> QED
      BY <2>2, <2>3
  <1>5. CASE \E l \in LeafId : \E value \in Value : LeafReading(l, value)
    <2>1. PICK l \in LeafId, value \in Value : LeafReading(l, value)
      BY <1>5
    <2> DEFINE report == [type |-> "SensorDataReport", from |-> l,
                          reading |-> [leaf |-> l, value |-> value]]
               one == IF IsReport(report, r) THEN 1 ELSE 0
    <2>2. /\ report \in Message /\ inbox \in Inboxes
          /\ \/ Send(inbox, l, Quiet) /\ count'.reports = count.reports
             \/ /\ coordinator_id[l] \in NodeId
                /\ Send(inbox, l, Only(coordinator_id[l], report))
                /\ count'.reports = count.reports + 1
      BY <2>1, InboxesType, LeafReadingCases, NodesAreIds DEF OfType
    <2>3. Grows(C, B, 0)
      BY <1>3, <2>1 DEF LeafReading, reportVars
    <2>4. Grows(Proposed(r)', Proposed(r), 0)
      <3>1. Sends(inbox, l, OfType({"SensorDataReport"})) /\ l \in NodeId
        BY <2>1, LeafReadingType, NodesAreIds
      <3>2. NoneNew("AppendEntriesRPC")
        BY <3>1, OthersSent
      <3>3. log' = log
        BY <2>1 DEF LeafReading, replicationVars
      <3> QED
        BY <3>2, <3>3, ProposedIdle DEF Idles
    <2>5. one \in Int /\ one <= 1
      OBVIOUS
    <2> HIDE DEF report
    <2>6. CASE Send(inbox, l, Quiet) /\ count'.reports = count.reports
      <3>1. Sends(inbox, l, {})
        BY <2>2, <2>6, NothingSent
      <3>2. Grows(V, U, 0)
        BY <2>2, <3>1, SilentSent DEF U, V
      <3>3. Moves(r, 0, 0, 0)
        BY <1>1, <2>3, <2>4, <3>2
      <3> QED
        <4>1. 0 + 0 + 0 <= count'.reports - count.reports
          BY <1>2, <2>6
        <4> QED
          BY <3>3, <4>1
    <2>7. CASE /\ coordinator_id[l] \in NodeId
               /\ Send(inbox, l, Only(coordinator_id[l], report))
               /\ count'.reports = count.reports + 1
      <3>1. Grows(V, U, one)
        BY <2>2, <2>7, ReportSent DEF U, V
      <3> HIDE DEF one
      <3>2. Moves(r, one, 0, 0)
        BY <1>1, <2>3, <2>4, <2>5, <3>1
      <3>3. one + 0 + 0 <= count'.reports - count.reports
        BY <1>2, <2>5, <2>7
      <3> QED
        BY <2>5, <3>2, <3>3
    <2> QED
      BY <2>2, <2>6, <2>7
  <1>6. CASE /\ ~ \E i \in Coordinator : HandleSensorData(i)
             /\ ~ \E l \in LeafId : \E value \in Value : LeafReading(l, value)
    <2>1. Grows(V, U, 0)
      BY <1>6, OthersQuiet DEF U, V
    <2>2. CASE \E i \in Coordinator : EchodIdle(i)
      <3>1. PICK i \in Coordinator : EchodIdle(i)
        BY <2>2
      <3>2. /\ count'.reports = count.reports
            /\ \E b, p \in Int : /\ Grows(C, B, b) /\ Grows(Proposed(r)', Proposed(r), p)
                                 /\ b + p <= 0
        BY <3>1, EchodIdleMoves DEF B, C
      <3>3. PICK b \in Int, p \in Int :
              Grows(C, B, b) /\ Grows(Proposed(r)', Proposed(r), p) /\ b + p <= 0
        BY <3>2
      <3>4. Moves(r, 0, b, p)
        BY <1>1, <2>1, <3>3
      <3>5. 0 + b + p <= count'.reports - count.reports
        BY <1>2, <3>2, <3>3
      <3> QED
        BY <3>4, <3>5
    <2>3. CASE \E i \in Coordinator : Workload(i)
      <3>1. PICK i \in Coordinator : Workload(i)
        BY <2>3
      <3>2. PICK q \in Reading : Proposes(i, Extended(i, {q}))
        BY <3>1, WorkloadProposes
      <3> DEFINE one == IF r \in {q} THEN 1 ELSE 0
      <3>3. Grows(Proposed(r)', Proposed(r), one)
        BY <3>2, ProposedMore
      <3>4. Grows(C, B, 0) /\ count'.reports = count.reports + 1
        BY <1>2, <1>3, <3>1 DEF Workload, reportVars
      <3>5. one \in Int /\ one <= 1
        OBVIOUS
      <3> HIDE DEF one
      <3>6. Moves(r, 0, 0, one)
        BY <1>1, <2>1, <3>3, <3>4, <3>5
      <3>7. 0 + 0 + one <= count'.reports - count.reports
        BY <1>2, <3>4, <3>5
      <3> QED
        BY <3>5, <3>6, <3>7
    <2>4. CASE ~ \E i \in Coordinator : EchodIdle(i) \/ Workload(i)
      <3>1. batch_buffer' = batch_buffer /\ count'.reports = count.reports
        BY <1>6, <2>4, OthersKeepBatches
      <3>2. Grows(C, B, 0)
        BY <1>3, <3>1
      <3>3. Grows(Proposed(r)', Proposed(r), 0)
        <4>1. CASE Idles
          BY <4>1, ProposedIdle
        <4>2. CASE \E i \in Coordinator : RaftIdle(i)
          BY <4>2, RaftIdleProposes, ProposedSame
        <4>3. CASE \E i \in Coordinator : HandleAppendEntries(i)
          BY <4>3, ProposedMerged
        <4> QED
          BY <1>6, <2>4, <4>1, <4>2, <4>3, OthersIdle
      <3>4. Moves(r, 0, 0, 0)
        BY <1>1, <2>1, <3>2, <3>3
      <3> QED
        BY <1>2, <3>1, <3>4
    <2> QED
      BY <2>2, <2>3, <2>4
  <1> QED
    BY <1>4, <1>5, <1>6

LEMMA InitReports == Init => ReportsInv
  <1> SUFFICES ASSUME Init, NEW r \in Reading
               PROVE  /\ IsFiniteSet(UnderWay(r)) /\ IsFiniteSet(InBatch(r))
                      /\ IsFiniteSet(Proposed(r))
                      /\ Cardinality(UnderWay(r)) + Cardinality(InBatch(r))
                           + Cardinality(Proposed(r)) <= count.reports
    BY DEF ReportsInv
  <1>1. /\ \A d \in NodeId : inbox[d] = <<>>
        /\ \A i \in Coordinator : log[i] = <<>> /\ batch_buffer[i] = <<>>
        /\ count.reports = 0
    BY DEF Init, Quiet
  <1>2. DOMAIN <<>> = {}
    BY EmptySeq
  <1>3. UnderWay(r) = {}
    BY <1>1, <1>2 DEF UnderWay
  <1>4. InBatch(r) = {}
    BY <1>1, <1>2 DEF InBatch
  <1>5. Proposed(r) = {}
    BY <1>1, <1>2 DEF Proposed, Offered, Holds, Content
  <1>6. IsFiniteSet({}) /\ Cardinality({}) = 0
    BY FS_EmptySet
  <1> QED
    BY <1>1, <1>3, <1>4, <1>5, <1>6

LEMMA LogsAreProposed ==
  ASSUME TypeOK, ReportsInv
  PROVE  ReportsNotMultiplied
  <1> SUFFICES ASSUME NEW r \in Reading
               PROVE  Cardinality(UnderWay(r)) + Cardinality(InBatch(r)) + Cardinality(InLog(r))
                        <= count.reports
    BY DEF ReportsNotMultiplied
  <1>1. ASSUME NEW p \in InLog(r) PROVE p \in Proposed(r)
    <2>1. PICK i \in Coordinator :
            p \in {<<n, log[i][n].term>> : n \in {k \in DOMAIN log[i] : r \in log[i][k].command}}
      BY DEF InLog
    <2>2. PICK n \in DOMAIN log[i] : p = <<n, log[i][n].term>> /\ r \in log[i][n].command
      BY <2>1
    <2>3. log[i] \in Seq(LogEntry)
      BY DEF TypeOK
    <2>4. n \in Nat /\ log[i][n].term \in Nat
      <3>1. DOMAIN log[i] = 1 .. Len(log[i]) /\ Len(log[i]) \in Nat
        BY <2>3, LenProperties
      <3> QED
        BY <2>3, <3>1, LogTermsType
    <2>5. n - 0 = n
      BY <2>4
    <2> QED
      BY <2>2, <2>4, <2>5 DEF Proposed, Holds
  <1>2. /\ IsFiniteSet(UnderWay(r)) /\ IsFiniteSet(InBatch(r)) /\ IsFiniteSet(Proposed(r))
        /\ Cardinality(UnderWay(r)) + Cardinality(InBatch(r)) + Cardinality(Proposed(r))
             <= count.reports
    BY DEF ReportsInv
  <1>3. IsFiniteSet(InLog(r)) /\ Cardinality(InLog(r)) <= Cardinality(Proposed(r))
    BY <1>1, <1>2, FS_Subset
  <1>4. /\ Cardinality(UnderWay(r)) \in Nat /\ Cardinality(InBatch(r)) \in Nat
        /\ Cardinality(Proposed(r)) \in Nat /\ Cardinality(InLog(r)) \in Nat
        /\ count.reports \in Nat
    BY <1>2, <1>3, FS_CardinalityType DEF TypeOK
  <1> QED
    BY <1>2, <1>3, <1>4

\* The copies of a reading that are under way, in a batch or in a log are never
\* more than the reports that leaves sent: relaying, batching and flushing move a
\* report, and merging a round puts its entries where the leader has them.
THEOREM ReportsAreNotMultiplied == Spec => []ReportsNotMultiplied
  <1>1. Init => ReportsInv
    BY InitReports
  <1>2. TypeOK /\ TypeOK' /\ PositiveTerms /\ ReportsInv /\ [Next]_vars => ReportsInv'
    BY StepMoves, MovesKeep
  <1>3. TypeOK /\ ReportsInv => ReportsNotMultiplied
    BY LogsAreProposed
  <1> QED
    BY <1>1, <1>2, <1>3, SimTypeCorrect, TermsArePositive, PTL DEF Spec
=============================================================================
