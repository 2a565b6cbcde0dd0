-------------------------- MODULE SimCommit_proofs ---------------------------
(***************************************************************************)
(* What a simulated cluster commits is safe in ECHO and echoD, for any set *)
(* of coordinators and leaves, any batteries, failures and partitions.     *)
(*                                                                         *)
(* The argument is that of EchoCommit_proofs, which is not repeated but    *)
(* instantiated.  Pi is that module for the picture of the simulated       *)
(* cluster as one of coordinators on the Pi: the roles, ballots, logs and  *)
(* elections of the simulator, and each inbox as the channels from all its *)
(* senders.  A voter that drained forgets its vote here and not there, so  *)
(* the picture takes the vote from the record of who voted.  Whatever      *)
(* replication does not depend on (leaves, batteries, batches) is constant *)
(* in the picture.                                                         *)
(*                                                                         *)
(* The picture need not be a behaviour of the Pi's coordinators, whose     *)
(* handlers differ.  What is shown is what the proof for them rests on:    *)
(* elections have one winner (PiViewHolds), every step does to the logs    *)
(* one of the few things that StepKind lists (StepsHaveKinds), and every   *)
(* message says what it may say of its sender (NextSends).                 *)
(***************************************************************************)
EXTENDS SimCluster_proofs

-----------------------------------------------------------------------------
(* The simulated cluster as one of coordinators on the Pi *)

\* What the Pi has for None: not a coordinator, a level or a value.
Nobody == CHOOSE x : x \notin Coordinator \cup {0, 100} \cup Value

PiRole(role) ==
  CASE role = Leader -> "leader"
    [] role = Candidate -> "candidate"
    [] role = Observer -> "observer"
    [] OTHER -> "follower"
PiState == [i \in Coordinator |-> PiRole(state[i])]

\* Whom v voted for in its present term, though it may have forgotten.
OnRecord(v) == {c \in Coordinator : Voted(v, current_term[v], c)}
PiVotedFor ==
  [v \in Coordinator |-> IF OnRecord(v) = {} THEN Nobody ELSE CHOOSE c \in OnRecord(v) : TRUE]

PiBallots(votes) == [n \in Coordinator |-> IF n \in votes THEN 0 ELSE Nobody]
PiVotes == [i \in Coordinator |-> PiBallots(votes_received[i])]

PiEntry(e) == [term |-> e.term, command |-> e.command, epoch |-> 0]
PiLog(lg) == [n \in DOMAIN lg |-> PiEntry(lg[n])]
PiLogs == [i \in Coordinator |-> PiLog(log[i])]

PiWin(e) == [term |-> e.term, leader |-> e.leader, quorum |-> e.quorum, battery_level |-> 0]
PiElected == {PiWin(e) : e \in elected}

\* A message that the argument does not look at.
Silence == [type |-> "reconcile_batch", commands |-> <<>>]
PiMessage(m) ==
  CASE m.type = "RequestVoteRPC" ->
         [type |-> "request_vote", term |-> m.term, last_log_index |-> m.last_log_index,
          last_log_term |-> m.last_log_term, battery_level |-> 100]
    [] m.type = "RequestVoteResponse" ->
         [type |-> "vote_response", term |-> m.term, vote_granted |-> m.vote_granted,
          voter_battery |-> 0]
    [] m.type = "AppendEntriesRPC" ->
         [type |-> "append_entries", term |-> m.term, prev_log_index |-> m.prev_log_index,
          prev_log_term |-> m.prev_log_term, entries |-> PiLog(m.entries),
          leader_commit |-> m.leader_commit]
    [] m.type = "AppendEntriesResponse" ->
         [type |-> "append_response", term |-> m.term, success |-> m.success,
          match_index |-> m.match_index, responder_battery |-> 0]
    [] OTHER -> Silence

\* The inbox box as the channel from s: the messages of others are not heard.
PiChannel(s, box) ==
  [k \in DOMAIN box |-> IF box[k].from = s THEN PiMessage(box[k]) ELSE Silence]
PiNet == [s \in Coordinator |-> [d \in Coordinator |-> PiChannel(s, inbox[d])]]

Constantly(x) == [i \in Coordinator |-> x]

Pi == INSTANCE EchoCommit_proofs WITH
  Node <- Coordinator, None <- Nobody, Protocol <- "echo", Levels <- {0, 100},
  Recharge <- FALSE, Leaf <- LeafId, Splits <- {}, RecentCap <- 0, RecentCut <- 0,
  Lossy <- FALSE, MaxBatch <- 0, MaxTerm <- 0, MaxReports <- 0, MaxControls <- 0,
  ElectionLoad <- 0, LeaderLoad <- 0, EnvLoad <- 0,
  state <- PiState, voted_for <- PiVotedFor, votes <- PiVotes,
  current_leader_id <- Constantly(Nobody), log <- PiLogs,
  pending_triggers <- Constantly(<<>>), batch_buffer <- Constantly(<<>>),
  last_sensor <- Constantly([l \in LeafId |-> Nobody]),
  recent_reconciles <- Constantly(<<>>), peer_batteries <- Constantly(Constantly(0)),
  handoff_sent <- Constantly(FALSE), partition_epoch <- Constantly(0),
  blocked_senders <- Constantly({}), battery <- Constantly(0), net <- PiNet,
  admitted <- Constantly(Constantly(0)), control <- Constantly(<<>>),
  reports <- 0, controls <- 0, elected <- PiElected

LEMMA NobodyIs == Nobody \notin Coordinator \cup {0, 100} \cup Value
  <1> DEFINE S == Coordinator \cup {0, 100} \cup Value
             R == {x \in S : x \notin x}
  <1>1. R \notin S
    OBVIOUS
  <1>2. \E x : x \notin S
    BY <1>1
  <1> QED
    BY <1>2, Zenon DEF Nobody

\* The assumptions on the Pi's constants hold of these.
LEMMA PiSetting ==
  /\ Pi!IsFiniteSet(Coordinator)
  /\ Nobody \notin Coordinator \cup {0, 100} \cup Value
  /\ "echo" \in {"raft", "echo", "echod"}
  /\ {0, 100} \subseteq 0 .. 100
  /\ \A groups \in {} : groups \subseteq SUBSET Coordinator
  /\ {0, 0, 0} \subseteq Nat /\ {0, 0, 0, 0, 0, 0} \subseteq Nat
  /\ {FALSE, FALSE} \subseteq BOOLEAN
  <1>1. IsFiniteSet(Coordinator)
    BY SimAssumption
  <1>2. Pi!IsFiniteSet(Coordinator)
    BY <1>1, Zenon DEF IsFiniteSet, Pi!IsFiniteSet
  <1>3. /\ "echo" \in {"raft", "echo", "echod"}
        /\ {0, 100} \subseteq 0 .. 100
        /\ \A groups \in {} : groups \subseteq SUBSET Coordinator
        /\ {0, 0, 0} \subseteq Nat /\ {0, 0, 0, 0, 0, 0} \subseteq Nat
        /\ {FALSE, FALSE} \subseteq BOOLEAN
    OBVIOUS
  <1> QED
    BY <1>2, <1>3, NobodyIs

LEMMA SameCardinality == ASSUME NEW S PROVE Pi!Cardinality(S) = Cardinality(S)
  BY Zenon DEF Cardinality, Pi!Cardinality, IsFiniteSet, Pi!IsFiniteSet

LEMMA SameMajority == ASSUME NEW Q PROVE Pi!IsMajority(Q) <=> HasMajority(Q)
  BY SameCardinality DEF Pi!IsMajority, HasMajority

-----------------------------------------------------------------------------
(* Logs *)

LEMMA PiEntries ==
  ASSUME NEW lg \in Seq(LogEntry)
  PROVE  /\ PiLog(lg) \in Seq(Pi!LogEntry)
         /\ Len(PiLog(lg)) = Len(lg) /\ DOMAIN PiLog(lg) = 1 .. Len(lg) /\ Len(lg) \in Nat
         /\ DOMAIN lg = 1 .. Len(lg)
         /\ \A n \in 1 .. Len(lg) : /\ PiLog(lg)[n] = PiEntry(lg[n])
                                    /\ PiLog(lg)[n].term = lg[n].term
                                    /\ lg[n] \in LogEntry
         /\ PiLog(lg) = <<>> <=> lg = <<>>
  <1>1. /\ Len(lg) \in Nat /\ DOMAIN lg = 1 .. Len(lg)
        /\ \A n \in 1 .. Len(lg) : lg[n] \in LogEntry
    BY LenProperties, ElementOfSeq
  <1>2. ASSUME NEW e \in LogEntry
        PROVE  PiEntry(e) \in Pi!LogEntry /\ PiEntry(e).term = e.term
    BY DEF PiEntry, LogEntry, Reading, Pi!LogEntry, Pi!Command, Pi!Reading
  <1>3. PiLog(lg) \in [1 .. Len(lg) -> Pi!LogEntry]
    BY <1>1, <1>2 DEF PiLog
  <1>4. PiLog(lg) \in Seq(Pi!LogEntry) /\ Len(PiLog(lg)) = Len(lg)
    BY <1>1, <1>3
  <1>5. \A n \in 1 .. Len(lg) : PiLog(lg)[n] = PiEntry(lg[n])
    BY <1>1 DEF PiLog
  <1>6. PiLog(lg) = <<>> <=> lg = <<>>
    BY <1>4, EmptySeq
  <1> QED
    BY <1>1, <1>2, <1>3, <1>4, <1>5, <1>6

\* Two logs are the same if they are so to the Pi.
LEMMA PiLogIsOneToOne ==
  ASSUME NEW a \in Seq(LogEntry), NEW b \in Seq(LogEntry), PiLog(a) = PiLog(b)
  PROVE  a = b
  <1>1. Len(a) = Len(b)
    BY PiEntries
  <1>2. ASSUME NEW n \in 1 .. Len(a) PROVE a[n] = b[n]
    <2>1. PiEntry(a[n]) = PiEntry(b[n]) /\ a[n] \in LogEntry /\ b[n] \in LogEntry
      BY <1>1, PiEntries
    <2>2. a[n].term = b[n].term /\ a[n].command = b[n].command
      BY <2>1 DEF PiEntry
    <2>3. \A e \in LogEntry : e = [term |-> e.term, command |-> e.command]
      BY DEF LogEntry
    <2> QED
      BY <2>1, <2>2, <2>3
  <1> QED
    BY <1>1, <1>2, SeqEqual

LEMMA PiLastTerm ==
  ASSUME NEW lg \in Seq(LogEntry)
  PROVE  Pi!LastTerm(PiLog(lg)) = LastTerm(lg)
  <1>1. CASE lg = <<>>
    BY <1>1, PiEntries DEF LastTerm, Pi!LastTerm
  <1>2. CASE lg # <<>>
    <2>1. Len(lg) \in 1 .. Len(lg)
      BY <1>2, PiEntries, EmptySeq
    <2> QED
      BY <1>2, <2>1, PiEntries DEF LastTerm, Pi!LastTerm
  <1> QED
    BY <1>1, <1>2

LEMMA PiFront ==
  ASSUME NEW lg \in Seq(LogEntry), NEW n \in 0 .. Len(lg)
  PROVE  PiLog(SubSeq(lg, 1, n)) = SubSeq(PiLog(lg), 1, n)
  <1> DEFINE front == SubSeq(lg, 1, n)
             picture == SubSeq(PiLog(lg), 1, n)
  <1>1. PiLog(lg) \in Seq(Pi!LogEntry) /\ Len(PiLog(lg)) = Len(lg) /\ n \in Nat /\ Len(lg) \in Nat
    BY PiEntries
  <1>2. front \in Seq(LogEntry) /\ picture \in Seq(Pi!LogEntry)
    BY <1>1, FrontIsSeq
  <1>3. /\ Len(front) = n /\ \A k \in 1 .. n : front[k] = lg[k]
        /\ Len(picture) = n /\ \A k \in 1 .. n : picture[k] = PiLog(lg)[k]
    BY <1>1, LenProperties, SubSeqProperties
  <1> HIDE DEF front, picture
  <1>4. /\ PiLog(front) \in Seq(Pi!LogEntry) /\ Len(PiLog(front)) = n
        /\ \A k \in 1 .. n : PiLog(front)[k] = PiEntry(lg[k])
    BY <1>2, <1>3, PiEntries
  <1>5. \A k \in 1 .. n : PiLog(lg)[k] = PiEntry(lg[k])
    BY <1>1, PiEntries
  <1>6. PiLog(front) = picture
    BY <1>2, <1>3, <1>4, <1>5, SeqEqual
  <1> QED
    BY <1>6 DEF front, picture

LEMMA PiSuffix ==
  ASSUME NEW lg \in Seq(LogEntry), NEW n \in Nat
  PROVE  PiLog(Suffix(lg, n)) = Pi!Suffix(PiLog(lg), n)
  <1> DEFINE rest == Suffix(lg, n)
             picture == Pi!Suffix(PiLog(lg), n)
  <1>1. PiLog(lg) \in Seq(Pi!LogEntry) /\ Len(PiLog(lg)) = Len(lg) /\ Len(lg) \in Nat
    BY PiEntries
  <1>2. picture = Suffix(PiLog(lg), n)
    BY DEF Suffix, Pi!Suffix
  <1>3. rest \in Seq(LogEntry) /\ picture \in Seq(Pi!LogEntry)
    BY <1>1, <1>2, SuffixIsSeq
  <1>4. /\ Len(rest) = Len(picture)
        /\ \A k \in 1 .. Len(rest) : /\ n + k \in 1 .. Len(lg)
                                     /\ rest[k] = lg[n + k] /\ picture[k] = PiLog(lg)[n + k]
    BY <1>1, <1>2 DEF Suffix
  <1> HIDE DEF rest, picture
  <1>5. /\ PiLog(rest) \in Seq(Pi!LogEntry) /\ Len(PiLog(rest)) = Len(rest)
        /\ \A k \in 1 .. Len(rest) : PiLog(rest)[k] = PiEntry(rest[k])
    BY <1>3, PiEntries
  <1>6. \A k \in 1 .. Len(rest) : PiLog(rest)[k] = picture[k]
    BY <1>4, <1>5, PiEntries
  <1>7. PiLog(rest) = picture
    BY <1>3, <1>4, <1>5, <1>6, SeqEqual
  <1> QED
    BY <1>7 DEF rest, picture

LEMMA PiConcat ==
  ASSUME NEW a \in Seq(LogEntry), NEW b \in Seq(LogEntry)
  PROVE  PiLog(a \o b) = PiLog(a) \o PiLog(b)
  <1>1. /\ PiLog(a) \in Seq(Pi!LogEntry) /\ Len(PiLog(a)) = Len(a) /\ Len(a) \in Nat
        /\ PiLog(b) \in Seq(Pi!LogEntry) /\ Len(PiLog(b)) = Len(b) /\ Len(b) \in Nat
    BY PiEntries
  <1>2. /\ a \o b \in Seq(LogEntry) /\ Len(a \o b) = Len(a) + Len(b)
        /\ PiLog(a) \o PiLog(b) \in Seq(Pi!LogEntry)
        /\ Len(PiLog(a) \o PiLog(b)) = Len(a) + Len(b)
    <2>1. a \o b \in Seq(LogEntry) /\ Len(a \o b) = Len(a) + Len(b)
      BY ConcatProperties
    <2>2. /\ PiLog(a) \o PiLog(b) \in Seq(Pi!LogEntry)
          /\ Len(PiLog(a) \o PiLog(b)) = Len(PiLog(a)) + Len(PiLog(b))
      BY <1>1, ConcatProperties
    <2> QED
      BY <1>1, <2>1, <2>2
  <1>3. /\ PiLog(a \o b) \in Seq(Pi!LogEntry) /\ Len(PiLog(a \o b)) = Len(a) + Len(b)
        /\ \A n \in 1 .. Len(a) + Len(b) : PiLog(a \o b)[n] = PiEntry((a \o b)[n])
    BY <1>2, PiEntries
  <1>4. ASSUME NEW n \in 1 .. Len(a) + Len(b)
        PROVE  PiLog(a \o b)[n] = (PiLog(a) \o PiLog(b))[n]
    <2>1. CASE n <= Len(a)
      <3>1. n \in 1 .. Len(a)
        BY <1>1, <2>1
      <3>2. (a \o b)[n] = a[n] /\ (PiLog(a) \o PiLog(b))[n] = PiLog(a)[n]
        BY <1>1, <3>1, ConcatProperties
      <3> QED
        BY <1>3, <3>1, <3>2, PiEntries
    <2>2. CASE n > Len(a)
      <3>1. n - Len(a) \in 1 .. Len(b) /\ n \in Len(a) + 1 .. Len(a) + Len(b)
        BY <1>1, <2>2
      <3>2. (a \o b)[n] = b[n - Len(a)] /\ (PiLog(a) \o PiLog(b))[n] = PiLog(b)[n - Len(a)]
        BY <1>1, <3>1, ConcatProperties
      <3> QED
        BY <1>3, <3>1, <3>2, PiEntries
    <2> QED
      BY <1>1, <2>1, <2>2
  <1> QED
    BY <1>2, <1>3, <1>4, SeqEqual

\* The merge compares terms, and they are the same.
LEMMA PiMerged ==
  ASSUME NEW lg \in Seq(LogEntry), NEW es \in Seq(LogEntry), NEW prev \in Nat, prev <= Len(lg)
  PROVE  PiLog(Merged(lg, prev, es)) = Pi!Merged(PiLog(lg), prev, PiLog(es))
  <1>1. Pi!Conflicts(PiLog(lg), prev, PiLog(es)) = Conflicts(lg, prev, es)
    <2>1. /\ Len(PiLog(lg)) = Len(lg) /\ Len(PiLog(es)) = Len(es)
          /\ Len(lg) \in Nat /\ Len(es) \in Nat
      BY PiEntries
    <2>2. ASSUME NEW n \in prev + 1 .. Len(lg), n - prev <= Len(es)
          PROVE  PiLog(lg)[n].term = lg[n].term /\ PiLog(es)[n - prev].term = es[n - prev].term
      <3>1. n \in 1 .. Len(lg) /\ n - prev \in 1 .. Len(es)
        BY <2>1, <2>2
      <3> QED
        BY <3>1, PiEntries
    <2> QED
      BY <2>1, <2>2 DEF Conflicts, Pi!Conflicts
  <1>2. Pi!Kept(PiLog(lg), prev, PiLog(es)) = Kept(lg, prev, es)
    BY <1>1, PiEntries DEF Kept, Pi!Kept
  <1> DEFINE kept == Kept(lg, prev, es)
  <1>3. kept \in prev .. Len(lg) /\ Len(lg) \in Nat
    BY KeptBounds, PiEntries
  <1>4. kept \in 0 .. Len(lg) /\ kept - prev \in Nat
    BY <1>3
  <1> HIDE DEF kept
  <1>5. SubSeq(lg, 1, kept) \in Seq(LogEntry) /\ Suffix(es, kept - prev) \in Seq(LogEntry)
    BY <1>4, FrontIsSeq, SuffixIsSeq
  <1>6. PiLog(SubSeq(lg, 1, kept) \o Suffix(es, kept - prev))
          = SubSeq(PiLog(lg), 1, kept) \o Pi!Suffix(PiLog(es), kept - prev)
    BY <1>4, <1>5, PiConcat, PiFront, PiSuffix
  <1> QED
    BY <1>2, <1>6 DEF Merged, Pi!Merged, kept

-----------------------------------------------------------------------------
(* Messages *)

\* The messages that have a counterpart, with their fields.
LEMMA PiMessageIs ==
  ASSUME NEW m \in Message
  PROVE  /\ PiMessage(m) \in Pi!Message /\ m.from \in NodeId
         /\ PiMessage(m).type = "request_vote" <=> m.type = "RequestVoteRPC"
         /\ PiMessage(m).type = "vote_response" <=> m.type = "RequestVoteResponse"
         /\ PiMessage(m).type = "append_entries" <=> m.type = "AppendEntriesRPC"
         /\ PiMessage(m).type = "append_response" <=> m.type = "AppendEntriesResponse"
         /\ PiMessage(m).type \notin {"liveness_ping", "leadership_handoff"}
         /\ m.type = "RequestVoteRPC" =>
              /\ PiMessage(m).term = m.term /\ PiMessage(m).battery_level = 100
              /\ PiMessage(m).last_log_index = m.last_log_index
              /\ PiMessage(m).last_log_term = m.last_log_term
         /\ m.type = "RequestVoteResponse" =>
              /\ PiMessage(m).term = m.term /\ PiMessage(m).vote_granted = m.vote_granted
              /\ PiMessage(m).voter_battery = 0
         /\ m.type = "AppendEntriesRPC" =>
              /\ PiMessage(m).term = m.term /\ PiMessage(m).prev_log_index = m.prev_log_index
              /\ PiMessage(m).prev_log_term = m.prev_log_term
              /\ PiMessage(m).entries = PiLog(m.entries)
              /\ PiMessage(m).leader_commit = m.leader_commit
         /\ m.type = "AppendEntriesResponse" =>
              /\ PiMessage(m).term = m.term /\ PiMessage(m).success = m.success
              /\ PiMessage(m).match_index = m.match_index
  <1>1. Silence \in Pi!Message /\ Silence.type = "reconcile_batch"
    BY DEF Silence, Pi!Message
  <1>2. m.from \in NodeId
    BY DEF Message, NodeId
  <1>3. CASE m.type = "RequestVoteRPC"
    <2>1. PiMessage(m) = [type |-> "request_vote", term |-> m.term,
            last_log_index |-> m.last_log_index, last_log_term |-> m.last_log_term,
            battery_level |-> 100]
      BY <1>3 DEF PiMessage
    <2>2. PiMessage(m) \in Pi!Message
      BY <1>3, <2>1, MessageFields DEF Pi!Message
    <2> QED
      BY <1>2, <1>3, <2>1, <2>2
  <1>4. CASE m.type = "RequestVoteResponse"
    <2>1. PiMessage(m) = [type |-> "vote_response", term |-> m.term,
            vote_granted |-> m.vote_granted, voter_battery |-> 0]
      BY <1>4 DEF PiMessage
    <2>2. PiMessage(m) \in Pi!Message
      BY <1>4, <2>1, MessageFields DEF Pi!Message
    <2> QED
      BY <1>2, <1>4, <2>1, <2>2
  <1>5. CASE m.type = "AppendEntriesRPC"
    <2>1. PiMessage(m) = [type |-> "append_entries", term |-> m.term,
            prev_log_index |-> m.prev_log_index, prev_log_term |-> m.prev_log_term,
            entries |-> PiLog(m.entries), leader_commit |-> m.leader_commit]
      BY <1>5 DEF PiMessage
    <2>2. PiLog(m.entries) \in Seq(Pi!LogEntry)
      BY <1>5, MessageFields, PiEntries
    <2>3. PiMessage(m) \in Pi!Message
      BY <1>5, <2>1, <2>2, MessageFields DEF Pi!Message
    <2> QED
      BY <1>2, <1>5, <2>1, <2>3
  <1>6. CASE m.type = "AppendEntriesResponse"
    <2>1. PiMessage(m) = [type |-> "append_response", term |-> m.term,
            success |-> m.success, match_index |-> m.match_index, responder_battery |-> 0]
      BY <1>6 DEF PiMessage
    <2>2. PiMessage(m) \in Pi!Message
      BY <1>6, <2>1, MessageFields DEF Pi!Message
    <2> QED
      BY <1>2, <1>6, <2>1, <2>2
  <1>7. CASE m.type \notin {"RequestVoteRPC", "RequestVoteResponse", "AppendEntriesRPC",
                            "AppendEntriesResponse"}
    <2>1. PiMessage(m) = Silence
      BY <1>7 DEF PiMessage
    <2> QED
      BY <1>1, <1>2, <1>7, <2>1
  <1> QED
    BY <1>3, <1>4, <1>5, <1>6, <1>7

LEMMA ChannelType ==
  ASSUME NEW s, NEW box \in Seq(Message)
  PROVE  PiChannel(s, box) \in Seq(Pi!Message) /\ Len(PiChannel(s, box)) = Len(box)
  <1>1. Silence \in Pi!Message
    BY DEF Silence, Pi!Message
  <1>2. /\ Len(box) \in Nat /\ DOMAIN box = 1 .. Len(box)
        /\ \A k \in 1 .. Len(box) : box[k] \in Message
    BY LenProperties, ElementOfSeq
  <1>3. PiChannel(s, box) \in [1 .. Len(box) -> Pi!Message]
    BY <1>1, <1>2, PiMessageIs DEF PiChannel
  <1> QED
    BY <1>2, <1>3

\* What is heard on the channel from s is in the inbox, and from s.
LEMMA ChannelContent ==
  ASSUME NEW s, NEW box \in Seq(Message)
  PROVE  /\ \A o \in Pi!Content(PiChannel(s, box)) :
              o = Silence \/ \E m \in Content(box) : m.from = s /\ o = PiMessage(m)
         /\ \A m \in Content(box) :
              m.from = s => PiMessage(m) \in Pi!Content(PiChannel(s, box))
  <1>1. DOMAIN PiChannel(s, box) = DOMAIN box
    BY DEF PiChannel
  <1>2. ASSUME NEW o \in Pi!Content(PiChannel(s, box))
        PROVE  o = Silence \/ \E m \in Content(box) : m.from = s /\ o = PiMessage(m)
    <2>1. PICK k \in DOMAIN box : o = PiChannel(s, box)[k]
      BY <1>1 DEF Pi!Content
    <2>2. box[k] \in Content(box)
      BY DEF Content
    <2> QED
      BY <2>1, <2>2 DEF PiChannel
  <1>3. ASSUME NEW m \in Content(box), m.from = s
        PROVE  PiMessage(m) \in Pi!Content(PiChannel(s, box))
    <2>1. PICK k \in DOMAIN box : m = box[k]
      BY DEF Content
    <2>2. PiChannel(s, box)[k] = PiMessage(m)
      BY <1>3, <2>1 DEF PiChannel
    <2> QED
      BY <1>1, <2>2 DEF Pi!Content
  <1> QED
    BY <1>2, <1>3

\* The message at the head of an inbox is at the head of its sender's channel.
LEMMA ChannelHead ==
  ASSUME NEW box \in Seq(Message), box # <<>>
  PROVE  LET m == Head(box)
         IN  Head(PiChannel(m.from, box)) = PiMessage(m)
  <1>1. 1 \in DOMAIN box /\ Head(box) = box[1]
    BY EmptySeq, LenProperties, HeadTailProperties
  <1>2. PiChannel(Head(box).from, box)[1] = PiMessage(Head(box))
    BY <1>1 DEF PiChannel
  <1>3. PiChannel(Head(box).from, box) \in Seq(Pi!Message)
    BY ChannelType
  <1> QED
    BY <1>2, <1>3

\* The pictures of the variables, before and after a step.
LEMMA Pictures ==
  ASSUME NEW i \in Coordinator
  PROVE  /\ PiState[i] = PiRole(state[i]) /\ PiState'[i] = PiRole(state'[i])
         /\ PiLogs[i] = PiLog(log[i]) /\ PiLogs'[i] = PiLog(log'[i])
         /\ PiVotes[i] = PiBallots(votes_received[i])
         /\ PiVotes'[i] = PiBallots(votes_received'[i])
         /\ \A s \in Coordinator : /\ PiNet[s][i] = PiChannel(s, inbox[i])
                                   /\ PiNet'[s][i] = PiChannel(s, inbox'[i])
  BY DEF PiState, PiLogs, PiVotes, PiNet

\* A role is what it is to the Pi, a follower apart from a leader of a side of a partition.
LEMMA PiRoles ==
  ASSUME NEW role \in NodeState
  PROVE  /\ PiRole(role) \in Pi!NodeState
         /\ PiRole(role) = Pi!Leader <=> role = Leader
         /\ PiRole(role) = Pi!Candidate <=> role = Candidate
         /\ PiRole(role) = Pi!Observer <=> role = Observer
         /\ Pi!Leading(PiRole(role)) <=> role = Leader
  BY DEF NodeState, Leader, Candidate, Observer, Follower, PiRole, Pi!Leading, Pi!NodeState,
         Pi!Leader, Pi!Candidate, Pi!Observer, Pi!LocalLeader, Pi!Follower

\* A message that i hears on a channel, as one of its inbox.
LEMMA Heard ==
  ASSUME TypeOK, NEW s \in Coordinator, NEW d \in Coordinator,
         NEW o \in Pi!Content(PiNet[s][d])
  PROVE  o = Silence \/ \E m \in Content(inbox[d]) : /\ m.from = s /\ o = PiMessage(m)
                                                     /\ m \in Message
  <1>1. inbox[d] \in Seq(Message) /\ d \in NodeId
    BY InboxesType DEF Inboxes, NodeId
  <1>2. o \in Pi!Content(PiChannel(s, inbox[d]))
    BY Pictures
  <1>3. o = Silence \/ \E m \in Content(inbox[d]) : m.from = s /\ o = PiMessage(m)
    BY <1>1, <1>2, ChannelContent
  <1> QED
    BY <1>1, <1>3, ContentType

LEMMA Hearing ==
  ASSUME TypeOK, NEW d \in Coordinator, NEW m \in Content(inbox[d]), m.from \in Coordinator
  PROVE  PiMessage(m) \in Pi!Content(PiNet[m.from][d])
  <1>1. inbox[d] \in Seq(Message) /\ d \in NodeId
    BY InboxesType DEF Inboxes, NodeId
  <1> QED
    BY <1>1, ChannelContent, Pictures

-----------------------------------------------------------------------------
(* What the picture satisfies in every state *)

LEMMA PiTyped ==
  ASSUME TypeOK
  PROVE  Pi!TypeOK
  <1>1. PiState \in [Coordinator -> Pi!NodeState]
    BY PiRoles DEF TypeOK, PiState
  <1>2. current_term \in [Coordinator -> Nat] /\ commit_index \in [Coordinator -> Nat]
    BY DEF TypeOK
  <1>3. PiVotedFor \in [Coordinator -> Coordinator \cup {Nobody}]
    <2>1. ASSUME NEW v \in Coordinator, OnRecord(v) # {}
          PROVE  (CHOOSE c \in OnRecord(v) : TRUE) \in Coordinator
      BY <2>1, Zenon DEF OnRecord
    <2> QED
      BY <2>1 DEF PiVotedFor
  <1>4. PiVotes \in [Coordinator -> [Coordinator -> {0, 100} \cup {Nobody}]]
    BY DEF PiVotes, PiBallots
  <1>5. PiLogs \in [Coordinator -> Seq(Pi!LogEntry)]
    BY PiEntries DEF TypeOK, PiLogs
  <1>6. /\ next_index \in [Coordinator -> [Coordinator -> Nat \ {0}]]
        /\ match_index \in [Coordinator -> [Coordinator -> Nat]]
    BY DEF TypeOK
  <1>7. PiNet \in [Coordinator -> [Coordinator -> Seq(Pi!Message)]]
    <2>1. \A d \in Coordinator : inbox[d] \in Seq(Message)
      BY InboxesType, NodesAreIds DEF Inboxes
    <2> QED
      BY <2>1, ChannelType DEF PiNet
  <1>8. PiElected \subseteq [term : Nat, leader : Coordinator, quorum : SUBSET Coordinator,
                             battery_level : {0, 100}]
    BY DEF TypeOK, PiElected, PiWin
  <1>9. ASSUME NEW S, NEW x \in S PROVE Constantly(x) \in [Coordinator -> S]
    BY DEF Constantly
  <1>10. /\ Constantly(Nobody) \in [Coordinator -> Coordinator \cup {Nobody}]
         /\ Constantly(<<>>) \in [Coordinator -> Seq(Pi!Reading)]
         /\ Constantly(<<>>) \in [Coordinator -> Seq(Pi!Command)]
         /\ Constantly(<<>>) \in [Coordinator -> Seq(Pi!Control)]
         /\ Constantly([l \in LeafId |-> Nobody])
              \in [Coordinator -> [LeafId -> Value \cup {Nobody}]]
         /\ Constantly(Constantly(0)) \in [Coordinator -> [Coordinator -> {0, 100} \cup {100}]]
         /\ Constantly(Constantly(0)) \in [Coordinator -> [Coordinator -> Nat]]
         /\ Constantly(FALSE) \in [Coordinator -> BOOLEAN]
         /\ Constantly(0) \in [Coordinator -> Nat] /\ Constantly(0) \in [Coordinator -> {0, 100}]
         /\ Constantly({}) \in [Coordinator -> SUBSET Coordinator]
    BY DEF Constantly
  <1> QED
    BY <1>1, <1>2, <1>3, <1>4, <1>5, <1>6, <1>7, <1>8, <1>10, Zenon DEF Pi!TypeOK

\* A win, and its picture.
LEMMA PiWins ==
  /\ \A e \in elected : /\ PiWin(e) \in PiElected /\ PiWin(e).term = e.term
                        /\ PiWin(e).leader = e.leader /\ PiWin(e).quorum = e.quorum
  /\ \A f \in PiElected : \E e \in elected : f = PiWin(e)
  BY DEF PiElected, PiWin

\* Whom the Pi has on record as a voter is on record here.
LEMMA PiGrants ==
  ASSUME TypeOK, NEW v \in Coordinator, NEW c \in Coordinator, NEW t \in Pi!GrantTerms(v, c)
  PROVE  t \in Nat /\ Voted(v, t, c)
  <1>1. CASE \E o \in Pi!Content(PiNet[v][c]) :
               o.type = "vote_response" /\ o.vote_granted /\ t = o.term
    <2>1. PICK o \in Pi!Content(PiNet[v][c]) :
            o.type = "vote_response" /\ o.vote_granted /\ t = o.term
      BY <1>1
    <2>2. o # Silence
      BY <2>1 DEF Silence
    <2>3. PICK m \in Content(inbox[c]) : m.from = v /\ o = PiMessage(m) /\ m \in Message
      BY <2>2, Heard
    <2>4. m.type = "RequestVoteResponse" /\ m.term = t /\ m.vote_granted /\ m.term \in Nat
      BY <2>1, <2>3, PiMessageIs, MessageFields
    <2> QED
      BY <2>3, <2>4 DEF Voted, Underway
  <1>2. CASE t = current_term[c] /\ PiState[c] = Pi!Candidate /\ v \in Pi!Voters(PiVotes[c])
    <2>1. state[c] = Candidate
      BY <1>2, Pictures, PiRoles DEF TypeOK
    <2>2. PiBallots(votes_received[c])[v] # Nobody
      BY <1>2, Pictures DEF Pi!Voters
    <2>3. v \in votes_received[c]
      BY <2>2 DEF PiBallots
    <2> QED
      BY <1>2, <2>1, <2>3 DEF Voted, Counted, TypeOK
  <1>3. CASE \E f \in PiElected : f.leader = c /\ v \in f.quorum /\ t = f.term
    <2>1. PICK e \in elected : e.leader = c /\ v \in e.quorum /\ t = e.term
      BY <1>3, PiWins
    <2> QED
      BY <2>1 DEF Voted, Counted, TypeOK
  <1> QED
    BY <1>1, <1>2, <1>3 DEF Pi!GrantTerms

\* What follows from the election invariant.
PiView ==
  /\ Pi!TypeOK /\ Pi!VotesRemembered /\ Pi!VotesOnce /\ Pi!ObserversStay /\ Pi!WonByMajority
  /\ Pi!ElectionSafety

LEMMA PiViewHolds ==
  ASSUME TypeOK, ElectionInv
  PROVE  PiView
  <1>1. Pi!TypeOK
    BY PiTyped
  <1>2. Pi!VotesRemembered
    <2> SUFFICES ASSUME NEW v \in Coordinator, NEW c \in Coordinator,
                        NEW t \in Pi!GrantTerms(v, c)
                 PROVE  t < current_term[v] \/ (t = current_term[v] /\ PiVotedFor[v] = c)
      BY DEF Pi!VotesRemembered
    <2>1. t \in Nat /\ Voted(v, t, c) /\ t <= current_term[v] /\ current_term[v] \in Nat
      BY PiGrants DEF ElectionInv, VotersRemember, TypeOK
    <2>2. CASE t = current_term[v]
      <3>1. c \in OnRecord(v)
        BY <2>1, <2>2 DEF OnRecord
      <3>2. \A d \in OnRecord(v) : d = c
        BY <2>1, <2>2 DEF OnRecord, ElectionInv, VotesOnce
      <3>3. (CHOOSE d \in OnRecord(v) : TRUE) = c
        BY <3>1, <3>2
      <3> QED
        BY <2>2, <3>1, <3>3 DEF PiVotedFor
    <2> QED
      BY <2>1, <2>2
  <1>3. Pi!VotesOnce
    <2> SUFFICES ASSUME NEW v \in Coordinator, NEW c \in Coordinator, NEW d \in Coordinator,
                        NEW t \in Pi!GrantTerms(v, c), t \in Pi!GrantTerms(v, d)
                 PROVE  c = d
      BY DEF Pi!VotesOnce
    <2> QED
      BY PiGrants DEF ElectionInv, VotesOnce
  <1>4. Pi!ObserversStay
    BY DEF Pi!ObserversStay, Constantly, Pi!T_LOW
  <1>5. Pi!WonByMajority
    BY PiWins, SameMajority DEF Pi!WonByMajority, ElectionInv, WonByMajority
  <1>6. Pi!ElectionSafety
    <2>1. OneWinnerPerTerm
      BY OneWinner
    <2> QED
      BY <2>1, PiWins DEF OneWinnerPerTerm, Pi!ElectionSafety
  <1> QED
    BY <1>1, <1>2, <1>3, <1>4, <1>5, <1>6 DEF PiView

-----------------------------------------------------------------------------
(* The kinds of steps *)

\* n starts no candidacy and no leadership.
KeepsRole(n) ==
  /\ current_term'[n] >= current_term[n]
  /\ state'[n] = Leader => state[n] = Leader /\ current_term'[n] = current_term[n]
  /\ state'[n] = Candidate =>
       /\ state[n] = Candidate /\ current_term'[n] = current_term[n]
       /\ votes_received'[n] = votes_received[n]

LEMMA RolesKept ==
  ASSUME TypeOK, TypeOK', NEW n \in Coordinator, KeepsRole(n)
  PROVE  Pi!Keeps(n)
  <1>1. state[n] \in NodeState /\ state'[n] \in NodeState
    BY DEF TypeOK
  <1>2. /\ Pi!Leading(PiState'[n]) <=> state'[n] = Leader
        /\ Pi!Leading(PiState[n]) <=> state[n] = Leader
        /\ PiState'[n] = Pi!Candidate <=> state'[n] = Candidate
        /\ PiState[n] = Pi!Candidate <=> state[n] = Candidate
    BY <1>1, Pictures, PiRoles
  <1>3. votes_received'[n] = votes_received[n] => PiVotes'[n] = PiVotes[n]
    BY Pictures
  <1> QED
    BY <1>2, <1>3, Zenon DEF Pi!Keeps, KeepsRole

LEMMA SamePictures ==
  /\ log' = log => PiLogs' = PiLogs
  /\ elected' = elected => PiElected' = PiElected
  /\ votes_received' = votes_received => PiVotes' = PiVotes
  /\ state' = state => PiState' = PiState
  BY DEF PiLogs, PiElected, PiVotes, PiState

LEMMA RestKind ==
  ASSUME TypeOK, TypeOK', UNCHANGED <<replicationVars, elected>>,
         \A n \in Coordinator : KeepsRole(n)
  PROVE  Pi!RestStep
  <1>1. PiLogs' = PiLogs /\ PiElected' = PiElected
    BY SamePictures DEF replicationVars
  <1>2. commit_index' = commit_index /\ next_index' = next_index /\ match_index' = match_index
    BY DEF replicationVars
  <1> QED
    BY <1>1, <1>2, RolesKept DEF Pi!RestStep, Pi!replicationVars

\* A step that leaves terms and votes as they are, and makes nobody a leader or candidate.
LEMMA SameTermsKeep ==
  ASSUME TypeOK, UNCHANGED <<current_term, votes_received>>,
         \A n \in Coordinator : state'[n] \in {state[n], Follower, Observer}
  PROVE  \A n \in Coordinator : KeepsRole(n)
  <1> SUFFICES ASSUME NEW n \in Coordinator PROVE KeepsRole(n)
    OBVIOUS
  <1>1. current_term[n] \in Nat /\ current_term'[n] = current_term[n]
        /\ votes_received'[n] = votes_received[n]
    BY DEF TypeOK
  <1>2. state'[n] \in {Leader, Candidate} => state'[n] = state[n]
    BY DEF Follower, Observer, Leader, Candidate
  <1> QED
    BY <1>1, <1>2 DEF KeepsRole

\* A step in which i enters a term that it hears of.
LEMMA EnteringKeeps ==
  ASSUME TypeOK, NEW i \in Coordinator, NEW term \in Nat, votes_received' = votes_received,
         current_term' = [current_term EXCEPT ![i] = TermAfter(i, term)],
         NEW role \in {StateAfter(i, term), Follower}, state' = [state EXCEPT ![i] = role]
  PROVE  \A n \in Coordinator : KeepsRole(n)
  <1> SUFFICES ASSUME NEW n \in Coordinator PROVE KeepsRole(n)
    OBVIOUS
  <1>1. current_term[n] \in Nat
    BY DEF TypeOK
  <1>2. CASE n = i
    <2>1. current_term'[n] = TermAfter(i, term) /\ state'[n] = role
      BY <1>2 DEF TypeOK
    <2> QED
      BY <1>1, <1>2, <2>1 DEF KeepsRole, TermAfter, StateAfter, Newer, Follower, Leader, Candidate
  <1>3. CASE n # i
    <2>1. current_term'[n] = current_term[n] /\ state'[n] = state[n]
      BY <1>3 DEF TypeOK
    <2> QED
      BY <1>1, <2>1 DEF KeepsRole
  <1> QED
    BY <1>2, <1>3

LEMMA SteppingDownKeeps ==
  ASSUME TypeOK, NEW i \in Coordinator, NEW term \in Nat, votes_received' = votes_received,
         StepDown(i, term)
  PROVE  \A n \in Coordinator : KeepsRole(n)
  BY EnteringKeeps DEF StepDown

LEMMA StartKind ==
  ASSUME TypeOK, NEW i \in Coordinator, NEW rest, NEW term \in Nat, term >= current_term[i],
         StartElection(rest, i, term), UNCHANGED replicationVars
  PROVE  Pi!StartStep(i)
  <1>1. PiLogs' = PiLogs /\ PiElected' = PiElected
    BY SamePictures DEF replicationVars, StartElection
  <1>2. commit_index' = commit_index /\ next_index' = next_index /\ match_index' = match_index
    BY DEF replicationVars
  <1>3. /\ term + 1 \in Nat /\ term + 1 > current_term[i]
        /\ current_term' = [current_term EXCEPT ![i] = term + 1]
    BY DEF StartElection, TypeOK
  <1>4. PiState' = [PiState EXCEPT ![i] = Pi!Candidate]
    <2>1. state' = [state EXCEPT ![i] = Candidate] /\ state \in [Coordinator -> NodeState]
      BY DEF StartElection, TypeOK
    <2>2. PiRole(Candidate) = Pi!Candidate
      BY PiRoles DEF NodeState
    <2> QED
      BY <2>1, <2>2 DEF PiState
  <1>5. PiVotes' = [PiVotes EXCEPT ![i] = [Pi!NoVotes EXCEPT ![i] = Constantly(0)[i]]]
    <2>1. votes_received' = [votes_received EXCEPT ![i] = {i}]
          /\ votes_received \in [Coordinator -> SUBSET Coordinator]
      BY DEF StartElection, TypeOK
    <2>2. PiBallots({i}) = [Pi!NoVotes EXCEPT ![i] = Constantly(0)[i]]
      BY DEF PiBallots, Pi!NoVotes, Constantly
    <2> QED
      BY <2>1, <2>2 DEF PiVotes
  <1> QED
    BY <1>1, <1>2, <1>3, <1>4, <1>5 DEF Pi!StartStep, Pi!replicationVars

\* A proposal extends the picture of the log as it extends the log.
LEMMA PiExtended ==
  ASSUME TypeOK, NEW i \in Coordinator, NEW command \in SUBSET Reading
  PROVE  /\ <<command>> \in Seq(Pi!Command)
         /\ PiLog(Extended(i, command)) = Pi!Extended(i, <<command>>)
  <1> DEFINE e == [term |-> current_term[i], command |-> command]
  <1>1. e \in LogEntry /\ log[i] \in Seq(LogEntry)
    BY DEF TypeOK, LogEntry
  <1>2. <<command>> \in Seq(Pi!Command)
    BY DEF Pi!Command, Pi!Reading, Reading
  <1>3. PiLog(<<e>>) = <<PiEntry(e)>>
    <2> DEFINE single == <<e>>
    <2> HIDE DEF e
    <2>1. single \in Seq(LogEntry) /\ Len(single) = 1 /\ single[1] = e
      BY <1>1
    <2> HIDE DEF single
    <2>2. /\ PiLog(single) \in Seq(Pi!LogEntry) /\ Len(PiLog(single)) = 1
          /\ \A n \in 1 .. 1 : PiLog(single)[n] = PiEntry(single[n])
      BY <2>1, PiEntries
    <2>3. PiLog(single)[1] = PiEntry(e)
      BY <2>1, <2>2
    <2>4. PiLog(single) = <<PiEntry(e)>>
      BY <2>2, <2>3
    <2> QED
      BY <2>4 DEF single
  <1>4. Pi!NewEntries(i, <<command>>) = <<PiEntry(e)>>
    BY DEF Pi!NewEntries, PiEntry, Constantly
  <1>5. Extended(i, command) = log[i] \o <<e>>
    BY <1>1, AppendIsConcat DEF Extended
  <1>6. PiLog(log[i] \o <<e>>) = PiLog(log[i]) \o PiLog(<<e>>)
    <2> DEFINE single == <<e>>
    <2> HIDE DEF e
    <2>1. single \in Seq(LogEntry)
      BY <1>1
    <2> HIDE DEF single
    <2>2. PiLog(log[i] \o single) = PiLog(log[i]) \o PiLog(single)
      BY <1>1, <2>1, PiConcat
    <2> QED
      BY <2>2 DEF single
  <1> QED
    BY <1>2, <1>3, <1>4, <1>5, <1>6, Pictures DEF Pi!Extended

LEMMA PiGrowth ==
  ASSUME TypeOK, NEW i \in Coordinator,
         \/ log' = log
         \/ \E command \in SUBSET Reading : log' = [log EXCEPT ![i] = Extended(i, command)]
  PROVE  Pi!GrowStep(i)
  <1>1. PiLogs \in [Coordinator -> Seq(Pi!LogEntry)]
    BY PiEntries DEF TypeOK, PiLogs
  <1>2. CASE log' = log
    <2>1. Pi!NewEntries(i, <<>>) = <<>>
      BY DEF Pi!NewEntries
    <2>2. Pi!Extended(i, <<>>) = PiLogs[i]
      BY <1>1, <2>1 DEF Pi!Extended
    <2>3. PiLogs' = [PiLogs EXCEPT ![i] = Pi!Extended(i, <<>>)]
      BY <1>1, <1>2, <2>2, SamePictures
    <2>4. <<>> \in Seq(Pi!Command)
      OBVIOUS
    <2> QED
      BY <2>3, <2>4 DEF Pi!GrowStep
  <1>3. ASSUME NEW command \in SUBSET Reading, log' = [log EXCEPT ![i] = Extended(i, command)]
        PROVE  Pi!GrowStep(i)
    <2>1. PiLogs' = [PiLogs EXCEPT ![i] = PiLog(Extended(i, command))]
      BY <1>3 DEF TypeOK, PiLogs
    <2> QED
      BY <2>1, PiExtended DEF Pi!GrowStep
  <1> QED
    BY <1>2, <1>3

LEMMA ProposeKind ==
  ASSUME TypeOK, NEW i \in Coordinator, state[i] = Leader,
         state' \in {state, [state EXCEPT ![i] = Follower]},
         UNCHANGED <<current_term, votes_received, elected, commit_index, next_index,
                     match_index>>,
         \/ log' = log
         \/ \E command \in SUBSET Reading : log' = [log EXCEPT ![i] = Extended(i, command)]
  PROVE  Pi!ProposeStep(i)
  <1>1. Pi!Leading(PiState[i])
    BY Pictures, PiRoles DEF TypeOK
  <1>2. PiState' \in {PiState, Pi!HandedOver(i)}
    <2>1. state \in [Coordinator -> NodeState]
      BY DEF TypeOK
    <2>2. PiRole(Follower) = Pi!Follower
      BY DEF PiRole, Follower, Leader, Candidate, Observer, Pi!Follower
    <2> QED
      BY <2>1, <2>2 DEF PiState, Pi!HandedOver
  <1>3. PiVotes' = PiVotes /\ PiElected' = PiElected
    BY SamePictures
  <1>4. Pi!GrowStep(i)
    BY PiGrowth
  <1> QED
    BY <1>1, <1>2, <1>3, <1>4 DEF Pi!ProposeStep

\* The message that i takes is at the head of the channel from its sender.
LEMMA TakenHeard ==
  ASSUME TypeOK, NEW i \in Coordinator, NEW type, Takes(i, type)
  PROVE  LET m == Head(inbox[i])
         IN  /\ m \in Message /\ m.type = type /\ m \in Content(inbox[i])
             /\ m.from \in Coordinator =>
                  /\ Head(PiNet[m.from][i]) = PiMessage(m)
                  /\ PiMessage(m) \in Pi!Content(PiNet[m.from][i])
  <1> DEFINE m == Head(inbox[i])
  <1>1. inbox \in Inboxes /\ i \in NodeId
    BY InboxesType, NodesAreIds
  <1>2. m \in Message /\ m.type = type /\ m \in Content(inbox[i])
    BY <1>1, TakesType
  <1>3. inbox[i] \in Seq(Message) /\ inbox[i] # <<>>
    BY <1>1 DEF Inboxes, Takes
  <1>4. Head(PiChannel(m.from, inbox[i])) = PiMessage(m)
    BY <1>3, ChannelHead
  <1>5. m.from \in Coordinator => PiNet[m.from][i] = PiChannel(m.from, inbox[i])
    BY Pictures
  <1> HIDE DEF m
  <1>6. m.from \in Coordinator => PiMessage(m) \in Pi!Content(PiNet[m.from][i])
    BY <1>2, Hearing
  <1> QED
    BY <1>2, <1>4, <1>5, <1>6 DEF m

LEMMA PiVoters ==
  ASSUME NEW votes \in SUBSET Coordinator
  PROVE  /\ Pi!Voters(PiBallots(votes)) = votes
         /\ \A s \in Coordinator : PiBallots(votes \cup {s}) = [PiBallots(votes) EXCEPT ![s] = 0]
  <1>1. Nobody # 0
    BY NobodyIs
  <1>2. Pi!Voters(PiBallots(votes)) = votes
    BY <1>1 DEF Pi!Voters, PiBallots
  <1>3. ASSUME NEW s \in Coordinator
        PROVE  PiBallots(votes \cup {s}) = [PiBallots(votes) EXCEPT ![s] = 0]
    BY DEF PiBallots
  <1> QED
    BY <1>2, <1>3

LEMMA HandleVoteResponseKind ==
  ASSUME TypeOK, TypeOK', NEW i \in Coordinator, HandleVoteResponse(i)
  PROVE  Pi!StepKind
  <1> DEFINE m == Head(inbox[i])
             s == m.from
             votes == IF m.vote_granted THEN votes_received[i] \cup {s} ELSE votes_received[i]
             counts == state[i] = Candidate /\ m.term = current_term[i]
  <1>1. Takes(i, "RequestVoteResponse")
    BY DEF HandleVoteResponse
  <1>2. /\ m \in Message /\ m.type = "RequestVoteResponse"
        /\ s \in Coordinator /\ m.term \in Nat /\ m.vote_granted \in BOOLEAN
        /\ Head(PiNet[s][i]) = PiMessage(m) /\ PiMessage(m) \in Pi!Content(PiNet[s][i])
    BY <1>1, TakenHeard, MessageFields
  <1>3. /\ PiMessage(m).type = "vote_response" /\ PiMessage(m).term = m.term
        /\ PiMessage(m).vote_granted = m.vote_granted /\ PiMessage(m).voter_battery = 0
    BY <1>2, PiMessageIs
  <1>4. /\ votes_received' = [votes_received EXCEPT ![i] = IF counts THEN votes ELSE @]
        /\ UNCHANGED <<log, commit_index>>
        /\ \/ /\ counts /\ HasMajority(votes)
              /\ BecomeLeader(Rest(i), i, votes)
              /\ UNCHANGED <<current_term, voted_for>>
           \/ /\ ~(counts /\ HasMajority(votes))
              /\ StepDown(i, m.term)
              /\ UNCHANGED <<next_index, match_index, elected>>
    BY DEF HandleVoteResponse
  <1>5. votes \in SUBSET Coordinator /\ votes_received \in [Coordinator -> SUBSET Coordinator]
    BY <1>2 DEF TypeOK
  <1> HIDE DEF m
  <1>6. CASE ~counts
    <2>1. votes_received' = votes_received
      BY <1>4, <1>5, <1>6
    <2>2. \A n \in Coordinator : KeepsRole(n)
      BY <1>2, <1>4, <1>6, <2>1, SteppingDownKeeps
    <2>3. UNCHANGED <<replicationVars, elected>>
      BY <1>4, <1>6 DEF replicationVars
    <2> QED
      BY <2>2, <2>3, RestKind DEF Pi!StepKind
  <1>7. CASE counts
    <2>1. PiVotes' = [PiVotes EXCEPT ![i] = Pi!Ballots(i, s)]
          /\ Pi!Voters(Pi!Ballots(i, s)) = votes
      <3>1. PiVotes' = [PiVotes EXCEPT ![i] = PiBallots(votes)]
        BY <1>4, <1>5, <1>7 DEF PiVotes
      <3>2. Pi!Ballots(i, s) = PiBallots(votes)
        <4>1. Pi!Ballots(i, s) = IF m.vote_granted THEN [PiVotes[i] EXCEPT ![s] = 0]
                                 ELSE PiVotes[i]
          BY <1>2, <1>3 DEF Pi!Ballots
        <4>2. PiVotes[i] = PiBallots(votes_received[i]) /\ votes_received[i] \in SUBSET Coordinator
          BY <1>5, Pictures
        <4> QED
          BY <1>2, <4>1, <4>2, PiVoters
      <3> QED
        BY <1>5, <3>1, <3>2, PiVoters
    <2>2. PiState[i] = Pi!Candidate
      BY <1>7, Pictures, PiRoles DEF TypeOK
    <2>3. UNCHANGED <<current_term, commit_index>>
      <3>1. ~HasMajority(votes) => current_term' = current_term
        BY <1>2, <1>4, <1>7 DEF StepDown, TermAfter, Newer, TypeOK
      <3> QED
        BY <1>4, <1>7, <3>1
    <2>4. Pi!Counting(i, s)
      BY <1>2, <1>3, <1>7, <2>1, <2>2, <2>3 DEF Pi!Counting
    <2>5. CASE HasMajority(votes)
      <3>1. BecomeLeader(Rest(i), i, votes) /\ log' = log
        BY <1>4, <1>7, <2>5
      <3>2. Pi!IsMajority(Pi!Voters(Pi!Ballots(i, s)))
        BY <2>1, <2>5, SameMajority
      <3>3. PiState' = [PiState EXCEPT ![i] = Pi!Leader]
        <4>1. state' = [state EXCEPT ![i] = Leader] /\ state \in [Coordinator -> NodeState]
          BY <3>1 DEF BecomeLeader, TypeOK
        <4>2. PiRole(Leader) = Pi!Leader
          BY PiRoles DEF NodeState
        <4> QED
          BY <4>1, <4>2 DEF PiState
      <3>4. PiElected' = PiElected \cup {[term |-> current_term[i], leader |-> i,
                                          quorum |-> votes, battery_level |-> 0]}
        <4> DEFINE win == [term |-> current_term[i], leader |-> i, quorum |-> votes]
        <4>1. elected' = elected \cup {win}
          BY <3>1 DEF BecomeLeader
        <4>2. PiWin(win) = [term |-> current_term[i], leader |-> i, quorum |-> votes,
                            battery_level |-> 0]
          BY DEF PiWin
        <4> HIDE DEF win
        <4>3. PiElected' = PiElected \cup {PiWin(win)}
          BY <4>1 DEF PiElected
        <4> QED
          BY <4>2, <4>3
      <3>5. /\ next_index' = [next_index EXCEPT ![i] = [p \in Coordinator |-> Len(PiLogs[i]) + 1]]
            /\ match_index' = [match_index EXCEPT ![i] = [p \in Coordinator |-> 0]]
        <4>1. Len(PiLogs[i]) = Len(log[i])
          BY Pictures, PiEntries DEF TypeOK
        <4> QED
          BY <3>1, <4>1 DEF BecomeLeader
      <3>6. Pi!GrowStep(i)
        BY <3>1, PiGrowth
      <3>7. \E level : PiElected' = PiElected \cup
              {[term |-> current_term[i], leader |-> i,
                quorum |-> Pi!Voters(Pi!Ballots(i, s)), battery_level |-> level]}
        BY <2>1, <3>4
      <3>8. Pi!WinningStep(i, s)
        BY <2>4, <3>2, <3>3, <3>5, <3>6, <3>7 DEF Pi!WinningStep
      <3> QED
        BY <1>2, <3>8 DEF Pi!StepKind
    <2>6. CASE ~HasMajority(votes)
      <3>1. UNCHANGED <<elected, log, next_index, match_index>> /\ StepDown(i, m.term)
        BY <1>4, <2>6
      <3>2. state' = state
        BY <1>2, <1>7, <3>1 DEF StepDown, StateAfter, Newer, TypeOK
      <3>3. UNCHANGED <<PiState, PiElected, PiLogs, next_index, match_index>>
        BY <3>1, <3>2, SamePictures
      <3>4. Pi!CountStep(i, s)
        BY <2>4, <3>3 DEF Pi!CountStep
      <3> QED
        BY <1>2, <3>4 DEF Pi!StepKind
    <2> QED
      BY <2>5, <2>6
  <1> QED
    BY <1>6, <1>7

\* Entries under way are never without one, so the entry before them is looked for.
LEMMA FitsConsistently ==
  ASSUME TypeOK, PositiveTerms, Pi!EntriesEnd, NEW i \in Coordinator,
         Takes(i, "AppendEntriesRPC"), Fits(i, Head(inbox[i]))
  PROVE  LET m == Head(inbox[i])
         IN  /\ m.prev_log_index <= Len(log[i])
             /\ Pi!Consistent(PiLogs[i], m.prev_log_index, m.prev_log_term)
  <1> DEFINE m == Head(inbox[i])
  <1>1. /\ m \in Message /\ m.type = "AppendEntriesRPC" /\ m \in Content(inbox[i])
        /\ m.from \in Coordinator /\ m.prev_log_index \in Nat /\ m.prev_log_term \in Nat
        /\ m.entries \in Seq(LogEntry)
        /\ PiMessage(m) \in Pi!Content(PiNet[m.from][i])
    BY TakenHeard, MessageFields
  <1>2. Fits(i, m)
    OBVIOUS
  <1>3. RoundHasTerms(m)
    BY <1>1, NodesAreIds DEF PositiveTerms, RoundsHaveTerms
  <1> HIDE DEF m
  <1>4. m.entries # <<>>
    <2>1. PiMessage(m).type = "append_entries" /\ PiMessage(m).entries = PiLog(m.entries)
      BY <1>1, PiMessageIs
    <2>2. PiLog(m.entries) # <<>>
      BY <1>1, <2>1 DEF Pi!EntriesEnd
    <2> QED
      BY <1>1, <2>2, PiEntries
  <1>5. log[i] \in Seq(LogEntry) /\ Len(log[i]) \in Nat /\ DOMAIN log[i] = 1 .. Len(log[i])
    BY PiEntries DEF TypeOK
  <1>6. CASE m.prev_log_index = 0
    BY <1>5, <1>6 DEF Pi!Consistent, m
  <1>7. CASE m.prev_log_index > 0
    <2>1. TermAt(log[i], m.prev_log_index) = m.prev_log_term /\ m.prev_log_term > 0
      BY <1>1, <1>2, <1>3, <1>4, <1>7 DEF Fits, RoundHasTerms
    <2>2. /\ m.prev_log_index \in 1 .. Len(log[i])
          /\ log[i][m.prev_log_index].term = m.prev_log_term
      BY <1>5, <2>1 DEF TermAt
    <2>3. /\ PiLogs[i][m.prev_log_index].term = m.prev_log_term
          /\ Len(PiLogs[i]) = Len(log[i])
      BY <1>5, <2>2, PiEntries, Pictures
    <2> QED
      BY <1>5, <2>2, <2>3 DEF Pi!Consistent, m
  <1> QED
    BY <1>1, <1>6, <1>7

LEMMA HandleAppendEntriesKind ==
  ASSUME TypeOK, TypeOK', PositiveTerms, Pi!EntriesEnd,
         NEW i \in Coordinator, HandleAppendEntries(i)
  PROVE  Pi!StepKind
  <1> DEFINE m == Head(inbox[i])
             s == m.from
             role == IF StateAfter(i, m.term) = Candidate THEN Follower ELSE StateAfter(i, m.term)
             merged == MergedLog(log[i], m.prev_log_index, m.entries)
  <1>1. Takes(i, "AppendEntriesRPC")
    BY DEF HandleAppendEntries
  <1>2. /\ m \in Message /\ m.type = "AppendEntriesRPC"
        /\ s \in Coordinator /\ m.term \in Nat /\ m.prev_log_index \in Nat
        /\ m.entries \in Seq(LogEntry) /\ m.leader_commit \in Nat
        /\ Head(PiNet[s][i]) = PiMessage(m) /\ PiMessage(m) \in Pi!Content(PiNet[s][i])
    BY <1>1, TakenHeard, MessageFields
  <1>3. /\ PiMessage(m).type = "append_entries" /\ PiMessage(m).term = m.term
        /\ PiMessage(m).prev_log_index = m.prev_log_index
        /\ PiMessage(m).prev_log_term = m.prev_log_term
        /\ PiMessage(m).entries = PiLog(m.entries)
        /\ PiMessage(m).leader_commit = m.leader_commit
    BY <1>2, PiMessageIs
  <1>4. /\ current_term' = [current_term EXCEPT ![i] = TermAfter(i, m.term)]
        /\ UNCHANGED <<votes_received, elected, next_index, match_index>>
        /\ \/ /\ m.term < current_term[i]
              /\ UNCHANGED <<state, log, commit_index>>
           \/ /\ m.term >= current_term[i]
              /\ state' = [state EXCEPT ![i] = role]
              /\ \/ UNCHANGED <<log, commit_index>>
                 \/ /\ Fits(i, m)
                    /\ log' = [log EXCEPT ![i] = merged]
                    /\ commit_index' = [commit_index EXCEPT ![i] =
                         CommitAfter(@, m.leader_commit, Len(merged))]
    BY DEF HandleAppendEntries
  <1>5. state \in [Coordinator -> NodeState] /\ current_term \in [Coordinator -> Nat]
        /\ log \in [Coordinator -> Seq(LogEntry)] /\ commit_index \in [Coordinator -> Nat]
    BY DEF TypeOK
  <1>6. Fits(i, m) => /\ m.prev_log_index <= Len(log[i])
                      /\ Pi!Consistent(PiLogs[i], m.prev_log_index, m.prev_log_term)
    BY <1>1, FitsConsistently
  <1> HIDE DEF m
  <1>7. \A n \in Coordinator : KeepsRole(n)
    <2>1. CASE m.term >= current_term[i]
      <3>1. role \in {StateAfter(i, m.term), Follower}
        OBVIOUS
      <3>2. state' = [state EXCEPT ![i] = role]
        BY <1>2, <1>4, <1>5, <2>1
      <3> HIDE DEF role
      <3> QED
        BY <1>2, <1>4, <3>1, <3>2, EnteringKeeps
    <2>2. CASE m.term < current_term[i]
      <3>1. state' = state /\ current_term' = current_term
        BY <1>2, <1>4, <1>5, <2>2 DEF TermAfter, Newer
      <3> QED
        BY <1>4, <3>1, SameTermsKeep
    <2> QED
      BY <1>2, <1>5, <2>1, <2>2
  <1>8. CASE UNCHANGED <<log, commit_index>>
    BY <1>4, <1>7, <1>8, RestKind DEF replicationVars, Pi!StepKind
  <1>9. CASE /\ m.term >= current_term[i] /\ Fits(i, m)
             /\ state' = [state EXCEPT ![i] = role]
             /\ log' = [log EXCEPT ![i] = merged]
             /\ commit_index' = [commit_index EXCEPT ![i] =
                  CommitAfter(@, m.leader_commit, Len(merged))]
    <2> DEFINE piMerged == Pi!Merged(PiLogs[i], m.prev_log_index, PiLog(m.entries))
    <2>1. m.prev_log_index <= Len(log[i])
      BY <1>6, <1>9
    <2>2. merged = Merged(log[i], m.prev_log_index, m.entries) /\ merged \in Seq(LogEntry)
      BY <1>2, <1>5, <2>1, MergedLogType DEF MergedLog
    <2>3. PiLog(merged) = piMerged
      BY <1>2, <1>5, <2>1, <2>2, PiMerged, Pictures
    <2>4. PiLogs' = [PiLogs EXCEPT ![i] = piMerged] /\ Len(piMerged) = Len(merged)
      <3> HIDE DEF merged, piMerged
      <3>1. PiLogs' = [PiLogs EXCEPT ![i] = PiLog(merged)]
        BY <1>5, <1>9 DEF PiLogs
      <3> QED
        BY <2>2, <2>3, <3>1, PiEntries
    <2>5. commit_index' \in
            {commit_index, [commit_index EXCEPT ![i] =
                              Pi!CommitAfter(@, m.leader_commit, Len(piMerged))]}
      <3> DEFINE len == Len(merged)
      <3>1. commit_index' = [commit_index EXCEPT ![i] = CommitAfter(@, m.leader_commit, len)]
            /\ Len(piMerged) = len /\ len \in Nat
        BY <1>9, <2>2, <2>4, PiEntries
      <3> HIDE DEF len, piMerged
      <3>2. CommitAfter(commit_index[i], m.leader_commit, len) \in
              {commit_index[i], Pi!CommitAfter(commit_index[i], m.leader_commit, len)}
        BY <1>2, <1>5, <3>1 DEF CommitAfter, Pi!CommitAfter
      <3> QED
        BY <1>5, <3>1, <3>2
    <2>6. current_term' = [current_term EXCEPT ![i] = m.term]
      <3>1. TermAfter(i, m.term) = m.term
        BY <1>2, <1>5, <1>9 DEF TermAfter, Newer
      <3> QED
        BY <1>4, <3>1
    <2>7. PiState'[i] # Pi!Candidate
      <3>1. state'[i] # Candidate /\ state'[i] \in NodeState
        BY <1>5, <1>9 DEF TypeOK, Follower, Candidate
      <3> QED
        BY <3>1, Pictures, PiRoles
    <2>8. \A n \in Coordinator : Pi!Keeps(n)
      BY <1>7, RolesKept
    <2>9. PiElected' = PiElected
      BY <1>4, SamePictures
    <2>10. Pi!Consistent(PiLogs[i], m.prev_log_index, m.prev_log_term)
      BY <1>6, <1>9
    <2> HIDE DEF piMerged, merged, role
    <2>11. Pi!AcceptStep(i, s)
      BY <1>2, <1>3, <1>4, <1>9, <2>4, <2>5, <2>6, <2>7, <2>8, <2>9, <2>10
         DEF Pi!AcceptStep, piMerged
    <2> QED
      BY <1>2, <2>11 DEF Pi!StepKind
  <1> QED
    BY <1>4, <1>8, <1>9

\* What a leader may commit is the same to the Pi, which moves to the last of it.
LEMMA AdvanceKind ==
  ASSUME TypeOK, NEW i \in Coordinator, NEW match, TryAdvanceCommit(i, match)
  PROVE  Pi!TryAdvanceCommit(i, match)
  <1> DEFINE ready == Committable(log[i], commit_index[i], current_term[i], match,
                                  Cardinality(Coordinator))
             greatest == CHOOSE n \in ready : \A k \in ready : k <= n
  <1>1. commit_index \in [Coordinator -> Nat] /\ log[i] \in Seq(LogEntry) /\ Len(log[i]) \in Nat
    BY LenProperties DEF TypeOK
  <1>2. Pi!Committable(PiLogs[i], commit_index[i], current_term[i], match,
                       Pi!Cardinality(Coordinator)) = ready
    <2>1. Len(PiLogs[i]) = Len(log[i])
          /\ \A n \in 1 .. Len(log[i]) : PiLogs[i][n].term = log[i][n].term
      BY <1>1, Pictures, PiEntries
    <2>2. ASSUME NEW n \in commit_index[i] + 1 .. Len(log[i])
          PROVE  PiLogs[i][n].term = log[i][n].term
      BY <1>1, <2>1
    <2>3. \A n : Pi!Cardinality({p \in DOMAIN match : match[p] >= n})
                   = Cardinality({p \in DOMAIN match : match[p] >= n})
      BY SameCardinality
    <2>4. Pi!Cardinality(Coordinator) = Cardinality(Coordinator)
      BY SameCardinality
    <2> QED
      BY <2>1, <2>2, <2>3, <2>4 DEF Committable, Pi!Committable
  <1>3. commit_index' = [commit_index EXCEPT ![i] = IF ready = {} THEN @ ELSE greatest]
    BY DEF TryAdvanceCommit
  <1>4. \A n \in ready : n \in commit_index[i] + 1 .. Len(log[i])
    BY CommittableBounds, Zenon
  <1>5. \A n \in ready : n \in 0 .. Len(log[i])
    BY <1>1, <1>4
  <1> HIDE DEF ready
  <1>6. ready # {} => \E n \in ready : \A k \in ready : k <= n
    BY <1>1, <1>5, GreatestOfBounded
  <1>7. ready # {} => greatest \in ready /\ \A k \in ready : k <= greatest
    BY <1>6, Zenon
  <1> HIDE DEF greatest
  <1>8. CASE ready = {}
    <2>1. commit_index' = commit_index
      BY <1>1, <1>3, <1>8
    <2> QED
      BY <1>2, <1>8, <2>1 DEF Pi!TryAdvanceCommit
  <1>9. CASE ready # {}
    <2>1. commit_index' = [commit_index EXCEPT ![i] = greatest]
      BY <1>3, <1>9
    <2> QED
      BY <1>2, <1>7, <1>9, <2>1 DEF Pi!TryAdvanceCommit
  <1> QED
    BY <1>8, <1>9

LEMMA HandleAppendResponseKind ==
  ASSUME TypeOK, TypeOK', NEW i \in Coordinator, HandleAppendResponse(i)
  PROVE  Pi!StepKind
  <1> DEFINE m == Head(inbox[i])
             s == m.from
             counts == m.term <= current_term[i] /\ state[i] = Leader
             match == [match_index[i] EXCEPT ![s] = m.match_index]
  <1>1. Takes(i, "AppendEntriesResponse")
    BY DEF HandleAppendResponse
  <1>2. /\ m \in Message /\ m.type = "AppendEntriesResponse"
        /\ s \in Coordinator /\ m.term \in Nat /\ m.success \in BOOLEAN /\ m.match_index \in Nat
        /\ Head(PiNet[s][i]) = PiMessage(m) /\ PiMessage(m) \in Pi!Content(PiNet[s][i])
    BY <1>1, TakenHeard, MessageFields
  <1>3. /\ PiMessage(m).type = "append_response" /\ PiMessage(m).term = m.term
        /\ PiMessage(m).success = m.success /\ PiMessage(m).match_index = m.match_index
    BY <1>2, PiMessageIs
  <1>4. /\ StepDown(i, m.term)
        /\ next_index' = [next_index EXCEPT ![i][s] = IF counts THEN NextIndex(@, m) ELSE @]
        /\ UNCHANGED <<votes_received, elected, log>>
        /\ \/ /\ counts /\ m.success
              /\ match_index' = [match_index EXCEPT ![i] = match]
              /\ TryAdvanceCommit(i, match)
           \/ /\ ~(counts /\ m.success)
              /\ UNCHANGED <<match_index, commit_index>>
    BY DEF HandleAppendResponse
  <1>5. /\ state \in [Coordinator -> NodeState] /\ current_term \in [Coordinator -> Nat]
        /\ next_index \in [Coordinator -> [Coordinator -> Nat \ {0}]]
    BY DEF TypeOK
  <1> HIDE DEF m
  <1>6. CASE ~counts
    <2>1. next_index' = next_index
      BY <1>2, <1>4, <1>5, <1>6
    <2>2. UNCHANGED <<replicationVars, elected>>
      BY <1>4, <1>6, <2>1 DEF replicationVars
    <2>3. \A n \in Coordinator : KeepsRole(n)
      BY <1>2, <1>4, SteppingDownKeeps
    <2> QED
      BY <2>2, <2>3, RestKind DEF Pi!StepKind
  <1>7. CASE counts
    <2>1. UNCHANGED <<state, current_term>>
      BY <1>2, <1>4, <1>5, <1>7 DEF StepDown, TermAfter, StateAfter, Newer
    <2>2. UNCHANGED <<PiState, current_term, PiVotes, PiElected, PiLogs>>
      BY <1>4, <2>1, SamePictures
    <2>3. PiState[i] = Pi!Leader
      BY <1>5, <1>7, Pictures, PiRoles
    <2>4. next_index' = [next_index EXCEPT ![i][s] = Pi!NextIndex(PiMessage(m), @)]
      <3>1. Pi!NextIndex(PiMessage(m), next_index[i][s]) = NextIndex(next_index[i][s], m)
        BY <1>3 DEF NextIndex, Pi!NextIndex
      <3>2. next_index' = [next_index EXCEPT ![i][s] = NextIndex(next_index[i][s], m)]
        BY <1>2, <1>4, <1>5, <1>7
      <3>3. [next_index EXCEPT ![i][s] = Pi!NextIndex(PiMessage(m), @)]
              = [next_index EXCEPT ![i][s] = Pi!NextIndex(PiMessage(m), next_index[i][s])]
        BY <1>2, <1>5
      <3> QED
        BY <3>1, <3>2, <3>3
    <2>5. \/ /\ PiMessage(m).success
             /\ match_index' = [match_index EXCEPT ![i] =
                  [match_index[i] EXCEPT ![s] = PiMessage(m).match_index]]
             /\ Pi!TryAdvanceCommit(i, [match_index[i] EXCEPT ![s] = PiMessage(m).match_index])
          \/ ~PiMessage(m).success /\ UNCHANGED <<match_index, commit_index>>
      <3> HIDE DEF match
      <3>1. TryAdvanceCommit(i, match) => Pi!TryAdvanceCommit(i, match)
        BY AdvanceKind
      <3>2. match = [match_index[i] EXCEPT ![s] = PiMessage(m).match_index]
        BY <1>3 DEF match
      <3> QED
        BY <1>3, <1>4, <1>7, <3>1, <3>2
    <2>6. Pi!AckStep(i, s)
      BY <1>2, <1>3, <1>7, <2>2, <2>3, <2>4, <2>5 DEF Pi!AckStep
    <2> QED
      BY <1>2, <2>6 DEF Pi!StepKind
  <1> QED
    BY <1>6, <1>7

\* The other handlers, the timers and the environment, outside raft.
LEMMA IdleKind ==
  ASSUME TypeOK, TypeOK', protocol # "raft", NEW i \in Coordinator, Idle(i)
  PROVE  Pi!StepKind
  <1>1. CASE ElectionIdle(i)
    <2>1. current_term[i] \in Nat
      BY DEF TypeOK
    <2>2. Pi!StartStep(i)
      BY <1>1, <2>1, StartKind DEF ElectionIdle
    <2> QED
      BY <2>2 DEF Pi!StepKind
  <1>2. CASE EchoIdle(i)
    <2>1. UNCHANGED <<electionVars, replicationVars>>
      BY <1>2 DEF EchoIdle
    <2>2. \A n \in Coordinator : KeepsRole(n)
      BY <2>1, SameTermsKeep DEF electionVars
    <2> QED
      BY <2>1, <2>2, RestKind DEF Pi!StepKind, electionVars
  <1>3. CASE EchodIdle(i)
    <2>1. /\ state[i] = Leader
          /\ UNCHANGED <<current_term, votes_received, elected, commit_index, next_index,
                         match_index>>
      BY <1>3 DEF EchodIdle
    <2>2. state' \in {state, [state EXCEPT ![i] = Follower]}
      BY <1>3, EchodIdleCases
    <2>3. \/ log' = log
          \/ \E command \in SUBSET Reading : log' = [log EXCEPT ![i] = Extended(i, command)]
      <3> DEFINE lg == log'[i]
      <3>1. log' = [log EXCEPT ![i] = lg] /\ log \in [Coordinator -> Seq(LogEntry)]
        <4>1. log \in [Coordinator -> Seq(LogEntry)] /\ log' \in [Coordinator -> Seq(LogEntry)]
          BY DEF TypeOK
        <4>2. \A n \in Coordinator : n # i => log'[n] = log[n]
          BY <1>3, EchodIdleCases
        <4> QED
          BY <4>1, <4>2
      <3>2. Readings(batch_buffer[i]) \in SUBSET Reading
        BY ReadingsType DEF TypeOK
      <3>3. log'[i] = log[i] \/ log'[i] = Extended(i, Readings(batch_buffer[i]))
        BY <1>3, EchodIdleCases
      <3> QED
        BY <3>1, <3>2, <3>3
    <2>4. Pi!ProposeStep(i)
      BY <2>1, <2>2, <2>3, ProposeKind
    <2> QED
      BY <2>4 DEF Pi!StepKind
  <1> QED
    BY <1>1, <1>2, <1>3 DEF Idle, RaftIdle

LEMMA HandleKind ==
  ASSUME TypeOK, TypeOK', PositiveTerms, Pi!EntriesEnd, NEW i \in Coordinator, Handle(i)
  PROVE  Pi!StepKind
  <1> DEFINE m == Head(inbox[i])
  <1>1. ASSUME NEW type, Takes(i, type),
               type \in {"RequestVoteRPC", "LivenessPing", "LeadershipHandoff"}
        PROVE  m.term \in Nat
    BY <1>1, TakenHeard, MessageFields
  <1>2. ASSUME UNCHANGED <<replicationVars, elected>>, \A n \in Coordinator : KeepsRole(n)
        PROVE  Pi!StepKind
    BY <1>2, RestKind DEF Pi!StepKind
  <1>3. CASE HandleRequestVote(i)
    <2>1. /\ m.term \in Nat /\ UNCHANGED <<replicationVars, elected, votes_received>>
          /\ current_term' = [current_term EXCEPT ![i] = TermAfter(i, m.term)]
          /\ state' = [state EXCEPT ![i] = StateAfter(i, m.term)]
      BY <1>1, <1>3 DEF HandleRequestVote
    <2> HIDE DEF m
    <2>2. \A n \in Coordinator : KeepsRole(n)
      BY <2>1, EnteringKeeps
    <2> QED
      BY <1>2, <2>1, <2>2
  <1>4. CASE HandleLivenessPing(i)
    <2>1. /\ m.term \in Nat /\ UNCHANGED <<replicationVars, elected, votes_received>>
          /\ StepDown(i, m.term)
      BY <1>1, <1>4 DEF HandleLivenessPing
    <2> HIDE DEF m
    <2>2. \A n \in Coordinator : KeepsRole(n)
      BY <2>1, SteppingDownKeeps
    <2> QED
      BY <1>2, <2>1, <2>2
  <1>5. CASE HandleLeadershipHandoff(i)
    <2>1. m.term \in Nat /\ UNCHANGED replicationVars
          /\ \/ StartElection(Rest(i), i, TermAfter(i, m.term))
             \/ UNCHANGED electionVars
      BY <1>1, <1>5 DEF HandleLeadershipHandoff
    <2> HIDE DEF m
    <2>2. TermAfter(i, m.term) \in Nat /\ TermAfter(i, m.term) >= current_term[i]
      BY <2>1, StepDownType, StepDownFaithful
    <2>3. CASE StartElection(Rest(i), i, TermAfter(i, m.term))
      BY <2>1, <2>2, <2>3, StartKind DEF Pi!StepKind
    <2>4. CASE UNCHANGED electionVars
      <3>1. \A n \in Coordinator : KeepsRole(n)
        BY <2>4, SameTermsKeep DEF electionVars
      <3> QED
        BY <1>2, <2>1, <2>4, <3>1 DEF electionVars
    <2> QED
      BY <2>1, <2>3, <2>4
  <1>6. CASE HandleLeafRegister(i)
    <2>1. UNCHANGED <<electionVars, replicationVars>>
      BY <1>6 DEF HandleLeafRegister
    <2>2. \A n \in Coordinator : KeepsRole(n)
      BY <2>1, SameTermsKeep DEF electionVars
    <2> QED
      BY <1>2, <2>1, <2>2 DEF electionVars
  <1>7. CASE HandleSensorData(i)
    <2>1. UNCHANGED <<state, current_term, votes_received, elected, commit_index, next_index,
                      match_index>>
      BY <1>7 DEF HandleSensorData, electionVars
    <2>2. CASE log' = log
      <3>1. \A n \in Coordinator : KeepsRole(n)
        BY <2>1, SameTermsKeep
      <3> QED
        BY <1>2, <2>1, <2>2, <3>1 DEF replicationVars
    <2>3. CASE log' # log
      <3>1. /\ state[i] = Leader
            /\ \E command \in SUBSET Reading : log' = [log EXCEPT ![i] = Extended(i, command)]
        BY <1>7, <2>3, HandleSensorDataProposes DEF Idles, Proposes
      <3>2. Pi!ProposeStep(i)
        BY <2>1, <3>1, ProposeKind
      <3> QED
        BY <3>2 DEF Pi!StepKind
    <2> QED
      BY <2>2, <2>3
  <1> QED
    BY <1>3, <1>4, <1>5, <1>6, <1>7, HandleVoteResponseKind, HandleAppendEntriesKind,
       HandleAppendResponseKind DEF Handle

LEMMA StepsHaveKinds ==
  ASSUME TypeOK, TypeOK', protocol # "raft", PositiveTerms, Pi!EntriesEnd, [Next]_vars
  PROVE  Pi!StepKind
  <1>1. ASSUME UNCHANGED <<replicationVars, elected, current_term, votes_received>>,
               \A n \in Coordinator : state'[n] \in {state[n], Follower, Observer}
        PROVE  Pi!StepKind
    BY <1>1, SameTermsKeep, RestKind DEF Pi!StepKind
  <1>2. ASSUME UNCHANGED <<replicationVars, electionVars>>
        PROVE  Pi!StepKind
    BY <1>1, <1>2 DEF electionVars
  <1>3. ASSUME NEW l \in LeafId, LeafStep(l) PROVE Pi!StepKind
    BY <1>2, <1>3 DEF LeafStep, LeafIdle, HandleLeafRegisterResponse, LeafTimeout, LeafReading
  <1>4. ASSUME NEW i \in Coordinator, NEW level \in Levels, Drain(i, level) \/ LateTick(i)
        PROVE  Pi!StepKind
    <2>1. /\ UNCHANGED <<replicationVars, elected, current_term, votes_received>>
          /\ \/ state' = [state EXCEPT ![i] = IF level < T_LOW THEN Observer ELSE @]
             \/ state' = [state EXCEPT ![i] = Observer]
      BY <1>4 DEF Drain, LateTick
    <2>2. state \in [Coordinator -> NodeState]
      BY DEF TypeOK
    <2>3. \E role \in {state[i], Observer} : state' = [state EXCEPT ![i] = role]
      BY <2>1
    <2>4. \A n \in Coordinator : state'[n] \in {state[n], Observer}
      BY <2>2, <2>3
    <2> QED
      BY <1>1, <2>1, <2>4
  <1>5. CASE \/ \E i \in Coordinator : InjectFailure(i) \/ RecoverNode(i)
             \/ \E groups \in Splits : InjectPartition(groups)
             \/ HealPartition
    BY <1>2, <1>5, FaultsKeep
  <1>6. CASE UNCHANGED vars
    BY <1>2, <1>6 DEF vars
  <1>7. CASE \E i \in Coordinator : LateTick(i)
    <2>1. FullLevel \in Levels
      BY SimAssumption
    <2> QED
      BY <1>4, <1>7, <2>1
  <1> QED
    BY <1>3, <1>4, <1>5, <1>6, <1>7, IdleKind, HandleKind DEF Next, Environment, Workload

-----------------------------------------------------------------------------
(* What is sent *)

\* The messages that the Pi knows.
Sounds(m) ==
  m.type \in {"RequestVoteRPC", "RequestVoteResponse", "AppendEntriesRPC",
              "AppendEntriesResponse"}

\* The messages that nothing of this argument travels with.
Others == {m \in Message : ~Sounds(m)}

\* What is new in the inbox of d is what its sender may send.
NewIsSent ==
  \A d \in Coordinator : \A m \in Content(inbox'[d]) :
    m \in Content(inbox[d]) \/ ~Sounds(m) \/ Pi!Sent(Nobody, m.from, d, PiMessage(m))

LEMMA SilenceSent == ASSUME NEW i, NEW d PROVE Pi!Sent(Nobody, i, d, Silence)
  BY DEF Pi!Sent, Silence

LEMMA HeardAfter ==
  ASSUME TypeOK', NEW s \in Coordinator, NEW d \in Coordinator,
         NEW o \in Pi!Content(PiNet'[s][d])
  PROVE  o = Silence \/ \E m \in Content(inbox'[d]) : /\ m.from = s /\ o = PiMessage(m)
                                                      /\ m \in Message
  <1>1. inbox'[d] \in Seq(Message)
    BY NodesAreIds DEF TypeOK
  <1>2. o \in Pi!Content(PiChannel(s, inbox'[d]))
    BY Pictures
  <1>3. o = Silence \/ \E m \in Content(inbox'[d]) : m.from = s /\ o = PiMessage(m)
    BY <1>1, <1>2, ChannelContent
  <1>4. \A m \in Content(inbox'[d]) : m \in Message
    BY <1>1, ElementOfSeq, LenProperties DEF Content
  <1> QED
    BY <1>3, <1>4

LEMMA StepSends ==
  ASSUME TypeOK, TypeOK', NewIsSent
  PROVE  Pi!MessageStep
  <1> SUFFICES ASSUME NEW s \in Coordinator, NEW d \in Coordinator,
                      NEW o \in Pi!Content(PiNet'[s][d])
               PROVE  o \in Pi!Content(PiNet[s][d]) \/ Pi!Sent(Nobody, s, d, o)
    BY DEF Pi!MessageStep
  <1>1. CASE o = Silence
    BY <1>1, SilenceSent
  <1>2. CASE o # Silence
    <2>1. PICK m \in Content(inbox'[d]) : m.from = s /\ o = PiMessage(m) /\ m \in Message
      BY <1>2, HeardAfter
    <2>2. Sounds(m)
      BY <1>2, <2>1 DEF Sounds, PiMessage
    <2>3. m \in Content(inbox[d]) => o \in Pi!Content(PiNet[s][d])
      BY <2>1, Hearing
    <2> QED
      BY <2>1, <2>2, <2>3 DEF NewIsSent
  <1> QED
    BY <1>1, <1>2

LEMMA ContentOfConcat ==
  ASSUME NEW a \in Seq(Message), NEW b \in Seq(Message), NEW m \in Content(a \o b)
  PROVE  m \in Content(a) \/ m \in Content(b)
  <1>1. PICK k \in DOMAIN (a \o b) : m = (a \o b)[k]
    BY DEF Content
  <1>2. /\ Len(a) \in Nat /\ Len(b) \in Nat /\ DOMAIN a = 1 .. Len(a) /\ DOMAIN b = 1 .. Len(b)
    BY LenProperties
  <1>3. k \in 1 .. Len(a) + Len(b)
    BY <1>1, ConcatProperties, LenProperties
  <1>4. m = IF k <= Len(a) THEN a[k] ELSE b[k - Len(a)]
    BY <1>1, <1>3, ConcatProperties
  <1>5. CASE k <= Len(a)
    BY <1>2, <1>3, <1>4, <1>5 DEF Content
  <1>6. CASE k > Len(a)
    <2>1. k - Len(a) \in 1 .. Len(b)
      BY <1>2, <1>3, <1>6
    <2> QED
      BY <1>2, <1>3, <1>4, <1>6, <2>1 DEF Content
  <1> QED
    BY <1>2, <1>3, <1>5, <1>6

LEMMA ContentOfOne ==
  /\ \A m : Content(<<m>>) = {m}
  /\ Content(<<>>) = {}
  BY DEF Content

\* What is in an inbox afterwards was there, or is sent to it.
LEMMA SentTo ==
  ASSUME NEW rest \in Inboxes, NEW i, NEW out \in [NodeId -> Seq(Message)], Send(rest, i, out),
         NEW d \in NodeId, NEW m \in Content(inbox'[d])
  PROVE  m \in Content(rest[d]) \/ m \in Content(out[d])
  <1>1. rest[d] \in Seq(Message) /\ out[d] \in Seq(Message)
    BY DEF Inboxes
  <1>2. inbox'[d] = rest[d] \o out[d] \/ inbox'[d] = rest[d]
    BY DEF Send
  <1> QED
    BY <1>1, <1>2, ContentOfConcat

\* A node that sends out, having taken a message or not, when all it sends is accounted for.
LEMMA SendSends ==
  ASSUME TypeOK, NEW i \in Coordinator, NEW out \in [NodeId -> Seq(Message)],
         \/ Send(inbox, i, out)
         \/ Send(Rest(i), i, out) /\ \E t : Takes(i, t),
         \A d \in Coordinator : \A m \in Content(out[d]) :
           ~Sounds(m) \/ Pi!Sent(Nobody, m.from, d, PiMessage(m))
  PROVE  NewIsSent
  <1> SUFFICES ASSUME NEW d \in Coordinator, NEW m \in Content(inbox'[d])
               PROVE  m \in Content(inbox[d]) \/ m \in Content(out[d])
    BY DEF NewIsSent
  <1>1. inbox \in Inboxes /\ d \in NodeId /\ i \in NodeId
    BY InboxesType, NodesAreIds
  <1>2. CASE Send(inbox, i, out)
    BY <1>1, <1>2, SentTo
  <1>3. CASE Send(Rest(i), i, out) /\ \E t : Takes(i, t)
    <2>1. Rest(i) \in Inboxes /\ Content(Rest(i)[d]) \subseteq Content(inbox[d])
      BY <1>1, <1>3, TakesType
    <2> QED
      BY <1>1, <1>3, <2>1, SentTo
  <1> QED
    BY <1>2, <1>3

\* A node that sends nothing that the Pi knows.
LEMMA QuietMessages ==
  /\ {} \in SUBSET Others
  /\ OfType({"LivenessPing"}) \in SUBSET Others
  /\ OfType({"LeafRegisterRequest"}) \in SUBSET Others
  /\ OfType({"SensorDataReport"}) \in SUBSET Others
  /\ \A i \in Coordinator : {[type |-> "LeafRegisterResponse", from |-> i]} \in SUBSET Others
  <1>1. \A i \in Coordinator :
          LET m == [type |-> "LeafRegisterResponse", from |-> i]
          IN  m \in Message /\ ~Sounds(m)
    BY DEF Message, Sounds
  <1> QED
    BY <1>1 DEF OfType, Others, Sounds

LEMMA QuietStepSends ==
  ASSUME TypeOK, NEW i \in NodeId, NEW S \in SUBSET Others,
         \/ Sends(inbox, i, S)
         \/ Sends(Rest(i), i, S) /\ \E t : Takes(i, t)
  PROVE  NewIsSent
  <1>1. S \in SUBSET Message /\ \A m \in S : ~Sounds(m)
    BY DEF Others
  <1> QED
    BY <1>1, SentNew, NodesAreIds DEF NewIsSent

LEMMA SameInboxSends == ASSUME inbox' = inbox PROVE NewIsSent
  BY DEF NewIsSent

-----------------------------------------------------------------------------
(* Requests and votes *)

LEMMA StartSends ==
  ASSUME TypeOK, TypeOK', NEW i \in Coordinator, NEW rest, NEW term \in Nat,
         StartElection(rest, i, term), log' = log,
         rest = inbox \/ (rest = Rest(i) /\ \E t : Takes(i, t))
  PROVE  NewIsSent
  <1> DEFINE m == [type |-> "RequestVoteRPC", from |-> i, term |-> term + 1,
                   last_log_index |-> Len(log[i]), last_log_term |-> LastTerm(log[i]),
                   battery_level |-> battery[i]]
  <1>1. log[i] \in Seq(LogEntry) /\ battery[i] \in Levels
    BY DEF TypeOK
  <1>2. m \in Message
    <2>1. Len(log[i]) \in Nat /\ LastTerm(log[i]) \in Nat /\ term + 1 \in Nat
      BY <1>1, LogTermsType, LenProperties
    <2> QED
      BY <1>1, <2>1 DEF Message
  <1>3. current_term'[i] = term + 1 /\ state'[i] = Candidate
    BY DEF StartElection, TypeOK
  <1>4. /\ m.from = i /\ m.term = term + 1 /\ m.last_log_index = Len(log[i])
        /\ m.last_log_term = LastTerm(log[i]) /\ m.type = "RequestVoteRPC"
    OBVIOUS
  <1>5. Send(rest, i, ToPeers(i, m))
    BY DEF StartElection
  <1> HIDE DEF m
  <1>6. ASSUME NEW d \in Coordinator, d # i PROVE Pi!Sent(Nobody, i, d, PiMessage(m))
    <2>1. /\ PiMessage(m).type = "request_vote" /\ PiMessage(m).term = term + 1
          /\ PiMessage(m).last_log_index = Len(log[i])
          /\ PiMessage(m).last_log_term = LastTerm(log[i])
      BY <1>2, <1>4, PiMessageIs
    <2>2. Len(PiLogs[i]) = Len(log[i]) /\ Pi!LastTerm(PiLogs[i]) = LastTerm(log[i])
      BY <1>1, Pictures, PiEntries, PiLastTerm
    <2>3. PiState'[i] = Pi!Candidate
      BY <1>3, Pictures, PiRoles DEF NodeState
    <2>4. PiLogs' = PiLogs
      BY SamePictures
    <2> QED
      BY <1>3, <1>6, <2>1, <2>2, <2>3, <2>4 DEF Pi!Sent, Pi!SentRequest
  <1>7. ToPeers(i, m) \in [NodeId -> Seq(Message)]
    BY <1>2, ToPeersSends
  <1>8. ASSUME NEW d \in Coordinator, NEW x \in Content(ToPeers(i, m)[d])
        PROVE  Pi!Sent(Nobody, x.from, d, PiMessage(x))
    <2>1. d # i /\ x = m
      BY <1>8, NodesAreIds, ContentOfOne DEF ToPeers, Peers
    <2> QED
      BY <1>4, <1>6, <2>1
  <1> QED
    BY <1>5, <1>7, <1>8, SendSends

\* A vote is granted as the Pi would: who takes the request is not drained, and remembers
\* whom it voted for.
LEMMA GrantSent ==
  ASSUME TypeOK, TypeOK', ElectionInv, NEW i \in Coordinator, Takes(i, "RequestVoteRPC"),
         Grants(i, Head(inbox[i]))
  PROVE  LET m == Head(inbox[i])
         IN  Pi!Grants(i, m.from, PiMessage(m))
  <1> DEFINE m == Head(inbox[i])
  <1>1. /\ m \in Message /\ m.type = "RequestVoteRPC"
        /\ m.from \in Coordinator /\ m.term \in Nat /\ m.last_log_index \in Nat
        /\ m.last_log_term \in Nat
    BY TakenHeard, MessageFields
  <1>2. /\ m.term = TermAfter(i, m.term) /\ StateAfter(i, m.term) # Observer
        /\ VoteAfter(i, m.term) \in {None, m.from}
        /\ IsUpToDate(log[i], m.last_log_index, m.last_log_term)
    BY DEF Grants
  <1>3. battery[i] < T_LOW => state[i] = Observer
    BY DEF Takes
  <1> HIDE DEF m
  <1>4. /\ PiMessage(m).term = m.term /\ PiMessage(m).battery_level = 100
        /\ PiMessage(m).last_log_index = m.last_log_index
        /\ PiMessage(m).last_log_term = m.last_log_term
    BY <1>1, PiMessageIs
  <1>5. /\ state[i] \in NodeState /\ current_term[i] \in Nat /\ log[i] \in Seq(LogEntry)
        /\ battery[i] \in Levels
    BY DEF TypeOK
  <1>6. Pi!TermAfter(i, m.term) = TermAfter(i, m.term)
    BY DEF Pi!TermAfter, TermAfter, Newer
  <1>7. state[i] # Observer
    BY <1>2 DEF StateAfter, Observer, Candidate, Leader
  <1>8. Pi!StateAfter(i, m.term) # Pi!Observer
    <2>1. PiState[i] # Pi!Observer
      BY <1>5, <1>7, Pictures, PiRoles
    <2> QED
      BY <2>1 DEF Pi!StateAfter, Pi!Follower, Pi!Observer
  <1>9. Pi!VoteAfter(i, m.term) \in {Nobody, m.from}
    <2>1. CASE m.term > current_term[i]
      BY <2>1 DEF Pi!VoteAfter
    <2>2. CASE ~(m.term > current_term[i])
      <3>1. Pi!VoteAfter(i, m.term) = PiVotedFor[i] /\ voted_for[i] \in {None, m.from}
        BY <1>2, <2>2 DEF Pi!VoteAfter, VoteAfter, Newer
      <3>2. battery[i] >= T_LOW
        BY <1>3, <1>5, <1>7, LevelsAreNumbers DEF T_LOW
      <3>3. \A c \in OnRecord(i) : c \in Coordinator /\ voted_for[i] = c
        BY <1>5, <3>2 DEF OnRecord, ElectionInv, VotersRemember
      <3>4. \A c \in OnRecord(i) : c = m.from
        BY <3>1, <3>3, SimAssumption
      <3> QED
        BY <3>1, <3>4 DEF PiVotedFor
    <2> QED
      BY <2>1, <2>2
  <1>10. Pi!UpToDate(PiLogs[i], m.last_log_index, m.last_log_term)
    <2>1. /\ Len(PiLogs[i]) = Len(log[i]) /\ Pi!LastTerm(PiLogs[i]) = LastTerm(log[i])
          /\ LastTerm(log[i]) \in Nat
      BY <1>5, Pictures, PiEntries, PiLastTerm, LogTermsType
    <2> QED
      BY <1>1, <1>2, <2>1 DEF Pi!UpToDate, IsUpToDate
  <1>11. Pi!Eligible(100)
    BY DEF Pi!Eligible, Pi!T_LOW
  <1>12. Pi!Grants(i, m.from, PiMessage(m))
    BY <1>2, <1>4, <1>6, <1>8, <1>9, <1>10, <1>11 DEF Pi!Grants
  <1> QED
    BY <1>12 DEF m

LEMMA HandleRequestVoteSends ==
  ASSUME TypeOK, TypeOK', ElectionInv, NEW i \in Coordinator, HandleRequestVote(i)
  PROVE  NewIsSent
  <1> DEFINE m == Head(inbox[i])
             answer == [type |-> "RequestVoteResponse", from |-> i,
                        term |-> TermAfter(i, m.term), vote_granted |-> Grants(i, m)]
  <1>1. Takes(i, "RequestVoteRPC")
    BY DEF HandleRequestVote
  <1>2. /\ m \in Message /\ m.type = "RequestVoteRPC" /\ m.from \in Coordinator
        /\ m.term \in Nat
        /\ Head(PiNet[m.from][i]) = PiMessage(m) /\ PiMessage(m) \in Pi!Content(PiNet[m.from][i])
    BY <1>1, TakenHeard, MessageFields
  <1>3. Grants(i, m) => Pi!Grants(i, m.from, PiMessage(m)) /\ m.term = TermAfter(i, m.term)
    BY <1>1, GrantSent DEF Grants
  <1>4. /\ Send(Rest(i), i, Only(m.from, answer))
        /\ current_term' = [current_term EXCEPT ![i] = TermAfter(i, m.term)] /\ log' = log
    BY DEF HandleRequestVote, replicationVars
  <1>5. TermAfter(i, m.term) \in Nat /\ Grants(i, m) \in BOOLEAN
    BY <1>2, StepDownType DEF Grants
  <1> HIDE DEF m
  <1>6. /\ answer \in Message /\ answer.from = i /\ answer.type = "RequestVoteResponse"
        /\ answer.term = TermAfter(i, m.term) /\ answer.vote_granted = Grants(i, m)
    BY <1>5 DEF Message
  <1> HIDE DEF answer
  <1>7. Pi!Sent(Nobody, i, m.from, PiMessage(answer))
    <2>1. /\ PiMessage(answer).type = "vote_response"
          /\ PiMessage(answer).term = TermAfter(i, m.term)
          /\ PiMessage(answer).vote_granted = Grants(i, m)
      BY <1>6, PiMessageIs
    <2>2. PiMessage(m).type = "request_vote" /\ PiMessage(m).term = m.term
      BY <1>2, PiMessageIs
    <2>3. current_term'[i] = TermAfter(i, m.term) /\ PiLogs' = PiLogs
      BY <1>4, SamePictures DEF TypeOK
    <2> QED
      BY <1>2, <1>3, <2>1, <2>2, <2>3 DEF Pi!Sent, Pi!SentVote
  <1>8. \A d \in NodeId : \A x \in Content(inbox'[d]) :
          x \in Content(inbox[d]) \/ (d = m.from /\ x = answer)
    BY <1>1, <1>4, <1>6, NodesAreIds, OnlyNew
  <1> QED
    BY <1>6, <1>7, <1>8, NodesAreIds DEF NewIsSent

-----------------------------------------------------------------------------
(* Rounds and acknowledgements *)

\* The round for d of a log is the one the Pi would send.
LEMMA PiRound ==
  ASSUME TypeOK, NEW i \in Coordinator, NEW lg \in Seq(LogEntry), NEW next \in Nat \ {0}
  PROVE  PiMessage(AppendEntries(i, lg, next)) = Pi!AppendEntries(i, PiLog(lg), next)
  <1>1. next - 1 \in Nat
    OBVIOUS
  <1>2. PiLog(Suffix(lg, next - 1)) = Pi!Suffix(PiLog(lg), next - 1)
    BY <1>1, PiSuffix
  <1>3. TermAt(lg, next - 1) = Pi!PrevTerm(PiLog(lg), next - 1)
    BY PiEntries DEF TermAt, Pi!PrevTerm
  <1> QED
    BY <1>2, <1>3 DEF PiMessage, AppendEntries, Pi!AppendEntries

LEMMA RoundsInboxes ==
  ASSUME TypeOK, NEW i \in Coordinator, NEW command \in SUBSET Reading
  PROVE  Rounds(i, Extended(i, command)) \in [NodeId -> Seq(Message)]
  <1> DEFINE lg == Extended(i, command)
  <1>1. lg \in Seq(LogEntry)
    BY ExtendedType
  <1> HIDE DEF lg
  <1>2. /\ RoundsOf(i, lg) \subseteq Message
        /\ \A d \in NodeId : Rounds(i, lg)[d] \in Seq(RoundsOf(i, lg))
    BY <1>1, RoundsType DEF OfType
  <1>3. \A d \in NodeId : Rounds(i, lg)[d] \in Seq(Message)
    BY <1>2, SeqSubset
  <1>4. Rounds(i, lg) \in [NodeId -> Seq(Message)]
    BY <1>3 DEF Rounds
  <1> QED
    BY <1>4 DEF lg

LEMMA RoundSent ==
  ASSUME TypeOK, TypeOK', Pi!LeadersOnRecord, NEW i \in Coordinator, state[i] = Leader,
         UNCHANGED <<current_term, elected, next_index>>,
         NEW command \in SUBSET Reading, log' = [log EXCEPT ![i] = Extended(i, command)],
         NEW d \in NodeId, NEW m \in Content(Rounds(i, Extended(i, command))[d])
  PROVE  Pi!Sent(Nobody, m.from, d, PiMessage(m))
  <1> DEFINE lg == Extended(i, command)
  <1>1. /\ lg \in Seq(LogEntry) /\ log'[i] = lg /\ log[i] \in Seq(LogEntry)
        /\ Len(lg) = Len(log[i]) + 1
    BY ExtendedType, AppendProperties DEF TypeOK, Extended
  <1> HIDE DEF lg
  <1>2. d \in Coordinator /\ d # i /\ m = AppendEntries(i, lg, next_index[i][d])
    BY ContentOfOne DEF Rounds, Peers, lg
  <1>3. next_index[i][d] \in Nat \ {0} /\ next_index'[i][d] = next_index[i][d]
    BY <1>2 DEF TypeOK
  <1>4. PiMessage(m) = Pi!AppendEntries(i, PiLog(lg), next_index[i][d]) /\ m.from = i
    BY <1>1, <1>2, <1>3, PiRound DEF AppendEntries
  <1>5. /\ PiLogs'[i] = PiLog(lg) /\ Len(PiLogs'[i]) = Len(lg) /\ Len(PiLogs[i]) = Len(log[i])
        /\ PiLog(lg) \in Seq(Pi!LogEntry) /\ Len(lg) \in Nat /\ Len(log[i]) \in Nat
    BY <1>1, Pictures, PiEntries
  <1>6. SubSeq(PiLogs'[i], 1, Len(lg)) = PiLog(lg)
    BY <1>5
  <1>7. Pi!Leading(PiState[i]) /\ Pi!WonTerm(i)
    <2>1. Pi!Leading(PiState[i])
      <3>1. PiState[i] = PiRole(state[i]) /\ state[i] \in NodeState
        BY Pictures DEF TypeOK
      <3> QED
        BY <3>1, PiRoles
    <2>2. PiElected' = PiElected
      BY SamePictures
    <2> QED
      BY <2>1, <2>2 DEF Pi!LeadersOnRecord, Pi!WonTerm
  <1>8. /\ PiMessage(m).term = current_term[i] /\ PiMessage(m).type = "append_entries"
    BY <1>4 DEF Pi!AppendEntries
  <1>9. /\ Len(lg) \in 0 .. Len(PiLogs'[i]) /\ Len(lg) > Len(PiLogs[i])
        /\ PiMessage(m) = Pi!AppendEntries(i, SubSeq(PiLogs'[i], 1, Len(lg)), next_index'[i][d])
    <2>1. Len(lg) \in 0 .. Len(PiLogs'[i]) /\ Len(lg) > Len(PiLogs[i])
      BY <1>1, <1>5
    <2> QED
      BY <1>3, <1>4, <1>6, <2>1
  <1>10. Pi!SentEntries(i, d, PiMessage(m))
    BY <1>2, <1>7, <1>8, <1>9 DEF Pi!SentEntries
  <1> QED
    BY <1>4, <1>8, <1>10 DEF Pi!Sent

LEMMA EchodIdleSends ==
  ASSUME TypeOK, TypeOK', Pi!LeadersOnRecord, NEW i \in Coordinator, EchodIdle(i)
  PROVE  NewIsSent
  <1> DEFINE command == Readings(batch_buffer[i])
             lg(flush) == IF flush THEN Extended(i, command) ELSE log[i]
             rounds(flush) == IF flush THEN Rounds(i, lg(flush)) ELSE Quiet
             pings(ping) == IF ping THEN ToPeers(i, Ping(i)) ELSE Quiet
             nomination == [type |-> "LeadershipHandoff", from |-> i, term |-> current_term[i]]
  <1>1. PICK flush \in BOOLEAN, ping \in BOOLEAN :
          /\ log' = [log EXCEPT ![i] = lg(flush)]
          /\ \/ Send(inbox, i, Then(rounds(flush), pings(ping)))
             \/ \E p \in Successors(i) :
                  Send(inbox, i, Then(Then(rounds(flush), pings(ping)), Only(p, nomination)))
    BY DEF EchodIdle, HandOver
  <1>2. /\ state[i] = Leader /\ UNCHANGED <<current_term, elected, next_index>>
        /\ current_term[i] \in Nat
    BY DEF EchodIdle, TypeOK
  <1>3. command \in SUBSET Reading
    BY ReadingsType DEF TypeOK
  <1> HIDE DEF command
  <1>4. rounds(flush) \in [NodeId -> Seq(Message)]
    BY <1>3, RoundsInboxes, QuietSends
  <1>5. /\ pings(ping) \in [NodeId -> Seq(Message)]
        /\ \A d \in NodeId : \A m \in Content(pings(ping)[d]) : ~Sounds(m)
    <2>1. Ping(i) \in Message /\ ~Sounds(Ping(i))
      BY PingType DEF OfType, Sounds, Ping
    <2>2. pings(ping) \in [NodeId -> Seq(Message)]
      BY <2>1, QuietSends, ToPeersSends
    <2>3. \A d \in NodeId : \A m \in Content(pings(ping)[d]) : m = Ping(i)
      BY ContentOfOne DEF ToPeers, Quiet
    <2> QED
      BY <2>1, <2>2, <2>3
  <1>6. ASSUME NEW d \in NodeId, NEW m \in Content(rounds(flush)[d])
        PROVE  Pi!Sent(Nobody, m.from, d, PiMessage(m))
    <2>1. flush
      BY <1>6, ContentOfOne DEF Quiet
    <2>2. log' = [log EXCEPT ![i] = Extended(i, command)]
          /\ m \in Content(Rounds(i, Extended(i, command))[d])
      BY <1>1, <1>6, <2>1
    <2> QED
      BY <1>2, <1>3, <2>2, RoundSent
  <1>7. ASSUME NEW p
        PROVE  /\ Only(p, nomination) \in [NodeId -> Seq(Message)]
               /\ \A d \in NodeId : \A m \in Content(Only(p, nomination)[d]) : ~Sounds(m)
    <2>1. nomination \in Message /\ ~Sounds(nomination)
      BY <1>2 DEF Message, Sounds
    <2>2. \A d \in NodeId : \A m \in Content(Only(p, nomination)[d]) : m = nomination
      BY ContentOfOne DEF Only, Quiet
    <2> QED
      BY <2>1, <2>2, OnlySends
  <1> DEFINE ahead == Then(rounds(flush), pings(ping))
  <1> HIDE DEF rounds, pings, nomination
  <1>8. /\ ahead \in [NodeId -> Seq(Message)]
        /\ \A d \in NodeId : \A m \in Content(ahead[d]) :
             ~Sounds(m) \/ Pi!Sent(Nobody, m.from, d, PiMessage(m))
    <2>1. ahead \in [NodeId -> Seq(Message)]
      BY <1>4, <1>5, ThenSends
    <2>2. ASSUME NEW d \in NodeId, NEW m \in Content(ahead[d])
          PROVE  m \in Content(rounds(flush)[d]) \/ m \in Content(pings(ping)[d])
      <3>1. ahead[d] = rounds(flush)[d] \o pings(ping)[d]
        BY DEF Then
      <3>2. rounds(flush)[d] \in Seq(Message) /\ pings(ping)[d] \in Seq(Message)
        BY <1>4, <1>5
      <3> QED
        BY <2>2, <3>1, <3>2, ContentOfConcat
    <2> QED
      BY <1>5, <1>6, <2>1, <2>2
  <1> HIDE DEF ahead
  <1>9. CASE Send(inbox, i, ahead)
    BY <1>8, <1>9, SendSends, NodesAreIds
  <1>10. ASSUME NEW p, Send(inbox, i, Then(ahead, Only(p, nomination)))
         PROVE  NewIsSent
    <2> DEFINE out == Then(ahead, Only(p, nomination))
    <2>1. out \in [NodeId -> Seq(Message)]
      BY <1>7, <1>8, ThenSends
    <2>2. ASSUME NEW d \in NodeId, NEW m \in Content(out[d])
          PROVE  m \in Content(ahead[d]) \/ m \in Content(Only(p, nomination)[d])
      <3>1. out[d] = ahead[d] \o Only(p, nomination)[d]
        BY DEF Then
      <3>2. ahead[d] \in Seq(Message) /\ Only(p, nomination)[d] \in Seq(Message)
        BY <1>7, <1>8
      <3> QED
        BY <2>2, <3>1, <3>2, ContentOfConcat
    <2> HIDE DEF out
    <2>3. \A d \in Coordinator : \A m \in Content(out[d]) :
            ~Sounds(m) \/ Pi!Sent(Nobody, m.from, d, PiMessage(m))
      BY <1>7, <1>8, <2>2, NodesAreIds
    <2>4. Send(inbox, i, out)
      BY <1>10 DEF out
    <2> QED
      BY <2>1, <2>3, <2>4, SendSends
  <1> QED
    BY <1>1, <1>9, <1>10 DEF ahead

LEMMA HandleSensorDataSends ==
  ASSUME TypeOK, TypeOK', Pi!LeadersOnRecord, NEW i \in Coordinator, HandleSensorData(i)
  PROVE  NewIsSent
  <1> DEFINE reading == Head(inbox[i]).reading
             relayed == [type |-> "SensorDataReport", from |-> i, reading |-> reading]
  <1>1. /\ Takes(i, "SensorDataReport") /\ i \in NodeId
        /\ Rest(i) \in Inboxes /\ reading \in Reading /\ relayed \in Message
        /\ UNCHANGED <<current_term, elected, next_index>>
    BY HandleSensorDataCases, NodesAreIds DEF HandleSensorData, electionVars
  <1>2. \/ /\ state[i] = Leader
           /\ \E command \in SUBSET Reading : Replicate(Rest(i), i, command)
        \/ Send(Rest(i), i, Quiet) \/ inbox' = Rest(i)
        \/ \E d : Send(Rest(i), i, Only(d, relayed))
    <2>1. CASE state[i] = Leader
      BY <1>1, <2>1, BatchedType DEF HandleSensorData
    <2>2. CASE state[i] # Leader
      BY <2>2 DEF HandleSensorData
    <2> QED
      BY <2>1, <2>2
  <1>3. ASSUME NEW command \in SUBSET Reading, state[i] = Leader, Replicate(Rest(i), i, command)
        PROVE  NewIsSent
    <2> DEFINE out == Rounds(i, Extended(i, command))
    <2>1. log' = [log EXCEPT ![i] = Extended(i, command)] /\ Send(Rest(i), i, out)
      BY <1>3 DEF Replicate
    <2>2. out \in [NodeId -> Seq(Message)]
      BY RoundsInboxes
    <2>3. \A d \in Coordinator : \A m \in Content(out[d]) :
            Pi!Sent(Nobody, m.from, d, PiMessage(m))
      BY <1>1, <1>3, <2>1, RoundSent, NodesAreIds
    <2> HIDE DEF out
    <2> QED
      BY <1>1, <2>1, <2>2, <2>3, SendSends
  <1>4. CASE Send(Rest(i), i, Quiet) \/ inbox' = Rest(i)
    <2>1. Sends(Rest(i), i, {})
      BY <1>1, <1>4, NothingSent
    <2> QED
      BY <1>1, <2>1, QuietMessages, QuietStepSends
  <1>5. ASSUME NEW d, Send(Rest(i), i, Only(d, relayed)) PROVE NewIsSent
    <2>1. relayed \in OfType({"SensorDataReport"})
      BY <1>1 DEF OfType
    <2>2. Sends(Rest(i), i, OfType({"SensorDataReport"}))
      BY <1>5, <2>1, OnlySends DEF Sends
    <2> QED
      BY <1>1, <2>2, QuietMessages, QuietStepSends
  <1> QED
    BY <1>2, <1>3, <1>4, <1>5

\* An acknowledgement states what i stored of the entries it takes.
LEMMA HandleAppendEntriesSends ==
  ASSUME TypeOK, TypeOK', PositiveTerms, Pi!EntriesEnd,
         NEW i \in Coordinator, HandleAppendEntries(i)
  PROVE  NewIsSent
  <1> DEFINE m == Head(inbox[i])
             merged == MergedLog(log[i], m.prev_log_index, m.entries)
             refusal == AppendResponse(i, TermAfter(i, m.term), FALSE, 0)
             answer == AppendResponse(i, m.term, TRUE, Len(merged))
  <1>1. Takes(i, "AppendEntriesRPC")
    BY DEF HandleAppendEntries
  <1>2. /\ m \in Message /\ m.type = "AppendEntriesRPC" /\ m.from \in Coordinator
        /\ m.term \in Nat /\ m.prev_log_index \in Nat /\ m.entries \in Seq(LogEntry)
        /\ Head(PiNet[m.from][i]) = PiMessage(m) /\ PiMessage(m) \in Pi!Content(PiNet[m.from][i])
    BY <1>1, TakenHeard, MessageFields
  <1>3. \/ Send(Rest(i), i, Only(m.from, refusal))
        \/ /\ m.term >= current_term[i] /\ Fits(i, m)
           /\ current_term' = [current_term EXCEPT ![i] = TermAfter(i, m.term)]
           /\ log' = [log EXCEPT ![i] = merged]
           /\ Send(Rest(i), i, Only(m.from, answer))
    BY DEF HandleAppendEntries
  <1>4. Fits(i, m) => /\ m.prev_log_index <= Len(log[i])
                      /\ Pi!Consistent(PiLogs[i], m.prev_log_index, m.prev_log_term)
    BY <1>1, FitsConsistently
  <1>5. /\ log \in [Coordinator -> Seq(LogEntry)] /\ current_term \in [Coordinator -> Nat]
        /\ TermAfter(i, m.term) \in Nat
    BY <1>2, StepDownType DEF TypeOK
  <1> HIDE DEF m
  <1>6. merged \in Seq(LogEntry)
    BY <1>2, <1>5, MergedLogType
  <1>7. /\ PiMessage(m).type = "append_entries" /\ PiMessage(m).term = m.term
        /\ PiMessage(m).prev_log_index = m.prev_log_index
        /\ PiMessage(m).prev_log_term = m.prev_log_term
        /\ PiMessage(m).entries = PiLog(m.entries)
    BY <1>2, PiMessageIs
  <1>8. CASE Send(Rest(i), i, Only(m.from, refusal))
    <2>1. refusal \in Message
      BY <1>5, AppendResponseType DEF OfType
    <2>2. /\ PiMessage(refusal).type = "append_response" /\ ~PiMessage(refusal).success
          /\ refusal.from = i
      BY DEF AppendResponse, PiMessage
    <2>3. Pi!Sent(Nobody, i, m.from, PiMessage(refusal))
      BY <2>2 DEF Pi!Sent
    <2> HIDE DEF refusal
    <2>4. \A d \in NodeId : \A x \in Content(inbox'[d]) :
            x \in Content(inbox[d]) \/ (d = m.from /\ x = refusal)
      BY <1>1, <1>8, <2>1, NodesAreIds, OnlyNew
    <2> QED
      BY <2>2, <2>3, <2>4, NodesAreIds DEF NewIsSent
  <1>9. CASE /\ m.term >= current_term[i] /\ Fits(i, m)
             /\ current_term' = [current_term EXCEPT ![i] = TermAfter(i, m.term)]
             /\ log' = [log EXCEPT ![i] = merged]
             /\ Send(Rest(i), i, Only(m.from, answer))
    <2>1. Len(merged) \in Nat
      BY <1>6, LenProperties
    <2>2. answer \in Message
      BY <1>2, <2>1, AppendResponseType DEF OfType
    <2>3. /\ PiMessage(answer).type = "append_response" /\ PiMessage(answer).term = m.term
          /\ PiMessage(answer).match_index = Len(merged) /\ answer.from = i
      BY DEF AppendResponse, PiMessage
    <2>4. current_term'[i] = m.term
      BY <1>2, <1>5, <1>9 DEF TermAfter, Newer
    <2>5. PiLog(merged) = Pi!Merged(PiLogs[i], m.prev_log_index, PiLog(m.entries))
      <3>1. merged = Merged(log[i], m.prev_log_index, m.entries)
        BY <1>4, <1>9 DEF MergedLog
      <3> QED
        BY <1>2, <1>4, <1>5, <1>9, <3>1, PiMerged, Pictures
    <2>6. PiLogs' = [PiLogs EXCEPT ![i] = PiLog(merged)] /\ Len(PiLogs'[i]) = Len(merged)
      <3> HIDE DEF merged
      <3>1. PiLogs' = [PiLogs EXCEPT ![i] = PiLog(merged)] /\ PiLogs'[i] = PiLog(merged)
        BY <1>5, <1>9 DEF PiLogs
      <3> QED
        BY <1>6, <3>1, PiEntries
    <2> HIDE DEF merged, answer
    <2>7. Pi!SentAck(i, m.from, PiMessage(answer))
      BY <1>2, <1>4, <1>7, <1>9, <2>3, <2>4, <2>5, <2>6 DEF Pi!SentAck
    <2>8. Pi!Sent(Nobody, i, m.from, PiMessage(answer))
      BY <2>3, <2>7 DEF Pi!Sent
    <2>9. \A d \in NodeId : \A x \in Content(inbox'[d]) :
            x \in Content(inbox[d]) \/ (d = m.from /\ x = answer)
      BY <1>1, <1>9, <2>2, NodesAreIds, OnlyNew
    <2> QED
      BY <2>3, <2>8, <2>9, NodesAreIds DEF NewIsSent
  <1> QED
    BY <1>3, <1>8, <1>9

LEMMA HandleSends ==
  ASSUME TypeOK, TypeOK', ElectionInv, PositiveTerms, Pi!EntriesEnd, Pi!LeadersOnRecord,
         NEW i \in Coordinator, Handle(i)
  PROVE  NewIsSent
  <1>1. i \in NodeId
    BY NodesAreIds
  <1>2. CASE HandleLeadershipHandoff(i)
    <2>1. Takes(i, "LeadershipHandoff") /\ UNCHANGED log
      BY <1>2 DEF HandleLeadershipHandoff, replicationVars
    <2>2. Head(inbox[i]).term \in Nat
      BY <2>1, TakenHeard, MessageFields
    <2>3. TermAfter(i, Head(inbox[i]).term) \in Nat
      BY <2>2, StepDownType
    <2>4. CASE inbox' = Rest(i)
      <3>1. Sends(Rest(i), i, {})
        BY <1>1, <2>1, <2>4, InboxesType, TakesType, NothingSent
      <3> QED
        BY <1>1, <2>1, <3>1, QuietMessages, QuietStepSends
    <2>5. CASE StartElection(Rest(i), i, TermAfter(i, Head(inbox[i]).term))
      BY <2>1, <2>3, <2>5, StartSends
    <2> QED
      BY <1>2, <2>4, <2>5 DEF HandleLeadershipHandoff
  <1>3. CASE HandleVoteResponse(i) \/ HandleAppendResponse(i) \/ HandleLivenessPing(i)
    <2>1. \E t : Takes(i, t)
      BY <1>3 DEF HandleVoteResponse, HandleAppendResponse, HandleLivenessPing
    <2>2. Sends(Rest(i), i, {}) \/ Sends(Rest(i), i, OfType({"LivenessPing"}))
      BY <1>3, HandleVoteResponseType, HandleAppendResponseType, HandleLivenessPingType
    <2> QED
      BY <1>1, <2>1, <2>2, QuietMessages, QuietStepSends
  <1>4. CASE HandleLeafRegister(i)
    <2> DEFINE S == {[type |-> "LeafRegisterResponse", from |-> i]}
    <2>1. S \in SUBSET Others
      BY QuietMessages
    <2>2. Sends(Rest(i), i, S) /\ \E t : Takes(i, t)
      BY <1>4, HandleLeafRegisterType DEF HandleLeafRegister
    <2> QED
      BY <1>1, <2>1, <2>2, QuietStepSends
  <1> QED
    BY <1>2, <1>3, <1>4, HandleRequestVoteSends, HandleAppendEntriesSends, HandleSensorDataSends
    DEF Handle

LEMMA NextSends ==
  ASSUME TypeOK, TypeOK', protocol # "raft", ElectionInv, PositiveTerms, Pi!EntriesEnd,
         Pi!LeadersOnRecord, [Next]_vars
  PROVE  Pi!MessageStep
  <1> SUFFICES NewIsSent
    BY StepSends
  <1>1. ASSUME NEW i \in Coordinator, RaftIdle(i) \/ Workload(i) PROVE FALSE
    BY <1>1 DEF RaftIdle, Workload
  <1>2. ASSUME NEW i \in Coordinator, ElectionIdle(i) PROVE NewIsSent
    <2>1. current_term[i] \in Nat /\ log' = log
      BY <1>2 DEF ElectionIdle, TypeOK, replicationVars
    <2> QED
      BY <1>2, <2>1, StartSends DEF ElectionIdle
  <1>3. ASSUME NEW i \in Coordinator, EchoIdle(i) PROVE NewIsSent
    <2>1. Sends(inbox, i, OfType({"LivenessPing"}))
      BY <1>3, EchoIdleType
    <2> QED
      BY <2>1, NodesAreIds, QuietMessages, QuietStepSends
  <1>4. CASE \E i \in Coordinator : Idle(i) \/ Handle(i)
    BY <1>1, <1>2, <1>3, <1>4, EchodIdleSends, HandleSends DEF Idle
  <1>5. CASE \E l \in LeafId : LeafStep(l)
    <2>1. PICK l \in LeafId : LeafStep(l)
      BY <1>5
    <2>2. CASE LeafTimeout(l)
      BY <2>2, SameInboxSends DEF LeafTimeout
    <2>3. CASE ~LeafTimeout(l)
      <3>1. \/ Sends(inbox, l, OfType({"LeafRegisterRequest"}))
            \/ Sends(inbox, l, OfType({"SensorDataReport"}))
            \/ Sends(Rest(l), l, {}) /\ Takes(l, "LeafRegisterResponse")
        BY <2>1, <2>3, LeafIdleType, LeafReadingType, HandleLeafRegisterResponseType
        DEF LeafStep, HandleLeafRegisterResponse
      <3> QED
        BY <3>1, NodesAreIds, QuietMessages, QuietStepSends
    <2> QED
      BY <2>2, <2>3
  <1>6. CASE inbox' = inbox
    BY <1>6, SameInboxSends
  <1>7. CASE Environment
    <2>1. CASE \/ \E i \in Coordinator : InjectFailure(i) \/ RecoverNode(i)
               \/ \E groups \in Splits : InjectPartition(groups)
               \/ HealPartition
      BY <1>6, <2>1, FaultsKeep
    <2>2. CASE \/ \E i \in Coordinator, level \in Levels : Drain(i, level)
               \/ \E i \in Coordinator : LateTick(i)
      BY <1>6, <2>2 DEF Drain, LateTick
    <2> QED
      BY <1>1, <1>7, <2>1, <2>2 DEF Environment
  <1> QED
    BY <1>4, <1>5, <1>6, <1>7 DEF Next, vars

-----------------------------------------------------------------------------
(* The invariant *)

\* Where there are more than four coordinators, no leader is answered late: every
\* acknowledgement that waits for it is of its present term.
NoLateAnswers ==
  Cardinality(Coordinator) > 4 =>
    \A s \in Coordinator : \A m \in Content(inbox[s]) :
      m.type = "AppendEntriesResponse" /\ m.success /\ state[s] = Leader =>
        m.term = current_term[s]

\* What the proof for the Pi keeps, of the picture.
PiInv ==
  /\ Pi!LeadersOnRecord /\ Pi!CandidaciesOpen /\ Pi!EntriesFromWinners
  /\ Pi!CommitmentInv

CommitmentInv == protocol # "raft" => PiInv

\* A step takes back nothing that is committed.
CommitsKept == \A i \in Coordinator : Prefix(Committed(i), Committed(i)')

LEMMA PiNoLateAnswers ==
  ASSUME TypeOK, NoLateAnswers
  PROVE  Pi!NoLateAnswers
  <1> SUFFICES ASSUME Cardinality(Coordinator) > 4,
                      NEW v \in Coordinator, NEW s \in Coordinator,
                      NEW o \in Pi!Content(PiNet[v][s]),
                      o.type = "append_response", o.success, PiState[s] = Pi!Leader
               PROVE  o.term = current_term[s]
    BY SameCardinality DEF Pi!NoLateAnswers
  <1>1. o # Silence
    BY DEF Silence
  <1>2. PICK m \in Content(inbox[s]) : m.from = v /\ o = PiMessage(m) /\ m \in Message
    BY <1>1, Heard
  <1>3. m.type = "AppendEntriesResponse"
    BY <1>2, PiMessageIs
  <1>4. o.success = m.success /\ o.term = m.term
    BY <1>2, <1>3 DEF PiMessage
  <1>5. state[s] = Leader
    BY Pictures, PiRoles DEF TypeOK
  <1> QED
    BY <1>2, <1>3, <1>4, <1>5 DEF NoLateAnswers

LEMMA WinsStay ==
  ASSUME [Next]_vars
  PROVE  elected \subseteq elected' /\ protocol' = protocol
  <1>1. CASE \E i \in Coordinator : Idle(i)
    BY <1>1 DEF Idle, ElectionIdle, RaftIdle, EchoIdle, EchodIdle, StartElection, electionVars
  <1>2. CASE \E i \in Coordinator : Handle(i)
    <2>1. PICK i \in Coordinator : Handle(i)
      BY <1>2
    <2>2. CASE HandleVoteResponse(i)
      BY <2>2 DEF HandleVoteResponse, BecomeLeader
    <2>3. CASE HandleRequestVote(i) \/ HandleAppendEntries(i) \/ HandleAppendResponse(i)
      BY <2>3 DEF HandleRequestVote, HandleAppendEntries, HandleAppendResponse
    <2>4. CASE \/ HandleLivenessPing(i) \/ HandleLeadershipHandoff(i)
               \/ HandleLeafRegister(i) \/ HandleSensorData(i)
      BY <2>4 DEF HandleLivenessPing, HandleLeadershipHandoff, HandleLeafRegister,
         HandleSensorData, StartElection, electionVars
    <2> QED
      BY <2>1, <2>2, <2>3, <2>4 DEF Handle
  <1>3. CASE \E l \in LeafId : LeafStep(l)
    BY <1>3 DEF LeafStep, LeafIdle, HandleLeafRegisterResponse, LeafTimeout, LeafReading,
       electionVars
  <1>4. CASE Environment
    BY <1>4 DEF Environment, Workload, Drain, LateTick, InjectFailure, RecoverNode,
       InjectPartition, HealPartition, electionVars
  <1>5. CASE UNCHANGED vars
    BY <1>5 DEF vars, electionVars
  <1> QED
    BY <1>1, <1>2, <1>3, <1>4, <1>5 DEF Next

LEMMA PiGated ==
  ASSUME TypeOK, TypeOK', protocol # "raft", ElectionInv, PositiveTerms, PiView, PiView', PiInv,
         [Next]_vars
  PROVE  /\ Pi!GatedStep
         /\ (Pi!LeadersOnRecord /\ Pi!CandidaciesOpen /\ Pi!EntriesFromWinners)'
  <1>1. Pi!EntriesEnd
    BY DEF PiInv, Pi!CommitmentInv, Pi!CommitInv, Pi!MailInv
  <1>2. Pi!StepKind
    BY <1>1, StepsHaveKinds
  <1>3. Pi!MessageStep
    BY <1>1, NextSends DEF PiInv
  <1>4. PiElected \subseteq PiElected'
    BY WinsStay DEF PiElected
  <1>5. \A n \in Coordinator : current_term'[n] >= current_term[n]
    BY StepsStandOn DEF StandsOn
  <1>6. /\ Pi!TypeOK /\ Pi!TypeOK'
        /\ Pi!LeadersOnRecord /\ Pi!CandidaciesOpen /\ Pi!EntriesFromWinners
    BY DEF PiView, PiInv
  <1>7. (Pi!LeadersOnRecord /\ Pi!CandidaciesOpen /\ Pi!EntriesFromWinners)'
    BY <1>2, <1>3, <1>4, <1>5, <1>6, PiSetting, Pi!StepOpen
  <1>8. Pi!ElectionInv /\ Pi!ElectionInv' /\ Pi!ElectionSafety'
    BY <1>6, <1>7 DEF PiView, Pi!ElectionInv
  <1> QED
    BY <1>2, <1>3, <1>4, <1>5, <1>6, <1>7, <1>8 DEF Pi!GatedStep

\* No commit index lies beyond the log.
CommitsInLog == \A i \in Coordinator : commit_index[i] \in 0 .. Len(log[i])

LEMMA CommitsAreInLog ==
  ASSUME TypeOK, PiInv
  PROVE  CommitsInLog
  <1>1. PICK H \in Pi!Histories : \E A \in Pi!Acks : Pi!MatchInv(H) /\ Pi!CommitInv(H, A)
    BY DEF PiInv, Pi!CommitmentInv
  <1>2. PICK A \in Pi!Acks : Pi!MatchInv(H) /\ Pi!CommitInv(H, A)
    BY <1>1
  <1>3. Pi!TypeOK /\ Pi!CommitsHeld(H, A)
    BY <1>2, PiTyped DEF Pi!CommitInv, Pi!HeldInv
  <1>4. ASSUME NEW i \in Coordinator PROVE commit_index[i] \in 0 .. Len(log[i])
    <2>1. commit_index[i] \in 0 .. Len(PiLogs[i])
      BY <1>3, PiSetting, Pi!CommittedLength
    <2>2. Len(PiLogs[i]) = Len(log[i])
      BY Pictures, PiEntries DEF TypeOK
    <2> QED
      BY <2>1, <2>2
  <1> QED
    BY <1>4 DEF CommitsInLog

\* A log is a prefix of another if it is so to the Pi.
LEMMA PiPrefix ==
  ASSUME NEW a \in Seq(LogEntry), NEW b \in Seq(LogEntry), Pi!Prefix(PiLog(a), PiLog(b))
  PROVE  Prefix(a, b)
  <1>1. /\ Len(PiLog(a)) = Len(a) /\ Len(PiLog(b)) = Len(b)
        /\ Len(a) \in Nat /\ Len(b) \in Nat
    BY PiEntries
  <1>2. Len(a) \in 0 .. Len(b) /\ PiLog(a) = SubSeq(PiLog(b), 1, Len(a))
    BY <1>1 DEF Pi!Prefix
  <1>3. PiLog(a) = PiLog(SubSeq(b, 1, Len(a))) /\ SubSeq(b, 1, Len(a)) \in Seq(LogEntry)
    BY <1>2, PiFront, FrontIsSeq
  <1>4. a = SubSeq(b, 1, Len(a))
    BY <1>3, PiLogIsOneToOne
  <1> QED
    BY <1>1, <1>2, <1>4 DEF Prefix

LEMMA InitPiInv == Init => CommitmentInv
  <1> SUFFICES ASSUME Init PROVE PiInv
    BY DEF CommitmentInv
  <1>1. PiElected = {}
    BY DEF PiElected, Init
  <1>2. ASSUME NEW v \in Coordinator, NEW c \in Coordinator
        PROVE  Pi!Content(PiNet[v][c]) = {}
    <2>1. PiNet[v][c] = <<>>
      BY NodesAreIds DEF Init, Quiet, PiNet, PiChannel
    <2> QED
      BY <2>1 DEF Pi!Content
  <1>3. ASSUME NEW v \in Coordinator
        PROVE  /\ PiState[v] = Pi!Follower /\ PiLogs[v] = <<>> /\ commit_index[v] = 0
               /\ current_term[v] = 0
    <2>1. PiState[v] = PiRole(Follower) /\ PiLogs[v] = PiLog(<<>>)
      BY DEF Init, PiState, PiLogs
    <2>2. PiRole(Follower) = Pi!Follower
      BY DEF PiRole, Follower, Leader, Candidate, Observer, Pi!Follower
    <2>3. PiLog(<<>>) = <<>>
      BY EmptySeq, PiEntries
    <2> QED
      BY <2>1, <2>2, <2>3 DEF Init
  <1>4. Pi!CommitmentInv
    BY <1>1, <1>2, <1>3, PiSetting, Pi!EmptyCommitment
  <1>5. Pi!LeadersOnRecord /\ Pi!CandidaciesOpen /\ Pi!EntriesFromWinners
    BY <1>1, <1>2, <1>3
    DEF Pi!LeadersOnRecord, Pi!CandidaciesOpen, Pi!EntriesFromWinners, Pi!Leading, Pi!Follower,
        Pi!Leader, Pi!LocalLeader
  <1> QED
    BY <1>4, <1>5 DEF PiInv

LEMMA NextPiInv ==
  ASSUME TypeOK, TypeOK', ElectionInv, PositiveTerms, PiView, PiView', NoLateAnswers,
         CommitmentInv, [Next]_vars
  PROVE  CommitmentInv'
  <1>1. protocol' = protocol
    BY WinsStay
  <1>2. CASE protocol # "raft"
    <2>1. PiInv
      BY <1>2 DEF CommitmentInv
    <2>2. /\ Pi!GatedStep
          /\ (Pi!LeadersOnRecord /\ Pi!CandidaciesOpen /\ Pi!EntriesFromWinners)'
      BY <1>2, <2>1, PiGated
    <2>3. Pi!CommitmentInv'
      BY <2>1, <2>2, PiNoLateAnswers, PiSetting, Pi!StepCommitment DEF PiInv
    <2> QED
      BY <2>2, <2>3 DEF CommitmentInv, PiInv
  <1> QED
    BY <1>1, <1>2 DEF CommitmentInv

LEMMA NextKeepsCommits ==
  ASSUME TypeOK, TypeOK', ElectionInv, PositiveTerms, PiView, PiView', NoLateAnswers,
         protocol # "raft", PiInv, CommitsInLog, CommitsInLog', [Next]_vars
  PROVE  CommitsKept
  <1>1. ASSUME NEW i \in Coordinator PROVE Pi!Prefix(Pi!Committed(i), Pi!Committed(i)')
    <2>1. Pi!GatedStep
      BY PiGated
    <2> QED
      BY <2>1, PiNoLateAnswers, PiSetting, Pi!StepCommitment DEF PiInv
  <1>2. ASSUME NEW i \in Coordinator PROVE Prefix(Committed(i), Committed(i)')
    <2>1. /\ log[i] \in Seq(LogEntry) /\ commit_index[i] \in 0 .. Len(log[i])
          /\ log'[i] \in Seq(LogEntry) /\ commit_index'[i] \in 0 .. Len(log'[i])
      BY DEF TypeOK, CommitsInLog
    <2>2. /\ Pi!Committed(i) = PiLog(Committed(i)) /\ Pi!Committed(i)' = PiLog(Committed(i)')
          /\ Committed(i) \in Seq(LogEntry) /\ Committed(i)' \in Seq(LogEntry)
      BY <2>1, PiFront, FrontIsSeq, Pictures DEF Pi!Committed, Committed
    <2> QED
      BY <1>1, <2>2, PiPrefix
  <1> QED
    BY <1>2 DEF CommitsKept

LEMMA CommitmentIsComplete ==
  ASSUME TypeOK, PiView, CommitmentInv
  PROVE  LeaderCompleteness
  <1> SUFFICES ASSUME protocol # "raft", NEW i \in Coordinator, NEW j \in Coordinator,
                      state[i] = Leader, current_term[i] >= current_term[j]
               PROVE  Prefix(Committed(j), log[i])
    BY DEF LeaderCompleteness
  <1>1. PiInv /\ CommitsInLog
    BY CommitsAreInLog DEF CommitmentInv
  <1>2. Pi!LeaderCompleteness
    <2>1. Pi!TypeOK /\ Pi!ElectionInv /\ Pi!CommitmentInv
      BY <1>1 DEF PiView, PiInv, Pi!ElectionInv
    <2> QED
      BY <2>1, PiSetting, Pi!CommitmentSafe
  <1>3. PiState[i] = Pi!Leader
    BY Pictures, PiRoles DEF TypeOK
  <1>4. Pi!Prefix(Pi!Committed(j), PiLogs[i])
    BY <1>2, <1>3 DEF Pi!LeaderCompleteness
  <1>5. /\ log[i] \in Seq(LogEntry) /\ log[j] \in Seq(LogEntry)
        /\ commit_index[j] \in 0 .. Len(log[j])
    BY <1>1 DEF TypeOK, CommitsInLog
  <1>6. Pi!Committed(j) = PiLog(Committed(j)) /\ Committed(j) \in Seq(LogEntry)
    BY <1>5, PiFront, FrontIsSeq, Pictures DEF Pi!Committed, Committed
  <1> QED
    BY <1>4, <1>5, <1>6, PiPrefix, Pictures

-----------------------------------------------------------------------------
(* The theorems *)

LEMMA ElectionsHold == Spec => [](TypeOK /\ ElectionInv /\ PositiveTerms /\ PiView)
  <1>1. Spec => []ElectionInv
    <2>1. TypeOK /\ ElectionInv /\ [Next]_vars => ElectionInv'
      BY NextElection
    <2> QED
      BY <2>1, InitElection, SimTypeCorrect, PTL DEF Spec
  <1>2. TypeOK /\ ElectionInv => PiView
    BY PiViewHolds
  <1> QED
    BY <1>1, <1>2, SimTypeCorrect, TermsArePositive, PTL

LEMMA CommitmentHolds == Spec /\ []NoLateAnswers => []CommitmentInv
  <1>1. /\ TypeOK /\ TypeOK' /\ ElectionInv /\ PositiveTerms /\ PiView /\ PiView'
        /\ NoLateAnswers /\ CommitmentInv /\ [Next]_vars
        => CommitmentInv'
    BY NextPiInv
  <1> QED
    BY <1>1, InitPiInv, ElectionsHold, PTL DEF Spec

\* In ECHO and echoD a simulated leader's log holds whatever was committed before by those
\* whose term it has reached: no drain, failure, partition or handoff brings a coordinator to
\* lead without it.
THEOREM SimLeadersAreComplete == Spec /\ []NoLateAnswers => []LeaderCompleteness
  <1>1. TypeOK /\ PiView /\ CommitmentInv => LeaderCompleteness
    BY CommitmentIsComplete
  <1> QED
    BY <1>1, ElectionsHold, CommitmentHolds, PTL

\* In ECHO and echoD no step of the cluster takes back what a coordinator committed: no merge
\* cuts it off or replaces it, and no commit index moves backwards.
THEOREM SimCommitsAreStable == Spec /\ []NoLateAnswers => CommittedIsStable
  <1>1. TypeOK /\ CommitmentInv => (protocol # "raft" => CommitsInLog)
    BY CommitsAreInLog DEF CommitmentInv
  <1>2. /\ TypeOK /\ TypeOK' /\ ElectionInv /\ PositiveTerms /\ PiView /\ PiView'
        /\ NoLateAnswers /\ CommitmentInv /\ [Next]_vars
        /\ (protocol # "raft" => CommitsInLog) /\ (protocol # "raft" => CommitsInLog)'
        => [protocol # "raft" =>
              \A i \in Coordinator : Prefix(Committed(i), Committed(i)')]_vars
    BY NextKeepsCommits, WinsStay DEF CommitmentInv, CommitsKept
  <1> QED
    BY <1>1, <1>2, ElectionsHold, CommitmentHolds, PTL DEF Spec, CommittedIsStable

\* A simulated cluster of at most four needs no hypothesis on late answers.
THEOREM SmallSimulationsAreSafe ==
  Cardinality(Coordinator) <= 4 => (Spec => []LeaderCompleteness /\ CommittedIsStable)
  <1> SUFFICES ASSUME Cardinality(Coordinator) <= 4
               PROVE  Spec => []LeaderCompleteness /\ CommittedIsStable
    OBVIOUS
  <1>1. Cardinality(Coordinator) \in Nat
    BY SimAssumption, FS_CardinalityType
  <1>2. NoLateAnswers
    BY <1>1 DEF NoLateAnswers
  <1> QED
    BY <1>2, SimLeadersAreComplete, SimCommitsAreStable, PTL
=============================================================================
