----------------------------- MODULE EchoSafety -----------------------------
(***************************************************************************)
(* What the coordinators promise: the properties of EchoCoordinator that   *)
(* the runs check and the proof modules prove.                             *)
(***************************************************************************)
EXTENDS EchoCoordinator

\* The type of every variable of the coordinator (echo_node.py, __init__).
TypeOK ==
  /\ state \in [Node -> NodeState]
  /\ current_term \in [Node -> Nat]
  /\ voted_for \in [Node -> Node \cup {None}]
  /\ votes \in [Node -> [Node -> Levels \cup {None}]]
  /\ current_leader_id \in [Node -> Node \cup {None}]
  /\ log \in [Node -> Seq(LogEntry)]
  /\ commit_index \in [Node -> Nat]
  /\ next_index \in [Node -> [Node -> Nat \ {0}]]
  /\ match_index \in [Node -> [Node -> Nat]]
  /\ pending_triggers \in [Node -> Seq(Reading)]
  /\ batch_buffer \in [Node -> Seq(Reading)]
  /\ last_sensor \in [Node -> [Leaf -> Value \cup {None}]]
  /\ recent_reconciles \in [Node -> Seq(Command)]
  /\ peer_batteries \in [Node -> [Node -> Levels \cup {100}]]
  /\ handoff_sent \in [Node -> BOOLEAN]
  /\ partition_epoch \in [Node -> Nat]
  /\ blocked_senders \in [Node -> SUBSET Node]
  /\ battery \in [Node -> Levels]
  /\ net \in [Node -> [Node -> Seq(Message)]]
  /\ admitted \in [Node -> [Node -> Nat]]
  /\ control \in [Node -> Seq(Control)]
  /\ reports \in Nat /\ controls \in Nat
  /\ elected \subseteq [term : Nat, leader : Node, quorum : SUBSET Node,
                        battery_level : Levels]

\* A candidate has a vote of its own, so that whoever wins has a battery level
\* on record.  TypeOK is inductive with it.
CandidateVotedForItself ==
  \A i \in Node : state[i] = Candidate => votes[i][i] # None

TypeInv == TypeOK /\ CandidateVotedForItself

-----------------------------------------------------------------------------
(* Elections *)

\* No term is ever won by two coordinators, over the whole history and whatever
\* becomes of the winners afterwards.
ElectionSafety ==
  \A e, f \in elected : e.term = f.term => e.leader = f.leader

\* With energy gating, whoever wins had asked for votes at T_LOW or above, even
\* when a handoff made it a candidate before its battery was checked.
EnergyGate ==
  Protocol # "raft" => \A e \in elected : e.battery_level >= T_LOW

\* Whoever leads, globally or on its side of a partition, won the term it leads
\* in, and is the only one to lead in it.
LeadersWereElected ==
  \A i \in Node : Leading(state[i]) =>
    /\ \E e \in elected : e.leader = i /\ e.term = current_term[i]
    /\ \A j \in Node : Leading(state[j]) /\ current_term[j] = current_term[i] => j = i

\* A term a coordinator has left never comes back.
TermsNeverDecrease ==
  [][\A i \in Node : current_term'[i] >= current_term[i]]_vars

\* echoD: while a nomination of i is on its way, i does not lead the term it
\* gave up, and nobody else was nominated for that term.
NominationIsFinal ==
  \A i, p \in Node : \A m \in Content(net[i][p]) :
    m.type = "leadership_handoff" =>
      /\ ~(Leading(state[i]) /\ current_term[i] = m.term)
      /\ \A j, q \in Node : \A o \in Content(net[j][q]) :
           o.type = "leadership_handoff" /\ o.term = m.term => j = i /\ q = p

\* The elections implement Leadership: candidacies, ballots, handoffs, observers
\* and local leaders are behind it.
Elections == INSTANCE Leadership WITH
  term    <- current_term,
  leading <- {i \in Node : Leading(state[i])},
  won     <- {<<e.term, e.leader>> : e \in elected}

ImplementsLeadership == Elections!Spec

\* Beliefs about who leads, along which reports are forwarded, never run in a
\* circle: in every group somebody leads, knows nobody, or looks outside.
ForwardingEnds ==
  \A group \in (SUBSET Node) \ {{}} :
    \E i \in group : current_leader_id[i] \notin group \ {i}

-----------------------------------------------------------------------------
(* Replication *)

\* A coordinator that leads through a step, in the same term, only appends.
LeaderAppendOnly ==
  [][\A i \in Node :
       Leading(state[i]) /\ Leading(state'[i]) /\ current_term'[i] = current_term[i]
       => SubSeq(log'[i], 1, Len(log[i])) = log[i]]_vars

\* Logs that agree on the term of a position agree on everything up to it,
\* provisional entries included.
LogMatching ==
  \A i, j \in Node : \A n \in DOMAIN log[i] \cap DOMAIN log[j] :
    log[i][n].term = log[j][n].term =>
      SubSeq(log[i], 1, n) = SubSeq(log[j], 1, n)

Committed(i) == SubSeq(log[i], 1, commit_index[i])

Prefix(s, t) == Len(s) <= Len(t) /\ s = SubSeq(t, 1, Len(s))

\* Two coordinators never commit different commands at one position.
StateMachineSafety ==
  \A i, j \in Node : Prefix(Committed(i), Committed(j)) \/ Prefix(Committed(j), Committed(i))

\* A leader holds everything committed by those whose term it has reached.
LeaderCompleteness ==
  \A i, j \in Node :
    state[i] = Leader /\ current_term[i] >= current_term[j] => Prefix(Committed(j), log[i])

\* What a coordinator regards as committed is stored by a majority.
CommittedOnMajority ==
  \A i \in Node : IsMajority({j \in Node : Prefix(Committed(i), log[j])})

\* The logs implement CommittedLog, the readings of each command included.
LongestCommitted ==
  Committed(CHOOSE i \in Node : \A j \in Node : commit_index[j] <= commit_index[i])

Commands(lg) == [n \in DOMAIN lg |-> lg[n].command]

Service == INSTANCE CommittedLog WITH
  chosen  <- Commands(LongestCommitted),
  applied <- [i \in Node |-> Commands(Committed(i))]

ImplementsCommittedLog == Service!Spec

\* A committed entry is never taken back: not cut off by a merge, not replaced,
\* and the commit index does not move backwards.
CommittedIsStable ==
  [][\A i \in Node : Prefix(Committed(i), Committed(i)')]_vars

\* Without partitions a report is proposed once: however it is forwarded, kept
\* until there is a leader or batched, a log and the buffers beside it hold a
\* reading no more often than leaves reported one.
ReadingsNotDuplicated ==
  \A i \in Node : \A r \in Reading :
    Cardinality({n \in DOMAIN log[i] : r \in log[i][n].command})
      + Cardinality({n \in DOMAIN pending_triggers[i] : pending_triggers[i][n] = r})
      + Cardinality({n \in DOMAIN batch_buffer[i] : batch_buffer[i][n] = r})
    <= reports

-----------------------------------------------------------------------------
(* Progress *)

\* The pass of i's run loop that finds the batch window over.
BatchWindowOver(i) ==
  EchodLeaderTick(i) /\ batch_buffer[i] # <<>> /\ batch_buffer'[i] = <<>>

\* Every inbox is read, and a leader's loop looks at the clock in every pass: a
\* window that is over stays over until the batch is flushed.  Strong, because
\* LeaderLoad stops the pass while messages are under way, which the code does
\* not.
Fairness ==
  \A i \in Node : SF_vars(BatchWindowOver(i)) /\ \A s \in Node : WF_vars(Receive(i, s))

FairSpec == Spec /\ Fairness

\* Where no message is lost, a reading that a leader has taken into its batch is
\* committed by that leader, unless it is deposed first.
BatchedIsCommitted ==
  \A i \in Node : \A r \in Reading :
    state[i] = Leader /\ r \in Content(batch_buffer[i])
      ~> \/ state[i] # Leader
         \/ \E n \in 1 .. commit_index[i] : r \in log[i][n].command

-----------------------------------------------------------------------------
(* Partitions *)

\* A local leader exists only while its coordinator is in provisional mode, and
\* its commit index does not move as long as it leads locally.
LocalLeaderIsProvisional ==
  \A i \in Node : state[i] = LocalLeader => partition_epoch[i] > 0

LocalLeaderNeverCommits ==
  [][\A i \in Node : state[i] = LocalLeader /\ state'[i] = LocalLeader
       => commit_index'[i] = commit_index[i]]_vars

-----------------------------------------------------------------------------
(* Why there is one winner: the inductive invariant behind ElectionSafety. *)

\* The terms in which v is on record as a voter for c: in a response under way,
\* in the votes of a candidate, or in a quorum that won.
GrantTerms(v, c) ==
       {m.term : m \in {o \in Content(net[v][c]) : o.type = "vote_response" /\ o.vote_granted}}
  \cup {t \in {current_term[c]} : state[c] = Candidate /\ v \in Voters(votes[c])}
  \cup {e.term : e \in {f \in elected : f.leader = c /\ v \in f.quorum}}

\* A voter remembers whom it voted for in its present term, unless it has become
\* an observer and votes no more.
VotesRemembered ==
  \A v, c \in Node : \A t \in GrantTerms(v, c) :
    \/ t < current_term[v]
    \/ t = current_term[v] /\ (voted_for[v] = c \/ state[v] = Observer)

\* Nobody votes for two candidates in a term.
VotesOnce ==
  \A v, c, d \in Node : GrantTerms(v, c) \cap GrantTerms(v, d) # {} => c = d

\* An observer stays one: its battery is too low, and does not rise.
ObserversStay ==
  \A i \in Node : state[i] = Observer => Protocol # "raft" /\ battery[i] < T_LOW

WonByMajority == \A e \in elected : IsMajority(e.quorum)

\* Whoever leads won the term it leads in.
LeadersOnRecord ==
  \A i \in Node : Leading(state[i]) =>
    \E e \in elected : e.leader = i /\ e.term = current_term[i]

\* A candidate has not won its term yet, and nobody falls back behind a term it
\* won: what lets every win be a first one.
CandidaciesOpen ==
  \A e \in elected :
    /\ e.term <= current_term[e.leader]
    /\ state[e.leader] = Candidate => e.term < current_term[e.leader]

\* An AppendEntries under way goes to another coordinator, from the winner of its
\* term.
EntriesFromWinners ==
  \A s, d \in Node : \A m \in Content(net[s][d]) : m.type = "append_entries" =>
    s # d /\ \E e \in elected : e.leader = s /\ e.term = m.term

ElectionInv ==
  VotesRemembered /\ VotesOnce /\ ObserversStay /\ WonByMajority /\ LeadersOnRecord

-----------------------------------------------------------------------------
(* Why a winner had power: the inductive invariant behind EnergyGate. *)

\* A request under way states the battery that its candidate voted for itself with.
RequestsTruthful ==
  \A c, v \in Node : \A m \in Content(net[c][v]) : m.type = "request_vote" =>
    /\ c # v /\ m.term <= current_term[c]
    /\ state[c] = Candidate /\ m.term = current_term[c] => m.battery_level = votes[c][c]

\* A vote under way was granted for an eligible battery.
GrantsEligible ==
  \A v, c \in Node : \A m \in Content(net[v][c]) : m.type = "vote_response" =>
    /\ v # c
    /\ m.vote_granted =>
         /\ m.term <= current_term[c]
         /\ state[c] = Candidate /\ m.term = current_term[c] => Eligible(votes[c][c])

\* And so was one that a candidate has counted.
VotesEligible ==
  \A c, v \in Node : state[c] = Candidate /\ v # c /\ votes[c][v] # None =>
    Eligible(votes[c][c])

GateInv == RequestsTruthful /\ GrantsEligible /\ VotesEligible /\ EnergyGate
=============================================================================
