-------------------------- MODULE EchoCommit_proofs ---------------------------
(***************************************************************************)
(* What is committed stays, is the same everywhere, and is stored by a     *)
(* majority: the argument of the Raft paper, made for the echo and echod   *)
(* coordinators with their partitions, handoffs and batches.               *)
(*                                                                         *)
(* A coordinator that accepts entries in term t stores a front part of the *)
(* history H[t] that ends in an entry of term t; A[v][t] is the length of  *)
(* the longest it stored while in that term.  A voter compares its log     *)
(* with the candidate's, so the log of a winner is as up to date as all    *)
(* that its voters stored in earlier terms (WinnersCover).  With that, and *)
(* one voter common to any two majorities, the history of a later winner   *)
(* begins with whatever a majority stored (WinnersComplete, by the least   *)
(* term that would be an exception); and each commit index lies within     *)
(* such a part (CommitsHeld), whether a leader counted it or a follower    *)
(* was told.                                                               *)
(*                                                                         *)
(* Two hypotheses limit what is proved, and each is needed:                *)
(*                                                                         *)
(* Gated.  In raft mode a follower acknowledges more than it stored of the *)
(* leader's log (the run raft_phantom_match), and where a battery rises a  *)
(* term may have two winners (the run observer_revote).                    *)
(*                                                                         *)
(* NoLateAnswers.  _handle_append_entries_response does not compare the    *)
(* term of a response with its own.  A leader may count a response to what *)
(* it sent in an earlier term, about entries that have since been cut off. *)
(* With two to four coordinators that does no harm, as the leader and      *)
(* whoever answers are in every majority between them (PairBlocks):        *)
(* SmallClustersAreSafe has no such hypothesis.  With five it does (the    *)
(* run late_answer).                                                       *)
(***************************************************************************)
EXTENDS EchoMatching_proofs

-----------------------------------------------------------------------------
(* The invariant.  Beside the histories H of EchoMatching_proofs it speaks of *)
(* A, which has for each coordinator and term how much of the history of the  *)
(* term the coordinator stored, at most, while it was in that term.           *)

Acks == [Node -> [Nat -> Nat]]

Acked(v) == IF LastTerm(log[v]) = current_term[v] THEN Len(log[v]) ELSE 0

AcksNow(A) ==
  \A v \in Node : /\ A[v][current_term[v]] = Acked(v)
                  /\ \A t \in Nat : t > current_term[v] => A[v][t] = 0

\* What was stored ends in an entry of the term.
AcksTraced(H, A) ==
  \A v \in Node : \A t \in Nat :
    A[v][t] > 0 => A[v][t] <= Len(H[t]) /\ H[t][A[v][t]].term = t

\* A log never becomes less up to date than what was stored in a term.
AcksStored(A) ==
  \A v \in Node : \A t \in Nat : A[v][t] > 0 =>
    \/ LastTerm(log[v]) > t
    \/ LastTerm(log[v]) = t /\ Len(log[v]) >= A[v][t]

\* The winner of a term has stored all of its history.
LeadersAck(H, A) ==
  \A e \in elected : LastTerm(H[e.term]) = e.term => A[e.leader][e.term] = Len(H[e.term])

\* lg has an entry, of a term before u, that shows it to be as up to date as one with n
\* entries and the last of term t.
Covers(lg, u, t, n) ==
  \E k \in DOMAIN lg : t <= lg[k].term /\ lg[k].term < u /\ (lg[k].term = t => k >= n)

VotedFor(v, c) ==
  \/ votes[c][v] # None
  \/ \E o \in Content(net[v][c]) : IsGrant(o) /\ o.term = current_term[c]

\* A candidate is as up to date as everything its voters stored in earlier terms ...
CandidatesCover(A) ==
  \A v, c \in Node : state[c] = Candidate /\ VotedFor(v, c) =>
    \A t \in Nat : t < current_term[c] /\ A[v][t] > 0 =>
      Covers(log[c], current_term[c], t, A[v][t])

\* ... and so is the history of a winner.
WinnersCover(H, A) ==
  \A e \in elected : \A v \in e.quorum : \A t \in Nat :
    t < e.term /\ A[v][t] > 0 => Covers(H[e.term], e.term, t, A[v][t])

CandidatesBehind ==
  \A c \in Node : state[c] = Candidate => LastTerm(log[c]) < current_term[c]

\* A request of the present candidacy states the log of the candidate.
RequestsCurrent ==
  \A s, d \in Node : \A m \in Content(net[s][d]) : m.type = "request_vote" =>
    /\ s # d /\ m.term <= current_term[s]
    /\ state[s] = Candidate /\ m.term = current_term[s] =>
         m.last_log_index = Len(log[s]) /\ m.last_log_term = LastTerm(log[s])

GrantsBehind ==
  \A v, c \in Node : \A m \in Content(net[v][c]) :
    IsGrant(m) => v # c /\ m.term <= current_term[c]

\* Outside raft, entries are never sent but with a new one at the end.
EntriesEnd ==
  \A s, d \in Node : \A m \in Content(net[s][d]) : m.type = "append_entries" =>
    m.entries # <<>> /\ m.entries[Len(m.entries)].term = m.term

NextBounded ==
  \A s, v \in Node : Leading(state[s]) => next_index[s][v] <= Len(log[s]) + 1

\* An acknowledgement under way states what was stored.
AnswersAcked(H, A) ==
  \A v, s \in Node : \A m \in Content(net[v][s]) : m.type = "append_response" /\ m.success =>
    /\ v # s /\ \E e \in elected : e.leader = s /\ e.term = m.term
    /\ m.match_index > 0 /\ m.match_index <= A[v][m.term]
    /\ H[m.term][m.match_index].term = m.term

\* A match index is what was stored, or lies before the entries of the present term.
MatchesAcked(A) ==
  \A s, v \in Node : Leading(state[s]) /\ match_index[s][v] # 0 =>
    /\ v # s /\ match_index[s][v] <= Len(log[s])
    /\ \/ match_index[s][v] <= A[v][current_term[s]]
       \/ log[s][match_index[s][v]].term < current_term[s]

Chosen(A, t, k) == IsMajority({v \in Node : A[v][t] >= k})

\* The first c entries of lg are part of what a majority stored in a term up to u.
Held(H, A, lg, c, u) ==
  c # 0 => \E t \in 0 .. u : \E k \in DOMAIN H[t] :
    k >= c /\ H[t][k].term = t /\ Chosen(A, t, k) /\ Agree(lg, H[t], c)

CommitsHeld(H, A) == \A i \in Node : Held(H, A, log[i], commit_index[i], current_term[i])

AnnouncedHeld(H, A) ==
  \A s, d \in Node : \A m \in Content(net[s][d]) : m.type = "append_entries" =>
    Held(H, A, H[m.term], m.leader_commit, m.term)

StoredInv(H, A) ==
  AcksNow(A) /\ AcksTraced(H, A) /\ AcksStored(A) /\ LeadersAck(H, A)

VotingInv(H, A) == CandidatesCover(A) /\ WinnersCover(H, A) /\ CandidatesBehind
MailInv == RequestsCurrent /\ GrantsBehind /\ EntriesEnd /\ NextBounded
AnswerInv(H, A) == AnswersAcked(H, A) /\ MatchesAcked(A)
HeldInv(H, A) == CommitsHeld(H, A) /\ AnnouncedHeld(H, A)

CommitInv(H, A) ==
  StoredInv(H, A) /\ VotingInv(H, A) /\ MailInv /\ AnswerInv(H, A) /\ HeldInv(H, A)

-----------------------------------------------------------------------------
(* Winners have everything that a majority stored *)

Blocks(B) == \A Q \in SUBSET Node : IsMajority(Q) => \E v \in Node : v \in B /\ v \in Q

Won(t) == \E e \in elected : e.term = t

LEMMA LargerIsMajority ==
  ASSUME NEW P \in SUBSET Node, NEW Q \in SUBSET Node, IsMajority(P), \A n \in P : n \in Q
  PROVE  IsMajority(Q)
  <1>1. P \subseteq Q /\ IsFiniteSet(Q) /\ IsFiniteSet(P) /\ IsFiniteSet(Node)
    BY NodeAssumption, FS_Subset
  <1>2. Cardinality(P) <= Cardinality(Q)
    BY <1>1, FS_Subset
  <1>3. Cardinality(P) \in Nat /\ Cardinality(Q) \in Nat /\ Cardinality(Node) \in Nat
    BY <1>1, FS_CardinalityType
  <1> QED
    BY <1>2, <1>3 DEF IsMajority

\* All of them together.
LEMMA AllAreMajority ==
  ASSUME Node # {}
  PROVE  IsMajority(Node)
  <1>1. Cardinality(Node) \in Nat /\ Cardinality(Node) # 0
    BY NodeAssumption, FS_CardinalityType, FS_EmptySet
  <1> QED
    BY <1>1 DEF IsMajority

LEMMA MajorityBlocks ==
  ASSUME NEW B \in SUBSET Node, IsMajority(B)
  PROVE  Blocks(B)
  BY MajoritiesMeet DEF Blocks

LEMMA HistoryWon ==
  ASSUME NEW H \in Histories, MatchInv(H), NEW t \in Nat, NEW n \in DOMAIN H[t]
  PROVE  Won(t)
  <1>1. H[t] # <<>>
    BY EmptySeq
  <1> QED
    BY <1>1 DEF MatchInv, HistoriesLed, Won

LEMMA HistoryType ==
  ASSUME NEW H \in Histories, NEW t \in Nat
  PROVE  H[t] \in Seq(LogEntry) /\ Len(H[t]) \in Nat /\ DOMAIN H[t] = 1 .. Len(H[t])
  <1>1. H[t] \in Seq(LogEntry)
    BY Zenon DEF Histories
  <1> QED
    BY <1>1, LenProperties

\* If all of B, which meets every majority, stored n entries of the history of t, then the
\* history of every later term that was won begins with them.  Look at the first one that
\* does not: its winner had the vote of one of B, and with it a log as up to date, which
\* comes from the history of t or of a term between, which does.
LEMMA WinnersComplete ==
  ASSUME TypeOK, WonByMajority, NEW H \in Histories, NEW A \in Acks, MatchInv(H),
         WinnersCover(H, A),
         NEW t \in Nat, NEW n \in DOMAIN H[t], H[t][n].term = t,
         NEW B \in SUBSET Node, Blocks(B), \A v \in B : A[v][t] >= n,
         NEW u \in Nat, t < u, Won(u)
  PROVE  Agree(H[t], H[u], n)
  <1> DEFINE Bad == {w \in Nat : t < w /\ Won(w) /\ ~Agree(H[t], H[w], n)}
  <1> SUFFICES ASSUME u \in Bad PROVE FALSE
    OBVIOUS
  <1>1. PICK w \in Bad : \A x \in Bad : w <= x
    <2>1. Bad \in SUBSET Nat /\ Bad # {}
      OBVIOUS
    <2> QED
      BY <2>1, LeastNatural
  <1>2. w \in Nat /\ t < w /\ Won(w) /\ ~Agree(H[t], H[w], n)
    OBVIOUS
  <1>3. PICK e \in elected : e.term = w
    BY <1>2 DEF Won
  <1>4. IsMajority(e.quorum) /\ e.quorum \in SUBSET Node
    BY DEF WonByMajority, TypeOK
  <1>5. PICK v \in Node : v \in B /\ v \in e.quorum
    BY <1>4 DEF Blocks
  <1>6. n \in Nat /\ n >= 1 /\ n <= Len(H[t])
    BY HistoryType
  <1>7. A[v][t] \in Nat /\ A[v][t] >= n
    BY <1>5 DEF Acks
  <1>8. PICK k \in DOMAIN H[w] :
          /\ t <= H[w][k].term /\ H[w][k].term < w
          /\ H[w][k].term = t => k >= A[v][t]
    <2>1. t < e.term /\ A[v][t] > 0
      BY <1>2, <1>3, <1>6, <1>7
    <2>2. Covers(H[e.term], e.term, t, A[v][t])
      BY <1>5, <2>1 DEF WinnersCover
    <2> QED
      BY <1>3, <2>2 DEF Covers
  <1> DEFINE x == H[w][k].term
  <1>9. /\ H[w] \in Seq(LogEntry) /\ x \in Nat /\ Agree(H[w], H[x], k)
        /\ k \in 1 .. Len(H[w]) /\ Len(H[w]) \in Nat
    BY <1>2, HistoryType, TermOfEntry DEF MatchInv, HistoriesTraced, Traces
  <1>10. /\ Len(H[x]) \in Nat /\ DOMAIN H[x] = 1 .. Len(H[x])
         /\ Len(H[t]) \in Nat /\ DOMAIN H[t] = 1 .. Len(H[t])
    BY <1>9, HistoryType
  <1>11. t <= x /\ x < w /\ (x = t => k >= A[v][t])
    BY <1>8
  <1>12. H[w][k].term = x
    OBVIOUS
  <1> HIDE DEF x, Bad
  <1>13. k \in 1 .. Len(H[x]) /\ \A j \in 1 .. k : H[w][j] = H[x][j]
    BY <1>9, <1>10 DEF Agree
  <1>14. CASE x = t
    <2>1. k >= n
      BY <1>6, <1>7, <1>9, <1>11, <1>14
    <2>2. n <= Len(H[w]) /\ \A j \in 1 .. n : H[t][j] = H[w][j]
      BY <1>6, <1>9, <1>13, <1>14, <2>1
    <2> QED
      BY <1>2, <1>6, <2>2 DEF Agree
  <1>15. CASE x # t
    <2>1. t < x
      BY <1>9, <1>11, <1>15
    <2>2. Won(x)
      BY <1>9, <1>10, <1>13, HistoryWon
    <2>3. x \notin Bad
      BY <1>1, <1>2, <1>9, <1>11
    <2>4. Agree(H[t], H[x], n)
      BY <1>9, <2>1, <2>2, <2>3 DEF Bad
    <2>5. H[x][k].term = x
      BY <1>9, <1>12, <1>13
    <2>6. k > n
      <3> SUFFICES ASSUME k <= n PROVE FALSE
        BY <1>6, <1>9
      <3>1. k \in 1 .. n /\ k \in DOMAIN H[t]
        BY <1>6, <1>9, <1>10
      <3>2. H[t][k] = H[x][k]
        BY <2>4, <3>1 DEF Agree
      <3>3. H[t][k].term <= t
        BY <3>1 DEF MatchInv, HistoriesTraced, UpToTerm
      <3> QED
        BY <1>9, <2>1, <2>5, <3>2, <3>3
    <2>7. n <= Len(H[w]) /\ \A j \in 1 .. n : H[t][j] = H[w][j]
      <3>1. \A j \in 1 .. n : j \in 1 .. k
        BY <1>6, <1>9, <2>6
      <3>2. \A j \in 1 .. n : H[t][j] = H[x][j]
        BY <2>4 DEF Agree
      <3>3. n <= Len(H[w])
        BY <1>6, <1>9, <2>6
      <3> QED
        BY <1>13, <3>1, <3>2, <3>3
    <2> QED
      BY <1>2, <1>6, <2>7 DEF Agree
  <1> QED
    BY <1>14, <1>15

\* What a majority stored, up to a term, is in the history of every later winner.
LEMMA HeldByWinner ==
  ASSUME TypeOK, WonByMajority, NEW H \in Histories, NEW A \in Acks, MatchInv(H),
         WinnersCover(H, A),
         NEW lg \in Seq(LogEntry), NEW c \in Nat, NEW u \in Nat, Held(H, A, lg, c, u), c # 0,
         NEW w \in Nat, u <= w, Won(w)
  PROVE  Agree(lg, H[w], c)
  <1>1. PICK t \in 0 .. u : \E k \in DOMAIN H[t] :
          k >= c /\ H[t][k].term = t /\ Chosen(A, t, k) /\ Agree(lg, H[t], c)
    BY DEF Held
  <1>2. PICK k \in DOMAIN H[t] :
          k >= c /\ H[t][k].term = t /\ Chosen(A, t, k) /\ Agree(lg, H[t], c)
    BY <1>1
  <1>3. t \in Nat /\ t <= w /\ k \in Nat
    BY HistoryType
  <1>4. CASE t = w
    BY <1>2, <1>4
  <1>5. CASE t # w
    <2> DEFINE B == {v \in Node : A[v][t] >= k}
    <2>1. B \in SUBSET Node /\ Blocks(B) /\ \A v \in B : A[v][t] >= k
      BY <1>2, MajorityBlocks DEF Chosen
    <2> HIDE DEF B
    <2>2. Agree(H[t], H[w], k)
      BY <1>2, <1>3, <1>5, <2>1, WinnersComplete
    <2>3. /\ c <= Len(lg) /\ \A j \in 1 .. c : lg[j] = H[t][j]
          /\ k <= Len(H[w]) /\ \A j \in 1 .. k : H[t][j] = H[w][j]
      BY <1>2, <2>2 DEF Agree
    <2>4. Len(H[w]) \in Nat /\ \A j \in 1 .. c : j \in 1 .. k
      BY <1>2, <1>3, HistoryType
    <2>5. c <= Len(H[w])
      BY <1>2, <1>3, <2>3, <2>4
    <2> QED
      BY <2>3, <2>4, <2>5 DEF Agree
  <1> QED
    BY <1>4, <1>5

\* What is committed is no longer than the log.
LEMMA CommittedLength ==
  ASSUME TypeOK, NEW H \in Histories, NEW A \in Acks, CommitsHeld(H, A), NEW i \in Node
  PROVE  commit_index[i] \in 0 .. Len(log[i])
  <1>1. commit_index[i] \in Nat /\ Len(log[i]) \in Nat
    BY LenProperties DEF TypeOK
  <1>2. CASE commit_index[i] # 0
    BY <1>1, <1>2 DEF CommitsHeld, Held, Agree
  <1> QED
    BY <1>1, <1>2

LEMMA PrefixOfAgreeing ==
  ASSUME NEW S, NEW a \in Seq(S), NEW b \in Seq(S), NEW c \in Nat, Agree(a, b, c)
  PROVE  Prefix(SubSeq(a, 1, c), b)
  <1>1. SubSeq(a, 1, c) = SubSeq(b, 1, c)
    BY AgreeingFronts
  <1>2. c <= Len(a) /\ c <= Len(b) /\ Len(a) \in Nat
    BY LenProperties DEF Agree
  <1>3. Len(SubSeq(a, 1, c)) = c
    BY <1>2, SubSeqProperties
  <1> QED
    BY <1>1, <1>2, <1>3 DEF Prefix

LEMMA PrefixOfFront ==
  ASSUME NEW S, NEW a \in Seq(S), NEW b \in Seq(S), NEW c \in Nat, Agree(a, b, c),
         NEW d \in c .. Len(b)
  PROVE  Prefix(SubSeq(a, 1, c), SubSeq(b, 1, d))
  <1>1. Len(b) \in Nat /\ d \in 0 .. Len(b)
    BY LenProperties
  <1>2. SubSeq(b, 1, d) \in Seq(S)
    BY <1>1, FrontIsSeq
  <1>3. Len(SubSeq(b, 1, d)) = d /\ \A k \in 1 .. d : SubSeq(b, 1, d)[k] = b[k]
    BY <1>1, SubSeqProperties
  <1>4. Agree(a, SubSeq(b, 1, d), c)
    BY <1>1, <1>3 DEF Agree
  <1> QED
    BY <1>2, <1>4, PrefixOfAgreeing

\* Where the commit indices come from: a term whose history was stored by a majority.
LEMMA CommitSource ==
  ASSUME TypeOK, NEW H \in Histories, NEW A \in Acks, MatchInv(H), CommitsHeld(H, A),
         NEW i \in Node, commit_index[i] # 0
  PROVE  \E t \in Nat : /\ t <= current_term[i] /\ Won(t)
                        /\ Held(H, A, log[i], commit_index[i], t)
                        /\ Agree(log[i], H[t], commit_index[i])
  <1>1. PICK t \in 0 .. current_term[i] : \E k \in DOMAIN H[t] :
          /\ k >= commit_index[i] /\ H[t][k].term = t /\ Chosen(A, t, k)
          /\ Agree(log[i], H[t], commit_index[i])
    BY DEF CommitsHeld, Held
  <1>2. PICK k \in DOMAIN H[t] :
          /\ k >= commit_index[i] /\ H[t][k].term = t /\ Chosen(A, t, k)
          /\ Agree(log[i], H[t], commit_index[i])
    BY <1>1
  <1>3. t \in Nat /\ t <= current_term[i] /\ t \in 0 .. t
    BY DEF TypeOK
  <1>4. Won(t)
    BY <1>2, <1>3, HistoryWon
  <1> QED
    BY <1>2, <1>3, <1>4 DEF Held

\* The readings of one coordinator's committed log are those of the other's.
LEMMA SafeIfHeld ==
  ASSUME TypeOK, WonByMajority, NEW H \in Histories, NEW A \in Acks, MatchInv(H),
         WinnersCover(H, A), CommitsHeld(H, A)
  PROVE  StateMachineSafety
  <1>1. \A i \in Node : /\ log[i] \in Seq(LogEntry) /\ commit_index[i] \in Nat
                        /\ commit_index[i] \in 0 .. Len(log[i]) /\ Len(log[i]) \in Nat
    BY CommittedLength, LenProperties DEF TypeOK
  <1>2. ASSUME NEW i \in Node, NEW j \in Node, commit_index[i] <= commit_index[j],
               Agree(log[i], log[j], commit_index[i])
        PROVE  Prefix(Committed(i), Committed(j))
    <2>1. commit_index[j] \in commit_index[i] .. Len(log[j])
      BY <1>1, <1>2
    <2> QED
      BY <1>1, <1>2, <2>1, PrefixOfFront DEF Committed
  <1>3. ASSUME NEW i \in Node, NEW j \in Node, commit_index[i] <= commit_index[j]
        PROVE  Agree(log[i], log[j], commit_index[i])
    <2>1. CASE commit_index[i] = 0
      BY <1>1, <2>1 DEF Agree
    <2>2. CASE commit_index[i] # 0
      <3>1. commit_index[j] # 0
        BY <1>1, <1>3, <2>2
      <3>2. PICK t \in Nat : /\ Won(t) /\ Held(H, A, log[i], commit_index[i], t)
                             /\ Agree(log[i], H[t], commit_index[i])
        BY <2>2, CommitSource
      <3>3. PICK u \in Nat : /\ Won(u) /\ Held(H, A, log[j], commit_index[j], u)
                             /\ Agree(log[j], H[u], commit_index[j])
        BY <3>1, CommitSource
      <3>4. \E w \in Nat : Agree(log[i], H[w], commit_index[i]) /\ Agree(log[j], H[w], commit_index[j])
        <4>1. CASE t <= u
          BY <1>1, <2>2, <3>2, <3>3, <4>1, HeldByWinner
        <4>2. CASE u <= t
          BY <1>1, <3>1, <3>2, <3>3, <4>2, HeldByWinner
        <4> QED
          BY <4>1, <4>2
      <3> QED
        BY <1>1, <1>3, <3>4 DEF Agree
    <2> QED
      BY <2>1, <2>2
  <1>4. \A i, j \in Node : commit_index[i] <= commit_index[j] \/ commit_index[j] <= commit_index[i]
    BY <1>1
  <1> QED
    BY <1>2, <1>3, <1>4 DEF StateMachineSafety

LEMMA CompleteIfHeld ==
  ASSUME TypeOK, WonByMajority, LeadersOnRecord, NEW H \in Histories, NEW A \in Acks,
         MatchInv(H), WinnersCover(H, A), CommitsHeld(H, A)
  PROVE  LeaderCompleteness
  <1> SUFFICES ASSUME NEW i \in Node, NEW j \in Node, state[i] = Leader,
                      current_term[i] >= current_term[j]
               PROVE  Prefix(Committed(j), log[i])
    BY DEF LeaderCompleteness
  <1>1. /\ log[i] \in Seq(LogEntry) /\ log[j] \in Seq(LogEntry) /\ commit_index[j] \in Nat
        /\ Len(log[i]) \in Nat /\ Len(log[j]) \in Nat
        /\ current_term[i] \in Nat /\ current_term[j] \in Nat
    BY LenProperties DEF TypeOK
  <1>2. log[i] = H[current_term[i]] /\ Won(current_term[i])
    BY DEF MatchInv, HistoriesLed, LeadersOnRecord, Leading, Won
  <1>3. Agree(log[j], log[i], commit_index[j])
    <2>1. CASE commit_index[j] = 0
      BY <1>1, <2>1 DEF Agree
    <2>2. CASE commit_index[j] # 0
      BY <1>1, <1>2, <2>2, HeldByWinner DEF CommitsHeld
    <2> QED
      BY <2>1, <2>2
  <1> QED
    BY <1>1, <1>3, PrefixOfAgreeing DEF Committed

LEMMA LastTermFacts ==
  ASSUME NEW lg \in Seq(LogEntry)
  PROVE  /\ LastTerm(lg) \in Nat /\ Len(lg) \in Nat /\ DOMAIN lg = 1 .. Len(lg)
         /\ Len(lg) > 0 => Len(lg) \in DOMAIN lg /\ LastTerm(lg) = lg[Len(lg)].term
         /\ LastTerm(lg) # 0 => Len(lg) > 0
         /\ lg = <<>> <=> Len(lg) = 0
  <1>1. Len(lg) \in Nat /\ DOMAIN lg = 1 .. Len(lg) /\ (lg = <<>> <=> Len(lg) = 0)
    BY LenProperties, EmptySeq
  <1>2. Len(lg) > 0 => Len(lg) \in DOMAIN lg /\ LastTerm(lg) = lg[Len(lg)].term
    BY <1>1 DEF LastTerm
  <1>3. LastTerm(lg) \in Nat
    BY <1>1, <1>2, TermOfEntry DEF LastTerm
  <1> QED
    BY <1>1, <1>2, <1>3 DEF LastTerm

\* Whoever stored n entries of the history of t, and is not behind that, has what a
\* majority stored of it.
LEMMA StoredStays ==
  ASSUME TypeOK, WonByMajority, NEW H \in Histories, NEW A \in Acks, MatchInv(H),
         WinnersCover(H, A), AcksStored(A),
         NEW t \in Nat, NEW k \in DOMAIN H[t], H[t][k].term = t, Chosen(A, t, k),
         NEW v \in Node, A[v][t] >= k
  PROVE  Agree(H[t], log[v], k)
  <1>1. /\ log[v] \in Seq(LogEntry) /\ Len(log[v]) \in Nat /\ DOMAIN log[v] = 1 .. Len(log[v])
        /\ LastTerm(log[v]) \in Nat
        /\ Len(log[v]) > 0 => Len(log[v]) \in DOMAIN log[v]
                              /\ LastTerm(log[v]) = log[v][Len(log[v])].term
        /\ LastTerm(log[v]) # 0 => Len(log[v]) > 0
    BY LastTermFacts DEF TypeOK
  <1>2. k \in 1 .. Len(H[t]) /\ Len(H[t]) \in Nat /\ A[v][t] \in Nat
    BY HistoryType DEF Acks
  <1>3. \/ LastTerm(log[v]) > t
        \/ LastTerm(log[v]) = t /\ Len(log[v]) >= A[v][t]
    BY <1>2 DEF AcksStored
  <1> DEFINE w == LastTerm(log[v])
             len == Len(log[v])
  <1>4. len > 0
    BY <1>1, <1>2, <1>3
  <1>5. Agree(log[v], H[w], len)
    BY <1>1, <1>4 DEF MatchInv, LogsTraced, Traces
  <1>6. CASE w = t
    <2>1. k <= len
      BY <1>1, <1>2, <1>3, <1>6
    <2> QED
      BY <1>1, <1>2, <1>5, <1>6, <2>1 DEF Agree
  <1>7. CASE w > t
    <2>1. Len(H[w]) \in Nat /\ DOMAIN H[w] = 1 .. Len(H[w]) /\ len \in DOMAIN H[w]
      BY <1>1, <1>4, <1>5, HistoryType DEF Agree
    <2>2. Won(w)
      BY <1>1, <2>1, HistoryWon
    <2>3. Agree(H[t], H[w], k)
      <3> DEFINE B == {n \in Node : A[n][t] >= k}
      <3>1. B \in SUBSET Node /\ Blocks(B) /\ \A n \in B : A[n][t] >= k
        BY MajorityBlocks DEF Chosen
      <3> HIDE DEF B
      <3> QED
        BY <1>1, <1>7, <2>2, <3>1, WinnersComplete
    <2>4. len > k
      <3> SUFFICES ASSUME len <= k PROVE FALSE
        BY <1>1, <1>2
      <3>1. len \in 1 .. k /\ len \in 1 .. len /\ len \in DOMAIN H[t]
        BY <1>1, <1>2, <1>4, HistoryType
      <3>2. log[v][len] = H[t][len]
        BY <1>5, <2>3, <3>1 DEF Agree
      <3>3. H[t][len].term <= t
        BY <3>1 DEF MatchInv, HistoriesTraced, UpToTerm
      <3> QED
        BY <1>1, <1>4, <1>7, <3>2, <3>3
    <2>5. \A j \in 1 .. k : j \in 1 .. len
      BY <1>1, <1>2, <2>4
    <2> QED
      BY <1>1, <1>2, <1>5, <2>3, <2>4, <2>5 DEF Agree
  <1> QED
    BY <1>3, <1>6, <1>7

LEMMA StoredByMajority ==
  ASSUME TypeOK, WonByMajority, NEW H \in Histories, NEW A \in Acks, MatchInv(H),
         WinnersCover(H, A), AcksStored(A), CommitsHeld(H, A)
  PROVE  CommittedOnMajority
  <1> SUFFICES ASSUME NEW i \in Node
               PROVE  IsMajority({j \in Node : Prefix(Committed(i), log[j])})
    BY DEF CommittedOnMajority
  <1>1. /\ \A j \in Node : log[j] \in Seq(LogEntry) /\ Len(log[j]) \in Nat
        /\ commit_index[i] \in Nat
    BY LenProperties DEF TypeOK
  <1>2. ASSUME NEW j \in Node, Agree(log[i], log[j], commit_index[i])
        PROVE  Prefix(Committed(i), log[j])
    BY <1>1, <1>2, PrefixOfAgreeing DEF Committed
  <1>3. CASE commit_index[i] = 0
    <2>1. \A j \in Node : Prefix(Committed(i), log[j])
      BY <1>1, <1>2, <1>3 DEF Agree
    <2>2. {j \in Node : Prefix(Committed(i), log[j])} = Node
      BY <2>1
    <2>3. Node # {}
      OBVIOUS
    <2> QED
      BY <2>2, <2>3, AllAreMajority
  <1>4. CASE commit_index[i] # 0
    <2>1. PICK t \in 0 .. current_term[i] : \E k \in DOMAIN H[t] :
            /\ k >= commit_index[i] /\ H[t][k].term = t /\ Chosen(A, t, k)
            /\ Agree(log[i], H[t], commit_index[i])
      BY <1>4 DEF CommitsHeld, Held
    <2>2. PICK k \in DOMAIN H[t] :
            /\ k >= commit_index[i] /\ H[t][k].term = t /\ Chosen(A, t, k)
            /\ Agree(log[i], H[t], commit_index[i])
      BY <2>1
    <2>3. t \in Nat /\ k \in Nat
      BY HistoryType
    <2>4. ASSUME NEW v \in Node, A[v][t] >= k PROVE Prefix(Committed(i), log[v])
      <3>1. Agree(H[t], log[v], k)
        BY <2>2, <2>3, <2>4, StoredStays
      <3>2. \A j \in 1 .. commit_index[i] : j \in 1 .. k
        BY <1>1, <2>2, <2>3
      <3>3. commit_index[i] <= Len(log[v])
        BY <1>1, <2>2, <2>3, <3>1 DEF Agree
      <3>4. Agree(log[i], log[v], commit_index[i])
        BY <2>2, <3>1, <3>2, <3>3 DEF Agree
      <3> QED
        BY <1>2, <3>4
    <2> QED
      BY <2>2, <2>4, LargerIsMajority DEF Chosen
  <1> QED
    BY <1>3, <1>4

-----------------------------------------------------------------------------
(* One step, and what it does to a log *)

\* What a coordinator stored in a term is settled when it leaves the term.
AcksFollow(A, A1) ==
  \A v \in Node : /\ A1[v][current_term'[v]] = Acked(v)'
                  /\ \A t \in Nat : t # current_term'[v] => A1[v][t] = A[v][t]

\* A step outside raft, from a state and to a state in which terms have one winner.
GatedStep ==
  /\ Protocol # "raft"
  /\ TypeOK /\ TypeOK' /\ ElectionInv /\ ElectionInv' /\ ElectionSafety'
  /\ CandidaciesOpen /\ EntriesFromWinners
  /\ StepKind /\ MessageStep /\ elected \subseteq elected'
  /\ \A n \in Node : current_term'[n] >= current_term[n]

\* The step, and what H and A become by it.
CommitStep(H, H1, A, A1) ==
  /\ GatedStep
  /\ MatchInv(H) /\ MatchInv(H1)' /\ HistoryStep(H, H1)
  /\ CommitInv(H, A) /\ AcksFollow(A, A1)

LEMMA AcksExist ==
  ASSUME TypeOK', NEW A \in Acks
  PROVE  \E A1 \in Acks : AcksFollow(A, A1)
  <1> DEFINE A1 == [v \in Node |-> [t \in Nat |->
                      IF t = current_term'[v] THEN Acked(v)' ELSE A[v][t]]]
  <1>1. ASSUME NEW v \in Node PROVE current_term'[v] \in Nat /\ Acked(v)' \in Nat
    <2>1. log'[v] \in Seq(LogEntry) /\ current_term'[v] \in Nat
      BY DEF TypeOK
    <2>2. Len(log'[v]) \in Nat
      BY <2>1, LenProperties
    <2> QED
      BY <2>1, <2>2 DEF Acked
  <1>2. A1 \in Acks
    BY <1>1 DEF Acks
  <1>3. AcksFollow(A, A1)
    BY <1>1 DEF AcksFollow
  <1> QED
    BY <1>2, <1>3

\* The log of v, which leads or has just won, continues with entries of its term.
LogGrown(v) ==
  /\ LeadsThrough(v) /\ Agree(log[v], log'[v], Len(log[v]))
  /\ \A n \in DOMAIN log'[v] : n > Len(log[v]) => log'[v][n].term = current_term[v]
  /\ \A d \in Node : \/ Leading(state[v]) /\ next_index'[v][d] = next_index[v][d]
                     \/ next_index'[v][d] = Len(log[v]) + 1

LEMMA LogKinds ==
  ASSUME TypeOK, StepKind, NEW v \in Node
  PROVE  log'[v] = log[v] \/ LogGrown(v) \/ \E s \in Node : AcceptStep(v, s)
  <1>1. ASSUME NEW i \in Node, GrowStep(i), LeadsThrough(i),
               \A d \in Node : \/ Leading(state[i]) /\ next_index'[i][d] = next_index[i][d]
                               \/ next_index'[i][d] = Len(log[i]) + 1
        PROVE  log'[v] = log[v] \/ LogGrown(v)
    <2>1. PICK cmds \in Seq(Command) : log' = [log EXCEPT ![i] = Extended(i, cmds)]
      BY <1>1 DEF GrowStep
    <2>2. CASE v = i
      <3>1. log'[v] = Extended(v, cmds)
        BY <2>1, <2>2 DEF TypeOK
      <3>2. /\ Agree(log[v], log'[v], Len(log[v]))
            /\ \A n \in DOMAIN log'[v] : n > Len(log[v]) => log'[v][n].term = current_term[v]
        BY <3>1, ExtendedParts
      <3> QED
        BY <1>1, <2>2, <3>2 DEF LogGrown
    <2>3. CASE v # i
      BY <2>1, <2>3 DEF TypeOK
    <2> QED
      BY <2>2, <2>3
  <1>2. CASE RestStep \/ \E i \in Node : StartStep(i)
    BY <1>2 DEF RestStep, StartStep, replicationVars
  <1>3. ASSUME NEW i \in Node, NEW s \in Node, CountStep(i, s) \/ AckStep(i, s)
        PROVE  log'[v] = log[v]
    BY <1>3 DEF CountStep, AckStep
  <1>4. ASSUME NEW i \in Node, ProposeStep(i) PROVE log'[v] = log[v] \/ LogGrown(v)
    BY <1>1, <1>4 DEF ProposeStep, LeadsThrough
  <1>5. ASSUME NEW i \in Node, NEW s \in Node, WinningStep(i, s)
        PROVE  log'[v] = log[v] \/ LogGrown(v)
    <2>1. state'[i] = Leader /\ current_term' = current_term /\ GrowStep(i)
      BY <1>5 DEF WinningStep, Counting, TypeOK
    <2>2. \A d \in Node : next_index'[i][d] = Len(log[i]) + 1
      BY <1>5 DEF WinningStep, TypeOK
    <2> QED
      BY <1>1, <2>1, <2>2 DEF LeadsThrough, Leading
  <1>6. ASSUME NEW i \in Node, NEW s \in Node, AcceptStep(i, s)
        PROVE  log'[v] = log[v] \/ AcceptStep(v, s)
    BY <1>6 DEF AcceptStep, TypeOK
  <1> QED
    BY <1>2, <1>3, <1>4, <1>5, <1>6 DEF StepKind

\* Who is a candidate after a step was one before, with the same log and votes that
\* were at hand or under way, or starts to be one.
LEMMA CandidateKinds ==
  ASSUME TypeOK, StepKind, NEW c \in Node, state'[c] = Candidate
  PROVE  \/ /\ state[c] = Candidate /\ current_term'[c] = current_term[c] /\ log'[c] = log[c]
            /\ \A v \in Node : votes'[c][v] # None => VotedFor(v, c)
         \/ StartStep(c)
  <1> DEFINE Same == /\ state[c] = Candidate /\ current_term'[c] = current_term[c]
                     /\ log'[c] = log[c] /\ votes'[c] = votes[c]
  <1>1. Same => \A v \in Node : votes'[c][v] # None => VotedFor(v, c)
    BY DEF VotedFor
  <1>2. state \in [Node -> NodeState] /\ log \in [Node -> Seq(LogEntry)]
        /\ current_term \in [Node -> Nat] /\ votes \in [Node -> [Node -> Levels \cup {None}]]
    BY DEF TypeOK
  <1>3. CASE RestStep
    BY <1>1, <1>3 DEF RestStep, Keeps, replicationVars
  <1>4. ASSUME NEW i \in Node, StartStep(i) PROVE Same \/ StartStep(c)
    BY <1>2, <1>4 DEF StartStep, replicationVars
  <1>5. ASSUME NEW i \in Node, ProposeStep(i) PROVE Same
    <2>1. /\ Leading(state[i]) /\ state' \in {state, HandedOver(i)} /\ GrowStep(i)
          /\ current_term' = current_term /\ votes' = votes
      BY <1>5 DEF ProposeStep
    <2>2. c # i
      BY <1>2, <2>1 DEF HandedOver, Leading, Follower, Candidate, Leader, LocalLeader
    <2>3. state'[c] = state[c] /\ log'[c] = log[c]
      BY <1>2, <2>1, <2>2 DEF HandedOver, GrowStep
    <2> QED
      BY <2>1, <2>3
  <1>6. ASSUME NEW i \in Node, NEW s \in Node, AcceptStep(i, s) PROVE Same
    BY <1>2, <1>6 DEF AcceptStep, Keeps
  <1>7. ASSUME NEW i \in Node, NEW s \in Node, AckStep(i, s) PROVE Same
    BY <1>7 DEF AckStep
  <1>8. ASSUME NEW i \in Node, NEW s \in Node, CountStep(i, s)
        PROVE  Same \/ \A v \in Node : votes'[c][v] # None => VotedFor(v, c)
    <2> DEFINE m == Head(net[s][i])
    <2>1. /\ m \in Content(net[s][i]) /\ m.type = "vote_response" /\ m.term = current_term[i]
          /\ votes' = [votes EXCEPT ![i] = Ballots(i, s)] /\ UNCHANGED <<state, log, current_term>>
      BY <1>8 DEF CountStep, Counting
    <2>2. CASE c # i
      BY <1>2, <2>1, <2>2
    <2>3. CASE c = i
      <3>1. votes'[i] = Ballots(i, s)
        BY <1>2, <2>1
      <3>2. ASSUME NEW v \in Node, votes'[i][v] # None PROVE VotedFor(v, i)
        <4>1. votes[i][v] # None \/ (v = s /\ m.vote_granted)
          BY <1>2, <3>1, <3>2 DEF Ballots
        <4>2. m.vote_granted => IsGrant(m)
          BY <2>1 DEF IsGrant
        <4> HIDE DEF m
        <4> QED
          BY <2>1, <4>1, <4>2 DEF VotedFor
      <3> QED
        BY <2>3, <3>2
    <2> QED
      BY <2>2, <2>3
  <1>9. ASSUME NEW i \in Node, NEW s \in Node, WinningStep(i, s) PROVE Same
    <2>1. /\ state' = [state EXCEPT ![i] = Leader] /\ GrowStep(i) /\ current_term' = current_term
          /\ votes' = [votes EXCEPT ![i] = Ballots(i, s)]
      BY <1>9 DEF WinningStep, Counting
    <2>2. c # i
      BY <1>2, <2>1 DEF Candidate, Leader
    <2> QED
      BY <1>2, <2>1, <2>2 DEF GrowStep
  <1>10. ASSUME NEW i \in Node, NEW s \in Node, CountStep(i, s)
         PROVE  state[c] = Candidate /\ current_term'[c] = current_term[c] /\ log'[c] = log[c]
    BY <1>10 DEF CountStep, Counting
  <1> HIDE DEF Same
  <1>11. Same => /\ state[c] = Candidate /\ current_term'[c] = current_term[c]
                 /\ log'[c] = log[c]
    BY DEF Same
  <1> QED
    BY <1>1, <1>3, <1>4, <1>5, <1>6, <1>7, <1>8, <1>9, <1>10, <1>11 DEF StepKind, RestStep, Same

LEMMA LeadKinds ==
  ASSUME TypeOK, StepKind, NEW s \in Node, Leading(state'[s])
  PROVE  \/ Leading(state[s]) /\ current_term'[s] = current_term[s]
         \/ \E d \in Node : WinningStep(s, d)
  <1> DEFINE Same == Leading(state[s]) /\ current_term'[s] = current_term[s]
  <1>1. state \in [Node -> NodeState] /\ current_term \in [Node -> Nat]
    BY DEF TypeOK
  <1>2. CASE RestStep
    BY <1>2 DEF RestStep, Keeps
  <1>3. ASSUME NEW i \in Node, StartStep(i) PROVE Same
    BY <1>1, <1>3 DEF StartStep, Leading, Candidate, Leader, LocalLeader
  <1>4. ASSUME NEW i \in Node, ProposeStep(i) PROVE Same
    BY <1>1, <1>4 DEF ProposeStep, HandedOver, Leading, Follower, Leader, LocalLeader
  <1>5. ASSUME NEW i \in Node, NEW d \in Node, CountStep(i, d) \/ AckStep(i, d) PROVE Same
    BY <1>5 DEF CountStep, Counting, AckStep
  <1>6. ASSUME NEW i \in Node, NEW d \in Node, AcceptStep(i, d) PROVE Same
    BY <1>6 DEF AcceptStep, Keeps
  <1>7. ASSUME NEW i \in Node, NEW d \in Node, WinningStep(i, d) PROVE Same \/ i = s
    BY <1>1, <1>7 DEF WinningStep, Counting
  <1> QED
    BY <1>2, <1>3, <1>4, <1>5, <1>6, <1>7 DEF StepKind

\* A win on record after a step was there before, or is the step.
LEMMA NewWinner ==
  ASSUME TypeOK, StepKind, NEW e \in elected', e \notin elected
  PROVE  \E i, s \in Node : /\ WinningStep(i, s) /\ e.leader = i /\ e.term = current_term[i]
                            /\ e.quorum = Voters(Ballots(i, s))
  <1>1. CASE RestStep \/ \E i \in Node : StartStep(i) \/ ProposeStep(i)
    BY <1>1 DEF RestStep, StartStep, ProposeStep
  <1>2. ASSUME NEW i \in Node, NEW s \in Node, CountStep(i, s) \/ AcceptStep(i, s) \/ AckStep(i, s)
        PROVE  FALSE
    BY <1>2 DEF CountStep, AcceptStep, AckStep
  <1>3. ASSUME NEW i \in Node, NEW s \in Node, WinningStep(i, s)
        PROVE  e.leader = i /\ e.term = current_term[i] /\ e.quorum = Voters(Ballots(i, s))
    BY <1>3 DEF WinningStep
  <1> QED
    BY <1>1, <1>2, <1>3 DEF StepKind

\* Whatever kind of step: leaders and the entries under way have their win on record, and
\* candidates have not won yet.
LEMMA StepOpen ==
  ASSUME TypeOK, TypeOK', StepKind, MessageStep, elected \subseteq elected',
         \A n \in Node : current_term'[n] >= current_term[n],
         LeadersOnRecord, CandidaciesOpen, EntriesFromWinners
  PROVE  LeadersOnRecord' /\ CandidaciesOpen' /\ EntriesFromWinners'
  <1>1. \A n \in Node : current_term[n] \in Nat /\ current_term'[n] \in Nat
    BY DEF TypeOK
  <1>2. ASSUME NEW i \in Node, NEW s \in Node, WinningStep(i, s)
        PROVE  /\ state'[i] = Leader /\ current_term'[i] = current_term[i]
               /\ \E e \in elected' : e.leader = i /\ e.term = current_term[i]
    <2>1. state'[i] = Leader /\ current_term'[i] = current_term[i]
      BY <1>2 DEF WinningStep, Counting, TypeOK
    <2>2. PICK level :
            elected' = elected \cup
              {[term |-> current_term[i], leader |-> i, quorum |-> Voters(Ballots(i, s)),
                battery_level |-> level]}
      BY <1>2 DEF WinningStep
    <2> DEFINE win == [term |-> current_term[i], leader |-> i,
                       quorum |-> Voters(Ballots(i, s)), battery_level |-> level]
    <2>3. win.leader = i /\ win.term = current_term[i] /\ win \in elected'
      BY <2>2
    <2> QED
      BY <2>1, <2>3
  <1>3. LeadersOnRecord'
    <2> SUFFICES ASSUME NEW i \in Node, Leading(state'[i])
                 PROVE  \E e \in elected' : e.leader = i /\ e.term = current_term'[i]
      BY DEF LeadersOnRecord, Leading
    <2> QED
      BY <1>2, LeadKinds DEF LeadersOnRecord
  <1>4. CandidaciesOpen'
    <2> SUFFICES ASSUME NEW e \in elected'
                 PROVE  /\ e.term <= current_term'[e.leader]
                        /\ state'[e.leader] = Candidate => e.term < current_term'[e.leader]
      BY DEF CandidaciesOpen
    <2>1. CASE e \in elected
      <3>1. e.leader \in Node /\ e.term \in Nat
        BY <2>1 DEF TypeOK
      <3>2. /\ e.term <= current_term[e.leader]
            /\ state[e.leader] = Candidate => e.term < current_term[e.leader]
        BY <2>1 DEF CandidaciesOpen
      <3>3. ASSUME state'[e.leader] = Candidate
            PROVE  \/ state[e.leader] = Candidate /\ current_term'[e.leader] = current_term[e.leader]
                   \/ current_term'[e.leader] > current_term[e.leader]
        <4>1. StartStep(e.leader) => current_term'[e.leader] > current_term[e.leader]
          BY <3>1 DEF StartStep, TypeOK
        <4> QED
          BY <3>1, <3>3, <4>1, CandidateKinds
      <3> QED
        BY <1>1, <3>1, <3>2, <3>3
    <2>2. CASE e \notin elected
      <3>1. PICK i \in Node, s \in Node :
              WinningStep(i, s) /\ e.leader = i /\ e.term = current_term[i]
        BY <2>2, NewWinner
      <3> QED
        BY <1>1, <1>2, <3>1 DEF Candidate, Leader
    <2> QED
      BY <2>1, <2>2
  <1>5. EntriesFromWinners'
    <2> SUFFICES ASSUME NEW s \in Node, NEW d \in Node, NEW m \in Content(net'[s][d]),
                        m.type = "append_entries"
                 PROVE  s # d /\ \E e \in elected' : e.leader = s /\ e.term = m.term
      BY DEF EntriesFromWinners
    <2>1. m \in Content(net[s][d]) \/ SentEntries(s, d, m)
      BY DEF MessageStep, Sent
    <2> QED
      BY <2>1 DEF EntriesFromWinners, SentEntries, WonTerm
  <1> QED
    BY <1>3, <1>4, <1>5

\* Whoever leads through a step is the winner of its term.
LEMMA SoleLeader ==
  ASSUME ElectionInv, ElectionInv', ElectionSafety', elected \subseteq elected',
         NEW i \in Node, LeadsThrough(i), NEW e \in elected', e.term = current_term[i]
  PROVE  e.leader = i
  <1>1. \E f \in elected' : f.leader = i /\ f.term = current_term[i]
    BY DEF LeadsThrough, ElectionInv, LeadersOnRecord
  <1> QED
    BY <1>1 DEF ElectionSafety

\* Along a log the terms do not decrease.
LEMMA TermsAscend ==
  ASSUME NEW H \in Histories, HistoriesTraced(H), NEW lg \in Seq(LogEntry), Traces(H, lg),
         NEW n \in DOMAIN lg, NEW k \in 1 .. n
  PROVE  lg[k].term <= lg[n].term
  <1>1. /\ lg[n].term \in Nat /\ DOMAIN lg = 1 .. Len(lg) /\ Len(lg) \in Nat
        /\ Agree(lg, H[lg[n].term], n)
    BY TermOfEntry, LenProperties DEF Traces
  <1>2. k \in DOMAIN H[lg[n].term] /\ lg[k] = H[lg[n].term][k]
    <2>1. Len(H[lg[n].term]) \in Nat /\ DOMAIN H[lg[n].term] = 1 .. Len(H[lg[n].term])
      BY <1>1, HistoryType
    <2> QED
      BY <1>1, <2>1 DEF Agree
  <1> QED
    BY <1>1, <1>2 DEF HistoriesTraced, UpToTerm

LEMMA LastTermIsHighest ==
  ASSUME NEW H \in Histories, HistoriesTraced(H), NEW lg \in Seq(LogEntry), Traces(H, lg),
         NEW n \in DOMAIN lg
  PROVE  lg[n].term <= LastTerm(lg)
  <1>1. Len(lg) \in DOMAIN lg /\ LastTerm(lg) = lg[Len(lg)].term /\ n \in 1 .. Len(lg)
    BY LastTermFacts
  <1> QED
    BY <1>1, TermsAscend

\* What i takes over, outside raft: it then holds a part of the history of the term, that
\* ends in an entry of the term, and still what it had in common with that history.
LEMMA TakesHistory ==
  ASSUME TypeOK, EntriesFromWinners, EntriesEnd, NEW H \in Histories, MatchInv(H),
         NEW i \in Node, NEW s \in Node, Takes(i, s)
  PROVE  LET t == Head(net[s][i]).term
         IN  /\ t \in Nat /\ s # i /\ current_term'[i] = t
             /\ \E e \in elected : e.leader = s /\ e.term = t
             /\ log'[i] \in Seq(LogEntry) /\ Len(log'[i]) > 0 /\ LastTerm(log'[i]) = t
             /\ Agree(log'[i], H[t], Len(log'[i]))
             /\ \A c \in Nat : Agree(log[i], H[t], c) => Agree(log[i], log'[i], c)
  <1> DEFINE m == Head(net[s][i])
             lg == log[i]
             h == H[m.term]
             prev == m.prev_log_index
             es == m.entries
             merged == Merged(lg, prev, es)
             last == prev + Len(es)
  <1>1. /\ m \in Content(net[s][i]) /\ m.type = "append_entries" /\ m.term >= current_term[i]
        /\ Consistent(lg, prev, m.prev_log_term) /\ current_term'[i] = m.term
        /\ log'[i] = merged
    BY DEF Takes, TypeOK
  <1>2. /\ m.term \in Nat /\ prev \in Nat /\ es \in Seq(LogEntry)
        /\ Traces(H, merged) /\ UpToTerm(merged, m.term)
        /\ es # <<>> => Agree(merged, h, last)
        /\ merged = lg \/ Len(merged) = last
    BY AcceptedMessage
  <1>3. es # <<>> /\ es[Len(es)].term = m.term
    BY <1>1 DEF EntriesEnd
  <1>4. s # i /\ \E e \in elected : e.leader = s /\ e.term = m.term
    BY <1>1 DEF EntriesFromWinners
  <1>5. /\ last <= Len(h) /\ (\A k \in 1 .. Len(es) : es[k] = h[prev + k])
    BY <1>1, <1>3 DEF MatchInv, EntriesTraced, PartOf
  <1>6. /\ lg \in Seq(LogEntry) /\ h \in Seq(LogEntry) /\ Len(lg) \in Nat /\ Len(h) \in Nat
        /\ Len(es) \in Nat /\ Len(es) > 0
    <2>1. h \in Seq(LogEntry) /\ Len(h) \in Nat
      BY <1>2, HistoryType
    <2>2. lg \in Seq(LogEntry) /\ Len(lg) \in Nat
      BY LenProperties DEF TypeOK
    <2> HIDE DEF es
    <2>3. Len(es) \in Nat /\ Len(es) # 0
      BY <1>2, <1>3, EmptySeq, LenProperties
    <2> QED
      BY <2>1, <2>2, <2>3
  <1>7. prev <= Len(lg)
    BY <1>2, <1>1, <1>6 DEF Consistent
  <1> HIDE DEF m, h, lg
  <1>8. merged \in Seq(LogEntry)
    BY <1>2, <1>6, <1>7, MergeIsSeq
  <1>9. \A c \in Nat : Agree(lg, h, c) => Agree(lg, merged, c)
    BY <1>2, <1>5, <1>6, <1>7, MergeKeepsCommon
  <1> HIDE DEF merged, es, prev
  <1>10. /\ last \in 1 .. Len(merged) /\ merged[last] = h[last] /\ h[last].term = m.term
         /\ Len(merged) \in Nat /\ DOMAIN merged = 1 .. Len(merged)
    <2>1. /\ last <= Len(merged) /\ (\A k \in 1 .. last : merged[k] = h[k])
          /\ Len(merged) \in Nat /\ DOMAIN merged = 1 .. Len(merged)
      BY <1>2, <1>3, <1>8, LenProperties DEF Agree
    <2>2. last \in Nat /\ last > 0 /\ Len(es) \in 1 .. Len(es)
      BY <1>2, <1>6
    <2>3. es[Len(es)] = h[last]
      BY <1>5, <2>2
    <2> QED
      BY <1>3, <2>1, <2>2, <2>3
  <1>11. LastTerm(merged) = m.term
    <2>1. merged[last].term <= LastTerm(merged)
      BY <1>2, <1>8, <1>10, LastTermIsHighest DEF MatchInv
    <2>2. /\ LastTerm(merged) = merged[Len(merged)].term /\ Len(merged) \in DOMAIN merged
          /\ LastTerm(merged) \in Nat
      BY <1>8, <1>10, LastTermFacts
    <2>3. LastTerm(merged) <= m.term
      BY <1>2, <2>2 DEF UpToTerm
    <2>4. merged[last].term = m.term /\ m.term \in Nat
      BY <1>2, <1>10
    <2> QED
      BY <2>1, <2>2, <2>3, <2>4
  <1>12. Agree(merged, h, Len(merged))
    <2>1. Len(merged) \in DOMAIN merged /\ LastTerm(merged) = merged[Len(merged)].term
      BY <1>8, <1>10, LastTermFacts
    <2> QED
      BY <1>2, <1>11, <2>1 DEF Traces, h
  <1> QED
    <2>1. /\ m.term \in Nat /\ s # i /\ current_term'[i] = m.term
          /\ \E e \in elected : e.leader = s /\ e.term = m.term
      BY <1>1, <1>2, <1>4
    <2>2. /\ log'[i] \in Seq(LogEntry) /\ Len(log'[i]) > 0 /\ LastTerm(log'[i]) = m.term
          /\ Agree(log'[i], h, Len(log'[i]))
      BY <1>1, <1>6, <1>8, <1>10, <1>11, <1>12
    <2>3. \A c \in Nat : Agree(lg, h, c) => Agree(lg, log'[i], c)
      BY <1>1, <1>9
    <2> QED
      BY <2>1, <2>2, <2>3 DEF m, h, lg

-----------------------------------------------------------------------------
(* What is stored, after a step *)

\* The types that the lemmas about a step need of one coordinator.
LEMMA NodeTypes ==
  ASSUME NEW H \in Histories, NEW H1 \in Histories, NEW A \in Acks, NEW A1 \in Acks,
         CommitStep(H, H1, A, A1), NEW v \in Node
  PROVE  /\ current_term[v] \in Nat /\ current_term'[v] \in Nat
         /\ current_term'[v] >= current_term[v]
         /\ log[v] \in Seq(LogEntry) /\ Len(log[v]) \in Nat
         /\ log'[v] \in Seq(LogEntry) /\ Len(log'[v]) \in Nat
         /\ commit_index[v] \in 0 .. Len(log[v]) /\ commit_index'[v] \in Nat
         /\ \A t \in Nat : A[v][t] \in Nat /\ A1[v][t] \in Nat
  <1>1. TypeOK /\ TypeOK' /\ current_term'[v] >= current_term[v] /\ CommitsHeld(H, A)
    BY DEF CommitStep, GatedStep, CommitInv, HeldInv
  <1>2. /\ current_term[v] \in Nat /\ current_term'[v] \in Nat
        /\ log[v] \in Seq(LogEntry) /\ log'[v] \in Seq(LogEntry) /\ commit_index'[v] \in Nat
    BY <1>1 DEF TypeOK
  <1>3. Len(log[v]) \in Nat /\ Len(log'[v]) \in Nat
    BY <1>2, LenProperties
  <1>4. commit_index[v] \in 0 .. Len(log[v])
    BY <1>1, CommittedLength
  <1> QED
    BY <1>1, <1>2, <1>3, <1>4 DEF Acks

\* How the log of v changed, as far as its end goes.
LEMMA LogEnds ==
  ASSUME NEW H \in Histories, NEW H1 \in Histories, NEW A \in Acks, NEW A1 \in Acks,
         CommitStep(H, H1, A, A1), NEW v \in Node
  PROVE  \/ log'[v] = log[v]
         \/ /\ LogGrown(v) /\ LastTerm(log'[v]) = current_term[v]
            /\ current_term'[v] = current_term[v] /\ Len(log'[v]) > Len(log[v])
         \/ /\ \E s \in Node : AcceptStep(v, s)
            /\ ~LeadsThrough(v) /\ LastTerm(log'[v]) = current_term'[v]
            /\ Agree(log'[v], H[current_term'[v]], Len(log'[v]))
            /\ \A c \in Nat : Agree(log[v], H[current_term'[v]], c) => Agree(log[v], log'[v], c)
  <1>1. /\ TypeOK /\ StepKind /\ EntriesFromWinners /\ EntriesEnd /\ MatchInv(H)
        /\ ElectionSafety /\ LeadersOnRecord
    BY OneWinner DEF CommitStep, GatedStep, CommitInv, MailInv, ElectionInv
  <1>2. CASE LogGrown(v)
    <2>1. /\ log[v] \in Seq(LogEntry) /\ log'[v] \in Seq(LogEntry)
          /\ Len(log[v]) \in Nat /\ Len(log'[v]) \in Nat
      BY NodeTypes
    <2>2. /\ LeadsThrough(v) /\ Agree(log[v], log'[v], Len(log[v]))
          /\ \A n \in DOMAIN log'[v] : n > Len(log[v]) => log'[v][n].term = current_term[v]
      BY <1>2 DEF LogGrown
    <2>3. CASE Len(log'[v]) = Len(log[v])
      <3>1. \A k \in 1 .. Len(log[v]) : log[v][k] = log'[v][k]
        BY <2>2 DEF Agree
      <3>2. log'[v] = log[v]
        BY <2>1, <2>3, <3>1, SeqEqual
      <3> QED
        BY <3>2
    <2>4. CASE Len(log'[v]) # Len(log[v])
      <3>1. Len(log'[v]) > Len(log[v])
        BY <2>1, <2>2, <2>4 DEF Agree
      <3>2. Len(log'[v]) \in DOMAIN log'[v] /\ LastTerm(log'[v]) = log'[v][Len(log'[v])].term
        BY <2>1, <3>1, LastTermFacts
      <3> QED
        BY <1>2, <2>2, <3>1, <3>2 DEF LeadsThrough
    <2> QED
      BY <2>3, <2>4
  <1>3. ASSUME NEW s \in Node, AcceptStep(v, s)
        PROVE  /\ ~LeadsThrough(v) /\ LastTerm(log'[v]) = current_term'[v]
               /\ Agree(log'[v], H[current_term'[v]], Len(log'[v]))
               /\ \A c \in Nat : Agree(log[v], H[current_term'[v]], c) => Agree(log[v], log'[v], c)
    <2>1. ~LeadsThrough(v)
      BY <1>1, <1>3, AcceptorFollows
    <2>2. Takes(v, s)
      BY <1>1, <1>3, AcceptingTakes
    <2> QED
      BY <1>1, <2>1, <2>2, TakesHistory
  <1> QED
    BY <1>1, <1>2, <1>3, LogKinds

\* Nobody stores less of a term than it did.
LEMMA AcksGrow ==
  ASSUME NEW H \in Histories, NEW H1 \in Histories, NEW A \in Acks, NEW A1 \in Acks,
         CommitStep(H, H1, A, A1), NEW v \in Node, NEW t \in Nat
  PROVE  A[v][t] <= A1[v][t]
  <1> DEFINE u == current_term[v]
             u1 == current_term'[v]
  <1>1. /\ u \in Nat /\ u1 \in Nat /\ u1 >= u /\ A[v][t] \in Nat /\ A1[v][t] \in Nat
        /\ log[v] \in Seq(LogEntry) /\ log'[v] \in Seq(LogEntry)
        /\ Len(log[v]) \in Nat /\ Len(log'[v]) \in Nat
    BY NodeTypes
  <1>2. /\ A1[v][u1] = IF LastTerm(log'[v]) = u1 THEN Len(log'[v]) ELSE 0
        /\ t # u1 => A1[v][t] = A[v][t]
        /\ A[v][u] = IF LastTerm(log[v]) = u THEN Len(log[v]) ELSE 0
        /\ t > u => A[v][t] = 0
    BY DEF CommitStep, GatedStep, AcksFollow, Acked, CommitInv, StoredInv, AcksNow
  <1>3. MatchInv(H) /\ HistoriesTraced(H) /\ Traces(H, log[v])
    BY DEF CommitStep, GatedStep, MatchInv, LogsTraced
  <1> HIDE DEF u, u1
  <1>4. CASE t # u1 \/ u1 # u \/ LastTerm(log[v]) # u \/ Len(log[v]) = 0
    BY <1>1, <1>2, <1>4
  <1>5. CASE t = u1 /\ u1 = u /\ LastTerm(log[v]) = u /\ Len(log[v]) # 0
    <2>1. Agree(log[v], H[u], Len(log[v]))
      <3>1. Len(log[v]) \in DOMAIN log[v] /\ LastTerm(log[v]) = log[v][Len(log[v])].term
        BY <1>1, <1>5, LastTermFacts
      <3> QED
        BY <1>3, <1>5, <3>1 DEF Traces
    <2>2. /\ LastTerm(log'[v]) = u1 /\ Len(log'[v]) >= Len(log[v])
      <3>1. CASE log'[v] = log[v]
        BY <1>1, <1>5, <3>1
      <3>2. CASE LastTerm(log'[v]) = u /\ Len(log'[v]) > Len(log[v])
        BY <1>1, <1>5, <3>2
      <3>3. CASE /\ LastTerm(log'[v]) = u1
                 /\ \A c \in Nat : Agree(log[v], H[u1], c) => Agree(log[v], log'[v], c)
        BY <1>1, <1>5, <2>1, <3>3 DEF Agree
      <3> QED
        BY <3>1, <3>2, <3>3, LogEnds DEF u, u1
    <2> QED
      BY <1>1, <1>2, <1>5, <2>2
  <1> QED
    BY <1>4, <1>5

\* How much is stored of a term that has been left does not change.
LEMMA AcksSettled ==
  ASSUME NEW H \in Histories, NEW H1 \in Histories, NEW A \in Acks, NEW A1 \in Acks,
         CommitStep(H, H1, A, A1), NEW v \in Node, NEW t \in Nat,
         t < current_term'[v]
  PROVE  A1[v][t] = A[v][t]
  <1>1. current_term'[v] \in Nat
    BY NodeTypes
  <1> QED
    BY <1>1 DEF CommitStep, GatedStep, AcksFollow

LEMMA NextStored ==
  ASSUME NEW H \in Histories, NEW H1 \in Histories, NEW A \in Acks, NEW A1 \in Acks,
         CommitStep(H, H1, A, A1)
  PROVE  AcksNow(A1)' /\ AcksTraced(H1, A1) /\ AcksStored(A1)'
  <1>1. AcksNow(A) /\ AcksTraced(H, A) /\ AcksStored(A) /\ AcksFollow(A, A1)
    BY DEF CommitStep, GatedStep, CommitInv, StoredInv
  <1>2. AcksNow(A1)'
    <2> SUFFICES ASSUME NEW v \in Node
                 PROVE  /\ A1[v][current_term'[v]] = Acked(v)'
                        /\ \A t \in Nat : t > current_term'[v] => A1[v][t] = 0
      BY DEF AcksNow
    <2>1. current_term[v] \in Nat /\ current_term'[v] \in Nat /\ current_term'[v] >= current_term[v]
      BY NodeTypes
    <2>2. ASSUME NEW t \in Nat, t > current_term'[v] PROVE A1[v][t] = 0
      <3>1. t # current_term'[v] /\ t > current_term[v]
        BY <2>1, <2>2
      <3> QED
        BY <1>1, <3>1 DEF AcksNow, AcksFollow
    <2> QED
      BY <1>1, <2>2 DEF AcksFollow
  <1>3. ASSUME NEW v \in Node, NEW t \in Nat, A1[v][t] > 0, t = current_term'[v]
        PROVE  A1[v][t] = Len(log'[v]) /\ LastTerm(log'[v]) = t
    BY <1>1, <1>3 DEF AcksFollow, Acked
  <1>4. ASSUME NEW v \in Node, NEW t \in Nat, A1[v][t] > 0, t # current_term'[v]
        PROVE  A[v][t] > 0 /\ A1[v][t] = A[v][t] /\ t <= current_term[v] /\ t < current_term'[v]
    <2>1. A1[v][t] = A[v][t]
      BY <1>1, <1>4 DEF AcksFollow
    <2>2. current_term[v] \in Nat /\ current_term'[v] \in Nat /\ current_term'[v] >= current_term[v]
      BY NodeTypes
    <2>3. ~(t > current_term[v])
      BY <1>1, <1>4, <2>1 DEF AcksNow
    <2> QED
      BY <1>4, <2>1, <2>2, <2>3
  <1>5. AcksTraced(H1, A1)
    <2> SUFFICES ASSUME NEW v \in Node, NEW t \in Nat, A1[v][t] > 0
                 PROVE  A1[v][t] <= Len(H1[t]) /\ H1[t][A1[v][t]].term = t
      BY DEF AcksTraced
    <2>1. CASE t = current_term'[v]
      <3>1. log'[v] \in Seq(LogEntry) /\ A1[v][t] = Len(log'[v]) /\ LastTerm(log'[v]) = t
        BY <1>3, <2>1, NodeTypes
      <3>2. Len(log'[v]) \in DOMAIN log'[v] /\ log'[v][Len(log'[v])].term = t
        BY <3>1, LastTermFacts
      <3>3. Agree(log'[v], H1[t], Len(log'[v]))
        BY <3>2 DEF CommitStep, GatedStep, MatchInv, LogsTraced, Traces
      <3>4. Len(log'[v]) \in 1 .. Len(log'[v])
        BY <3>1, NodeTypes
      <3> QED
        BY <3>1, <3>2, <3>3, <3>4 DEF Agree
    <2>2. CASE t # current_term'[v]
      <3>1. A[v][t] > 0 /\ A1[v][t] = A[v][t] /\ A[v][t] \in Nat
        BY <1>4, <2>2, NodeTypes
      <3>2. A[v][t] <= Len(H[t]) /\ H[t][A[v][t]].term = t
        BY <1>1, <3>1 DEF AcksTraced
      <3>3. /\ Len(H[t]) <= Len(H1[t]) /\ \A k \in 1 .. Len(H[t]) : H[t][k] = H1[t][k]
            /\ Len(H[t]) \in Nat /\ Len(H1[t]) \in Nat
        BY HistoryType DEF CommitStep, GatedStep, HistoryStep, Agree
      <3> QED
        BY <3>1, <3>2, <3>3
    <2> QED
      BY <2>1, <2>2
  <1>6. AcksStored(A1)'
    <2> SUFFICES ASSUME NEW v \in Node, NEW t \in Nat, A1[v][t] > 0
                 PROVE  \/ LastTerm(log'[v]) > t
                        \/ LastTerm(log'[v]) = t /\ Len(log'[v]) >= A1[v][t]
      BY DEF AcksStored
    <2>1. CASE t = current_term'[v]
      <3>1. Len(log'[v]) \in Nat
        BY NodeTypes
      <3> QED
        BY <1>3, <2>1, <3>1
    <2>2. CASE t # current_term'[v]
      <3>1. /\ A[v][t] > 0 /\ A1[v][t] = A[v][t] /\ t <= current_term[v] /\ t < current_term'[v]
        BY <1>4, <2>2
      <3>2. \/ LastTerm(log[v]) > t
            \/ LastTerm(log[v]) = t /\ Len(log[v]) >= A[v][t]
        BY <1>1, <3>1 DEF AcksStored
      <3>3. log'[v] = log[v] \/ LastTerm(log'[v]) = current_term'[v]
        BY LogEnds
      <3> QED
        BY <3>1, <3>2, <3>3
    <2> QED
      BY <2>1, <2>2
  <1> QED
    BY <1>2, <1>5, <1>6

LEMMA NextLeadersAck ==
  ASSUME NEW H \in Histories, NEW H1 \in Histories, NEW A \in Acks, NEW A1 \in Acks,
         CommitStep(H, H1, A, A1)
  PROVE  LeadersAck(H1, A1)'
  <1> SUFFICES ASSUME NEW e \in elected', LastTerm(H1[e.term]) = e.term
               PROVE  A1[e.leader][e.term] = Len(H1[e.term])
    BY DEF LeadersAck
  <1> DEFINE i == e.leader
             u == e.term
  <1>1. /\ TypeOK /\ TypeOK' /\ StepKind /\ ElectionInv /\ ElectionInv' /\ ElectionSafety'
        /\ elected \subseteq elected' /\ CandidaciesOpen /\ EntriesFromWinners
        /\ HistoryStep(H, H1) /\ AcksFollow(A, A1) /\ LeadersAck(H, A) /\ AcksNow(A)
    BY DEF CommitStep, GatedStep, CommitInv, StoredInv
  <1>2. i \in Node /\ u \in Nat
    BY <1>1 DEF TypeOK
  <1> HIDE DEF i
  <1>3. /\ current_term[i] \in Nat /\ current_term'[i] \in Nat
        /\ current_term'[i] >= current_term[i]
    BY <1>2, NodeTypes
  <1>4. CASE LeadsThrough(i) /\ current_term[i] = u
    <2>1. log'[i] = H1[u] /\ current_term'[i] = u
      BY <1>1, <1>2, <1>4 DEF HistoryStep, LeadsThrough
    <2>2. A1[i][u] = Len(log'[i])
      BY <1>1, <1>2, <2>1 DEF AcksFollow, Acked
    <2> QED
      BY <2>1, <2>2 DEF i
  <1>5. CASE ~(LeadsThrough(i) /\ current_term[i] = u)
    <2>1. e \in elected
      <3> SUFFICES ASSUME e \notin elected PROVE FALSE
        OBVIOUS
      <3>1. PICK s \in Node : WinningStep(i, s) /\ u = current_term[i]
        BY <1>1, NewWinner DEF i
      <3>2. LeadsThrough(i)
        BY <1>1, <1>2, <3>1 DEF WinningStep, Counting, LeadsThrough, Leading, TypeOK
      <3> QED
        BY <1>5, <3>1, <3>2
    <2>2. H1[u] = H[u]
      BY <1>1, <1>2, <1>5, SoleLeader DEF HistoryStep, i
    <2>3. A[i][u] = Len(H[u]) /\ u <= current_term[i]
      BY <1>1, <2>1, <2>2 DEF LeadersAck, CandidaciesOpen, i
    <2>4. CASE u # current_term'[i]
      BY <1>1, <1>2, <2>2, <2>3, <2>4 DEF AcksFollow, i
    <2>5. CASE u = current_term'[i]
      <3>1. current_term[i] = u /\ ~LeadsThrough(i)
        BY <1>2, <1>3, <1>5, <2>3, <2>5
      <3>2. ~LogGrown(i)
        BY <3>1 DEF LogGrown
      <3>3. ASSUME NEW s \in Node, AcceptStep(i, s) PROVE FALSE
        <4>1. Takes(i, s)
          BY <1>1, <1>2, <3>3, AcceptingTakes
        <4>2. /\ Head(net[s][i]) \in Content(net[s][i]) /\ Head(net[s][i]).term = u
              /\ Head(net[s][i]).type = "append_entries"
          BY <2>5, <4>1 DEF Takes
        <4>3. PICK f \in elected : s # i /\ f.leader = s /\ f.term = u
          BY <1>1, <1>2, <4>2 DEF EntriesFromWinners
        <4> QED
          BY <1>1, <2>1, <4>3 DEF ElectionSafety, i
      <3>4. log'[i] = log[i]
        BY <1>1, <1>2, <3>2, <3>3, LogKinds
      <3>5. A1[i][u] = A[i][u]
        BY <1>1, <1>2, <2>5, <3>1, <3>4 DEF AcksFollow, AcksNow, Acked
      <3> QED
        BY <2>2, <2>3, <3>5 DEF i
    <2> QED
      BY <2>4, <2>5
  <1> QED
    BY <1>4, <1>5

-----------------------------------------------------------------------------
(* Who voted, and for which logs, after a step *)

LEMMA CoversExtended ==
  ASSUME NEW lg \in Seq(LogEntry), NEW lg1 \in Seq(LogEntry), Agree(lg, lg1, Len(lg)),
         NEW u, NEW t, NEW n, Covers(lg, u, t, n)
  PROVE  Covers(lg1, u, t, n)
  <1>1. /\ DOMAIN lg = 1 .. Len(lg) /\ DOMAIN lg1 = 1 .. Len(lg1)
        /\ Len(lg) \in Nat /\ Len(lg1) \in Nat
        /\ Len(lg) <= Len(lg1) /\ \A k \in 1 .. Len(lg) : lg[k] = lg1[k]
    BY LenProperties DEF Agree
  <1>2. \A k \in DOMAIN lg : k \in DOMAIN lg1 /\ lg[k] = lg1[k]
    BY <1>1
  <1> QED
    BY <1>2 DEF Covers

\* The end of a log that is as up to date.
LEMMA CoversByEnd ==
  ASSUME NEW lg \in Seq(LogEntry), NEW u \in Nat, LastTerm(lg) < u, NEW t \in Nat,
         NEW n \in Nat, n > 0, LastTerm(lg) > t \/ (LastTerm(lg) = t /\ Len(lg) >= n)
  PROVE  Covers(lg, u, t, n)
  <1>1. LastTerm(lg) \in Nat /\ Len(lg) \in Nat /\ (LastTerm(lg) # 0 => Len(lg) > 0)
    BY LastTermFacts
  <1>2. Len(lg) > 0
    BY <1>1
  <1>3. Len(lg) \in DOMAIN lg /\ LastTerm(lg) = lg[Len(lg)].term
    BY <1>2, LastTermFacts
  <1> QED
    BY <1>1, <1>3 DEF Covers

\* A log that is as up to date as another is so as what the other is.
LEMMA UpToDateBeyond ==
  ASSUME NEW a \in Seq(LogEntry), NEW b \in Seq(LogEntry), UpToDate(b, Len(a), LastTerm(a)),
         NEW t \in Nat, NEW n \in Nat, LastTerm(b) > t \/ (LastTerm(b) = t /\ Len(b) >= n)
  PROVE  LastTerm(a) > t \/ (LastTerm(a) = t /\ Len(a) >= n)
  <1>1. Len(a) \in Nat /\ Len(b) \in Nat /\ LastTerm(a) \in Nat /\ LastTerm(b) \in Nat
    BY LastTermFacts
  <1> QED
    BY <1>1 DEF UpToDate

LEMMA LastTermBound ==
  ASSUME NEW lg \in Seq(LogEntry), NEW t \in Nat, UpToTerm(lg, t)
  PROVE  LastTerm(lg) <= t
  <1>1. Len(lg) > 0 => Len(lg) \in DOMAIN lg /\ LastTerm(lg) = lg[Len(lg)].term
    BY LastTermFacts
  <1>2. LastTerm(lg) # 0 => Len(lg) > 0
    BY LastTermFacts
  <1> QED
    BY <1>1, <1>2 DEF UpToTerm

\* A voter has reached the term it voted in.
LEMMA VoterReached ==
  ASSUME TypeOK, ElectionInv, NEW v \in Node, NEW c \in Node, state[c] = Candidate,
         VotedFor(v, c)
  PROVE  current_term[c] <= current_term[v]
  <1>1. current_term[c] \in GrantTerms(v, c)
    BY GrantCases DEF VotedFor
  <1> QED
    BY <1>1, GrantTermsReached DEF ElectionInv

LEMMA QuorumReached ==
  ASSUME TypeOK, ElectionInv, NEW e \in elected, NEW v \in Node, v \in e.quorum
  PROVE  e.term <= current_term[v]
  <1>1. e.leader \in Node
    BY DEF TypeOK
  <1>2. e.term \in GrantTerms(v, e.leader)
    BY <1>1, GrantCases
  <1> QED
    BY <1>1, <1>2, GrantTermsReached DEF ElectionInv

LEMMA NextCandidates ==
  ASSUME NEW H \in Histories, NEW H1 \in Histories, NEW A \in Acks, NEW A1 \in Acks,
         CommitStep(H, H1, A, A1)
  PROVE  CandidatesBehind'
  <1> SUFFICES ASSUME NEW c \in Node, state'[c] = Candidate
               PROVE  LastTerm(log'[c]) < current_term'[c]
    BY DEF CandidatesBehind
  <1>1. /\ TypeOK /\ StepKind /\ CandidatesBehind /\ UpToTerm(log[c], current_term[c])
    BY DEF CommitStep, GatedStep, CommitInv, VotingInv, MatchInv, LogsTraced
  <1>2. /\ current_term[c] \in Nat /\ current_term'[c] \in Nat
        /\ log[c] \in Seq(LogEntry) /\ LastTerm(log[c]) \in Nat
    BY NodeTypes, LastTermFacts
  <1>3. CASE state[c] = Candidate /\ current_term'[c] = current_term[c] /\ log'[c] = log[c]
    BY <1>1, <1>3 DEF CandidatesBehind
  <1>4. CASE StartStep(c)
    <2>1. log'[c] = log[c] /\ current_term'[c] > current_term[c]
      BY <1>1, <1>4 DEF StartStep, replicationVars, TypeOK
    <2>2. LastTerm(log[c]) <= current_term[c]
      BY <1>1, <1>2, LastTermBound
    <2> QED
      BY <1>2, <2>1, <2>2
  <1> QED
    BY <1>1, <1>3, <1>4, CandidateKinds

LEMMA NextRequests ==
  ASSUME NEW H \in Histories, NEW H1 \in Histories, NEW A \in Acks, NEW A1 \in Acks,
         CommitStep(H, H1, A, A1)
  PROVE  RequestsCurrent'
  <1> SUFFICES ASSUME NEW s \in Node, NEW d \in Node, NEW m \in Content(net'[s][d]),
                      m.type = "request_vote"
               PROVE  /\ s # d /\ m.term <= current_term'[s]
                      /\ state'[s] = Candidate /\ m.term = current_term'[s] =>
                           /\ m.last_log_index = Len(log'[s])
                           /\ m.last_log_term = LastTerm(log'[s])
    BY DEF RequestsCurrent, Content
  <1>1. TypeOK /\ StepKind /\ RequestsCurrent /\ MessageStep
    BY DEF CommitStep, GatedStep, CommitInv, MailInv
  <1>2. /\ current_term[s] \in Nat /\ current_term'[s] \in Nat
        /\ current_term'[s] >= current_term[s]
    BY NodeTypes
  <1>3. CASE m \in Content(net[s][d])
    <2>1. m \in Message
      BY <1>1, <1>3, ContentIsMessage
    <2>2. /\ m.term \in Nat /\ s # d /\ m.term <= current_term[s]
          /\ state[s] = Candidate /\ m.term = current_term[s] =>
               m.last_log_index = Len(log[s]) /\ m.last_log_term = LastTerm(log[s])
      BY <1>1, <1>3, <2>1, MessageFields DEF RequestsCurrent
    <2>3. StartStep(s) => current_term'[s] > current_term[s]
      BY <1>1 DEF StartStep, TypeOK
    <2>4. ASSUME state'[s] = Candidate, m.term = current_term'[s]
          PROVE  /\ state[s] = Candidate /\ current_term'[s] = current_term[s]
                 /\ log'[s] = log[s]
      BY <1>1, <1>2, <2>2, <2>3, <2>4, CandidateKinds
    <2> QED
      BY <1>2, <2>2, <2>4
  <1>4. CASE SentRequest(s, d, m)
    BY <1>2, <1>4 DEF SentRequest
  <1> QED
    BY <1>1, <1>3, <1>4 DEF MessageStep, Sent

LEMMA NextGrants ==
  ASSUME NEW H \in Histories, NEW H1 \in Histories, NEW A \in Acks, NEW A1 \in Acks,
         CommitStep(H, H1, A, A1)
  PROVE  GrantsBehind'
  <1> SUFFICES ASSUME NEW v \in Node, NEW c \in Node, NEW m \in Content(net'[v][c]), IsGrant(m)
               PROVE  v # c /\ m.term <= current_term'[c]
    BY DEF GrantsBehind, Content, IsGrant
  <1>1. TypeOK /\ RequestsCurrent /\ GrantsBehind /\ MessageStep
    BY DEF CommitStep, GatedStep, CommitInv, MailInv
  <1>2. /\ current_term[c] \in Nat /\ current_term'[c] \in Nat
        /\ current_term'[c] >= current_term[c]
    BY NodeTypes
  <1>3. m \in Content(net[v][c]) \/ SentVote(v, c, m)
    BY <1>1 DEF MessageStep, Sent, IsGrant
  <1>4. v # c /\ m.term <= current_term[c] /\ m.term \in Nat
    <2>1. CASE m \in Content(net[v][c])
      <3>1. m \in Message
        BY <1>1, <2>1, ContentIsMessage
      <3> QED
        BY <1>1, <2>1, <3>1, MessageFields DEF GrantsBehind, IsGrant
    <2>2. CASE SentVote(v, c, m)
      <3> DEFINE r == Head(net[c][v])
      <3>1. r \in Content(net[c][v]) /\ r.type = "request_vote" /\ m.term = r.term
        BY <2>2 DEF SentVote
      <3>2. r \in Message
        BY <1>1, <3>1, ContentIsMessage
      <3> HIDE DEF r
      <3> QED
        BY <1>1, <3>1, <3>2, MessageFields DEF RequestsCurrent
    <2> QED
      BY <1>3, <2>1, <2>2
  <1> QED
    BY <1>2, <1>4

\* The grant of a request that states the log of the candidate.
LEMMA GrantCovers ==
  ASSUME NEW H \in Histories, NEW H1 \in Histories, NEW A \in Acks, NEW A1 \in Acks,
         CommitStep(H, H1, A, A1), NEW v \in Node, NEW c \in Node, NEW o,
         SentVote(v, c, o), state[c] = Candidate, o.term = current_term[c],
         NEW t \in Nat, t < current_term[c], A[v][t] > 0
  PROVE  Covers(log[c], current_term[c], t, A[v][t])
  <1> DEFINE m == Head(net[c][v])
  <1>1. /\ m \in Content(net[c][v]) /\ m.type = "request_vote"
        /\ Grants(v, c, m) /\ o.term = m.term
    BY DEF SentVote
  <1>2. RequestsCurrent /\ AcksStored(A) /\ CandidatesBehind
    BY DEF CommitStep, GatedStep, CommitInv, StoredInv, MailInv, VotingInv
  <1>3. m.last_log_index = Len(log[c]) /\ m.last_log_term = LastTerm(log[c])
    BY <1>1, <1>2 DEF RequestsCurrent
  <1>4. UpToDate(log[v], Len(log[c]), LastTerm(log[c]))
    BY <1>1, <1>3 DEF Grants
  <1>5. \/ LastTerm(log[v]) > t
        \/ LastTerm(log[v]) = t /\ Len(log[v]) >= A[v][t]
    BY <1>2 DEF AcksStored
  <1>6. LastTerm(log[c]) < current_term[c]
    BY <1>2 DEF CandidatesBehind
  <1>7. /\ log[c] \in Seq(LogEntry) /\ current_term[c] \in Nat /\ A[v][t] \in Nat
        /\ Len(log[c]) \in Nat /\ Len(log[v]) \in Nat
        /\ LastTerm(log[c]) \in Nat /\ LastTerm(log[v]) \in Nat
    BY NodeTypes, LastTermFacts
  <1>8. LastTerm(log[c]) > t \/ (LastTerm(log[c]) = t /\ Len(log[c]) >= A[v][t])
    <2>1. log[v] \in Seq(LogEntry)
      BY NodeTypes
    <2> QED
      BY <1>4, <1>5, <1>7, <2>1, UpToDateBeyond
  <1> QED
    BY <1>6, <1>7, <1>8, CoversByEnd

LEMMA NextCovered ==
  ASSUME NEW H \in Histories, NEW H1 \in Histories, NEW A \in Acks, NEW A1 \in Acks,
         CommitStep(H, H1, A, A1)
  PROVE  CandidatesCover(A1)'
  <1> SUFFICES ASSUME NEW v \in Node, NEW c \in Node, state'[c] = Candidate, VotedFor(v, c)',
                      NEW t \in Nat, t < current_term'[c], A1[v][t] > 0
               PROVE  Covers(log'[c], current_term'[c], t, A1[v][t])
    BY DEF CandidatesCover
  <1>1. /\ TypeOK /\ StepKind /\ ElectionInv /\ MessageStep /\ CandidatesCover(A)
        /\ RequestsCurrent /\ GrantsBehind /\ AcksStored(A)
        /\ UpToTerm(log[c], current_term[c])
    BY DEF CommitStep, GatedStep, CommitInv, VotingInv, MailInv, StoredInv, MatchInv, LogsTraced
  <1>2. /\ current_term[c] \in Nat /\ current_term'[c] \in Nat
        /\ current_term[v] \in Nat /\ current_term'[v] \in Nat
        /\ current_term'[v] >= current_term[v] /\ current_term'[c] >= current_term[c]
        /\ log[c] \in Seq(LogEntry) /\ LastTerm(log[c]) \in Nat
        /\ A[v][t] \in Nat /\ A1[v][t] \in Nat
    BY NodeTypes, LastTermFacts
  <1>3. \/ votes'[c][v] # None
        \/ \E o \in Content(net'[v][c]) : IsGrant(o) /\ o.term = current_term'[c]
    BY DEF VotedFor, Content, IsGrant
  <1>4. ASSUME NEW o \in Content(net'[v][c]), IsGrant(o)
        PROVE  o \in Content(net[v][c]) \/ SentVote(v, c, o)
    BY <1>1, <1>4 DEF MessageStep, Sent, IsGrant
  <1>5. CASE /\ state[c] = Candidate /\ current_term'[c] = current_term[c] /\ log'[c] = log[c]
             /\ \A n \in Node : votes'[c][n] # None => VotedFor(n, c)
    <2>1. CASE VotedFor(v, c)
      <3>1. current_term[c] <= current_term[v]
        BY <1>1, <1>5, <2>1, VoterReached
      <3>2. A1[v][t] = A[v][t]
        BY <1>2, <1>5, <3>1, AcksSettled
      <3> QED
        BY <1>1, <1>5, <2>1, <3>2 DEF CandidatesCover
    <2>2. CASE ~VotedFor(v, c)
      <3>1. PICK o \in Content(net'[v][c]) : IsGrant(o) /\ o.term = current_term[c]
        BY <1>3, <1>5, <2>2
      <3>2. SentVote(v, c, o)
        BY <1>4, <2>2, <3>1 DEF VotedFor
      <3>3. current_term'[v] = current_term[c]
        BY <3>1, <3>2 DEF SentVote
      <3>4. A1[v][t] = A[v][t]
        BY <1>2, <1>5, <3>3, AcksSettled
      <3> QED
        BY <1>5, <3>1, <3>2, <3>4, GrantCovers
    <2> QED
      BY <2>1, <2>2
  <1>6. CASE StartStep(c)
    <2>1. /\ log'[c] = log[c] /\ current_term'[c] > current_term[c]
          /\ votes'[c] = [NoVotes EXCEPT ![c] = battery[c]]
      BY <1>1, <1>6 DEF StartStep, replicationVars, TypeOK
    <2>2. v = c
      <3>1. CASE votes'[c][v] # None
        BY <2>1, <3>1 DEF NoVotes
      <3>2. ASSUME NEW o \in Content(net'[v][c]), IsGrant(o), o.term = current_term'[c]
            PROVE  FALSE
        <4>1. ~(o \in Content(net[v][c]))
          BY <1>1, <1>2, <2>1, <3>2 DEF GrantsBehind
        <4>2. SentVote(v, c, o)
          BY <1>4, <3>2, <4>1
        <4>3. /\ Head(net[c][v]) \in Content(net[c][v])
              /\ Head(net[c][v]).type = "request_vote" /\ o.term = Head(net[c][v]).term
          BY <4>2 DEF SentVote
        <4>4. o.term <= current_term[c]
          BY <1>1, <4>3 DEF RequestsCurrent
        <4> QED
          BY <1>2, <2>1, <3>2, <4>4
      <3> QED
        BY <1>3, <3>1, <3>2
    <2>3. A1[v][t] = A[v][t]
      BY <2>2, AcksSettled
    <2>4. LastTerm(log[c]) <= current_term[c]
      BY <1>1, <1>2, LastTermBound
    <2>5. \/ LastTerm(log[c]) > t
          \/ LastTerm(log[c]) = t /\ Len(log[c]) >= A[c][t]
      BY <1>1, <2>2, <2>3 DEF AcksStored
    <2>6. LastTerm(log[c]) < current_term'[c]
      BY <1>2, <2>1, <2>4
    <2>7. A[c][t] \in Nat /\ A[c][t] > 0
      BY <1>2, <2>2, <2>3
    <2>8. Covers(log[c], current_term'[c], t, A[c][t])
      <3>1. log[c] \in Seq(LogEntry) /\ current_term'[c] \in Nat
        BY <1>2
      <3> QED
        BY <2>5, <2>6, <2>7, <3>1, CoversByEnd
    <2> QED
      BY <2>1, <2>2, <2>3, <2>8
  <1> QED
    BY <1>1, <1>5, <1>6, CandidateKinds

LEMMA NextWinners ==
  ASSUME NEW H \in Histories, NEW H1 \in Histories, NEW A \in Acks, NEW A1 \in Acks,
         CommitStep(H, H1, A, A1)
  PROVE  WinnersCover(H1, A1)'
  <1> SUFFICES ASSUME NEW e \in elected', NEW v \in e.quorum, NEW t \in Nat, t < e.term,
                      A1[v][t] > 0
               PROVE  Covers(H1[e.term], e.term, t, A1[v][t])
    BY DEF WinnersCover
  <1>1. /\ TypeOK /\ TypeOK' /\ StepKind /\ ElectionInv /\ HistoryStep(H, H1)
        /\ WinnersCover(H, A) /\ CandidatesCover(A)
    BY DEF CommitStep, GatedStep, CommitInv, VotingInv
  <1>2. v \in Node /\ e.term \in Nat
    BY <1>1 DEF TypeOK
  <1>3. /\ current_term[v] \in Nat /\ current_term'[v] \in Nat
        /\ current_term'[v] >= current_term[v]
    BY <1>2, NodeTypes
  <1>4. CASE e \in elected
    <2>1. e.term <= current_term[v]
      BY <1>1, <1>2, <1>4, QuorumReached
    <2>2. A1[v][t] = A[v][t]
      BY <1>2, <1>3, <2>1, AcksSettled
    <2>3. Covers(H[e.term], e.term, t, A[v][t])
      BY <1>1, <1>4, <2>2 DEF WinnersCover
    <2>4. /\ H[e.term] \in Seq(LogEntry) /\ H1[e.term] \in Seq(LogEntry)
          /\ Agree(H[e.term], H1[e.term], Len(H[e.term]))
      BY <1>1, <1>2, HistoryType DEF HistoryStep
    <2> QED
      BY <2>2, <2>3, <2>4, CoversExtended
  <1>5. CASE e \notin elected
    <2>1. PICK i \in Node, s \in Node :
            WinningStep(i, s) /\ e.term = current_term[i] /\ e.quorum = Voters(Ballots(i, s))
      BY <1>1, <1>5, NewWinner
    <2> DEFINE m == Head(net[s][i])
    <2>2. /\ m \in Content(net[s][i]) /\ m.type = "vote_response" /\ m.term = current_term[i]
          /\ state[i] = Candidate /\ current_term'[i] = current_term[i] /\ state'[i] = Leader
          /\ GrowStep(i)
      <3>1. state \in [Node -> NodeState]
        BY <1>1 DEF TypeOK
      <3>2. Counting(i, s) /\ state' = [state EXCEPT ![i] = Leader] /\ GrowStep(i)
        BY <2>1 DEF WinningStep
      <3> QED
        BY <3>1, <3>2 DEF Counting
    <2>3. VotedFor(v, i)
      <3>1. Ballots(i, s)[v] # None
        BY <1>2, <2>1 DEF Voters
      <3>2. votes[i][v] # None \/ (v = s /\ m.vote_granted)
        BY <1>1, <1>2, <3>1 DEF Ballots, TypeOK
      <3>3. m.vote_granted => IsGrant(m)
        BY <2>2 DEF IsGrant
      <3> HIDE DEF m
      <3> QED
        BY <2>2, <3>2, <3>3 DEF VotedFor
    <2>4. e.term <= current_term[v]
      BY <1>1, <1>2, <2>1, <2>2, <2>3, VoterReached
    <2>5. A1[v][t] = A[v][t]
      BY <1>2, <1>3, <2>4, AcksSettled
    <2>6. Covers(log[i], e.term, t, A[v][t])
      BY <1>1, <1>2, <2>1, <2>2, <2>3, <2>5 DEF CandidatesCover
    <2>7. LeadsThrough(i) /\ log'[i] = H1[e.term]
      BY <1>1, <2>1, <2>2 DEF HistoryStep, LeadsThrough, Leading
    <2>8. PICK cmds \in Seq(Command) : log' = [log EXCEPT ![i] = Extended(i, cmds)]
      BY <2>2 DEF GrowStep
    <2>9. /\ log[i] \in Seq(LogEntry) /\ log'[i] \in Seq(LogEntry)
          /\ Agree(log[i], log'[i], Len(log[i]))
      BY <1>1, <2>8, ExtendedParts DEF TypeOK
    <2> QED
      BY <2>5, <2>6, <2>7, <2>9, CoversExtended
  <1> QED
    BY <1>4, <1>5

-----------------------------------------------------------------------------
(* What is sent and answered, after a step *)

\* Where there are more than four coordinators, no leader is answered late: every
\* acknowledgement under way to it is of its present term.
NoLateAnswers ==
  Cardinality(Node) > 4 =>
    \A v, s \in Node : \A m \in Content(net[v][s]) :
      m.type = "append_response" /\ m.success /\ state[s] = Leader => m.term = current_term[s]

\* Two of at most four are in every majority, or the rest would be one.
LEMMA PairBlocks ==
  ASSUME Cardinality(Node) <= 4, NEW v \in Node, NEW s \in Node, v # s
  PROVE  Blocks({v, s})
  <1> SUFFICES ASSUME NEW Q \in SUBSET Node, IsMajority(Q), v \notin Q, s \notin Q
               PROVE  FALSE
    BY DEF Blocks
  <1> DEFINE Q1 == Q \cup {v}
             Q2 == Q1 \cup {s}
  <1>1. IsFiniteSet(Node) /\ IsFiniteSet(Q) /\ Cardinality(Q) \in Nat /\ Cardinality(Node) \in Nat
    BY NodeAssumption, FS_Subset, FS_CardinalityType
  <1>2. IsFiniteSet(Q1) /\ Cardinality(Q1) = Cardinality(Q) + 1
    BY <1>1, FS_AddElement
  <1>3. IsFiniteSet(Q2) /\ Cardinality(Q2) = Cardinality(Q) + 2
    <2>1. s \notin Q1
      OBVIOUS
    <2> HIDE DEF Q1
    <2>2. IsFiniteSet(Q2) /\ Cardinality(Q2) = Cardinality(Q1) + 1
      BY <1>2, <2>1, FS_AddElement
    <2> QED
      BY <1>1, <1>2, <2>2
  <1>4. Q2 \subseteq Node
    OBVIOUS
  <1> HIDE DEF Q2
  <1>5. Cardinality(Q2) <= Cardinality(Node)
    BY <1>1, <1>4, FS_Subset
  <1>6. Cardinality(Q) > Cardinality(Node) \div 2
    BY DEF IsMajority
  <1> QED
    BY <1>1, <1>3, <1>5, <1>6

\* An acknowledgement that a leader counts is of what was stored in its term; or it comes
\* late, and is of what every later winner has as well, because the answering coordinator
\* and the leader are two, who both stored it.
LEMMA AnswerFits ==
  ASSUME NEW H \in Histories, NEW H1 \in Histories, NEW A \in Acks, NEW A1 \in Acks,
         CommitStep(H, H1, A, A1), NoLateAnswers,
         NEW i \in Node, NEW s \in Node, NEW m \in Content(net[s][i]),
         m.type = "append_response", m.success, state[i] = Leader
  PROVE  /\ s # i /\ m.match_index \in Nat /\ m.match_index > 0
         /\ m.match_index <= Len(log[i])
         /\ \/ m.match_index <= A[s][current_term[i]]
            \/ log[i][m.match_index].term < current_term[i]
  <1> DEFINE n == m.match_index
             t == m.term
             u == current_term[i]
  <1>1. /\ TypeOK /\ ElectionInv /\ WonByMajority /\ LeadersOnRecord /\ ElectionSafety
        /\ CandidaciesOpen /\ MatchInv(H) /\ WinnersCover(H, A)
        /\ AnswersAcked(H, A) /\ AcksTraced(H, A) /\ LeadersAck(H, A)
    BY OneWinner
    DEF CommitStep, GatedStep, CommitInv, ElectionInv, VotingInv, AnswerInv, StoredInv
  <1>2. m \in Message
    BY <1>1, ContentIsMessage
  <1>3. t \in Nat /\ n \in Nat /\ u \in Nat
    BY <1>2, MessageFields, NodeTypes
  <1>4. /\ s # i /\ n > 0 /\ n <= A[s][t] /\ H[t][n].term = t
        /\ \E e \in elected : e.leader = i /\ e.term = t
    BY <1>1 DEF AnswersAcked
  <1>5. PICK e \in elected : e.leader = i /\ e.term = t
    BY <1>4
  <1>6. t <= u
    BY <1>1, <1>5 DEF CandidaciesOpen
  <1>7. Leading(state[i])
    BY DEF Leading
  <1>8. log[i] = H[u] /\ Won(u)
    BY <1>1, <1>7 DEF MatchInv, HistoriesLed, LeadersOnRecord, Won
  <1>9. /\ Len(H[t]) \in Nat /\ DOMAIN H[t] = 1 .. Len(H[t]) /\ H[t] \in Seq(LogEntry)
        /\ A[s][t] \in Nat /\ A[i][t] \in Nat
    BY <1>3, HistoryType, NodeTypes
  <1>10. n \in DOMAIN H[t]
    <2>1. A[s][t] <= Len(H[t])
      BY <1>1, <1>3, <1>4, <1>9 DEF AcksTraced
    <2> QED
      BY <1>3, <1>4, <1>9, <2>1
  <1> HIDE DEF n, t, u
  <1>11. CASE t = u
    <2>1. n <= Len(log[i])
      BY <1>8, <1>9, <1>10, <1>11
    <2> QED
      BY <1>3, <1>4, <1>11, <2>1 DEF n, u
  <1>12. CASE t # u
    <2>1. Cardinality(Node) <= 4
      <3>1. Cardinality(Node) \in Nat
        BY NodeAssumption, FS_CardinalityType
      <3>2. ~(Cardinality(Node) > 4)
        BY <1>12 DEF NoLateAnswers, t, u
      <3> QED
        BY <3>1, <3>2
    <2>2. A[i][t] >= n
      <3>1. LastTerm(H[t]) = t
        <4>1. HistoriesTraced(H) /\ Traces(H, H[t]) /\ UpToTerm(H[t], t)
          BY <1>1, <1>3 DEF MatchInv, HistoriesTraced
        <4>2. t <= LastTerm(H[t])
          BY <1>4, <1>9, <1>10, <4>1, LastTermIsHighest
        <4>3. LastTerm(H[t]) <= t /\ LastTerm(H[t]) \in Nat
          BY <1>3, <1>9, <4>1, LastTermBound, LastTermFacts
        <4> QED
          BY <1>3, <4>2, <4>3
      <3>2. A[i][t] = Len(H[t])
        BY <1>1, <1>5, <3>1 DEF LeadersAck
      <3> QED
        BY <1>9, <1>10, <3>2
    <2>3. Blocks({s, i}) /\ {s, i} \in SUBSET Node /\ \A v \in {s, i} : A[v][t] >= n
      BY <1>3, <1>4, <1>9, <2>1, <2>2, PairBlocks
    <2>4. Agree(H[t], H[u], n)
      BY <1>1, <1>3, <1>4, <1>6, <1>8, <1>10, <1>12, <2>3, WinnersComplete
    <2>5. n <= Len(log[i]) /\ log[i][n] = H[t][n]
      <3>1. n \in 1 .. n
        BY <1>3, <1>4
      <3> QED
        BY <1>8, <2>4, <3>1 DEF Agree
    <2>6. log[i][n].term < u
      BY <1>3, <1>4, <1>6, <1>12, <2>5
    <2> QED
      BY <1>3, <1>4, <2>5, <2>6 DEF n, u
  <1> QED
    BY <1>11, <1>12

LEMMA NextEntries ==
  ASSUME NEW H \in Histories, NEW H1 \in Histories, NEW A \in Acks, NEW A1 \in Acks,
         CommitStep(H, H1, A, A1)
  PROVE  EntriesEnd'
  <1> SUFFICES ASSUME NEW s \in Node, NEW d \in Node, NEW m \in Content(net'[s][d]),
                      m.type = "append_entries"
               PROVE  m.entries # <<>> /\ m.entries[Len(m.entries)].term = m.term
    BY DEF EntriesEnd, Content
  <1>1. TypeOK /\ TypeOK' /\ Protocol # "raft" /\ MessageStep /\ EntriesEnd /\ NextBounded
    BY DEF CommitStep, GatedStep, CommitInv, MailInv
  <1>2. CASE m \in Content(net[s][d])
    BY <1>1, <1>2 DEF EntriesEnd
  <1>3. CASE SentEntries(s, d, m)
    <2> DEFINE lg == log'[s]
               next == next_index'[s][d]
    <2>1. PICK n \in 0 .. Len(lg) : n > Len(log[s]) /\ m = AppendEntries(s, SubSeq(lg, 1, n), next)
      BY <1>1, <1>3 DEF SentEntries
    <2>2. /\ lg \in Seq(LogEntry) /\ Len(lg) \in Nat /\ Len(log[s]) \in Nat
          /\ next \in Nat \ {0} /\ n \in Nat
      <3>1. next \in Nat \ {0}
        BY <1>1 DEF TypeOK
      <3>2. lg \in Seq(LogEntry) /\ Len(lg) \in Nat /\ Len(log[s]) \in Nat
        BY NodeTypes
      <3> QED
        BY <3>1, <3>2
    <2>3. LogGrown(s)
      <3>1. LeadsThrough(s)
        BY <1>3 DEF SentEntries, LeadsThrough
      <3>2. log'[s] # log[s]
        BY <2>1, <2>2
      <3> QED
        BY <3>1, <3>2, LogEnds
    <2>4. next <= Len(log[s]) + 1
      BY <1>1, <2>2, <2>3 DEF LogGrown, NextBounded
    <2>5. lg[n].term = m.term
      <3>1. n \in DOMAIN lg
        BY <2>1, <2>2, LenProperties
      <3>2. m.term = current_term[s]
        BY <1>3 DEF SentEntries
      <3> QED
        BY <2>1, <2>3, <3>1, <3>2 DEF LogGrown
    <2> HIDE DEF lg, next
    <2> DEFINE front == SubSeq(lg, 1, n)
    <2>6. m.entries = SubSeq(front, next - 1 + 1, Len(front))
      BY <2>1 DEF AppendEntries, Suffix
    <2>7. front \in Seq(LogEntry) /\ Len(front) = n /\ \A k \in 1 .. n : front[k] = lg[k]
      BY <2>1, <2>2, FrontIsSeq, SubSeqProperties
    <2> HIDE DEF front
    <2>8. /\ next - 1 + 1 = next /\ next \in 1 .. n /\ n - next + 1 \in 1 .. n - next + 1
          /\ next + (n - next + 1) - 1 = n /\ n \in 1 .. n
      BY <2>1, <2>2, <2>4
    <2>9. Len(m.entries) = n - next + 1 /\ m.entries[n - next + 1] = front[n]
      BY <2>2, <2>6, <2>7, <2>8, SubSeqProperties
    <2>10. m.entries # <<>>
      <3>1. Len(m.entries) # 0
        BY <2>2, <2>8, <2>9
      <3> QED
        BY <3>1
    <2> QED
      BY <2>5, <2>7, <2>8, <2>9, <2>10
  <1> QED
    BY <1>1, <1>2, <1>3 DEF MessageStep, Sent

LEMMA NextNext ==
  ASSUME NEW H \in Histories, NEW H1 \in Histories, NEW A \in Acks, NEW A1 \in Acks,
         CommitStep(H, H1, A, A1), NoLateAnswers
  PROVE  NextBounded'
  <1> SUFFICES ASSUME NEW s \in Node, NEW v \in Node, Leading(state'[s])
               PROVE  next_index'[s][v] <= Len(log'[s]) + 1
    BY DEF NextBounded
  <1>1. TypeOK /\ TypeOK' /\ StepKind /\ NextBounded
    BY DEF CommitStep, GatedStep, CommitInv, MailInv
  <1>2. /\ Len(log[s]) \in Nat /\ Len(log'[s]) \in Nat
        /\ next_index[s][v] \in Nat /\ next_index'[s][v] \in Nat
    <2>1. next_index[s][v] \in Nat /\ next_index'[s][v] \in Nat
      BY <1>1 DEF TypeOK
    <2> QED
      BY <2>1, NodeTypes
  <1>3. LeadsThrough(s)
    <2>1. ASSUME NEW d \in Node, WinningStep(s, d) PROVE current_term'[s] = current_term[s]
      BY <2>1 DEF WinningStep, Counting
    <2> QED
      BY <1>1, <2>1, LeadKinds DEF LeadsThrough
  <1>4. log'[s] = log[s] \/ (LogGrown(s) /\ Len(log'[s]) > Len(log[s]))
    BY <1>3, LogEnds
  <1>5. CASE LogGrown(s)
    <2>1. Leading(state[s]) => next_index[s][v] <= Len(log[s]) + 1
      BY <1>1 DEF NextBounded
    <2>2. Len(log'[s]) >= Len(log[s])
      BY <1>2, <1>4
    <2> QED
      BY <1>2, <1>5, <2>1, <2>2 DEF LogGrown
  <1>6. CASE log'[s] = log[s]
    <2>1. ASSUME next_index'[s] = next_index[s], Leading(state[s])
          PROVE  next_index'[s][v] <= Len(log'[s]) + 1
      BY <1>1, <1>6, <2>1 DEF NextBounded
    <2>2. ASSUME NEW d \in Node, WinningStep(s, d)
          PROVE  next_index'[s][v] <= Len(log'[s]) + 1
      BY <1>1, <1>2, <1>6, <2>2 DEF WinningStep, TypeOK
    <2>3. CASE Leading(state[s])
      <3>1. CASE RestStep \/ \E i \in Node : StartStep(i) \/ ProposeStep(i)
        BY <2>1, <2>3, <3>1 DEF RestStep, StartStep, ProposeStep, replicationVars
      <3>2. ASSUME NEW i \in Node, NEW d \in Node, CountStep(i, d) \/ AcceptStep(i, d)
            PROVE  next_index'[s] = next_index[s]
        BY <3>2 DEF CountStep, AcceptStep
      <3>3. ASSUME NEW i \in Node, NEW d \in Node, WinningStep(i, d)
            PROVE  next_index'[s] = next_index[s] \/ i = s
        BY <1>1, <3>3 DEF WinningStep, TypeOK
      <3>4. ASSUME NEW i \in Node, NEW d \in Node, AckStep(i, d)
            PROVE  next_index'[s][v] <= Len(log'[s]) + 1
        <4> DEFINE m == Head(net[d][i])
        <4>1. /\ m \in Content(net[d][i]) /\ m.type = "append_response" /\ state[i] = Leader
              /\ next_index' = [next_index EXCEPT ![i][d] = NextIndex(m, @)]
          BY <3>4 DEF AckStep
        <4>2. /\ next_index'[i][d] = NextIndex(m, next_index[i][d])
              /\ \A b \in Node : b # d => next_index'[i][b] = next_index[i][b]
              /\ i # s => next_index'[s] = next_index[s]
          BY <1>1, <4>1 DEF TypeOK
        <4>3. CASE i # s
          BY <2>1, <2>3, <4>2, <4>3
        <4>4. CASE i = s /\ d # v
          BY <1>1, <1>6, <2>3, <4>2, <4>4 DEF NextBounded
        <4>5. CASE i = s /\ d = v /\ m.success
          <5>1. m.match_index \in Nat /\ m.match_index <= Len(log[i])
            BY <4>1, <4>5, AnswerFits
          <5>2. next_index'[s][v] = m.match_index + 1
            BY <4>2, <4>5 DEF NextIndex
          <5> QED
            BY <1>2, <1>6, <4>5, <5>1, <5>2
        <4>6. CASE i = s /\ d = v /\ ~m.success
          <5>1. next_index'[s][v] = IF next_index[s][v] > 1 THEN next_index[s][v] - 1 ELSE 1
            BY <4>2, <4>6 DEF NextIndex
          <5>2. next_index[s][v] <= Len(log[s]) + 1
            BY <1>1, <2>3 DEF NextBounded
          <5> QED
            BY <1>2, <1>6, <5>1, <5>2
        <4> QED
          BY <4>3, <4>4, <4>5, <4>6
      <3> QED
        BY <1>1, <2>1, <2>2, <2>3, <3>1, <3>2, <3>3, <3>4 DEF StepKind
    <2> QED
      BY <1>1, <2>2, <2>3, LeadKinds
  <1> QED
    BY <1>4, <1>5, <1>6

LEMMA NextAnswers ==
  ASSUME NEW H \in Histories, NEW H1 \in Histories, NEW A \in Acks, NEW A1 \in Acks,
         CommitStep(H, H1, A, A1)
  PROVE  AnswersAcked(H1, A1)'
  <1> SUFFICES ASSUME NEW v \in Node, NEW s \in Node, NEW m \in Content(net'[v][s]),
                      m.type = "append_response", m.success
               PROVE  /\ v # s /\ \E e \in elected' : e.leader = s /\ e.term = m.term
                      /\ m.match_index > 0 /\ m.match_index <= A1[v][m.term]
                      /\ H1[m.term][m.match_index].term = m.term
    BY DEF AnswersAcked, Content
  <1>1. /\ TypeOK /\ MessageStep /\ elected \subseteq elected' /\ AnswersAcked(H, A)
        /\ AcksTraced(H, A) /\ HistoryStep(H, H1) /\ AcksFollow(A, A1) /\ AcksTraced(H1, A1)
        /\ EntriesFromWinners /\ EntriesEnd /\ MatchInv(H)
    BY NextStored DEF CommitStep, GatedStep, CommitInv, AnswerInv, StoredInv, MailInv
  <1>2. CASE m \in Content(net[v][s])
    <2>1. m \in Message
      BY <1>1, <1>2, ContentIsMessage
    <2>2. m.term \in Nat /\ m.match_index \in Nat
      BY <2>1, MessageFields
    <2>3. /\ v # s /\ \E e \in elected : e.leader = s /\ e.term = m.term
          /\ m.match_index > 0 /\ m.match_index <= A[v][m.term]
          /\ H[m.term][m.match_index].term = m.term
      BY <1>1, <1>2 DEF AnswersAcked
    <2>4. /\ A[v][m.term] \in Nat /\ A1[v][m.term] \in Nat /\ A[v][m.term] <= A1[v][m.term]
          /\ Len(H[m.term]) \in Nat
      BY <2>2, NodeTypes, AcksGrow, HistoryType
    <2>5. A[v][m.term] <= Len(H[m.term])
      BY <1>1, <2>2, <2>3, <2>4 DEF AcksTraced
    <2>6. m.match_index \in 1 .. Len(H[m.term])
      BY <2>2, <2>3, <2>4, <2>5
    <2>7. H1[m.term][m.match_index] = H[m.term][m.match_index]
      BY <1>1, <2>2, <2>6 DEF HistoryStep, Agree
    <2>8. m.match_index <= A1[v][m.term]
      BY <2>2, <2>3, <2>4
    <2> QED
      BY <1>1, <2>3, <2>7, <2>8
  <1>3. CASE SentAck(v, s, m)
    <2> DEFINE t == Head(net[s][v]).term
    <2>1. Takes(v, s) /\ m.term = t /\ m.match_index = Len(log'[v])
      BY <1>3 DEF SentAck, Takes
    <2>2. /\ t \in Nat /\ s # v /\ current_term'[v] = t
          /\ \E e \in elected : e.leader = s /\ e.term = t
          /\ Len(log'[v]) > 0 /\ LastTerm(log'[v]) = t
      BY <1>1, <2>1, TakesHistory
    <2> HIDE DEF t
    <2>3. A1[v][t] = Len(log'[v]) /\ Len(log'[v]) \in Nat
      BY <1>1, <2>2, NodeTypes DEF AcksFollow, Acked
    <2>4. H1[t][Len(log'[v])].term = t
      BY <1>1, <2>2, <2>3 DEF AcksTraced
    <2> QED
      BY <1>1, <2>1, <2>2, <2>3, <2>4
  <1> QED
    BY <1>1, <1>2, <1>3 DEF MessageStep, Sent

\* A match index of whoever leads on changes with an acknowledgement only.
LEMMA MatchKinds ==
  ASSUME TypeOK, StepKind, NEW s \in Node, NEW v \in Node, Leading(state[s])
  PROVE  \/ match_index'[s][v] = match_index[s][v]
         \/ /\ AckStep(s, v) /\ Head(net[v][s]).success
            /\ match_index'[s][v] = Head(net[v][s]).match_index
  <1>1. match_index \in [Node -> [Node -> Nat]]
    BY DEF TypeOK
  <1>2. CASE RestStep \/ \E i \in Node : StartStep(i) \/ ProposeStep(i)
    BY <1>2 DEF RestStep, StartStep, ProposeStep, replicationVars
  <1>3. ASSUME NEW i \in Node, NEW d \in Node, CountStep(i, d) \/ AcceptStep(i, d)
        PROVE  match_index' = match_index
    BY <1>3 DEF CountStep, AcceptStep
  <1>4. ASSUME NEW i \in Node, NEW d \in Node, WinningStep(i, d)
        PROVE  match_index'[s] = match_index[s]
    <2>1. i # s
      BY <1>4 DEF WinningStep, Counting, Leading, Candidate, Leader, LocalLeader
    <2> QED
      BY <1>1, <1>4, <2>1 DEF WinningStep
  <1>5. ASSUME NEW i \in Node, NEW d \in Node, AckStep(i, d)
        PROVE  \/ match_index'[s][v] = match_index[s][v]
               \/ /\ i = s /\ d = v /\ Head(net[v][s]).success
                  /\ match_index'[s][v] = Head(net[v][s]).match_index
    BY <1>1, <1>5 DEF AckStep
  <1> QED
    BY <1>2, <1>3, <1>4, <1>5 DEF StepKind

LEMMA NextMatches ==
  ASSUME NEW H \in Histories, NEW H1 \in Histories, NEW A \in Acks, NEW A1 \in Acks,
         CommitStep(H, H1, A, A1), NoLateAnswers
  PROVE  MatchesAcked(A1)'
  <1> SUFFICES ASSUME NEW s \in Node, NEW v \in Node, Leading(state'[s]), match_index'[s][v] # 0
               PROVE  /\ v # s /\ match_index'[s][v] <= Len(log'[s])
                      /\ \/ match_index'[s][v] <= A1[v][current_term'[s]]
                         \/ log'[s][match_index'[s][v]].term < current_term'[s]
    BY DEF MatchesAcked
  <1> DEFINE n == match_index'[s][v]
             u == current_term[s]
  <1>1. /\ TypeOK /\ TypeOK' /\ StepKind /\ MatchesAcked(A)
    BY DEF CommitStep, GatedStep, CommitInv, AnswerInv
  <1>2. n \in Nat /\ n > 0
    <2>1. match_index'[s][v] \in Nat
      BY <1>1 DEF TypeOK
    <2> QED
      BY <2>1
  <1>3. Leading(state[s]) /\ current_term'[s] = u
    <2>1. ASSUME NEW d \in Node, WinningStep(s, d) PROVE FALSE
      BY <1>1, <2>1 DEF WinningStep, TypeOK
    <2> QED
      BY <1>1, <2>1, LeadKinds
  <1>4. /\ log'[s] = log[s] \/ LogGrown(s)
        /\ Len(log[s]) \in Nat /\ Len(log'[s]) \in Nat /\ u \in Nat
        /\ A[v][u] \in Nat /\ A1[v][u] \in Nat /\ A[v][u] <= A1[v][u]
    <2>1. LeadsThrough(s)
      BY <1>3 DEF LeadsThrough
    <2>2. u \in Nat /\ Len(log[s]) \in Nat /\ Len(log'[s]) \in Nat
      BY NodeTypes
    <2> QED
      BY <2>1, <2>2, LogEnds, NodeTypes, AcksGrow
  <1>5. Agree(log[s], log'[s], Len(log[s]))
    BY <1>4 DEF LogGrown, Agree
  <1>6. ASSUME v # s, n <= Len(log[s]), n <= A[v][u] \/ log[s][n].term < u
        PROVE  v # s /\ n <= Len(log'[s]) /\ (n <= A1[v][u] \/ log'[s][n].term < u)
    <2>1. n <= Len(log'[s]) /\ log[s][n] = log'[s][n]
      BY <1>2, <1>4, <1>5, <1>6 DEF Agree
    <2>2. n <= A[v][u] => n <= A1[v][u]
      BY <1>2, <1>4
    <2> QED
      BY <1>6, <2>1, <2>2
  <1>7. CASE n = match_index[s][v]
    BY <1>1, <1>3, <1>6, <1>7 DEF MatchesAcked
  <1>8. CASE AckStep(s, v) /\ Head(net[v][s]).success /\ n = Head(net[v][s]).match_index
    <2> DEFINE m == Head(net[v][s])
    <2>1. m \in Content(net[v][s]) /\ m.type = "append_response" /\ state[s] = Leader
      BY <1>8 DEF AckStep
    <2>2. /\ v # s /\ m.match_index <= Len(log[s])
          /\ m.match_index <= A[v][u] \/ log[s][m.match_index].term < u
      BY <1>8, <2>1, AnswerFits
    <2> QED
      BY <1>3, <1>6, <1>8, <2>2
  <1> QED
    BY <1>1, <1>3, <1>7, <1>8, MatchKinds

-----------------------------------------------------------------------------
(* What is committed, after a step *)

\* What was chosen and announced remains so, for all logs that have it.
LEMMA HeldSurvives ==
  ASSUME NEW H \in Histories, NEW H1 \in Histories, NEW A \in Acks, NEW A1 \in Acks,
         CommitStep(H, H1, A, A1),
         NEW lg \in Seq(LogEntry), NEW lg1 \in Seq(LogEntry), NEW c \in Nat, NEW c1 \in 0 .. c,
         NEW u \in Nat, NEW u1 \in Nat, u <= u1,
         Held(H, A, lg, c, u), Agree(lg, lg1, c1)
  PROVE  Held(H1, A1, lg1, c1, u1)
  <1> SUFFICES ASSUME c1 # 0
               PROVE  \E t \in 0 .. u1 : \E k \in DOMAIN H1[t] :
                        k >= c1 /\ H1[t][k].term = t /\ Chosen(A1, t, k) /\ Agree(lg1, H1[t], c1)
    BY DEF Held
  <1>1. c # 0 /\ c1 <= c
    OBVIOUS
  <1>2. PICK t \in 0 .. u : \E k \in DOMAIN H[t] :
          k >= c /\ H[t][k].term = t /\ Chosen(A, t, k) /\ Agree(lg, H[t], c)
    BY <1>1 DEF Held
  <1>3. PICK k \in DOMAIN H[t] :
          k >= c /\ H[t][k].term = t /\ Chosen(A, t, k) /\ Agree(lg, H[t], c)
    BY <1>2
  <1>4. /\ t \in Nat /\ t \in 0 .. u1
        /\ Len(H[t]) \in Nat /\ DOMAIN H[t] = 1 .. Len(H[t])
        /\ Len(H1[t]) \in Nat /\ DOMAIN H1[t] = 1 .. Len(H1[t])
    BY HistoryType
  <1>5. Len(H[t]) <= Len(H1[t]) /\ \A j \in 1 .. Len(H[t]) : H[t][j] = H1[t][j]
    <2>1. HistoryStep(H, H1)
      BY DEF CommitStep
    <2>2. Agree(H[t], H1[t], Len(H[t]))
      BY <1>4, <2>1 DEF HistoryStep
    <2> QED
      BY <1>4, <2>2 DEF Agree
  <1>6. k \in DOMAIN H1[t] /\ k >= c1 /\ H1[t][k].term = t
    BY <1>1, <1>3, <1>4, <1>5
  <1>7. Chosen(A1, t, k)
    <2>1. \A v \in Node : A[v][t] >= k => A1[v][t] >= k
      <3> TAKE v \in Node
      <3>1. A[v][t] <= A1[v][t] /\ A[v][t] \in Nat /\ A1[v][t] \in Nat /\ k \in Nat
        BY <1>4, AcksGrow, NodeTypes
      <3> QED
        BY <3>1
    <2> DEFINE P == {v \in Node : A[v][t] >= k}
               Q == {v \in Node : A1[v][t] >= k}
    <2>2. P \in SUBSET Node /\ Q \in SUBSET Node /\ \A n \in P : n \in Q
      BY <2>1
    <2>3. IsMajority(P)
      BY <1>3 DEF Chosen
    <2> HIDE DEF P, Q
    <2>4. IsMajority(Q)
      BY <2>2, <2>3, LargerIsMajority
    <2> QED
      BY <2>4 DEF Chosen, Q
  <1>8. Agree(lg1, H1[t], c1)
    <2>1. c1 <= Len(lg) /\ c1 <= Len(lg1) /\ \A j \in 1 .. c1 : lg[j] = lg1[j]
      BY DEF Agree
    <2>2. c <= Len(H[t]) /\ \A j \in 1 .. c : lg[j] = H[t][j]
      BY <1>3 DEF Agree
    <2>3. c1 <= Len(H1[t]) /\ \A j \in 1 .. c1 : j \in 1 .. c /\ j \in 1 .. Len(H[t])
      BY <1>1, <1>4, <1>5, <2>2
    <2> QED
      BY <1>5, <2>1, <2>2, <2>3 DEF Agree
  <1> QED
    BY <1>4, <1>6, <1>7, <1>8

\* A commit index moves when entries are accepted or an acknowledgement is counted.
LEMMA CommitKinds ==
  ASSUME TypeOK, StepKind, NEW i \in Node
  PROVE  \/ commit_index'[i] = commit_index[i]
         \/ \E s \in Node : /\ AcceptStep(i, s)
                            /\ commit_index'[i] = CommitAfter(commit_index[i],
                                 Head(net[s][i]).leader_commit, Len(log'[i]))
         \/ /\ state[i] = Leader /\ UNCHANGED <<state, current_term, log>>
            /\ commit_index'[i] \in Committable(log[i], commit_index[i], current_term[i],
                                                match_index'[i], Cardinality(Node))
  <1>1. CASE RestStep \/ \E n \in Node : StartStep(n) \/ ProposeStep(n)
    BY <1>1 DEF RestStep, StartStep, ProposeStep, replicationVars
  <1>2. ASSUME NEW n \in Node, NEW s \in Node, CountStep(n, s) \/ WinningStep(n, s)
        PROVE  commit_index'[i] = commit_index[i]
    BY <1>2 DEF CountStep, WinningStep, Counting
  <1>3. ASSUME NEW n \in Node, NEW s \in Node, AcceptStep(n, s)
        PROVE  \/ commit_index'[i] = commit_index[i]
               \/ /\ AcceptStep(i, s)
                  /\ commit_index'[i] = CommitAfter(commit_index[i],
                       Head(net[s][i]).leader_commit, Len(log'[i]))
    BY <1>3 DEF AcceptStep, TypeOK
  <1>4. ASSUME NEW n \in Node, NEW s \in Node, AckStep(n, s)
        PROVE  \/ commit_index'[i] = commit_index[i]
               \/ /\ state[i] = Leader /\ UNCHANGED <<state, current_term, log>>
                  /\ commit_index'[i] \in Committable(log[i], commit_index[i], current_term[i],
                                                      match_index'[i], Cardinality(Node))
    <2>1. commit_index \in [Node -> Nat] /\ match_index \in [Node -> [Node -> Nat]]
      BY DEF TypeOK
    <2>2. state[n] = Leader /\ UNCHANGED <<state, current_term, log>>
      BY <1>4 DEF AckStep
    <2> DEFINE match == [match_index[n] EXCEPT ![s] = Head(net[s][n]).match_index]
    <2>3. CASE commit_index' = commit_index
      BY <2>3
    <2>4. CASE match_index' = [match_index EXCEPT ![n] = match] /\ TryAdvanceCommit(n, match)
      <3>1. match_index'[n] = match
        BY <2>1, <2>4
      <3> HIDE DEF match
      <3>2. CASE commit_index' = commit_index
        BY <3>2
      <3>3. CASE \E k \in Committable(log[n], commit_index[n], current_term[n], match,
                                      Cardinality(Node)) :
                   commit_index' = [commit_index EXCEPT ![n] = k]
        BY <2>1, <2>2, <3>1, <3>3
      <3> QED
        BY <2>4, <3>2, <3>3 DEF TryAdvanceCommit
    <2> QED
      BY <1>4, <2>3, <2>4 DEF AckStep
  <1> QED
    BY <1>1, <1>2, <1>3, <1>4 DEF StepKind

\* What a coordinator regards as committed stays in its log, and stays committed.
LEMMA CommitsGrow ==
  ASSUME NEW H \in Histories, NEW H1 \in Histories, NEW A \in Acks, NEW A1 \in Acks,
         CommitStep(H, H1, A, A1), NEW i \in Node
  PROVE  /\ Agree(log[i], log'[i], commit_index[i])
         /\ commit_index'[i] \in Nat /\ commit_index[i] <= commit_index'[i]
  <1> DEFINE c == commit_index[i]
             u1 == current_term'[i]
  <1>1. /\ TypeOK /\ StepKind /\ WonByMajority /\ MatchInv(H) /\ WinnersCover(H, A)
        /\ CommitsHeld(H, A) /\ EntriesFromWinners
    BY DEF CommitStep, GatedStep, CommitInv, ElectionInv, VotingInv, HeldInv
  <1>2. /\ log[i] \in Seq(LogEntry) /\ log'[i] \in Seq(LogEntry) /\ Len(log[i]) \in Nat
        /\ Len(log'[i]) \in Nat /\ c \in 0 .. Len(log[i]) /\ commit_index'[i] \in Nat
        /\ u1 \in Nat /\ current_term[i] \in Nat /\ current_term[i] <= u1
    BY NodeTypes
  <1> HIDE DEF c, u1
  <1>3. Agree(log[i], log'[i], c)
    <2>1. CASE log'[i] = log[i] \/ c = 0
      BY <1>2, <2>1 DEF Agree
    <2>2. CASE LogGrown(i)
      BY <1>2, <2>2 DEF LogGrown, Agree
    <2>3. ASSUME NEW s \in Node, AcceptStep(i, s), c # 0,
                 \A n \in Nat : Agree(log[i], H[u1], n) => Agree(log[i], log'[i], n)
          PROVE  Agree(log[i], log'[i], c)
      <3>1. Won(u1)
        <4>1. /\ Head(net[s][i]) \in Content(net[s][i]) /\ Head(net[s][i]).term = u1
              /\ Head(net[s][i]).type = "append_entries"
          BY <1>1, <2>3 DEF AcceptStep, TypeOK, u1
        <4> QED
          BY <1>1, <4>1 DEF EntriesFromWinners, Won
      <3>2. Held(H, A, log[i], c, current_term[i])
        BY <1>1 DEF CommitsHeld, c
      <3>3. Agree(log[i], H[u1], c)
        BY <1>1, <1>2, <2>3, <3>1, <3>2, HeldByWinner
      <3> QED
        BY <1>2, <2>3, <3>3
    <2> QED
      BY <2>1, <2>2, <2>3, LogEnds DEF u1
  <1>4. c <= commit_index'[i]
    <2>1. CASE commit_index'[i] = c
      BY <1>2, <2>1
    <2>2. ASSUME NEW s \in Node, AcceptStep(i, s),
                 commit_index'[i] = CommitAfter(c, Head(net[s][i]).leader_commit, Len(log'[i]))
          PROVE  c <= commit_index'[i]
      <3>1. Head(net[s][i]).leader_commit \in Nat
        BY <1>1, <2>2, AcceptingTakes, AcceptedMessage
      <3>2. c <= Len(log'[i])
        BY <1>3 DEF Agree
      <3> QED
        BY <1>2, <2>2, <3>1, <3>2 DEF CommitAfter
    <2>3. CASE commit_index'[i] \in Committable(log[i], c, current_term[i], match_index'[i],
                                                Cardinality(Node))
      BY <1>2, <2>3 DEF Committable
    <2> QED
      BY <1>1, <2>1, <2>2, <2>3, CommitKinds DEF c
  <1> QED
    BY <1>2, <1>3, <1>4 DEF c

\* The entries up to one that a leader may commit are stored by those whose acknowledgements
\* it counts, and by itself.
LEMMA CommittableHeld ==
  ASSUME NEW H \in Histories, NEW H1 \in Histories, NEW A \in Acks, NEW A1 \in Acks,
         CommitStep(H, H1, A, A1), NoLateAnswers, NEW i \in Node,
         state[i] = Leader, UNCHANGED <<state, current_term, log>>,
         NEW n \in Committable(log[i], commit_index[i], current_term[i],
                               match_index'[i], Cardinality(Node))
  PROVE  Held(H1, A1, log'[i], n, current_term'[i])
  <1> DEFINE u == current_term'[i]
             lg == log'[i]
             match == match_index'[i]
             P == {p \in DOMAIN match : match[p] >= n}
             Q == {v \in Node : A1[v][u] >= n}
  <1>1. /\ TypeOK /\ TypeOK' /\ HistoryStep(H, H1) /\ MatchInv(H1)' /\ MatchesAcked(A1)'
        /\ AcksNow(A1)'
    BY NextMatches, NextStored DEF CommitStep, GatedStep
  <1>2. /\ u \in Nat /\ lg \in Seq(LogEntry) /\ Len(lg) \in Nat /\ DOMAIN lg = 1 .. Len(lg)
        /\ commit_index[i] \in Nat /\ \A v \in Node : A1[v][u] \in Nat
    BY NodeTypes, LenProperties
  <1>3. /\ lg = log[i] /\ u = current_term[i] /\ Leading(state'[i]) /\ LeadsThrough(i)
    BY DEF LeadsThrough, Leading
  <1>4. lg = H1[u] /\ Traces(H1, lg) /\ UpToTerm(lg, u) /\ HistoriesTraced(H1)
    BY <1>1, <1>3 DEF HistoryStep, MatchInv, LogsTraced
  <1>5. /\ n \in 1 .. Len(lg) /\ n \in DOMAIN lg /\ lg[n].term = u
        /\ Cardinality(P) + 1 > Cardinality(Node) \div 2
    <2>1. /\ n \in commit_index[i] + 1 .. Len(lg) /\ lg[n].term = u
          /\ Cardinality(P) + 1 > Cardinality(Node) \div 2
      BY <1>3 DEF Committable
    <2> QED
      BY <1>2, <2>1
  <1>6. match \in [Node -> Nat]
    BY <1>1 DEF TypeOK
  <1>7. ASSUME NEW p \in P PROVE p \in Node \ {i} /\ p \in Q
    <2>1. p \in Node /\ match[p] \in Nat /\ match[p] >= n /\ match[p] # 0
      BY <1>2, <1>5, <1>6
    <2>2. /\ p # i /\ match[p] <= Len(lg)
          /\ match[p] <= A1[p][u] \/ lg[match[p]].term < u
      BY <1>1, <1>3, <2>1 DEF MatchesAcked
    <2>3. u <= lg[match[p]].term /\ lg[match[p]].term \in Nat
      <3>1. match[p] \in DOMAIN lg /\ n \in 1 .. match[p]
        BY <1>2, <1>5, <2>1, <2>2
      <3>2. lg[n].term <= lg[match[p]].term /\ lg[match[p]].term \in Nat
        BY <1>2, <1>4, <3>1, TermsAscend, TermOfEntry
      <3> QED
        BY <1>5, <3>2
    <2>4. A1[p][u] \in Nat
      BY <1>2, <2>1
    <2>5. A1[p][u] >= n
      BY <1>2, <1>5, <2>1, <2>2, <2>3, <2>4
    <2> QED
      BY <2>1, <2>2, <2>5
  <1>8. i \in Q
    <2>1. u <= LastTerm(lg) /\ LastTerm(lg) \in Nat
      BY <1>2, <1>4, <1>5, LastTermIsHighest, LastTermFacts
    <2>2. LastTerm(lg) <= u
      BY <1>2, <1>4, LastTermBound
    <2>3. A1[i][u] = Len(lg)
      BY <1>1, <1>2, <2>1, <2>2 DEF AcksNow, Acked
    <2> QED
      BY <1>2, <1>5, <2>3
  <1> HIDE DEF P, Q
  <1>9. IsMajority(Q)
    <2> DEFINE P1 == P \cup {i}
    <2>1. i \notin P /\ P \in SUBSET Node /\ Q \in SUBSET Node
      BY <1>7 DEF Q
    <2>2. IsFiniteSet(P) /\ Cardinality(P1) = Cardinality(P) + 1
      BY <2>1, NodeAssumption, FS_Subset, FS_AddElement
    <2>3. P1 \in SUBSET Node /\ IsMajority(P1) /\ \A v \in P1 : v \in Q
      BY <1>5, <1>7, <1>8, <2>1, <2>2 DEF IsMajority
    <2> HIDE DEF P1
    <2> QED
      BY <2>1, <2>3, LargerIsMajority
  <1>10. Chosen(A1, u, n)
    BY <1>9 DEF Chosen, Q
  <1>11. /\ u \in 0 .. u /\ n \in DOMAIN H1[u] /\ n >= n /\ H1[u][n].term = u
         /\ Agree(lg, H1[u], n)
    BY <1>2, <1>4, <1>5 DEF Agree
  <1> HIDE DEF u, lg
  <1>12. Held(H1, A1, lg, n, u)
    BY <1>10, <1>11 DEF Held
  <1> QED
    BY <1>12 DEF u, lg

LEMMA NextCommits ==
  ASSUME NEW H \in Histories, NEW H1 \in Histories, NEW A \in Acks, NEW A1 \in Acks,
         CommitStep(H, H1, A, A1), NoLateAnswers
  PROVE  CommitsHeld(H1, A1)'
  <1> SUFFICES ASSUME NEW i \in Node
               PROVE  Held(H1, A1, log'[i], commit_index'[i], current_term'[i])
    BY DEF CommitsHeld
  <1>1. /\ TypeOK /\ StepKind /\ MatchInv(H) /\ CommitsHeld(H, A) /\ AnnouncedHeld(H, A)
        /\ EntriesFromWinners /\ EntriesEnd
    BY DEF CommitStep, GatedStep, CommitInv, HeldInv, MailInv
  <1>2. /\ log[i] \in Seq(LogEntry) /\ log'[i] \in Seq(LogEntry) /\ Len(log'[i]) \in Nat
        /\ commit_index[i] \in Nat /\ commit_index'[i] \in Nat
        /\ current_term[i] \in Nat /\ current_term'[i] \in Nat
        /\ current_term[i] <= current_term'[i]
    BY NodeTypes
  <1>3. CASE commit_index'[i] = commit_index[i]
    <2>1. Held(H, A, log[i], commit_index[i], current_term[i])
      BY <1>1 DEF CommitsHeld
    <2>2. Agree(log[i], log'[i], commit_index[i]) /\ commit_index[i] \in 0 .. commit_index[i]
      BY <1>2, CommitsGrow
    <2> QED
      BY <1>2, <1>3, <2>1, <2>2, HeldSurvives
  <1>4. ASSUME NEW s \in Node, AcceptStep(i, s), commit_index'[i] # commit_index[i],
               commit_index'[i] = CommitAfter(commit_index[i], Head(net[s][i]).leader_commit,
                                              Len(log'[i]))
        PROVE  Held(H1, A1, log'[i], commit_index'[i], current_term'[i])
    <2> DEFINE m == Head(net[s][i])
    <2>1. Takes(i, s)
      BY <1>1, <1>4, AcceptingTakes
    <2>2. /\ m \in Content(net[s][i]) /\ m.type = "append_entries"
          /\ m.leader_commit \in Nat /\ m.term \in Nat
      BY <1>1, <2>1, AcceptedMessage DEF Takes
    <2>3. current_term'[i] = m.term /\ Agree(log'[i], H[m.term], Len(log'[i]))
      BY <1>1, <2>1, TakesHistory
    <2>4. Held(H, A, H[m.term], m.leader_commit, m.term)
      BY <1>1, <2>2 DEF AnnouncedHeld
    <2>5. commit_index'[i] \in 0 .. m.leader_commit /\ commit_index'[i] <= Len(log'[i])
      <3> HIDE DEF m
      <3>1. commit_index'[i] = CommitAfter(commit_index[i], m.leader_commit, Len(log'[i]))
        BY <1>4 DEF m
      <3> QED
        BY <1>2, <1>4, <2>2, <3>1 DEF CommitAfter
    <2>6. H[m.term] \in Seq(LogEntry) /\ m.term <= m.term
      BY <2>2, HistoryType
    <2> HIDE DEF m
    <2>7. Agree(H[m.term], log'[i], commit_index'[i])
      BY <1>2, <2>3, <2>5 DEF Agree
    <2> QED
      BY <1>2, <2>2, <2>3, <2>4, <2>5, <2>6, <2>7, HeldSurvives
  <1>5. CASE /\ state[i] = Leader /\ UNCHANGED <<state, current_term, log>>
             /\ commit_index'[i] \in Committable(log[i], commit_index[i], current_term[i],
                                                 match_index'[i], Cardinality(Node))
    BY <1>5, CommittableHeld
  <1> QED
    BY <1>1, <1>3, <1>4, <1>5, CommitKinds

LEMMA NextAnnounced ==
  ASSUME NEW H \in Histories, NEW H1 \in Histories, NEW A \in Acks, NEW A1 \in Acks,
         CommitStep(H, H1, A, A1)
  PROVE  AnnouncedHeld(H1, A1)'
  <1> SUFFICES ASSUME NEW s \in Node, NEW d \in Node, NEW m \in Content(net'[s][d]),
                      m.type = "append_entries"
               PROVE  Held(H1, A1, H1[m.term], m.leader_commit, m.term)
    BY DEF AnnouncedHeld, Content
  <1>1. /\ TypeOK /\ TypeOK' /\ MessageStep /\ HistoryStep(H, H1)
        /\ CommitsHeld(H, A) /\ AnnouncedHeld(H, A)
    BY DEF CommitStep, GatedStep, CommitInv, HeldInv
  <1>2. m.term \in Nat /\ m.leader_commit \in Nat
    <2>1. net'[s][d] \in Seq(Message)
      BY <1>1 DEF TypeOK
    <2>2. m \in Message
      BY <2>1, ElementOfSeq, LenProperties DEF Content
    <2> QED
      BY <2>2, MessageFields
  <1>3. /\ H[m.term] \in Seq(LogEntry) /\ H1[m.term] \in Seq(LogEntry) /\ m.term <= m.term
        /\ Len(H[m.term]) \in Nat /\ Len(H1[m.term]) \in Nat
        /\ m.leader_commit \in 0 .. m.leader_commit
    BY <1>2, HistoryType
  <1>4. CASE m \in Content(net[s][d])
    <2>1. Held(H, A, H[m.term], m.leader_commit, m.term)
      BY <1>1, <1>4 DEF AnnouncedHeld
    <2>2. m.leader_commit <= Len(H[m.term])
      BY <1>2, <1>3, <2>1 DEF Held, Agree
    <2>3. Agree(H[m.term], H1[m.term], m.leader_commit)
      <3>1. Agree(H[m.term], H1[m.term], Len(H[m.term]))
        BY <1>1, <1>2 DEF HistoryStep
      <3> QED
        BY <1>2, <1>3, <2>2, <3>1 DEF Agree
    <2> QED
      BY <1>2, <1>3, <2>1, <2>3, HeldSurvives
  <1>5. CASE SentEntries(s, d, m)
    <2>1. m.term = current_term[s] /\ m.leader_commit = commit_index[s] /\ LeadsThrough(s)
      BY <1>5 DEF SentEntries, LeadsThrough, AppendEntries
    <2>2. Held(H, A, log[s], commit_index[s], current_term[s])
      BY <1>1 DEF CommitsHeld
    <2>3. Agree(log[s], log'[s], commit_index[s]) /\ log[s] \in Seq(LogEntry)
      BY CommitsGrow, NodeTypes
    <2>4. log'[s] = H1[m.term]
      BY <1>1, <2>1 DEF HistoryStep
    <2> QED
      BY <1>2, <1>3, <2>1, <2>2, <2>3, <2>4, HeldSurvives
  <1> QED
    BY <1>1, <1>4, <1>5 DEF MessageStep, Sent

-----------------------------------------------------------------------------
(* The theorems *)

\* The energy-aware protocols, as long as no battery level rises.
Gated == Protocol # "raft" /\ ~Recharge

CommitmentInv == \E H \in Histories : \E A \in Acks : MatchInv(H) /\ CommitInv(H, A)

\* Before anything is won, stored or sent.
LEMMA EmptyCommitment ==
  ASSUME elected = {}, \A v, c \in Node : Content(net[v][c]) = {},
         \A v \in Node : /\ state[v] = Follower /\ log[v] = <<>>
                         /\ commit_index[v] = 0 /\ current_term[v] = 0
  PROVE  CommitmentInv
  <1>1. PICK H : H = [t \in Nat |-> <<>>]
    OBVIOUS
  <1>2. PICK A : A = [v \in Node |-> [t \in Nat |-> 0]]
    OBVIOUS
  <1>3. /\ H \in Histories /\ A \in Acks /\ DOMAIN <<>> = {}
        /\ (\A t \in Nat : H[t] = <<>>) /\ \A v \in Node : \A t \in Nat : A[v][t] = 0
    BY <1>1, <1>2, EmptySeq DEF Histories, Acks
  <1>4. MatchInv(H)
    BY <1>3
    DEF MatchInv, HistoriesLed, HistoriesTraced, LogsTraced, EntriesTraced, Traces, UpToTerm,
        Leading, Follower, Leader, LocalLeader
  <1>5. StoredInv(H, A)
    BY <1>3 DEF StoredInv, AcksNow, Acked, AcksTraced, AcksStored, LeadersAck, LastTerm
  <1>6. VotingInv(H, A) /\ MailInv
    BY <1>3
    DEF VotingInv, CandidatesCover, WinnersCover, CandidatesBehind, MailInv, RequestsCurrent,
        GrantsBehind, EntriesEnd, NextBounded, Leading, Follower, Candidate, Leader, LocalLeader
  <1>7. AnswerInv(H, A) /\ HeldInv(H, A)
    BY <1>3
    DEF AnswerInv, AnswersAcked, MatchesAcked, HeldInv, CommitsHeld, AnnouncedHeld, Held,
        Leading, Follower, Leader, LocalLeader
  <1> QED
    BY <1>3, <1>4, <1>5, <1>6, <1>7 DEF CommitmentInv, CommitInv

LEMMA InitCommitment == Init => CommitmentInv
  <1> SUFFICES ASSUME Init PROVE CommitmentInv
    OBVIOUS
  <1>1. /\ \A v, c \in Node : Content(net[v][c]) = {}
        /\ elected = {} /\ \A v \in Node : /\ state[v] = Follower /\ log[v] = <<>>
                                           /\ commit_index[v] = 0 /\ current_term[v] = 0
    BY ContentOfShort DEF Init, Nothing
  <1> QED
    BY <1>1, EmptyCommitment

\* Every step has its histories and its record of what is stored.
LEMMA CommitStepExists ==
  ASSUME GatedStep, CommitmentInv
  PROVE  \E H, H1 \in Histories : \E A, A1 \in Acks : CommitStep(H, H1, A, A1)
  <1>1. PICK H \in Histories : \E A \in Acks : MatchInv(H) /\ CommitInv(H, A)
    BY DEF CommitmentInv
  <1>2. PICK A \in Acks : MatchInv(H) /\ CommitInv(H, A)
    BY <1>1
  <1>3. /\ TypeOK /\ TypeOK' /\ elected \subseteq elected' /\ LeadersOnRecord
        /\ ElectionSafety /\ ElectionSafety' /\ CandidaciesOpen /\ EntriesFromWinners
        /\ StepKind /\ MessageStep
    BY OneWinner DEF GatedStep, ElectionInv
  <1>4. PICK H1 \in Histories : HistoryStep(H, H1) /\ MatchInv(H1)'
    BY <1>2, <1>3, StepMatch
  <1>5. PICK A1 \in Acks : AcksFollow(A, A1)
    BY <1>3, AcksExist
  <1> QED
    BY <1>2, <1>4, <1>5 DEF CommitStep

LEMMA NextCommitInv ==
  ASSUME NEW H \in Histories, NEW H1 \in Histories, NEW A \in Acks, NEW A1 \in Acks,
         CommitStep(H, H1, A, A1), NoLateAnswers
  PROVE  CommitInv(H1, A1)'
  <1>1. StoredInv(H1, A1)'
    BY NextStored, NextLeadersAck DEF StoredInv, AcksTraced
  <1>2. VotingInv(H1, A1)'
    BY NextCovered, NextWinners, NextCandidates DEF VotingInv
  <1>3. MailInv'
    BY NextRequests, NextGrants, NextEntries, NextNext DEF MailInv
  <1>4. AnswerInv(H1, A1)'
    BY NextAnswers, NextMatches DEF AnswerInv
  <1>5. HeldInv(H1, A1)'
    BY NextCommits, NextAnnounced DEF HeldInv
  <1> QED
    BY <1>1, <1>2, <1>3, <1>4, <1>5 DEF CommitInv

\* A step keeps the invariant, and takes back nothing that is committed.
LEMMA StepCommitment ==
  ASSUME GatedStep, NoLateAnswers, CommitmentInv
  PROVE  CommitmentInv' /\ \A i \in Node : Prefix(Committed(i), Committed(i)')
  <1>1. PICK H \in Histories, H1 \in Histories, A \in Acks, A1 \in Acks : CommitStep(H, H1, A, A1)
    BY CommitStepExists
  <1>2. MatchInv(H1)' /\ CommitInv(H1, A1)'
    BY <1>1, NextCommitInv DEF CommitStep
  <1>3. CommitmentInv'
    BY <1>2 DEF CommitmentInv
  <1>4. ASSUME NEW i \in Node PROVE Prefix(Committed(i), Committed(i)')
    <2>1. /\ log[i] \in Seq(LogEntry) /\ log'[i] \in Seq(LogEntry) /\ Len(log'[i]) \in Nat
          /\ commit_index[i] \in Nat /\ commit_index'[i] \in Nat
      BY <1>1, NodeTypes
    <2>2. Agree(log[i], log'[i], commit_index[i]) /\ commit_index[i] <= commit_index'[i]
      BY <1>1, CommitsGrow
    <2>3. commit_index'[i] <= Len(log'[i])
      <3>1. Held(H1, A1, log'[i], commit_index'[i], current_term'[i])
        BY <1>1, NextCommits DEF CommitsHeld
      <3> QED
        BY <2>1, <3>1 DEF Held, Agree
    <2>4. commit_index'[i] \in commit_index[i] .. Len(log'[i])
      BY <2>1, <2>2, <2>3
    <2> QED
      BY <2>1, <2>2, <2>4, PrefixOfFront DEF Committed
  <1> QED
    BY <1>3, <1>4

\* The steps of the specification are such steps.
LEMMA NextGatedStep ==
  ASSUME Gated, TypeInv, TypeInv', ElectionInv, ElectionInv', ElectionSafety',
         CandidaciesOpen, EntriesFromWinners, [Next]_vars
  PROVE  GatedStep
  <1>1. Protocol # "raft" /\ NoRecovery /\ TypeOK /\ TypeOK'
    BY DEF Gated, NoRecovery, TypeInv
  <1>2. StepKind
    BY <1>1, NextKind
  <1>3. elected \subseteq elected'
    BY <1>1, WinnersStayOnRecord
  <1>4. MessageStep
    BY <1>1, <1>3, NextSends DEF ElectionInv
  <1>5. \A n \in Node : current_term'[n] >= current_term[n]
    BY <1>1, NextTerms
  <1> QED
    BY <1>1, <1>2, <1>3, <1>4, <1>5 DEF GatedStep

LEMMA NextCommitment ==
  ASSUME Gated, TypeInv, TypeInv', ElectionInv, ElectionInv', ElectionSafety',
         CandidaciesOpen, EntriesFromWinners, NoLateAnswers, CommitmentInv, [Next]_vars
  PROVE  CommitmentInv' /\ \A i \in Node : Prefix(Committed(i), Committed(i)')
  BY NextGatedStep, StepCommitment

\* What the invariant says of a state.
LEMMA CommitmentSafe ==
  ASSUME TypeOK, ElectionInv, CommitmentInv
  PROVE  StateMachineSafety /\ LeaderCompleteness /\ CommittedOnMajority
  <1>1. PICK H \in Histories : \E A \in Acks : MatchInv(H) /\ CommitInv(H, A)
    BY DEF CommitmentInv
  <1>2. PICK A \in Acks : MatchInv(H) /\ CommitInv(H, A)
    BY <1>1
  <1>3. /\ TypeOK /\ WonByMajority /\ LeadersOnRecord /\ WinnersCover(H, A) /\ AcksStored(A)
        /\ CommitsHeld(H, A)
    BY <1>2 DEF ElectionInv, CommitInv, VotingInv, StoredInv, HeldInv
  <1> QED
    BY <1>2, <1>3, SafeIfHeld, CompleteIfHeld, StoredByMajority

\* The invariant from which the theorems follow.
THEOREM CommitmentInvariant == Gated => (Spec /\ []NoLateAnswers => []CommitmentInv)
  <1> SUFFICES ASSUME Gated PROVE Spec /\ []NoLateAnswers => []CommitmentInv
    OBVIOUS
  <1>1. NoRecovery
    BY DEF Gated, NoRecovery
  <1>2. Spec => [](TypeInv /\ ElectionInv /\ ElectionSafety /\ CandidaciesOpen
                   /\ EntriesFromWinners)
    BY <1>1, TypeInvariant, ElectionInvariant, ElectionSafe, OpenInvariant, EntriesAreWinners, PTL
  <1>3. /\ TypeInv /\ TypeInv' /\ ElectionInv /\ ElectionInv' /\ ElectionSafety'
        /\ CandidaciesOpen /\ EntriesFromWinners /\ NoLateAnswers /\ CommitmentInv /\ [Next]_vars
        => CommitmentInv'
    BY NextCommitment
  <1> QED
    BY <1>2, <1>3, InitCommitment, PTL DEF Spec

\* Two coordinators never regard different commands as committed at one position, whatever
\* messages are lost and whoever led, here or across a partition, when they were committed.
THEOREM CommitsAreSafe == Gated => (Spec /\ []NoLateAnswers => []StateMachineSafety)
  <1> SUFFICES ASSUME Gated PROVE Spec /\ []NoLateAnswers => []StateMachineSafety
    OBVIOUS
  <1>1. TypeInv /\ ElectionInv /\ CommitmentInv => StateMachineSafety
    BY CommitmentSafe DEF TypeInv
  <1>2. NoRecovery
    BY DEF Gated, NoRecovery
  <1> QED
    BY <1>1, <1>2, TypeInvariant, ElectionInvariant, CommitmentInvariant, PTL

\* A leader's log holds whatever was committed before by those whose term it has reached: no
\* election, ballot or handoff brings a coordinator to lead without it.
THEOREM LeadersAreComplete == Gated => (Spec /\ []NoLateAnswers => []LeaderCompleteness)
  <1> SUFFICES ASSUME Gated PROVE Spec /\ []NoLateAnswers => []LeaderCompleteness
    OBVIOUS
  <1>1. TypeInv /\ ElectionInv /\ CommitmentInv => LeaderCompleteness
    BY CommitmentSafe DEF TypeInv
  <1>2. NoRecovery
    BY DEF Gated, NoRecovery
  <1> QED
    BY <1>1, <1>2, TypeInvariant, ElectionInvariant, CommitmentInvariant, PTL

\* What a coordinator regards as committed is stored by a majority, and stays so while the
\* logs of the others are cut off and overwritten.
THEOREM CommitsAreStored == Gated => (Spec /\ []NoLateAnswers => []CommittedOnMajority)
  <1> SUFFICES ASSUME Gated PROVE Spec /\ []NoLateAnswers => []CommittedOnMajority
    OBVIOUS
  <1>1. TypeInv /\ ElectionInv /\ CommitmentInv => CommittedOnMajority
    BY CommitmentSafe DEF TypeInv
  <1>2. NoRecovery
    BY DEF Gated, NoRecovery
  <1> QED
    BY <1>1, <1>2, TypeInvariant, ElectionInvariant, CommitmentInvariant, PTL

\* No step takes back what a coordinator committed: no merge cuts it off or replaces it, and
\* the commit index does not move backwards.
THEOREM CommitsAreStable == Gated => (Spec /\ []NoLateAnswers => CommittedIsStable)
  <1> SUFFICES ASSUME Gated PROVE Spec /\ []NoLateAnswers => CommittedIsStable
    OBVIOUS
  <1>1. NoRecovery
    BY DEF Gated, NoRecovery
  <1>2. Spec => [](TypeInv /\ ElectionInv /\ ElectionSafety /\ CandidaciesOpen
                   /\ EntriesFromWinners)
    BY <1>1, TypeInvariant, ElectionInvariant, ElectionSafe, OpenInvariant, EntriesAreWinners, PTL
  <1>3. /\ TypeInv /\ TypeInv' /\ ElectionInv /\ ElectionInv' /\ ElectionSafety'
        /\ CandidaciesOpen /\ EntriesFromWinners /\ NoLateAnswers /\ CommitmentInv /\ [Next]_vars
        => [\A i \in Node : Prefix(Committed(i), Committed(i)')]_vars
    BY NextCommitment
  <1> QED
    BY <1>2, <1>3, CommitmentInvariant, PTL DEF Spec, CommittedIsStable

-----------------------------------------------------------------------------
(* The committed log as a service *)

\* Some coordinator has committed most: those that have committed no less than a given one
\* are fewer and fewer.
LEMMA HighestExists ==
  ASSUME Node # {}, NEW f \in [Node -> Nat]
  PROVE  \E i \in Node : \A j \in Node : f[j] <= f[i]
  <1> DEFINE Above(i) == {j \in Node : f[j] >= f[i]}
             Sets == {Above(i) : i \in Node}
  <1>1. Sets # {} /\ Sets \subseteq FiniteSubsetsOf(Node)
    <2>1. \A i \in Node : IsFiniteSet(Above(i)) /\ Above(i) \subseteq Node
      BY NodeAssumption, FS_Subset
    <2> HIDE DEF Above
    <2> QED
      BY <2>1, Zenon DEF FiniteSubsetsOf
  <1>2. PICK S \in Sets : \A R \in Sets : <<R, S>> \notin StrictSubsetOrdering(Node)
    BY <1>1, WFMin, FS_StrictSubsetOrderingWellFounded
  <1>3. PICK i \in Node : S = Above(i)
    OBVIOUS
  <1>4. ASSUME NEW j \in Node PROVE f[j] <= f[i]
    <2> SUFFICES ASSUME f[j] > f[i] PROVE FALSE
      OBVIOUS
    <2>1. Above(j) \subseteq S /\ i \in S /\ i \notin Above(j)
      BY <1>3
    <2>2. <<Above(j), S>> \in StrictSubsetOrdering(Node)
      BY <1>3, <2>1 DEF StrictSubsetOrdering
    <2> QED
      BY <1>2, <2>2
  <1> QED
    BY <1>4

LEMMA CommandsOfLog ==
  ASSUME NEW lg \in Seq(LogEntry)
  PROVE  /\ Commands(lg) \in Seq(Command) /\ Len(Commands(lg)) = Len(lg)
         /\ \A n \in 1 .. Len(lg) : Commands(lg)[n] = lg[n].command
  <1>1. DOMAIN lg = 1 .. Len(lg) /\ Len(lg) \in Nat
    BY LenProperties
  <1>2. \A n \in 1 .. Len(lg) : lg[n].command \in Command
    <2> TAKE n \in 1 .. Len(lg)
    <2>1. lg[n] \in LogEntry
      BY ElementOfSeq
    <2> QED
      BY <2>1 DEF LogEntry
  <1> QED
    BY <1>1, <1>2 DEF Commands

LEMMA CommandsOfPrefix ==
  ASSUME NEW a \in Seq(LogEntry), NEW b \in Seq(LogEntry), Prefix(a, b)
  PROVE  Commands(a) = SubSeq(Commands(b), 1, Len(a))
  <1>1. /\ Len(a) \in Nat /\ Len(b) \in Nat /\ Len(a) \in 0 .. Len(b)
        /\ a = SubSeq(b, 1, Len(a))
    BY LenProperties DEF Prefix
  <1>2. \A n \in 1 .. Len(a) : a[n] = b[n]
    <2>1. \A n \in 1 .. Len(a) : SubSeq(b, 1, Len(a))[n] = b[n]
      BY <1>1, SubSeqProperties
    <2> QED
      BY <1>1, <2>1
  <1>3. Len(a) \in 0 .. Len(Commands(b)) /\ Commands(b) \in Seq(Command)
    BY <1>1, CommandsOfLog
  <1> DEFINE front == SubSeq(Commands(b), 1, Len(a))
  <1>4. /\ front \in Seq(Command) /\ Len(front) = Len(a)
        /\ \A n \in 1 .. Len(a) : front[n] = Commands(b)[n]
    BY <1>1, <1>3, FrontIsSeq, SubSeqProperties
  <1> HIDE DEF front
  <1>5. \A n \in 1 .. Len(a) : Commands(a)[n] = front[n]
    BY <1>1, <1>2, <1>4, CommandsOfLog
  <1>6. Commands(a) = front
    BY <1>1, <1>4, <1>5, CommandsOfLog, SeqEqual
  <1> QED
    BY <1>6 DEF front

\* Of the same length, the one is the other.
LEMMA SameLengthPrefix ==
  ASSUME NEW a \in Seq(LogEntry), NEW b \in Seq(LogEntry), Prefix(a, b), Len(b) <= Len(a)
  PROVE  a = b
  <1>1. Len(a) = Len(b) /\ a = SubSeq(b, 1, Len(b))
    BY LenProperties DEF Prefix
  <1> QED
    BY <1>1, SubSeqFull

LEMMA PrefixExtended ==
  ASSUME NEW a \in Seq(LogEntry), NEW b \in Seq(LogEntry), Prefix(a, b), Len(a) < Len(b)
  PROVE  Service!Extends(Commands(b), Commands(a))
  <1>1. Len(Commands(a)) = Len(a) /\ Len(Commands(b)) = Len(b)
    BY CommandsOfLog
  <1> QED
    BY <1>1, CommandsOfPrefix DEF Service!Extends

CommittedTyped ==
  /\ commit_index \in [Node -> Nat]
  /\ \A i \in Node : Committed(i) \in Seq(LogEntry) /\ Len(Committed(i)) = commit_index[i]

LEMMA CommitmentTyped ==
  ASSUME TypeInv, CommitmentInv
  PROVE  CommittedTyped
  <1>1. PICK H \in Histories : \E A \in Acks : MatchInv(H) /\ CommitInv(H, A)
    BY DEF CommitmentInv
  <1>2. PICK A \in Acks : MatchInv(H) /\ CommitInv(H, A)
    BY <1>1
  <1>3. TypeOK /\ CommitsHeld(H, A)
    BY <1>2 DEF TypeInv, CommitInv, HeldInv
  <1>4. commit_index \in [Node -> Nat]
    BY <1>3 DEF TypeOK
  <1>5. ASSUME NEW i \in Node
        PROVE  Committed(i) \in Seq(LogEntry) /\ Len(Committed(i)) = commit_index[i]
    <2>1. /\ log[i] \in Seq(LogEntry) /\ commit_index[i] \in Nat
          /\ commit_index[i] \in 0 .. Len(log[i])
      BY <1>3, CommittedLength DEF TypeOK
    <2>2. Len(SubSeq(log[i], 1, commit_index[i])) = commit_index[i]
      BY <2>1, LenProperties, SubSeqProperties
    <2> QED
      BY <2>1, <2>2, FrontIsSeq DEF Committed
  <1> QED
    BY <1>4, <1>5 DEF CommittedTyped

LEMMA LongestIsOne ==
  ASSUME Node # {}, CommittedTyped
  PROVE  \E i \in Node : /\ LongestCommitted = Committed(i)
                         /\ \A j \in Node : commit_index[j] <= commit_index[i]
  <1>1. \E i \in Node : \A j \in Node : commit_index[j] <= commit_index[i]
    BY HighestExists DEF CommittedTyped
  <1> QED
    BY <1>1 DEF LongestCommitted

\* One coordinator at a time moves its commit index.
LEMMA LoneCommit ==
  ASSUME Node # {}, TypeOK, StepKind
  PROVE  \E i \in Node : \A j \in Node \ {i} : commit_index'[j] = commit_index[j]
  <1>1. ASSUME commit_index' = commit_index
        PROVE  \E i \in Node : \A j \in Node \ {i} : commit_index'[j] = commit_index[j]
    BY <1>1
  <1>2. ASSUME NEW i \in Node, NEW c, commit_index' = [commit_index EXCEPT ![i] = c]
        PROVE  \A j \in Node \ {i} : commit_index'[j] = commit_index[j]
    BY <1>2 DEF TypeOK
  <1>3. CASE RestStep \/ \E i \in Node : StartStep(i) \/ ProposeStep(i)
    BY <1>1, <1>3 DEF RestStep, StartStep, ProposeStep, replicationVars
  <1>4. CASE \E i, s \in Node : CountStep(i, s) \/ WinningStep(i, s)
    BY <1>1, <1>4 DEF CountStep, WinningStep, Counting
  <1>5. ASSUME NEW i \in Node, NEW s \in Node, AcceptStep(i, s)
        PROVE  \A j \in Node \ {i} : commit_index'[j] = commit_index[j]
    BY <1>5 DEF AcceptStep, TypeOK
  <1>6. ASSUME NEW i \in Node, NEW s \in Node, AckStep(i, s)
        PROVE  \A j \in Node \ {i} : commit_index'[j] = commit_index[j]
    BY <1>6 DEF AckStep, TryAdvanceCommit, TypeOK
  <1> QED
    BY <1>3, <1>4, <1>5, <1>6 DEF StepKind

\* A commit beyond the longest chooses, one up to it learns.
LEMMA CommitImplements ==
  ASSUME Node # {}, CommittedTyped, CommittedTyped', StateMachineSafety',
         NEW i \in Node, \A j \in Node \ {i} : commit_index'[j] = commit_index[j],
         \A j \in Node : Prefix(Committed(j), Committed(j)')
  PROVE  [Service!Next]_(Service!vars)
  <1> DEFINE C(j) == Committed(j)
             D(j) == Committed(j)'
             L == LongestCommitted
             applied == [j \in Node |-> Commands(C(j))]
  <1>1. \A j \in Node : /\ C(j) \in Seq(LogEntry) /\ D(j) \in Seq(LogEntry)
                        /\ Len(C(j)) = commit_index[j] /\ Len(D(j)) = commit_index'[j]
                        /\ Len(C(j)) \in Nat /\ Len(D(j)) \in Nat
    BY LenProperties DEF CommittedTyped
  <1>2. PICK top \in Node : L = C(top) /\ \A j \in Node : commit_index[j] <= commit_index[top]
    BY LongestIsOne
  <1>3. PICK top1 \in Node : /\ LongestCommitted' = D(top1)
                             /\ \A j \in Node : commit_index'[j] <= commit_index'[top1]
    <2>1. \E j \in Node : \A k \in Node : commit_index'[k] <= commit_index'[j]
      BY HighestExists DEF CommittedTyped
    <2> QED
      BY <2>1 DEF LongestCommitted
  <1>4. \A j, k \in Node : Prefix(D(j), D(k)) \/ Prefix(D(k), D(j))
    BY DEF StateMachineSafety
  <1>5. \A j \in Node : Prefix(C(j), D(j)) /\ Len(C(j)) <= Len(D(j))
    BY DEF Prefix
  <1> HIDE DEF C, D, L
  <1>6. \A j, k \in Node : Len(D(j)) <= Len(D(k)) => Prefix(D(j), D(k))
    <2> TAKE j, k \in Node
    <2> HAVE Len(D(j)) <= Len(D(k))
    <2>1. CASE Prefix(D(j), D(k))
      BY <2>1
    <2>2. CASE Prefix(D(k), D(j))
      <3>1. D(k) = D(j)
        BY <1>1, <2>2, SameLengthPrefix
      <3> QED
        BY <2>2, <3>1
    <2> QED
      BY <1>4, <2>1, <2>2
  <1>7. \A j \in Node : Len(C(j)) = Len(D(j)) => C(j) = D(j)
    BY <1>1, <1>5, SameLengthPrefix
  <1>8. \A j \in Node \ {i} : C(j) = D(j)
    BY <1>1, <1>7
  <1>9. applied' = [applied EXCEPT ![i] = Commands(D(i))]
    <2>1. applied' = [j \in Node |-> Commands(D(j))]
      BY DEF C, D
    <2>2. applied' = [j \in Node |-> IF j = i THEN Commands(D(i)) ELSE Commands(C(j))]
      BY <1>8, <2>1
    <2> QED
      BY <2>2
  <1>10. Commands(LongestCommitted)' = Commands(D(top1)) /\ Commands(LongestCommitted) = Commands(C(top))
    BY <1>2, <1>3 DEF L, Commands
  <1>11. CASE Len(D(i)) > Len(C(top))
    <2>1. top1 = i
      <3> SUFFICES ASSUME top1 # i PROVE FALSE
        OBVIOUS
      <3>1. Len(D(top1)) <= Len(C(top)) /\ Len(D(i)) <= Len(D(top1))
        BY <1>1, <1>2, <1>3, <1>8
      <3> QED
        BY <1>1, <1>11, <3>1
    <2>2. Prefix(C(top), D(i)) /\ Prefix(C(i), D(i)) /\ Len(C(i)) < Len(D(i))
      <3>1. Prefix(C(top), D(i))
        <4>1. CASE top = i
          BY <1>5, <4>1
        <4>2. CASE top # i
          BY <1>1, <1>6, <1>8, <1>11, <4>2
        <4> QED
          BY <4>1, <4>2
      <3>2. Len(C(i)) <= Len(C(top))
        BY <1>1, <1>2
      <3> QED
        BY <1>1, <1>5, <1>11, <3>1, <3>2
    <2>3. /\ Service!Extends(Commands(D(i)), Commands(C(top)))
          /\ Service!Extends(Commands(D(i)), Commands(C(i)))
      BY <1>1, <1>11, <2>2, PrefixExtended
    <2>4. Service!Choose(i)
      BY <1>9, <1>10, <2>1, <2>3 DEF Service!Choose, C
    <2> QED
      BY <2>4 DEF Service!Next
  <1>12. CASE Len(D(i)) <= Len(C(top))
    <2>1. D(top1) = C(top)
      <3>1. D(top) = C(top)
        <4>1. CASE top = i
          BY <1>1, <1>5, <1>7, <1>12, <4>1
        <4>2. CASE top # i
          BY <1>8, <4>2
        <4> QED
          BY <4>1, <4>2
      <3>2. Len(D(top1)) <= Len(C(top))
        <4>1. CASE top1 = i
          BY <1>12, <4>1
        <4>2. CASE top1 # i
          BY <1>1, <1>2, <1>8, <4>2
        <4> QED
          BY <4>1, <4>2
      <3>3. Prefix(D(top), D(top1)) /\ Len(D(top1)) <= Len(D(top))
        BY <1>1, <1>3, <1>6, <3>1, <3>2
      <3> QED
        BY <1>1, <3>1, <3>3, SameLengthPrefix
    <2>2. Commands(LongestCommitted)' = Commands(LongestCommitted)
      BY <1>10, <2>1
    <2>3. CASE D(i) = C(i)
      <3>1. applied' = applied
        BY <1>9, <2>3
      <3> QED
        BY <2>2, <3>1 DEF Service!vars, C
    <2>4. CASE D(i) # C(i)
      <3>1. Len(C(i)) < Len(D(i))
        BY <1>1, <1>5, <1>7, <2>4
      <3>2. Service!Extends(Commands(D(i)), Commands(C(i)))
        BY <1>1, <1>5, <3>1, PrefixExtended
      <3>3. Commands(D(i)) = SubSeq(Commands(C(top)), 1, Len(Commands(D(i))))
        <4>1. Prefix(D(i), C(top))
          BY <1>1, <1>6, <1>12, <2>1
        <4> QED
          BY <1>1, <4>1, CommandsOfPrefix, CommandsOfLog
      <3>4. applied'[i] = Commands(D(i)) /\ applied[i] = Commands(C(i))
        BY <1>9
      <3>5. Service!Learn(i)
        BY <1>9, <1>10, <2>2, <3>2, <3>3, <3>4 DEF Service!Learn, C
      <3> QED
        BY <3>5 DEF Service!Next
    <2> QED
      BY <2>3, <2>4
  <1> QED
    BY <1>1, <1>11, <1>12

LEMMA InitService ==
  ASSUME Node # {}, Init, CommittedTyped
  PROVE  Service!Init
  <1>1. ASSUME NEW i \in Node PROVE Commands(Committed(i)) = <<>>
    <2>1. /\ Committed(i) \in Seq(LogEntry) /\ Len(Committed(i)) = 0
      BY DEF CommittedTyped, Init
    <2>2. Commands(Committed(i)) \in Seq(Command) /\ Len(Commands(Committed(i))) = 0
      BY <2>1, CommandsOfLog
    <2> QED
      BY <2>2, EmptySeq
  <1>2. Commands(LongestCommitted) = <<>>
    BY <1>1, LongestIsOne
  <1> QED
    BY <1>1, <1>2 DEF Service!Init

LEMMA NextService ==
  ASSUME Gated, Node # {}, TypeInv, TypeInv', ElectionInv, ElectionInv', ElectionSafety',
         CandidaciesOpen, EntriesFromWinners, NoLateAnswers, CommitmentInv, [Next]_vars,
         CommittedTyped, CommittedTyped', StateMachineSafety'
  PROVE  [Service!Next]_(Service!vars)
  <1>1. TypeOK /\ StepKind
    <2>1. NoRecovery
      BY DEF Gated, NoRecovery
    <2> QED
      BY <2>1, NextKind DEF TypeInv
  <1>2. PICK i \in Node : \A j \in Node \ {i} : commit_index'[j] = commit_index[j]
    BY <1>1, LoneCommit
  <1>3. \A j \in Node : Prefix(Committed(j), Committed(j)')
    BY NextCommitment
  <1> QED
    BY <1>2, <1>3, CommitImplements

\* What the coordinators commit is one sequence of commands, readings and batches included,
\* which each of them works through from the start without ever going back: whatever the
\* elections, handoffs, partitions and merges behind it.
THEOREM CommittedLogImplemented ==
  Gated /\ Node # {} => (Spec /\ []NoLateAnswers => ImplementsCommittedLog)
  <1> SUFFICES ASSUME Gated, Node # {}
               PROVE  Spec /\ []NoLateAnswers => ImplementsCommittedLog
    OBVIOUS
  <1>1. NoRecovery
    BY DEF Gated, NoRecovery
  <1>2. Spec => [](TypeInv /\ ElectionInv /\ ElectionSafety /\ CandidaciesOpen
                   /\ EntriesFromWinners)
    BY <1>1, TypeInvariant, ElectionInvariant, ElectionSafe, OpenInvariant, EntriesAreWinners, PTL
  <1>3. TypeInv /\ CommitmentInv => CommittedTyped
    BY CommitmentTyped
  <1>4. Init /\ CommittedTyped => Service!Init
    BY InitService
  <1>5. /\ TypeInv /\ TypeInv' /\ ElectionInv /\ ElectionInv' /\ ElectionSafety'
        /\ CandidaciesOpen /\ EntriesFromWinners /\ NoLateAnswers /\ CommitmentInv /\ [Next]_vars
        /\ CommittedTyped /\ CommittedTyped' /\ StateMachineSafety'
        => [Service!Next]_(Service!vars)
    BY NextService
  <1> QED
    BY <1>2, <1>3, <1>4, <1>5, CommitmentInvariant, CommitsAreSafe, PTL
    DEF Spec, ImplementsCommittedLog, Service!Spec

\* Clusters of at most four need no hypothesis on late answers: two coordinators, the leader
\* and whoever answers it, are in every majority.
THEOREM SmallClustersAreSafe ==
  Gated /\ Node # {} /\ Cardinality(Node) <= 4 =>
    (Spec => /\ [](StateMachineSafety /\ LeaderCompleteness /\ CommittedOnMajority)
             /\ CommittedIsStable /\ ImplementsCommittedLog)
  <1> SUFFICES ASSUME Gated, Node # {}, Cardinality(Node) <= 4
               PROVE  Spec =>
                        /\ [](StateMachineSafety /\ LeaderCompleteness /\ CommittedOnMajority)
                        /\ CommittedIsStable /\ ImplementsCommittedLog
    OBVIOUS
  <1>1. Cardinality(Node) \in Nat
    BY NodeAssumption, FS_CardinalityType
  <1>2. NoLateAnswers
    BY <1>1 DEF NoLateAnswers
  <1> QED
    BY <1>2, CommitsAreSafe, LeadersAreComplete, CommitsAreStored, CommitsAreStable,
       CommittedLogImplemented, PTL
=============================================================================
