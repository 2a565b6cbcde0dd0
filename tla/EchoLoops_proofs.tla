--------------------------- MODULE EchoLoops_proofs --------------------------
(***************************************************************************)
(* The two loops compute the closed forms, for logs and messages of every  *)
(* length, over any terms, and for any number of peers.                    *)
(*                                                                         *)
(* After each iteration of the merge the log is what EchoLog!Merged makes  *)
(* of the entries handled so far (MergeInv); an iteration is then the step *)
(* from a sequence of entries to one with another at its end               *)
(* (MergeOneMore).  The scan has passed by indices that cannot be          *)
(* committed only (ScanInv).                                               *)
(***************************************************************************)
EXTENDS EchoLoops, EchoLog_proofs

Entry == [term : Terms, holder : {"follower", "leader"}]

-----------------------------------------------------------------------------
(* One more entry *)

\* The arguments of _replay_provisional, when the closed form cuts off tail.
Replays(tail) == IF tail = <<>> THEN <<>> ELSE <<tail>>

\* What the loop does with one more entry e to a log that it has made of the entries es.
Another(log, index, e) ==
  IF index > Len(log) THEN Append(log, e)
  ELSE IF log[index].term = e.term THEN log
  ELSE Append(SubSeq(log, 1, index - 1), e)

\* merged is the closed form for es, at the position e is for: one more iteration makes it the
\* closed form for es and e, and cuts a tail off only if none was cut off before.
Iterates(log, prev, es, e, at, merged) ==
  /\ Merged(log, prev, Append(es, e)) = Another(merged, at, e)
  /\ at <= Len(merged) /\ merged[at].term # e.term => Truncated(log, prev, es) = <<>>
  /\ Truncated(log, prev, Append(es, e)) =
       IF at <= Len(merged) /\ merged[at].term # e.term
       THEN Suffix(merged, at - 1) ELSE Truncated(log, prev, es)

LEMMA AppendParts ==
  ASSUME NEW S, NEW es \in Seq(S), NEW e \in S
  PROVE  /\ Append(es, e) \in Seq(S) /\ Len(Append(es, e)) = Len(es) + 1
         /\ \A n \in 1 .. Len(es) : Append(es, e)[n] = es[n]
         /\ Append(es, e)[Len(es) + 1] = e
  OBVIOUS

\* Another entry adds the position it is for to the conflicts, or nothing.
LEMMA ConflictsOneMore ==
  ASSUME NEW S, NEW log \in Seq(S), NEW es \in Seq(S), NEW e \in S,
         NEW prev \in Nat, prev <= Len(log)
  PROVE  LET index == prev + Len(es) + 1
         IN  Conflicts(log, prev, Append(es, e)) =
               Conflicts(log, prev, es)
                 \cup {n \in {index} : index <= Len(log) /\ log[index].term # e.term}
  <1> DEFINE index == prev + Len(es) + 1
  <1>1. Len(log) \in Nat /\ Len(es) \in Nat
    BY LenProperties
  <1>2. ASSUME NEW n \in prev + 1 .. Len(log)
        PROVE  n \in Conflicts(log, prev, Append(es, e)) <=>
                 \/ n \in Conflicts(log, prev, es)
                 \/ n = index /\ log[index].term # e.term
    <2>1. CASE n - prev <= Len(es)
      <3>1. n - prev \in 1 .. Len(es) /\ n # index
        BY <1>1, <2>1
      <3>2. Append(es, e)[n - prev] = es[n - prev]
        BY <3>1, AppendParts
      <3> QED
        BY <1>1, <2>1, <3>1, <3>2, AppendParts DEF Conflicts
    <2>2. CASE n = index
      <3>1. n - prev = Len(es) + 1
        BY <1>1, <2>2
      <3>2. Append(es, e)[n - prev] = e
        BY <3>1, AppendParts
      <3> QED
        BY <1>1, <2>2, <3>1, <3>2, AppendParts DEF Conflicts
    <2>3. CASE n > index
      BY <1>1, <2>3, AppendParts DEF Conflicts
    <2> QED
      BY <1>1, <2>1, <2>2, <2>3
  <1>3. index >= prev + 1
    BY <1>1
  <1>4. Conflicts(log, prev, es) \subseteq prev + 1 .. Len(log)
    BY DEF Conflicts
  <1>5. Conflicts(log, prev, Append(es, e)) \subseteq prev + 1 .. Len(log)
    BY DEF Conflicts
  <1> QED
    BY <1>1, <1>2, <1>3, <1>4, <1>5

LEMMA LeastIs ==
  ASSUME NEW P \in SUBSET Nat, NEW c \in P, \A m \in P : c <= m
  PROVE  (CHOOSE n \in P : \A m \in P : n <= m) = c
  <1> DEFINE least == CHOOSE n \in P : \A m \in P : n <= m
  <1>1. least \in P /\ \A m \in P : least <= m
    OBVIOUS
  <1> HIDE DEF least
  <1>2. least \in Nat /\ c \in Nat /\ least <= c /\ c <= least
    BY <1>1
  <1>3. least = c
    BY <1>2
  <1> QED
    BY <1>3 DEF least

\* Once something conflicts, more entries change nothing about what is kept; before, what
\* is kept ends at most before the new entry.
LEMMA KeptOneMore ==
  ASSUME NEW S, NEW log \in Seq(S), NEW es \in Seq(S), NEW e \in S,
         NEW prev \in Nat, prev <= Len(log)
  PROVE  LET index == prev + Len(es) + 1
         IN  Kept(log, prev, Append(es, e)) =
               IF /\ Conflicts(log, prev, es) = {}
                  /\ index <= Len(log) /\ log[index].term # e.term
               THEN index - 1 ELSE Kept(log, prev, es)
  <1> DEFINE index == prev + Len(es) + 1
             old == Conflicts(log, prev, es)
             new == Conflicts(log, prev, Append(es, e))
  <1>1. Len(log) \in Nat /\ Len(es) \in Nat /\ index \in Nat
    BY LenProperties
  <1>2. new = old \cup {n \in {index} : index <= Len(log) /\ log[index].term # e.term}
    BY ConflictsOneMore
  <1>3. \A n \in old : n \in Nat /\ n < index
    BY <1>1 DEF Conflicts
  <1>4. CASE old = {} /\ index <= Len(log) /\ log[index].term # e.term
    <2>1. new = {index}
      BY <1>2, <1>4
    <2>2. (CHOOSE n \in new : \A m \in new : n <= m) = index
      BY <1>1, <2>1, LeastIs
    <2> QED
      BY <1>4, <2>1, <2>2 DEF Kept
  <1>5. CASE ~(index <= Len(log) /\ log[index].term # e.term)
    <2>1. new = old
      BY <1>2, <1>5
    <2> QED
      BY <1>5, <2>1 DEF Kept
  <1>6. CASE old # {} /\ index <= Len(log) /\ log[index].term # e.term
    <2>1. PICK c \in old : \A m \in old : c <= m
      BY <1>3, <1>6, LeastNatural
    <2>2. c \in Nat /\ c < index
      BY <1>3
    <2>3. new = old \cup {index}
      BY <1>2, <1>6
    <2>4. \A m \in new : c <= m
      BY <1>1, <2>1, <2>2, <2>3
    <2>5. new \in SUBSET Nat /\ old \in SUBSET Nat /\ c \in new /\ new # {} /\ old # {}
      BY <1>1, <1>3, <2>3
    <2> HIDE DEF new, old
    <2>6. (CHOOSE n \in old : \A m \in old : n <= m) = c
      BY <2>1, <2>5, LeastIs
    <2>7. (CHOOSE n \in new : \A m \in new : n <= m) = c
      BY <2>4, <2>5, LeastIs
    <2>8. Kept(log, prev, es) = c - 1 /\ Kept(log, prev, Append(es, e)) = c - 1
      BY <2>5, <2>6, <2>7 DEF Kept, new, old
    <2> QED
      BY <1>6, <2>8 DEF old
  <1> QED
    BY <1>4, <1>5, <1>6
\* The merge of no entries leaves the log, whole.
LEMMA KeptAll ==
  ASSUME NEW S, NEW log \in Seq(S), NEW es \in Seq(S),
         NEW prev \in Nat, prev <= Len(log), Conflicts(log, prev, es) = {}
  PROVE  Kept(log, prev, es) = Len(log) /\ Truncated(log, prev, es) = <<>>
  <1>1. Kept(log, prev, es) = Len(log)
    BY DEF Kept
  <1>2. Suffix(log, Len(log)) = <<>>
    BY LenProperties DEF Suffix
  <1> QED
    BY <1>1, <1>2 DEF Truncated

\* A conflict lies before the end of the entries, and what is kept before it.
LEMMA KeptSome ==
  ASSUME NEW S, NEW log \in Seq(S), NEW es \in Seq(S),
         NEW prev \in Nat, prev <= Len(log), Conflicts(log, prev, es) # {}
  PROVE  Kept(log, prev, es) < prev + Len(es)
  <1> DEFINE bad == Conflicts(log, prev, es)
  <1>1. bad \subseteq Nat /\ \A n \in bad : n <= prev + Len(es) /\ prev + Len(es) \in Nat
    BY LenProperties DEF Conflicts
  <1>2. PICK c \in bad : \A m \in bad : c <= m
    BY <1>1, LeastNatural
  <1>3. (CHOOSE n \in bad : \A m \in bad : n <= m) = c
    BY <1>1, <1>2, LeastIs
  <1>4. Kept(log, prev, es) = c - 1
    BY <1>3 DEF Kept
  <1> QED
    BY <1>1, <1>4

LEMMA LastOne ==
  ASSUME NEW S, NEW es \in Seq(S), Len(es) >= 1
  PROVE  Suffix(es, Len(es) - 1) = <<es[Len(es)]>>
  <1>1. Len(es) \in Nat /\ Len(es) - 1 + 1 = Len(es) /\ es[Len(es)] \in S
    BY LenProperties, ElementOfSeq
  <1>2. Suffix(es, Len(es) - 1) = SubSeq(es, Len(es), Len(es))
    BY <1>1 DEF Suffix
  <1> DEFINE x == SubSeq(es, Len(es), Len(es))
  <1>3. x \in Seq(S) /\ Len(x) = 1 /\ x[1] = es[Len(es)]
    BY <1>1, SubSeqProperties
  <1> HIDE DEF x
  <1>4. <<es[Len(es)]>> \in Seq(S) /\ Len(<<es[Len(es)]>>) = 1
        /\ <<es[Len(es)]>>[1] = es[Len(es)]
    BY <1>1
  <1>5. x = <<es[Len(es)]>>
    BY <1>3, <1>4, SeqEqual
  <1> QED
    BY <1>2, <1>5 DEF x

\* An iteration of the loop: the closed form of one more entry.
LEMMA MergeOneMore ==
  ASSUME NEW S, NEW log \in Seq(S), NEW es \in Seq(S), NEW e \in S,
         NEW prev \in Nat, prev <= Len(log)
  PROVE  Iterates(log, prev, es, e, prev + Len(es) + 1, Merged(log, prev, es))
  <1> DEFINE more == Append(es, e)
             index == prev + Len(es) + 1
             merged == Merged(log, prev, es)
             after == Merged(log, prev, more)
             cuts == index <= Len(merged) /\ merged[index].term # e.term
             kept == Kept(log, prev, es)
             kept1 == Kept(log, prev, more)
  <1>1. /\ Len(log) \in Nat /\ Len(es) \in Nat /\ index \in Nat
        /\ index = prev + Len(es) + 1
    BY LenProperties
  <1>a. more \in Seq(S) /\ Len(more) = Len(es) + 1 /\ more[Len(es) + 1] = e
        /\ \A n \in 1 .. Len(es) : more[n] = es[n]
    BY AppendParts
  <1> HIDE DEF more, index
  <1>b. merged \in Seq(S) /\ after \in Seq(S)
    BY <1>a, MergeIsSeq
  <1>c. Len(merged) \in Nat /\ Len(after) \in Nat
    BY <1>b, LenProperties
  <1>d. prev + Len(more) = index /\ Len(more) \in Nat
    BY <1>1, <1>a
  <1>2. kept \in prev .. Len(log) /\ kept1 \in prev .. Len(log)
    BY <1>1, KeptBounds
  <1>3. /\ kept >= prev + Len(es) => merged = log
        /\ kept < prev + Len(es) =>
             /\ Len(merged) = prev + Len(es)
             /\ \A n \in 1 .. kept : merged[n] = log[n]
             /\ \A n \in kept + 1 .. prev + Len(es) : merged[n] = es[n - prev]
    BY MergedParts
  <1>4. /\ kept1 >= index => after = log
        /\ kept1 < index =>
             /\ Len(after) = index
             /\ \A n \in 1 .. kept1 : after[n] = log[n]
             /\ \A n \in kept1 + 1 .. index : after[n] = more[n - prev]
    <2>1. /\ kept1 >= prev + Len(more) => after = log
          /\ kept1 < prev + Len(more) =>
               /\ Len(after) = prev + Len(more)
               /\ \A n \in 1 .. kept1 : after[n] = log[n]
               /\ \A n \in kept1 + 1 .. prev + Len(more) : after[n] = more[n - prev]
      <3>1. more \in Seq(S)
        BY <1>a
      <3> QED
        BY <3>1, MergedParts
    <2> QED
      BY <1>d, <2>1
  <1>5. kept1 = IF /\ Conflicts(log, prev, es) = {}
                   /\ index <= Len(log) /\ log[index].term # e.term
                THEN index - 1 ELSE kept
    BY KeptOneMore DEF more, index
  <1> HIDE DEF merged, after, kept, kept1
  <1>6. CASE Conflicts(log, prev, es) = {} /\ index <= Len(log)
    <2>1. kept = Len(log) /\ Truncated(log, prev, es) = <<>> /\ merged = log
      BY <1>1, <1>3, <1>6, KeptAll DEF kept
    <2>2. CASE log[index].term = e.term
      <3>1. kept1 = Len(log) /\ after = log
        BY <1>1, <1>4, <1>5, <1>6, <2>1, <2>2
      <3>2. Truncated(log, prev, more) = Suffix(log, kept1)
        BY DEF Truncated, kept1
      <3>3. Truncated(log, prev, es) = Suffix(log, kept)
        BY DEF Truncated, kept
      <3> QED
        BY <1>1, <1>6, <2>1, <2>2, <3>1, <3>2, <3>3 DEF Iterates, Another, merged, after, more, index
    <2>3. CASE log[index].term # e.term
      <3>1. kept1 = index - 1
        BY <1>5, <1>6, <2>3
      <3>2. Truncated(log, prev, more) = Suffix(log, index - 1)
        BY <3>1 DEF Truncated, kept1
      <3>3. /\ Len(more) \in Nat /\ index - 1 - prev = Len(more) - 1 /\ Len(more) >= 1
            /\ more[Len(more)] = e
        BY <1>1, <1>a, <1>d
      <3>4. Suffix(more, index - 1 - prev) = <<e>>
        BY <1>a, <3>3, LastOne
      <3>5. after = SubSeq(log, 1, index - 1) \o <<e>>
        BY <3>1, <3>4 DEF after, Merged, kept1
      <3>6. SubSeq(log, 1, index - 1) \in Seq(S)
        BY <1>1, <1>6, FrontIsSeq
      <3>7. after = Append(SubSeq(log, 1, index - 1), e)
        BY <3>5, <3>6
      <3>8. ~(index > Len(log))
        BY <1>1, <1>6
      <3> QED
        BY <1>1, <1>6, <2>1, <2>3, <3>2, <3>7, <3>8 DEF Iterates, Another, merged, after, more, index
    <2> QED
      BY <2>2, <2>3
  <1>7. CASE Conflicts(log, prev, es) # {} \/ index > Len(log)
    <2>1. kept1 = kept /\ kept <= prev + Len(es) /\ kept <= Len(log)
      <3>1. CASE Conflicts(log, prev, es) # {}
        <4>1. kept < prev + Len(es)
          BY <3>1, KeptSome DEF kept
        <4> QED
          BY <1>1, <1>2, <1>5, <3>1, <4>1
      <3>2. CASE index > Len(log)
        BY <1>1, <1>2, <1>5, <3>2
      <3> QED
        BY <1>7, <3>1, <3>2
    <2>2. Len(merged) = prev + Len(es)
      <3>1. CASE kept < prev + Len(es)
        BY <1>3, <3>1
      <3>2. CASE kept = prev + Len(es)
        <4>1. merged = log
          BY <1>1, <1>3, <3>2
        <4>2. Conflicts(log, prev, es) = {}
          BY <1>1, <3>2, KeptSome DEF kept
        <4>3. kept = Len(log)
          BY <4>2, KeptAll DEF kept
        <4> QED
          BY <3>2, <4>1, <4>3
      <3> QED
        BY <1>1, <1>2, <2>1, <3>1, <3>2
    <2>3. Len(after) = index
      BY <1>1, <1>2, <1>4, <2>1
    <2>4. ASSUME NEW n \in 1 .. prev + Len(es)
          PROVE  after[n] = merged[n]
      <3>1. CASE n <= kept
        <4>1. after[n] = log[n]
          BY <1>1, <1>2, <1>4, <2>1, <3>1
        <4>2. merged[n] = log[n]
          BY <1>1, <1>2, <1>3, <2>1, <3>1
        <4> QED
          BY <4>1, <4>2
      <3>2. CASE n > kept
        <4>1. after[n] = more[n - prev]
          BY <1>1, <1>2, <1>4, <2>1, <3>2
        <4>2. merged[n] = es[n - prev]
          BY <1>1, <1>2, <1>3, <2>1, <2>2, <3>2
        <4>3. n - prev \in 1 .. Len(es)
          BY <1>1, <1>2, <3>2
        <4> QED
          BY <1>a, <4>1, <4>2, <4>3
      <3> QED
        BY <1>1, <1>2, <3>1, <3>2
    <2>5. after[index] = e
      <3>1. index \in kept1 + 1 .. index /\ kept1 < index
        BY <1>1, <1>2, <2>1
      <3>2. after[index] = more[index - prev] /\ index - prev = Len(es) + 1
        BY <1>1, <1>4, <3>1
      <3> QED
        BY <1>a, <3>2
    <2>6. /\ Append(merged, e) \in Seq(S) /\ Len(Append(merged, e)) = index
          /\ \A n \in 1 .. prev + Len(es) : Append(merged, e)[n] = merged[n]
          /\ Append(merged, e)[index] = e
      <3>1. Len(merged) + 1 = index
        BY <1>1, <2>2
      <3> QED
        BY <1>b, <2>2, <3>1, AppendParts
    <2>7. \A n \in 1 .. index : after[n] = Append(merged, e)[n]
      BY <1>1, <2>4, <2>5, <2>6
    <2>8. after = Append(merged, e)
      BY <1>b, <2>3, <2>6, <2>7, SeqEqual
    <2>9. index > Len(merged) /\ ~cuts
      BY <1>1, <2>2
    <2>10. Truncated(log, prev, more) = Truncated(log, prev, es)
      BY <2>1 DEF Truncated, kept, kept1
    <2> QED
      BY <2>8, <2>9, <2>10 DEF Iterates, Another, merged, after, more, index
  <1> QED
    BY <1>1, <1>6, <1>7

-----------------------------------------------------------------------------
(* The invariants *)

\* The first n entries of the message.
Handled(n) == SubSeq(input.entries, 1, n)

Offer ==
  /\ input.lg \in Seq(Entry) /\ input.entries \in Seq(Entry)
  /\ input.prev \in Nat /\ input.prev <= Len(input.lg)

\* The log is the closed form for the entries handled so far.
MergeInv ==
  input.loop = "merge" =>
    /\ loop \in {"merge", "done"} /\ Offer
    /\ k \in 0 .. Len(input.entries) /\ (loop = "done" => k = Len(input.entries))
    /\ lg = Merged(input.lg, input.prev, Handled(k))
    /\ replayed = Replays(Truncated(input.lg, input.prev, Handled(k)))

\* No index beyond k can be committed, and the scan stopped where one can, or went all the
\* way.
ScanInv ==
  input.loop = "scan" =>
    /\ loop \in {"scan", "done"}
    /\ lg \in Seq(Entry) /\ DOMAIN input.match = Peer
    /\ input.commit \in Nat /\ k \in input.commit .. Len(lg)
    /\ \A n \in k + 1 .. Len(lg) : ~Commits(n)
    /\ loop = "scan" => commit_index = input.commit
    /\ loop = "done" => /\ commit_index = k
                        /\ k > input.commit => Commits(k)

LoopInv == input.loop \in {"merge", "scan"} /\ MergeInv /\ ScanInv

LEMMA LogsAreSeqs ==
  ASSUME NEW holder \in {"follower", "leader"}, NEW log \in Logs(holder)
  PROVE  log \in Seq(Entry) /\ Len(log) \in Nat
  <1>0. PICK len \in 0 .. MaxLen :
          \E t \in [1 .. len -> Terms] :
            log = [n \in 1 .. len |-> [term |-> t[n], holder |-> holder]]
    BY DEF Logs
  <1>1. PICK t \in [1 .. len -> Terms] :
          log = [n \in 1 .. len |-> [term |-> t[n], holder |-> holder]]
    BY <1>0
  <1>2. len \in Nat
    BY LoopAssumption
  <1>3. log \in [1 .. len -> Entry]
    BY <1>1 DEF Entry
  <1> QED
    BY <1>2, <1>3, LenProperties

LEMMA NothingHandled ==
  ASSUME Offer
  PROVE  /\ Merged(input.lg, input.prev, Handled(0)) = input.lg
         /\ Truncated(input.lg, input.prev, Handled(0)) = <<>>
  <1>1. Handled(0) = <<>> /\ <<>> \in Seq(Entry)
    BY EmptySeq DEF Handled, Offer
  <1>2. Merged(input.lg, input.prev, <<>>) = input.lg
    BY MergeNothing DEF Offer
  <1>3. Conflicts(input.lg, input.prev, <<>>) = {}
    BY DEF Conflicts, Offer
  <1>4. Truncated(input.lg, input.prev, <<>>) = <<>>
    BY <1>1, <1>3, KeptAll DEF Offer
  <1> QED
    BY <1>1, <1>2, <1>4

LEMMA InitLoop == Init => LoopInv
  <1> SUFFICES ASSUME Init PROVE LoopInv
    OBVIOUS
  <1>1. CASE MergeInit
    <2>1. PICK leader \in Logs("leader") : \E p \in 0 .. Len(leader) :
            /\ Consistent(lg, p, PrevTerm(leader, p))
            /\ input = [loop |-> "merge", lg |-> lg, prev |-> p, entries |-> Suffix(leader, p)]
      BY <1>1 DEF MergeInit
    <2>2. PICK p \in 0 .. Len(leader) :
            /\ Consistent(lg, p, PrevTerm(leader, p))
            /\ input = [loop |-> "merge", lg |-> lg, prev |-> p, entries |-> Suffix(leader, p)]
      BY <2>1
    <2>3. /\ leader \in Seq(Entry) /\ Len(leader) \in Nat
          /\ lg \in Seq(Entry) /\ Len(lg) \in Nat
      BY <1>1, <2>1, LogsAreSeqs DEF MergeInit
    <2>4. p \in Nat /\ Suffix(leader, p) \in Seq(Entry)
      BY <2>3, SuffixIsSeq
    <2>5. p <= Len(lg)
      BY <2>2, <2>3, <2>4 DEF Consistent
    <2>6. Offer /\ input.lg = lg /\ input.loop = "merge"
      BY <2>2, <2>3, <2>4, <2>5 DEF Offer
    <2>7. Len(input.entries) \in Nat
      BY <2>6, LenProperties DEF Offer
    <2>8. loop = "merge" /\ k = 0 /\ replayed = <<>>
      BY <1>1 DEF MergeInit, Init
    <2> QED
      BY <2>6, <2>7, <2>8, NothingHandled DEF LoopInv, MergeInv, ScanInv, Replays
  <1>2. CASE ScanInit
    <2>1. lg \in Seq(Entry) /\ Len(lg) \in Nat
      BY <1>2, LogsAreSeqs DEF ScanInit
    <2>2. /\ input.loop = "scan" /\ DOMAIN input.match = Peer
          /\ input.commit = commit_index /\ commit_index \in 0 .. Len(lg)
          /\ loop = "scan" /\ k = Len(lg)
      BY <1>2 DEF ScanInit
    <2>3. input.commit \in Nat /\ k \in input.commit .. Len(lg)
      BY <2>1, <2>2
    <2>4. \A n \in k + 1 .. Len(lg) : ~Commits(n)
      BY <2>1, <2>2
    <2> QED
      BY <2>1, <2>2, <2>3, <2>4 DEF LoopInv, MergeInv, ScanInv
  <1> QED
    BY <1>1, <1>2 DEF Init

LEMMA IterationMerges ==
  ASSUME LoopInv, MergeIteration
  PROVE  LoopInv'
  <1> DEFINE index == input.prev + k + 1
             e == input.entries[k + 1]
  <1>1. /\ loop = "merge" /\ k < Len(input.entries) /\ k' = k + 1
        /\ UNCHANGED <<loop, commit_index, input>>
    BY DEF MergeIteration
  <1>2. CASE input.loop = "merge"
    <2>1. /\ Offer /\ k \in Nat /\ Len(input.entries) \in Nat
          /\ lg = Merged(input.lg, input.prev, Handled(k))
          /\ replayed = Replays(Truncated(input.lg, input.prev, Handled(k)))
      BY <1>2, LenProperties DEF LoopInv, MergeInv, Offer
    <2>2. e \in Entry /\ Handled(k) \in Seq(Entry) /\ Len(Handled(k)) = k
      <3>1. k \in 0 .. Len(input.entries) /\ k + 1 \in 1 .. Len(input.entries)
        BY <1>1, <2>1
      <3>2. e \in Entry
        BY <2>1, <3>1, ElementOfSeq DEF Offer
      <3>3. Handled(k) \in Seq(Entry)
        BY <2>1, <3>1, FrontIsSeq DEF Handled, Offer
      <3> QED
        BY <2>1, <3>1, <3>2, <3>3 DEF Handled, Offer
    <2>3. Handled(k + 1) = Append(Handled(k), e)
      <3> DEFINE x == Handled(k + 1)
                 y == Append(Handled(k), e)
      <3>1. k + 1 \in 0 .. Len(input.entries) /\ k \in 0 .. Len(input.entries)
        BY <1>1, <2>1
      <3>2. /\ x \in Seq(Entry) /\ Len(x) = k + 1
            /\ \A n \in 1 .. k + 1 : x[n] = input.entries[n]
        <4>1. x \in Seq(Entry)
          BY <2>1, <3>1, FrontIsSeq DEF Handled, Offer
        <4> QED
          BY <2>1, <3>1, <4>1 DEF Handled, Offer
      <3>3. \A n \in 1 .. k : Handled(k)[n] = input.entries[n]
        BY <2>1, <3>1 DEF Handled, Offer
      <3>4. /\ y \in Seq(Entry) /\ Len(y) = k + 1
            /\ \A n \in 1 .. k : y[n] = Handled(k)[n]
            /\ y[k + 1] = e
        BY <2>2, AppendParts
      <3> HIDE DEF x, y
      <3>5. \A n \in 1 .. k + 1 : x[n] = y[n]
        BY <2>1, <3>2, <3>3, <3>4
      <3>6. x = y
        BY <3>2, <3>4, <3>5, SeqEqual
      <3> QED
        BY <3>6 DEF x, y
    <2> HIDE DEF e
    <2>4. /\ Merged(input.lg, input.prev, Handled(k + 1)) = Another(lg, index, e)
          /\ index <= Len(lg) /\ lg[index].term # e.term =>
               Truncated(input.lg, input.prev, Handled(k)) = <<>>
          /\ Truncated(input.lg, input.prev, Handled(k + 1)) =
               IF index <= Len(lg) /\ lg[index].term # e.term THEN Suffix(lg, index - 1)
               ELSE Truncated(input.lg, input.prev, Handled(k))
      <3>1. index = input.prev + Len(Handled(k)) + 1
        BY <2>2
      <3> DEFINE at == input.prev + Len(Handled(k)) + 1
                 merged == Merged(input.lg, input.prev, Handled(k))
      <3>2. /\ Merged(input.lg, input.prev, Append(Handled(k), e)) = Another(merged, at, e)
            /\ at <= Len(merged) /\ merged[at].term # e.term =>
                 Truncated(input.lg, input.prev, Handled(k)) = <<>>
            /\ Truncated(input.lg, input.prev, Append(Handled(k), e)) =
                 IF at <= Len(merged) /\ merged[at].term # e.term
                 THEN Suffix(merged, at - 1) ELSE Truncated(input.lg, input.prev, Handled(k))
        <4>1. /\ input.lg \in Seq(Entry) /\ Handled(k) \in Seq(Entry) /\ e \in Entry
              /\ input.prev \in Nat /\ input.prev <= Len(input.lg)
          BY <2>1, <2>2 DEF Offer
        <4> QED
          BY <4>1, MergeOneMore DEF Iterates
      <3>3. merged = lg
        BY <2>1
      <3> HIDE DEF merged
      <3> QED
        BY <2>3, <3>1, <3>2, <3>3
    <2>5. lg \in Seq(Entry) /\ Len(lg) \in Nat /\ index \in Nat /\ index >= 1
      <3>1. lg \in Seq(Entry)
        BY <2>1, <2>2, MergeIsSeq DEF Offer
      <3> QED
        BY <2>1, <3>1, LenProperties DEF Offer
    <2>6. /\ lg' = Another(lg, index, e)
          /\ replayed' = IF index <= Len(lg) /\ lg[index].term # e.term
                         THEN Append(replayed, Suffix(lg, index - 1)) ELSE replayed
      BY <2>5 DEF MergeIteration, Another, e
    <2> HIDE DEF index
    <2>7. replayed' = Replays(Truncated(input.lg, input.prev, Handled(k + 1)))
      <3>1. CASE index <= Len(lg) /\ lg[index].term # e.term
        <4>1. replayed = <<>>
          BY <2>1, <2>4, <3>1 DEF Replays
        <4>2. replayed' = <<Suffix(lg, index - 1)>>
          BY <2>6, <3>1, <4>1
        <4>3. Suffix(lg, index - 1) # <<>>
          <5>1. Len(SubSeq(lg, index, Len(lg))) # 0
            BY <2>5, <3>1
          <5>2. Suffix(lg, index - 1) = SubSeq(lg, index, Len(lg))
            BY <2>5 DEF Suffix
          <5>3. Len(<<>>) = 0
            BY EmptySeq
          <5> QED
            BY <5>1, <5>2, <5>3, Zenon
        <4> QED
          BY <2>4, <3>1, <4>2, <4>3 DEF Replays
      <3>2. CASE ~(index <= Len(lg) /\ lg[index].term # e.term)
        BY <2>1, <2>4, <2>6, <3>2
      <3> QED
        BY <3>1, <3>2
    <2>8. k + 1 \in 0 .. Len(input.entries)
      BY <1>1, <2>1
    <2> QED
      BY <1>1, <1>2, <2>1, <2>4, <2>6, <2>7, <2>8 DEF LoopInv, MergeInv, ScanInv, Offer, Handled
  <1>3. CASE input.loop = "scan"
    BY <1>1, <1>3 DEF LoopInv, ScanInv
  <1> QED
    BY <1>2, <1>3 DEF LoopInv

LEMMA IterationScans ==
  ASSUME LoopInv, ScanIteration
  PROVE  LoopInv'
  <1>1. /\ loop = "scan" /\ k > input.commit /\ UNCHANGED <<lg, input>>
        /\ \/ Commits(k) /\ commit_index' = k /\ loop' = "done" /\ k' = k
           \/ ~Commits(k) /\ k' = k - 1 /\ UNCHANGED <<loop, commit_index>>
    BY DEF ScanIteration
  <1>2. input.loop = "scan"
    BY <1>1 DEF LoopInv, MergeInv
  <1>3. /\ lg \in Seq(Entry) /\ Len(lg) \in Nat /\ DOMAIN input.match = Peer
        /\ input.commit \in Nat /\ k \in input.commit .. Len(lg)
        /\ \A n \in k + 1 .. Len(lg) : ~Commits(n)
        /\ commit_index = input.commit
    BY <1>1, <1>2, LenProperties DEF LoopInv, ScanInv
  <1>4. \A n : Commits(n)' = Commits(n)
    BY <1>1 DEF Commits, Replicas
  <1>5. CASE Commits(k) /\ commit_index' = k /\ loop' = "done" /\ k' = k
    BY <1>1, <1>2, <1>3, <1>4, <1>5 DEF LoopInv, MergeInv, ScanInv
  <1>6. CASE ~Commits(k) /\ k' = k - 1 /\ UNCHANGED <<loop, commit_index>>
    <2>1. k' \in input.commit .. Len(lg)
      BY <1>1, <1>3, <1>6
    <2>2. \A n \in k' + 1 .. Len(lg) : ~Commits(n)
      BY <1>3, <1>6
    <2> QED
      BY <1>1, <1>2, <1>3, <1>4, <1>6, <2>1, <2>2 DEF LoopInv, MergeInv, ScanInv
  <1> QED
    BY <1>1, <1>5, <1>6

LEMMA EndLoops ==
  ASSUME LoopInv, LoopEnds
  PROVE  LoopInv'
  <1>1. /\ \/ loop = "merge" /\ k = Len(input.entries)
           \/ loop = "scan" /\ k = input.commit
        /\ loop' = "done" /\ UNCHANGED <<lg, k, replayed, commit_index, input>>
    BY DEF LoopEnds
  <1>2. CASE input.loop = "merge"
    <2>1. k = Len(input.entries)
      BY <1>1, <1>2 DEF LoopInv, MergeInv
    <2> QED
      BY <1>1, <1>2, <2>1 DEF LoopInv, MergeInv, ScanInv, Offer, Handled
  <1>3. CASE input.loop = "scan"
    <2>1. k = input.commit /\ commit_index = input.commit /\ input.commit \in Nat
      BY <1>1, <1>3 DEF LoopInv, ScanInv
    <2>2. \A n : Commits(n)' = Commits(n)
      BY <1>1 DEF Commits, Replicas
    <2> QED
      BY <1>1, <1>3, <2>1, <2>2 DEF LoopInv, MergeInv, ScanInv
  <1> QED
    BY <1>2, <1>3 DEF LoopInv

LEMMA NextLoop == LoopInv /\ [Next]_vars => LoopInv'
  <1> SUFFICES ASSUME LoopInv, [Next]_vars PROVE LoopInv'
    OBVIOUS
  <1>1. CASE UNCHANGED vars
    BY <1>1 DEF vars, LoopInv, MergeInv, ScanInv, Offer, Handled, Commits, Replicas
  <1> QED
    BY <1>1, IterationMerges, IterationScans, EndLoops DEF Next, Done

\* The inductive invariant of both loops.
THEOREM LoopInvariant == Spec => []LoopInv
  BY InitLoop, NextLoop, PTL DEF Spec

\* When the merge loop of _handle_append_entries is through, the log is the closed form that
\* EchoCoordinator uses, and the tail was handed to _replay_provisional at most once, whole.
THEOREM MergeLoopComputes == Spec => []LoopIsMerge
  <1>1. ASSUME LoopInv PROVE LoopIsMerge
    <2> SUFFICES ASSUME loop = "done", input.loop = "merge"
                 PROVE  /\ lg = Merged(input.lg, input.prev, input.entries)
                        /\ replayed = Replays(Truncated(input.lg, input.prev, input.entries))
      BY DEF LoopIsMerge, Replays
    <2>1. /\ Offer
          /\ lg = Merged(input.lg, input.prev, Handled(Len(input.entries)))
          /\ replayed = Replays(Truncated(input.lg, input.prev, Handled(Len(input.entries))))
      BY <1>1 DEF LoopInv, MergeInv
    <2>2. Handled(Len(input.entries)) = input.entries
      BY <2>1 DEF Handled, Offer
    <2> QED
      BY <2>1, <2>2
  <1> QED
    BY <1>1, LoopInvariant, PTL

\* The downward scan of _try_advance_commit stops at the greatest index that may be committed,
\* or leaves the commit index where it was.
THEOREM ScanComputes == Spec => []ScanFindsGreatest
  <1>1. ASSUME LoopInv PROVE ScanFindsGreatest
    <2> DEFINE ready == Committable(lg, input.commit, input.term, input.match,
                                    Cardinality(Peer) + 1)
    <2> SUFFICES ASSUME loop = "done", input.loop = "scan"
                 PROVE  IF ready = {} THEN commit_index = input.commit
                        ELSE commit_index \in ready /\ \A m \in ready : m <= commit_index
      BY DEF ScanFindsGreatest
    <2>1. /\ lg \in Seq(Entry) /\ Len(lg) \in Nat /\ DOMAIN input.match = Peer
          /\ input.commit \in Nat /\ k \in input.commit .. Len(lg)
          /\ \A n \in k + 1 .. Len(lg) : ~Commits(n)
          /\ commit_index = k /\ (k > input.commit => Commits(k))
      BY <1>1, LenProperties DEF LoopInv, ScanInv
    <2>2. \A n \in input.commit + 1 .. Len(lg) : n \in ready <=> Commits(n)
      <3> SUFFICES ASSUME NEW n \in input.commit + 1 .. Len(lg)
                   PROVE  n \in ready <=> Commits(n)
        OBVIOUS
      <3> DEFINE held == Cardinality({p \in Peer : input.match[p] >= n})
                 half == (Cardinality(Peer) + 1) \div 2
      <3>1. held \in Nat /\ half \in Int
        BY LoopAssumption, FS_Subset, FS_CardinalityType
      <3>2. Cardinality({p \in DOMAIN input.match : input.match[p] >= n}) = held
        BY <2>1
      <3>3. n \in ready <=> lg[n].term = input.term /\ held + 1 > half
        BY <3>2 DEF Committable
      <3>4. Commits(n) <=> lg[n].term = input.term /\ 1 + held > half
        BY DEF Commits, Replicas
      <3> HIDE DEF held, half, ready
      <3> QED
        BY <3>1, <3>3, <3>4
    <2>3. ready \subseteq input.commit + 1 .. Len(lg)
      BY DEF Committable
    <2> HIDE DEF ready
    <2>4. \A m \in ready : m <= k
      BY <2>1, <2>2, <2>3
    <2>5. CASE k > input.commit
      BY <2>1, <2>2, <2>4, <2>5
    <2>6. CASE k = input.commit
      BY <2>1, <2>3, <2>4, <2>6
    <2> QED
      BY <2>1, <2>5, <2>6
  <1> QED
    BY <1>1, LoopInvariant, PTL
=============================================================================
