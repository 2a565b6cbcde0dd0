--------------------------- MODULE EchoLog_proofs ---------------------------
(***************************************************************************)
(* What the log computations of EchoLog return, and how to count the       *)
(* places where something is held in a family of sequences (the logs, the  *)
(* buffers, the channels): lemmas that the proofs about the coordinators,  *)
(* the real and the simulated ones, cite.                                  *)
(***************************************************************************)
EXTENDS EchoLog, TLAPS, FiniteSetTheorems, SequenceTheorems

\* A sequence over a set is one over a larger set.
LEMMA SeqSubset ==
  ASSUME NEW S, NEW T, S \subseteq T, NEW s \in Seq(S)
  PROVE  s \in Seq(T)
  <1>1. s \in [1 .. Len(s) -> S] /\ Len(s) \in Nat
    BY LenProperties
  <1>2. s \in [1 .. Len(s) -> T]
    BY <1>1
  <1> QED
    BY <1>1, <1>2

\* A suffix of a sequence is a sequence over the same elements.
LEMMA SuffixIsSeq ==
  ASSUME NEW S, NEW lg \in Seq(S), NEW n \in Nat
  PROVE  Suffix(lg, n) \in Seq(S)
  <1>1. \A k \in n + 1 .. Len(lg) : lg[k] \in S
    BY ElementOfSeq
  <1>2. n + 1 \in Int /\ Len(lg) \in Int
    OBVIOUS
  <1> QED
    BY <1>1, <1>2, SubSeqProperties DEF Suffix

\* A prefix of a sequence is one too.
LEMMA FrontIsSeq ==
  ASSUME NEW S, NEW lg \in Seq(S), NEW n \in 0 .. Len(lg)
  PROVE  SubSeq(lg, 1, n) \in Seq(S)
  <1>1. \A k \in 1 .. n : lg[k] \in S
    BY ElementOfSeq
  <1> QED
    BY <1>1, SubSeqProperties

\* A nonempty set of numbers has a least element: the intervals that end in it
\* are well founded under inclusion.
LEMMA LeastNatural ==
  ASSUME NEW P \in SUBSET Nat, P # {}
  PROVE  \E n \in P : \A m \in P : n <= m
  <1> DEFINE Ends == {0 .. n : n \in P}
  <1>1. Ends \subseteq FiniteSubsetsOf(Nat) /\ Ends # {}
    <2>1. ASSUME NEW n \in P PROVE IsFiniteSet(0 .. n) /\ 0 .. n \subseteq Nat
      <3>1. n \in Int /\ 0 \in Int
        OBVIOUS
      <3> QED
        BY <3>1, FS_Interval
    <2> QED
      BY <2>1, Zenon DEF FiniteSubsetsOf
  <1>2. PICK E \in Ends : \A F \in Ends : <<F, E>> \notin StrictSubsetOrdering(Nat)
    BY <1>1, WFMin, FS_StrictSubsetOrderingWellFounded
  <1>3. PICK n \in P : E = 0 .. n
    OBVIOUS
  <1>4. ASSUME NEW m \in P PROVE n <= m
    <2>1. <<0 .. m, 0 .. n>> \notin StrictSubsetOrdering(Nat)
      BY <1>2, <1>3
    <2>2. m \in Nat /\ n \in Nat
      OBVIOUS
    <2>3. 0 .. m \in SUBSET Nat /\ 0 .. n \in SUBSET Nat
      OBVIOUS
    <2>4. ~(0 .. m \subseteq 0 .. n /\ 0 .. m # 0 .. n)
      BY <2>1, <2>3 DEF StrictSubsetOrdering
    <2> QED
      BY <2>2, <2>4
  <1> QED
    BY <1>4

\* The merge loop keeps at least the entries before prev, and no more than there
\* are, when the message was consistent with the log.
LEMMA KeptBounds ==
  ASSUME NEW lg, Len(lg) \in Nat, NEW es, NEW prev \in Nat, prev <= Len(lg)
  PROVE  Kept(lg, prev, es) \in prev .. Len(lg)
  <1> DEFINE bad == Conflicts(lg, prev, es)
  <1>1. bad \subseteq prev + 1 .. Len(lg)
    BY DEF Conflicts
  <1>2. CASE bad = {}
    BY <1>2 DEF Kept
  <1>3. CASE bad # {}
    <2>1. \E n \in bad : \A m \in bad : n <= m
      BY <1>1, <1>3, LeastNatural
    <2>2. (CHOOSE n \in bad : \A m \in bad : n <= m) \in bad
      BY <2>1
    <2> QED
      BY <1>1, <1>3, <2>2 DEF Kept
  <1> QED
    BY <1>2, <1>3

\* Merging entries into a log, and cutting its conflicting tail off, gives
\* sequences of entries again.
LEMMA MergeIsSeq ==
  ASSUME NEW S, NEW lg \in Seq(S), NEW es \in Seq(S), NEW prev \in Nat, prev <= Len(lg)
  PROVE  Merged(lg, prev, es) \in Seq(S) /\ Truncated(lg, prev, es) \in Seq(S)
  <1>1. Kept(lg, prev, es) \in prev .. Len(lg)
    BY KeptBounds
  <1>2. SubSeq(lg, 1, Kept(lg, prev, es)) \in Seq(S)
    BY <1>1, FrontIsSeq
  <1>3. Suffix(es, Kept(lg, prev, es) - prev) \in Seq(S)
    BY <1>1, SuffixIsSeq
  <1>4. Suffix(lg, Kept(lg, prev, es)) \in Seq(S)
    BY <1>1, SuffixIsSeq
  <1> QED
    BY <1>2, <1>3, <1>4, ConcatProperties DEF Merged, Truncated

\* The commit index only moves forward, and not beyond the log.
LEMMA CommittableBounds ==
  ASSUME NEW lg, NEW commit, NEW term, NEW match, NEW n_nodes,
         NEW n \in Committable(lg, commit, term, match, n_nodes)
  PROVE  n \in commit + 1 .. Len(lg)
  BY Zenon DEF Committable

\* An enumeration of a set of positions lists elements of that set only.
LEMMA InOrderIsSeq ==
  ASSUME NEW P, IsFiniteSet(P), NEW at \in InOrder(P)
  PROVE  at \in Seq(P)
  <1>1. Cardinality(P) \in Nat
    BY FS_CardinalityType
  <1> QED
    BY <1>1 DEF InOrder

\* Whatever the test, some of the positions of a sequence are a finite set.
LEMMA PositionsAreFinite ==
  ASSUME NEW S, NEW lg \in Seq(S), NEW P \in SUBSET DOMAIN lg
  PROVE  IsFiniteSet(P)
  <1>1. DOMAIN lg = 1 .. Len(lg) /\ Len(lg) \in Int
    OBVIOUS
  <1>2. IsFiniteSet(1 .. Len(lg))
    BY <1>1, FS_Interval
  <1> QED
    BY <1>1, <1>2, FS_Subset
-----------------------------------------------------------------------------
(* What a merge returns *)

\* a and b hold the same up to n.
Agree(a, b, n) == n <= Len(a) /\ n <= Len(b) /\ \A k \in 1 .. n : a[k] = b[k]

LEMMA AgreeShorter ==
  ASSUME NEW a, NEW b, NEW n \in Int, Agree(a, b, n), NEW k \in Int, k <= n,
         Len(a) \in Int, Len(b) \in Int
  PROVE  Agree(a, b, k)
  BY DEF Agree

LEMMA AgreeingFronts ==
  ASSUME NEW S, NEW a \in Seq(S), NEW b \in Seq(S), NEW n \in Nat, Agree(a, b, n)
  PROVE  SubSeq(a, 1, n) = SubSeq(b, 1, n)
  <1>1. n \in 0 .. Len(a) /\ n \in 0 .. Len(b) /\ \A k \in 1 .. n : a[k] = b[k]
    BY LenProperties DEF Agree
  <1>2. SubSeq(a, 1, n) \in Seq(S) /\ SubSeq(b, 1, n) \in Seq(S)
    BY <1>1, FrontIsSeq
  <1>3. /\ Len(SubSeq(a, 1, n)) = n /\ \A k \in 1 .. n : SubSeq(a, 1, n)[k] = a[k]
        /\ Len(SubSeq(b, 1, n)) = n /\ \A k \in 1 .. n : SubSeq(b, 1, n)[k] = b[k]
    BY <1>1, LenProperties, SubSeqProperties
  <1> DEFINE x == SubSeq(a, 1, n)
             y == SubSeq(b, 1, n)
  <1> HIDE DEF x, y
  <1>4. x = y
    BY <1>1, <1>2, <1>3, SeqEqual DEF x, y
  <1> QED
    BY <1>4 DEF x, y

\* Nothing that is kept disagrees with the entries, and everything is kept unless an entry
\* disagrees.
LEMMA KeptAgrees ==
  ASSUME NEW lg, Len(lg) \in Nat, NEW es, Len(es) \in Nat, NEW prev \in Nat, prev <= Len(lg)
  PROVE  /\ \A n \in prev + 1 .. Kept(lg, prev, es) :
              n - prev <= Len(es) => lg[n].term = es[n - prev].term
         /\ Kept(lg, prev, es) = Len(lg) \/ Kept(lg, prev, es) < prev + Len(es)
         /\ Kept(lg, prev, es) = Len(lg) \/ Kept(lg, prev, es) + 1 \in Conflicts(lg, prev, es)
  <1> DEFINE bad == Conflicts(lg, prev, es)
             least == CHOOSE n \in bad : \A m \in bad : n <= m
  <1>1. bad \subseteq prev + 1 .. Len(lg)
    BY DEF Conflicts
  <1>2. CASE bad = {}
    BY <1>2 DEF Kept, Conflicts
  <1>3. CASE bad # {}
    <2>1. \E n \in bad : \A m \in bad : n <= m
      BY <1>1, <1>3, LeastNatural
    <2>2. least \in bad /\ \A m \in bad : least <= m
      BY <2>1
    <2>3. Kept(lg, prev, es) = least - 1
      BY <1>3 DEF Kept
    <2>4. least \in prev + 1 .. Len(lg) /\ least - prev <= Len(es)
      BY <2>2 DEF Conflicts
    <2>5. ASSUME NEW n \in prev + 1 .. least - 1, n - prev <= Len(es)
          PROVE  lg[n].term = es[n - prev].term
      <3>1. n \notin bad
        BY <2>2, <2>4, <2>5
      <3> QED
        BY <2>4, <2>5, <3>1 DEF Conflicts
    <2>6. least \in bad
      BY <2>2
    <2> HIDE DEF least, bad
    <2>7. least - 1 + 1 = least
      BY <2>4
    <2>8. Kept(lg, prev, es) + 1 \in bad
      BY <2>3, <2>6, <2>7
    <2> QED
      BY <2>3, <2>4, <2>5, <2>8 DEF bad
  <1> QED
    BY <1>2, <1>3

\* A log that outlasts the entries is left as it is; any other ends with them.
LEMMA MergedParts ==
  ASSUME NEW S, NEW lg \in Seq(S), NEW es \in Seq(S), NEW prev \in Nat, prev <= Len(lg)
  PROVE  /\ Kept(lg, prev, es) >= prev + Len(es) => Merged(lg, prev, es) = lg
         /\ Kept(lg, prev, es) < prev + Len(es) =>
              /\ Len(Merged(lg, prev, es)) = prev + Len(es)
              /\ \A n \in 1 .. Kept(lg, prev, es) : Merged(lg, prev, es)[n] = lg[n]
              /\ \A n \in Kept(lg, prev, es) + 1 .. prev + Len(es) :
                   Merged(lg, prev, es)[n] = es[n - prev]
  <1> DEFINE kept == Kept(lg, prev, es)
             front == SubSeq(lg, 1, kept)
             rest == Suffix(es, kept - prev)
             merged == Merged(lg, prev, es)
  <1>1. /\ Len(lg) \in Nat /\ Len(es) \in Nat
        /\ kept \in prev .. Len(lg)
        /\ kept = Len(lg) \/ kept < prev + Len(es)
    BY KeptBounds, KeptAgrees, LenProperties
  <1>2. front \in Seq(S) /\ Len(front) = kept /\ \A n \in 1 .. kept : front[n] = lg[n]
    <2>1. front \in Seq(S)
      BY <1>1, FrontIsSeq
    <2> QED
      BY <1>1, <2>1, SubSeqProperties
  <1>3. rest \in Seq(S)
    BY <1>1, SuffixIsSeq
  <1>4. merged = front \o rest
    BY DEF Merged
  <1>5. CASE kept >= prev + Len(es)
    <2>1. kept = Len(lg) /\ front = lg
      BY <1>1, <1>2, <1>5
    <2>2. rest = <<>>
      BY <1>1, <1>5 DEF Suffix
    <2>3. lg \o <<>> = lg
      OBVIOUS
    <2> HIDE DEF kept, front, rest, merged
    <2>4. merged = lg
      BY <1>4, <2>1, <2>2, <2>3
    <2>5. ~(kept < prev + Len(es))
      BY <1>1, <1>5
    <2> QED
      BY <2>4, <2>5 DEF kept, merged
  <1>6. CASE kept < prev + Len(es)
    <2>1. /\ Len(rest) = prev + Len(es) - kept
          /\ \A n \in 1 .. prev + Len(es) - kept : rest[n] = es[kept - prev + n]
      <3> DEFINE from == kept - prev + 1
                 last == Len(es)
      <3>1. rest = SubSeq(es, from, last) /\ from \in 1 .. last /\ last \in Nat
        BY <1>1, <1>6 DEF Suffix
      <3>2. \A n \in from .. last : es[n] \in S
        BY <3>1, ElementOfSeq
      <3>3. /\ from \in Int /\ last \in Int
            /\ last - from + 1 = prev + Len(es) - kept
            /\ \A n \in Nat : from + n - 1 = kept - prev + n
        BY <1>1
      <3> HIDE DEF from, last, rest, kept
      <3>4. /\ Len(rest) = last - from + 1
            /\ \A n \in 1 .. last - from + 1 : rest[n] = es[from + n - 1]
        BY <3>1, <3>2, <3>3, SubSeqProperties
      <3>5. \A n \in 1 .. last - from + 1 : rest[n] = es[kept - prev + n]
        BY <3>3, <3>4
      <3> QED
        BY <3>3, <3>4, <3>5
    <2> HIDE DEF kept, front, rest, merged
    <2>2. /\ Len(front \o rest) = Len(front) + Len(rest)
          /\ \A n \in 1 .. Len(front) + Len(rest) :
               (front \o rest)[n] =
                 IF n <= Len(front) THEN front[n] ELSE rest[n - Len(front)]
      BY <1>2, <1>3, ConcatProperties
    <2>3. Len(front) = kept /\ Len(front) + Len(rest) = prev + Len(es) /\ kept \in Nat
      BY <1>1, <1>2, <2>1
    <2>4. ASSUME NEW n \in 1 .. kept
          PROVE  (front \o rest)[n] = lg[n]
      <3>1. n \in 1 .. prev + Len(es) /\ n <= kept
        BY <1>1, <1>6
      <3>2. (front \o rest)[n] = IF n <= kept THEN front[n] ELSE rest[n - kept]
        BY <2>2, <2>3, <3>1
      <3> QED
        BY <1>2, <3>1, <3>2
    <2>5. ASSUME NEW n \in kept + 1 .. prev + Len(es)
          PROVE  (front \o rest)[n] = es[n - prev]
      <3>1. n - kept \in 1 .. prev + Len(es) - kept /\ kept - prev + (n - kept) = n - prev
        BY <1>1, <1>6
      <3>2. rest[n - kept] = es[n - prev]
        BY <2>1, <3>1
      <3>3. n \in 1 .. prev + Len(es) /\ ~(n <= kept)
        BY <1>1
      <3>4. (front \o rest)[n] = IF n <= kept THEN front[n] ELSE rest[n - kept]
        BY <2>2, <2>3, <3>3
      <3> QED
        BY <3>2, <3>3, <3>4
    <2>6. ~(kept >= prev + Len(es))
      BY <1>1, <1>6
    <2>7. Len(merged) = prev + Len(es)
      BY <1>4, <2>2, <2>3
    <2> QED
      BY <1>4, <2>4, <2>5, <2>6, <2>7 DEF kept, merged
  <1> QED
    BY <1>1, <1>5, <1>6

\* Entries that are a part of the sequence h, offered to a log that agrees with h where the
\* two have the same terms: the merged log agrees with h up to the last of them, and
\* changes only if it then ends there.
LEMMA MergeAgrees ==
  ASSUME NEW S, NEW lg \in Seq(S), NEW es \in Seq(S), NEW h \in Seq(S),
         NEW prev \in Nat, prev <= Len(lg), es # <<>>,
         prev + Len(es) <= Len(h), \A k \in 1 .. Len(es) : es[k] = h[prev + k],
         Agree(lg, h, prev),
         \A n \in DOMAIN lg \cap DOMAIN h : lg[n].term = h[n].term => Agree(lg, h, n)
  PROVE  /\ Agree(Merged(lg, prev, es), h, prev + Len(es))
         /\ Merged(lg, prev, es) = lg \/ Len(Merged(lg, prev, es)) = prev + Len(es)
  <1> DEFINE kept == Kept(lg, prev, es)
             merged == Merged(lg, prev, es)
             last == prev + Len(es)
  <1>1. /\ Len(lg) \in Nat /\ Len(es) \in Nat \ {0} /\ Len(h) \in Nat
        /\ DOMAIN lg = 1 .. Len(lg) /\ DOMAIN h = 1 .. Len(h)
        /\ kept \in prev .. Len(lg)
    BY KeptBounds, LenProperties, EmptySeq
  <1>2. /\ \A n \in prev + 1 .. kept : n - prev <= Len(es) => lg[n].term = es[n - prev].term
        /\ kept >= last => merged = lg
        /\ kept < last =>
             /\ Len(merged) = last
             /\ \A n \in 1 .. kept : merged[n] = lg[n]
             /\ \A n \in kept + 1 .. last : merged[n] = es[n - prev]
    BY <1>1, KeptAgrees, MergedParts
  <1> HIDE DEF kept, merged
  <1>3. ASSUME NEW n \in prev + 1 .. kept, n <= last
        PROVE  Agree(lg, h, n)
    <2>1. n - prev \in 1 .. Len(es) /\ n - prev <= Len(es) /\ prev + (n - prev) = n
      BY <1>1, <1>3
    <2>2. lg[n].term = es[n - prev].term
      BY <1>2, <2>1
    <2>3. es[n - prev] = h[n]
      BY <2>1
    <2>4. n \in DOMAIN lg \cap DOMAIN h
      BY <1>1, <1>3
    <2> QED
      BY <2>2, <2>3, <2>4
  <1>4. CASE kept >= last
    <2>1. last \in prev + 1 .. kept /\ last <= last
      BY <1>1, <1>4
    <2>2. Agree(lg, h, last)
      BY <1>3, <2>1
    <2> QED
      BY <1>2, <1>4, <2>2 DEF merged
  <1>5. CASE kept < last
    <2>1. Agree(lg, h, kept)
      <3>1. CASE kept = prev
        BY <3>1
      <3>2. CASE kept # prev
        BY <1>1, <1>3, <1>5, <3>2
      <3> QED
        BY <3>1, <3>2
    <2>2. ASSUME NEW n \in 1 .. last
          PROVE  merged[n] = h[n]
      <3>1. CASE n <= kept
        <4>1. n \in 1 .. kept
          BY <1>1, <3>1
        <4> QED
          BY <1>2, <1>5, <2>1, <4>1 DEF Agree
      <3>2. CASE n > kept
        <4>1. n - prev \in 1 .. Len(es) /\ prev + (n - prev) = n /\ n \in kept + 1 .. last
          BY <1>1, <3>2
        <4>2. merged[n] = es[n - prev]
          BY <1>2, <1>5, <4>1
        <4>3. es[n - prev] = h[n]
          BY <4>1
        <4> QED
          BY <4>2, <4>3
      <3> QED
        BY <1>1, <3>1, <3>2
    <2>3. Len(merged) = last /\ last <= Len(h) /\ last <= last
      BY <1>1, <1>2, <1>5
    <2>4. Agree(merged, h, last)
      BY <2>2, <2>3 DEF Agree
    <2> QED
      BY <2>3, <2>4 DEF merged
  <1> QED
    BY <1>1, <1>4, <1>5

\* What a log has in common with the sequence that the entries are a part of outlasts the
\* merge.
LEMMA MergeKeepsCommon ==
  ASSUME NEW S, NEW lg \in Seq(S), NEW es \in Seq(S), NEW h \in Seq(S),
         NEW prev \in Nat, prev <= Len(lg),
         prev + Len(es) <= Len(h), \A k \in 1 .. Len(es) : es[k] = h[prev + k],
         NEW n \in Nat, Agree(lg, h, n)
  PROVE  Agree(lg, Merged(lg, prev, es), n)
  <1> DEFINE kept == Kept(lg, prev, es)
             merged == Merged(lg, prev, es)
             last == prev + Len(es)
  <1>1. /\ Len(lg) \in Nat /\ Len(es) \in Nat /\ Len(h) \in Nat
        /\ kept \in prev .. Len(lg)
        /\ n <= Len(lg) /\ \A k \in 1 .. n : lg[k] = h[k]
    BY KeptBounds, LenProperties DEF Agree
  <1>2. kept = Len(lg) \/ kept + 1 \in Conflicts(lg, prev, es)
    BY <1>1, KeptAgrees
  <1>3. /\ kept >= last => merged = lg
        /\ kept < last =>
             /\ Len(merged) = last
             /\ \A k \in 1 .. kept : merged[k] = lg[k]
    BY <1>1, MergedParts
  <1> HIDE DEF kept, merged
  <1>4. n <= kept
    <2> SUFFICES ASSUME kept < n PROVE FALSE
      BY <1>1
    <2>1. /\ kept + 1 \in prev + 1 .. Len(lg) /\ kept + 1 - prev <= Len(es)
          /\ lg[kept + 1].term # es[kept + 1 - prev].term
      BY <1>1, <1>2 DEF Conflicts
    <2>2. kept + 1 - prev \in 1 .. Len(es) /\ prev + (kept + 1 - prev) = kept + 1
      BY <1>1, <2>1
    <2>3. es[kept + 1 - prev] = h[kept + 1]
      BY <2>2
    <2>4. kept + 1 \in 1 .. n
      BY <1>1
    <2> QED
      BY <1>1, <2>1, <2>3, <2>4
  <1>5. CASE kept >= last
    <2>1. Agree(lg, lg, n)
      BY <1>1 DEF Agree
    <2> QED
      BY <1>3, <1>5, <2>1 DEF merged
  <1>6. CASE kept < last
    <2>1. n <= Len(merged) /\ \A k \in 1 .. n : lg[k] = merged[k]
      BY <1>1, <1>3, <1>4, <1>6
    <2>2. Agree(lg, merged, n)
      BY <1>1, <2>1 DEF Agree
    <2> QED
      BY <2>2 DEF merged
  <1> QED
    BY <1>1, <1>5, <1>6

\* A merge of no entries changes nothing.
LEMMA MergeNothing ==
  ASSUME NEW S, NEW lg \in Seq(S), NEW prev \in Nat, prev <= Len(lg)
  PROVE  Merged(lg, prev, <<>>) = lg
  <1>1. <<>> \in Seq(S) /\ Len(<<>>) = 0 /\ Len(lg) \in Nat
    BY EmptySeq, LenProperties
  <1>2. Kept(lg, prev, <<>>) \in prev .. Len(lg)
    BY <1>1, KeptBounds
  <1>3. Kept(lg, prev, <<>>) >= prev + Len(<<>>)
    BY <1>1, <1>2
  <1> QED
    BY <1>1, <1>3, MergedParts

\* The entries of a suffix and of a merged log.
LEMMA SuffixEntries ==
  ASSUME NEW S, NEW lg \in Seq(S), NEW n \in Nat
  PROVE  /\ \A k \in DOMAIN Suffix(lg, n) :
              k + n \in DOMAIN lg /\ k \in Nat \ {0} /\ Suffix(lg, n)[k] = lg[k + n]
         /\ n \notin DOMAIN lg /\ n # 0 => Suffix(lg, n) = <<>>
  <1>1. Len(lg) \in Nat /\ DOMAIN lg = 1 .. Len(lg)
    BY LenProperties
  <1>2. \A k \in n + 1 .. Len(lg) : lg[k] \in S
    BY ElementOfSeq
  <1>3. n + 1 \in Int /\ Len(lg) \in Int
    BY <1>1
  <1>4. /\ Suffix(lg, n) \in Seq(S)
        /\ Len(Suffix(lg, n)) = IF n + 1 <= Len(lg) THEN Len(lg) - n ELSE 0
        /\ n + 1 <= Len(lg) => \A k \in 1 .. Len(lg) - n : Suffix(lg, n)[k] = lg[k + n]
    <2> DEFINE last == Len(lg)
    <2>1. /\ SubSeq(lg, n + 1, last) \in Seq(S)
          /\ Len(SubSeq(lg, n + 1, last)) = IF n + 1 <= last THEN last - (n + 1) + 1 ELSE 0
          /\ \A k \in 1 .. last - (n + 1) + 1 :
               SubSeq(lg, n + 1, last)[k] = lg[n + 1 + k - 1]
      BY <1>2, <1>3, SubSeqProperties
    <2> HIDE DEF last
    <2>2. last \in Nat /\ last - (n + 1) + 1 = last - n
      BY <1>1 DEF last
    <2>3. \A k \in 1 .. last - n : n + 1 + k - 1 = k + n
      BY <2>2
    <2>4. \A k \in 1 .. last - n : SubSeq(lg, n + 1, last)[k] = lg[k + n]
      BY <2>1, <2>2, <2>3
    <2> QED
      BY <2>1, <2>2, <2>4 DEF Suffix, last
  <1> DEFINE suffix == Suffix(lg, n)
  <1>5. DOMAIN suffix = 1 .. Len(suffix)
    BY <1>4, LenProperties
  <1> HIDE DEF suffix
  <1>6. ASSUME NEW k \in DOMAIN suffix
        PROVE  k + n \in DOMAIN lg /\ k \in Nat \ {0} /\ suffix[k] = lg[k + n]
    <2>1. n + 1 <= Len(lg) /\ k \in 1 .. Len(lg) - n
      <3>1. Len(suffix) = IF n + 1 <= Len(lg) THEN Len(lg) - n ELSE 0
        BY <1>4 DEF suffix
      <3>2. k \in 1 .. Len(suffix)
        BY <1>5, <1>6
      <3>3. CASE n + 1 <= Len(lg)
        <4>1. Len(suffix) = Len(lg) - n
          BY <3>1, <3>3
        <4> QED
          BY <3>2, <3>3, <4>1
      <3>4. CASE ~(n + 1 <= Len(lg))
        <4>1. Len(suffix) = 0
          BY <3>1, <3>4
        <4> QED
          BY <3>2, <4>1
      <3> QED
        BY <3>3, <3>4
    <2>2. suffix[k] = lg[k + n]
      BY <1>4, <2>1 DEF suffix
    <2> QED
      BY <1>1, <2>1, <2>2
  <1>7. ASSUME n \notin DOMAIN lg, n # 0 PROVE suffix = <<>>
    <2>1. ~(n + 1 <= Len(lg))
      BY <1>1, <1>7
    <2>2. Len(suffix) = 0 /\ suffix \in Seq(S)
      BY <1>4, <2>1 DEF suffix
    <2> QED
      BY <2>2, EmptySeq
  <1> QED
    BY <1>6, <1>7 DEF suffix

LEMMA MergedEntries ==
  ASSUME NEW S, NEW lg \in Seq(S), NEW es \in Seq(S), NEW prev \in Nat, prev <= Len(lg),
         NEW n \in DOMAIN Merged(lg, prev, es)
  PROVE  \/ n \in DOMAIN lg /\ Merged(lg, prev, es)[n] = lg[n]
         \/ n - prev \in DOMAIN es /\ Merged(lg, prev, es)[n] = es[n - prev]
  <1> DEFINE kept == Kept(lg, prev, es)
             merged == Merged(lg, prev, es)
  <1>1. /\ Len(lg) \in Nat /\ DOMAIN lg = 1 .. Len(lg)
        /\ Len(es) \in Nat /\ DOMAIN es = 1 .. Len(es)
    BY LenProperties
  <1>2. kept \in prev .. Len(lg)
    BY <1>1, KeptBounds
  <1>3. CASE kept >= prev + Len(es)
    <2>1. merged = lg
      BY <1>3, MergedParts
    <2> QED
      BY <2>1
  <1>4. CASE kept < prev + Len(es)
    <2>1. /\ Len(merged) = prev + Len(es)
          /\ \A k \in 1 .. kept : merged[k] = lg[k]
          /\ \A k \in kept + 1 .. prev + Len(es) : merged[k] = es[k - prev]
      BY <1>4, MergedParts
    <2>2. n \in 1 .. Len(merged)
      BY MergeIsSeq, LenProperties
    <2> HIDE DEF merged, kept
    <2>3. n \in 1 .. kept \/ n \in kept + 1 .. prev + Len(es)
      BY <1>1, <1>2, <2>1, <2>2
    <2>4. CASE n \in 1 .. kept
      BY <1>1, <1>2, <2>1, <2>4 DEF merged
    <2>5. CASE n \in kept + 1 .. prev + Len(es)
      <3>1. n - prev \in 1 .. Len(es)
        BY <1>1, <1>2, <2>5
      <3> QED
        BY <1>1, <2>1, <2>5, <3>1 DEF merged
    <2> QED
      BY <2>3, <2>4, <2>5
  <1> QED
    BY <1>1, <1>2, <1>3, <1>4

-----------------------------------------------------------------------------
(* Counting *)

\* S has at most k elements more than T.
Grows(S, T, k) ==
  IsFiniteSet(T) => IsFiniteSet(S) /\ Cardinality(S) <= Cardinality(T) + k

LEMMA GrowsSubset ==
  ASSUME NEW S, NEW T, S \subseteq T
  PROVE  Grows(S, T, 0)
  <1> SUFFICES ASSUME IsFiniteSet(T)
               PROVE  IsFiniteSet(S) /\ Cardinality(S) <= Cardinality(T) + 0
    BY DEF Grows
  <1>1. IsFiniteSet(S) /\ Cardinality(S) <= Cardinality(T)
    BY FS_Subset
  <1>2. Cardinality(T) \in Nat
    BY FS_CardinalityType
  <1> QED
    BY <1>1, <1>2

LEMMA GrowsAdd ==
  ASSUME NEW S, NEW T, NEW x, S \subseteq T \cup {x}
  PROVE  Grows(S, T, 1)
  <1> SUFFICES ASSUME IsFiniteSet(T)
               PROVE  IsFiniteSet(S) /\ Cardinality(S) <= Cardinality(T) + 1
    BY DEF Grows
  <1>1. /\ IsFiniteSet(T \cup {x})
        /\ Cardinality(T \cup {x}) = IF x \in T THEN Cardinality(T) ELSE Cardinality(T) + 1
    BY FS_AddElement
  <1>2. IsFiniteSet(S) /\ Cardinality(S) <= Cardinality(T \cup {x})
    BY <1>1, FS_Subset
  <1>3. Cardinality(T) \in Nat /\ Cardinality(S) \in Nat
    BY <1>2, FS_CardinalityType
  <1> QED
    BY <1>1, <1>2, <1>3

LEMMA GrowsRemove ==
  ASSUME NEW S, NEW T, NEW x \in T, S \subseteq T \ {x}
  PROVE  Grows(S, T, -1)
  <1> SUFFICES ASSUME IsFiniteSet(T)
               PROVE  IsFiniteSet(S) /\ Cardinality(S) <= Cardinality(T) + (-1)
    BY DEF Grows
  <1>1. IsFiniteSet(T \ {x}) /\ Cardinality(T \ {x}) = Cardinality(T) - 1
    BY FS_RemoveElement
  <1>2. IsFiniteSet(S) /\ Cardinality(S) <= Cardinality(T \ {x})
    BY <1>1, FS_Subset
  <1>3. Cardinality(T) \in Nat /\ Cardinality(S) \in Nat
    BY <1>2, FS_CardinalityType
  <1> QED
    BY <1>1, <1>2, <1>3

LEMMA GrowsInjection ==
  ASSUME NEW S, NEW T, NEW f \in [S -> T], \A x, y \in S : f[x] = f[y] => x = y
  PROVE  Grows(S, T, 0)
  <1> SUFFICES ASSUME IsFiniteSet(T)
               PROVE  IsFiniteSet(S) /\ Cardinality(S) <= Cardinality(T) + 0
    BY DEF Grows
  <1>1. f \in Injection(S, T)
    BY DEF Injection, IsInjective
  <1>2. IsFiniteSet(S) /\ Cardinality(S) <= Cardinality(T)
    BY <1>1, FS_Injection
  <1>3. Cardinality(T) \in Nat
    BY FS_CardinalityType
  <1> QED
    BY <1>2, <1>3

LEMMA GrowsThen ==
  ASSUME NEW S, NEW T, NEW U, NEW k \in Int, NEW l \in Int, Grows(S, T, k), Grows(T, U, l)
  PROVE  Grows(S, U, k + l)
  <1> SUFFICES ASSUME IsFiniteSet(U)
               PROVE  IsFiniteSet(S) /\ Cardinality(S) <= Cardinality(U) + (k + l)
    BY DEF Grows
  <1>1. IsFiniteSet(T) /\ Cardinality(T) <= Cardinality(U) + l
    BY DEF Grows
  <1>2. IsFiniteSet(S) /\ Cardinality(S) <= Cardinality(T) + k
    BY <1>1 DEF Grows
  <1>3. Cardinality(S) \in Nat /\ Cardinality(T) \in Nat /\ Cardinality(U) \in Nat
    BY <1>1, <1>2, FS_CardinalityType
  <1> QED
    BY <1>1, <1>2, <1>3

LEMMA GrowsNot ==
  ASSUME NEW S, NEW T, Grows(S, T, -1)
  PROVE  Grows(S, T, 0)
  <1>1. Grows(T, T, 1)
    <2>1. T \subseteq T \cup {T}
      OBVIOUS
    <2> QED
      BY <2>1, GrowsAdd
  <1>2. Grows(S, T, -1 + 1)
    BY <1>1, GrowsThen
  <1>3. -1 + 1 = 0
    OBVIOUS
  <1> QED
    BY <1>2, <1>3

LEMMA GrowsAddSet ==
  ASSUME NEW S, NEW T, NEW X, IsFiniteSet(X), S \subseteq T \cup X, NEW k \in Int,
         Cardinality(X) <= k
  PROVE  Grows(S, T, k)
  <1> SUFFICES ASSUME IsFiniteSet(T)
               PROVE  IsFiniteSet(S) /\ Cardinality(S) <= Cardinality(T) + k
    BY DEF Grows
  <1>1. /\ IsFiniteSet(T \cup X)
        /\ Cardinality(T \cup X) = Cardinality(T) + Cardinality(X) - Cardinality(T \cap X)
    BY FS_Union
  <1>2. IsFiniteSet(S) /\ Cardinality(S) <= Cardinality(T \cup X)
    BY <1>1, FS_Subset
  <1>3. IsFiniteSet(T \cap X)
    BY FS_Subset
  <1>4. /\ Cardinality(T) \in Nat /\ Cardinality(X) \in Nat /\ Cardinality(T \cap X) \in Nat
        /\ Cardinality(S) \in Nat
    BY <1>2, <1>3, FS_CardinalityType
  <1> QED
    BY <1>1, <1>2, <1>4

LEMMA GrowsRemoveSet ==
  ASSUME NEW S, NEW T, NEW X \in SUBSET T, IsFiniteSet(X), S \subseteq T \ X
  PROVE  Grows(S, T, 0 - Cardinality(X))
  <1> SUFFICES ASSUME IsFiniteSet(T)
               PROVE  IsFiniteSet(S) /\ Cardinality(S) <= Cardinality(T) + (0 - Cardinality(X))
    BY DEF Grows
  <1>1. IsFiniteSet(T \ X) /\ Cardinality(T \ X) = Cardinality(T) - Cardinality(T \cap X)
    BY FS_Difference
  <1>2. T \cap X = X
    OBVIOUS
  <1>3. Cardinality(T \cap X) = Cardinality(X)
    BY <1>2
  <1>4. IsFiniteSet(S) /\ Cardinality(S) <= Cardinality(T \ X)
    BY <1>1, FS_Subset
  <1>5. Cardinality(T) \in Nat /\ Cardinality(X) \in Nat /\ Cardinality(S) \in Nat
    BY <1>4, FS_CardinalityType
  <1> QED
    BY <1>1, <1>3, <1>4, <1>5

-----------------------------------------------------------------------------
(* Where the items of a set are in a family of sequences *)

Places(Owner, box, R) ==
  {p \in Owner \X Nat : p[2] \in DOMAIN box[p[1]] /\ box[p[1]][p[2]] \in R}

\* Taking the first item of a sequence takes it away; what comes after it moves up.
LEMMA PlacesTail ==
  ASSUME NEW Owner, NEW Item, NEW box \in [Owner -> Seq(Item)], NEW rest, NEW o \in Owner,
         box[o] # <<>>, \A x \in Owner : rest[x] = IF x = o THEN Tail(box[o]) ELSE box[x],
         NEW R
  PROVE  Grows(Places(Owner, rest, R), Places(Owner, box, R), IF Head(box[o]) \in R THEN -1 ELSE 0)
  <1> DEFINE S == Places(Owner, rest, R)
             T == Places(Owner, box, R)
             f == [p \in S |-> IF p[1] = o THEN <<o, p[2] + 1>> ELSE p]
  <1>1. box[o] \in Seq(Item)
    OBVIOUS
  <1>2. /\ Len(box[o]) \in Nat \ {0} /\ DOMAIN box[o] = 1 .. Len(box[o])
        /\ Head(box[o]) = box[o][1]
    BY <1>1, EmptySeq, LenProperties, HeadTailProperties
  <1>3. /\ DOMAIN Tail(box[o]) = 1 .. Len(box[o]) - 1
        /\ \A k \in 1 .. Len(box[o]) - 1 : Tail(box[o])[k] = box[o][k + 1]
    BY <1>1, <1>2, HeadTailProperties, LenProperties
  <1>4. ASSUME NEW p \in S PROVE f[p] \in T \ {<<o, 1>>}
    <2>1. /\ p = <<p[1], p[2]>> /\ p[1] \in Owner /\ p[2] \in Nat
          /\ p[2] \in DOMAIN rest[p[1]] /\ rest[p[1]][p[2]] \in R
      BY DEF Places
    <2>2. CASE p[1] = o
      <3>1. p[2] \in 1 .. Len(box[o]) - 1 /\ box[o][p[2] + 1] \in R
        BY <1>3, <2>1, <2>2
      <3>2. p[2] + 1 \in DOMAIN box[o] /\ p[2] + 1 \in Nat /\ p[2] + 1 # 1
        BY <1>2, <3>1
      <3>3. f[p] = <<o, p[2] + 1>>
        BY <2>2
      <3> HIDE DEF f, T
      <3>4. <<o, p[2] + 1>> \in T
        <4>1. \A k \in Nat : k \in DOMAIN box[o] /\ box[o][k] \in R => <<o, k>> \in T
          BY DEF T, Places
        <4> QED
          BY <3>1, <3>2, <4>1
      <3>5. <<o, p[2] + 1>> # <<o, 1>>
        BY <3>2
      <3> QED
        BY <3>3, <3>4, <3>5
    <2>3. CASE p[1] # o
      <3>1. p \in T
        BY <2>1, <2>3 DEF Places
      <3>2. f[p] = p /\ p # <<o, 1>>
        BY <2>1, <2>3
      <3> QED
        BY <3>1, <3>2
    <2> QED
      BY <2>2, <2>3
  <1>5. ASSUME NEW p \in S, NEW q \in S, f[p] = f[q] PROVE p = q
    <2>1. /\ p = <<p[1], p[2]>> /\ p[2] \in Nat
          /\ q = <<q[1], q[2]>> /\ q[2] \in Nat
      BY DEF Places
    <2>2. f[p] = (IF p[1] = o THEN <<o, p[2] + 1>> ELSE p) /\ f[p][1] = p[1]
      BY <2>1
    <2>3. f[q] = (IF q[1] = o THEN <<o, q[2] + 1>> ELSE q) /\ f[q][1] = q[1]
      BY <2>1
    <2>4. p[1] = q[1]
      BY <1>5, <2>2, <2>3
    <2>5. CASE p[1] = o
      <3>1. <<o, p[2] + 1>> = <<o, q[2] + 1>>
        BY <1>5, <2>2, <2>3, <2>4, <2>5
      <3>2. p[2] = q[2]
        BY <2>1, <3>1
      <3> QED
        BY <2>1, <2>4, <3>2
    <2>6. CASE p[1] # o
      BY <1>5, <2>2, <2>3, <2>4, <2>6
    <2> QED
      BY <2>5, <2>6
  <1>6. f \in [S -> T \ {<<o, 1>>}]
    BY <1>4
  <1> HIDE DEF f
  <1>7. Grows(S, T \ {<<o, 1>>}, 0)
    BY <1>5, <1>6, GrowsInjection
  <1>8. CASE Head(box[o]) \in R
    <2>1. <<o, 1>> \in T
      BY <1>2, <1>8 DEF Places
    <2>2. Grows(T \ {<<o, 1>>}, T, -1)
      BY <2>1, GrowsRemove
    <2>3. Grows(S, T, 0 + (-1))
      BY <1>7, <2>2, GrowsThen
    <2>4. 0 + (-1) = -1
      OBVIOUS
    <2> QED
      BY <1>8, <2>3, <2>4
  <1>9. CASE Head(box[o]) \notin R
    <2>1. Grows(T \ {<<o, 1>>}, T, 0)
      BY GrowsSubset
    <2>2. Grows(S, T, 0 + 0)
      BY <1>7, <2>1, GrowsThen
    <2> QED
      BY <1>9, <2>2
  <1> QED
    BY <1>8, <1>9

\* What is appended comes after what was there.
LEMMA PlacesConcat ==
  ASSUME NEW Owner, NEW Item, NEW rest \in [Owner -> Seq(Item)],
         NEW out \in [Owner -> Seq(Item)], NEW box,
         \A x \in Owner : box[x] \in {rest[x], rest[x] \o out[x]},
         NEW R, NEW p \in Places(Owner, box, R)
  PROVE  \/ p \in Places(Owner, rest, R)
         \/ /\ p[1] \in Owner /\ p = <<p[1], p[2]>> /\ p[2] \in Nat
            /\ p[2] - Len(rest[p[1]]) \in 1 .. Len(out[p[1]])
            /\ out[p[1]][p[2] - Len(rest[p[1]])] \in R
  <1> DEFINE d == p[1]
             k == p[2]
  <1>1. p = <<d, k>> /\ d \in Owner /\ k \in Nat /\ k \in DOMAIN box[d] /\ box[d][k] \in R
    BY DEF Places
  <1>2. rest[d] \in Seq(Item) /\ out[d] \in Seq(Item)
    BY <1>1
  <1>3. box[d] = rest[d] \/ box[d] = rest[d] \o out[d]
    BY <1>1
  <1> HIDE DEF d, k
  <1>4. CASE box[d] = rest[d]
    BY <1>1, <1>4 DEF Places, d, k
  <1>5. CASE box[d] = rest[d] \o out[d]
    <2>1. /\ Len(rest[d]) \in Nat /\ Len(out[d]) \in Nat
          /\ DOMAIN rest[d] = 1 .. Len(rest[d])
      BY <1>2, LenProperties
    <2>2. /\ k \in 1 .. Len(rest[d]) + Len(out[d])
          /\ box[d][k] = IF k <= Len(rest[d]) THEN rest[d][k] ELSE out[d][k - Len(rest[d])]
      BY <1>1, <1>2, <1>5, <2>1, ConcatProperties, LenProperties
    <2>3. CASE k <= Len(rest[d])
      <3>1. k \in DOMAIN rest[d] /\ rest[d][k] \in R
        BY <1>1, <2>1, <2>2, <2>3
      <3> QED
        BY <1>1, <3>1 DEF Places, d, k
    <2>4. CASE k > Len(rest[d])
      <3>1. k - Len(rest[d]) \in 1 .. Len(out[d]) /\ out[d][k - Len(rest[d])] \in R
        BY <1>1, <2>1, <2>2, <2>4
      <3> QED
        BY <1>1, <3>1 DEF d, k
    <2> QED
      BY <2>1, <2>2, <2>3, <2>4
  <1> QED
    BY <1>3, <1>4, <1>5

LEMMA PlacesOthers ==
  ASSUME NEW Owner, NEW Item, NEW rest \in [Owner -> Seq(Item)],
         NEW out \in [Owner -> Seq(Item)], NEW box,
         \A x \in Owner : box[x] \in {rest[x], rest[x] \o out[x]},
         NEW R, \A x \in Owner : \A k \in DOMAIN out[x] : out[x][k] \notin R
  PROVE  Grows(Places(Owner, box, R), Places(Owner, rest, R), 0)
  <1>1. ASSUME NEW p \in Places(Owner, box, R) PROVE p \in Places(Owner, rest, R)
    <2>1. \A x \in Owner : DOMAIN out[x] = 1 .. Len(out[x])
      BY LenProperties
    <2>2. \/ p \in Places(Owner, rest, R)
          \/ /\ p[1] \in Owner /\ p[2] - Len(rest[p[1]]) \in 1 .. Len(out[p[1]])
             /\ out[p[1]][p[2] - Len(rest[p[1]])] \in R
      BY PlacesConcat
    <2> QED
      BY <2>1, <2>2
  <1> QED
    BY <1>1, GrowsSubset

\* No sequence changes but that of o, and that one at most by one item more.
Gains(Owner, box, rest, o, item) ==
  \A x \in Owner : box[x] = rest[x] \/ (x = o /\ box[x] = rest[x] \o <<item>>)

LEMMA PlacesOne ==
  ASSUME NEW Owner, NEW Item, NEW rest \in [Owner -> Seq(Item)], NEW o, NEW item \in Item,
         NEW box, Gains(Owner, box, rest, o, item), NEW R
  PROVE  Grows(Places(Owner, box, R), Places(Owner, rest, R), IF item \in R THEN 1 ELSE 0)
  <1> DEFINE out == [x \in Owner |-> IF x = o THEN <<item>> ELSE <<>>]
             place == <<o, Len(rest[o]) + 1>>
  <1>1. <<item>> \in Seq(Item) /\ <<>> \in Seq(Item) /\ Len(<<item>>) = 1 /\ Len(<<>>) = 0
        /\ <<item>>[1] = item
    BY EmptySeq
  <1>2. out \in [Owner -> Seq(Item)]
    BY <1>1
  <1>3. \A x \in Owner : box[x] \in {rest[x], rest[x] \o out[x]}
    BY DEF Gains
  <1>4. ASSUME NEW p \in Places(Owner, box, R)
        PROVE  p \in Places(Owner, rest, R) \/ (p = place /\ item \in R)
    <2>1. CASE /\ p[1] \in Owner /\ p = <<p[1], p[2]>> /\ p[2] \in Nat
               /\ p[2] - Len(rest[p[1]]) \in 1 .. Len(out[p[1]])
               /\ out[p[1]][p[2] - Len(rest[p[1]])] \in R
      <3>1. Len(rest[p[1]]) \in Nat
        BY <2>1, LenProperties
      <3>2. p[1] = o
        BY <1>1, <2>1
      <3>3. out[p[1]] = <<item>>
        BY <2>1, <3>2
      <3>4. p[2] - Len(rest[p[1]]) = 1 /\ item \in R
        BY <1>1, <2>1, <3>1, <3>3
      <3>5. p[2] = Len(rest[p[1]]) + 1
        BY <2>1, <3>1, <3>4
      <3> QED
        BY <2>1, <3>2, <3>4, <3>5
    <2> HIDE DEF out, place
    <2>2. \/ p \in Places(Owner, rest, R)
          \/ /\ p[1] \in Owner /\ p = <<p[1], p[2]>> /\ p[2] \in Nat
             /\ p[2] - Len(rest[p[1]]) \in 1 .. Len(out[p[1]])
             /\ out[p[1]][p[2] - Len(rest[p[1]])] \in R
      BY <1>2, <1>3, PlacesConcat
    <2> QED
      BY <2>1, <2>2
  <1> HIDE DEF place, out
  <1>5. CASE item \in R
    <2>1. Places(Owner, box, R) \subseteq Places(Owner, rest, R) \cup {place}
      BY <1>4
    <2>2. Grows(Places(Owner, box, R), Places(Owner, rest, R), 1)
      BY <2>1, GrowsAdd
    <2> QED
      BY <1>5, <2>2
  <1>6. CASE item \notin R
    <2>1. Places(Owner, box, R) \subseteq Places(Owner, rest, R)
      BY <1>4, <1>6
    <2>2. Grows(Places(Owner, box, R), Places(Owner, rest, R), 0)
      BY <2>1, GrowsSubset
    <2> QED
      BY <1>6, <2>2
  <1> QED
    BY <1>5, <1>6

\* What emptying a sequence takes away.
LEMMA PlacesEmptied ==
  ASSUME NEW Owner, NEW Item, NEW box \in [Owner -> Seq(Item)], NEW o \in Owner, NEW R
  PROVE  /\ Places(Owner, [box EXCEPT ![o] = <<>>], R)
              \subseteq Places(Owner, box, R)
                          \ {<<o, k>> : k \in {n \in DOMAIN box[o] : box[o][n] \in R}}
         /\ Grows(Places(Owner, [box EXCEPT ![o] = <<>>], R), Places(Owner, box, R),
                  IF \E k \in DOMAIN box[o] : box[o][k] \in R THEN -1 ELSE 0)
  <1> DEFINE emptied == [box EXCEPT ![o] = <<>>]
             S == Places(Owner, emptied, R)
             T == Places(Owner, box, R)
  <1>1. ASSUME NEW p \in S PROVE p \in T /\ p[1] # o
    <2>1. /\ p \in Owner \X Nat /\ p[1] \in Owner
          /\ p[2] \in DOMAIN emptied[p[1]] /\ emptied[p[1]][p[2]] \in R
      BY DEF Places
    <2>2. p[1] # o
      <3>1. p[1] = o => emptied[p[1]] = <<>>
        OBVIOUS
      <3>2. DOMAIN <<>> = {}
        BY EmptySeq
      <3> QED
        BY <2>1, <3>1, <3>2
    <2>3. emptied[p[1]] = box[p[1]]
      BY <2>1, <2>2
    <2> QED
      BY <2>1, <2>2, <2>3 DEF Places
  <1>2. \A k : <<o, k>>[1] = o
    OBVIOUS
  <1> HIDE DEF S, T
  <1>3. S \subseteq T \ {<<o, k>> : k \in {n \in DOMAIN box[o] : box[o][n] \in R}}
    BY <1>1, <1>2
  <1>4. CASE \E k \in DOMAIN box[o] : box[o][k] \in R
    <2>1. PICK k \in DOMAIN box[o] : box[o][k] \in R
      BY <1>4
    <2>2. k \in Nat
      <3>1. DOMAIN box[o] = 1 .. Len(box[o]) /\ Len(box[o]) \in Nat
        BY LenProperties
      <3> QED
        BY <3>1
    <2>3. <<o, k>> \in T
      BY <2>1, <2>2 DEF Places, T
    <2>4. S \subseteq T \ {<<o, k>>}
      BY <1>1, <1>2
    <2>5. Grows(S, T, -1)
      BY <2>3, <2>4, GrowsRemove
    <2> QED
      BY <1>3, <1>4, <2>5 DEF S, T
  <1>5. CASE ~ \E k \in DOMAIN box[o] : box[o][k] \in R
    <2>1. Grows(S, T, 0)
      BY <1>1, GrowsSubset
    <2> QED
      BY <1>3, <1>5, <2>1 DEF S, T
  <1> QED
    BY <1>4, <1>5
=============================================================================
