---------------------------- MODULE ReadingProofs ----------------------------
(***************************************************************************)
(* Proofs about what the server reads off the cluster.  HashKV, for any    *)
(* number of members and a log of any length: what the verdict of the      *)
(* consistency check says.  Histogram, for any bounds, counts and number   *)
(* of series: on which side of each bound a percentile lies.  They stand   *)
(* on the HashNext and the HistNext of the modules, which MCBrowser runs   *)
(* beside the other parts.                                                 *)
(***************************************************************************)
EXTENDS HashKV, Histogram, IntegerSets, SequenceTheorems, FiniteSetTheorems, TLAPS

\* What the log may hold.
Entry == {Write} \cup {Compact(r) : r \in Revs}

\* Revision and CompactedTo of a log l.
RevisionIn(l, n) == 1 + Cardinality({i \in 1..n : l[i] = Write})
CompactedIn(l, n) == Max({0} \cup {l[i].rev : i \in 1..n})

\* What the hash of member m shows of its data at revision r.
DataOf(m, r) == IF m \in Diverged /\ r >= DivergedAt THEN {m} ELSE {}

\* The hash h was taken by member m when it had applied some part of the log l.
TakenFrom(l, m, h, r) ==
  \E a \in 0..Len(l) :
    /\ h = [rev |-> r, compacted |-> CompactedIn(l, a), data |-> DataOf(m, r)]
    /\ r <= RevisionIn(l, a)

\* Every hash that has come was taken from the log.
ResultsInv ==
  call.pc = "hash" =>
    \A m \in Members : call.results[m] # NoHash => TakenFrom(log, m, call.results[m], call.rev)

\* The inductive invariant of the consistency check.
HashInv == HashTypeOK /\ ResultsInv /\ VerdictRight

\* Only a compaction carries a revision.
LEMMA EntryType ==
  ASSUME NEW e \in Entry
  PROVE  e.rev \in Revs /\ (e.rev > 0 => e.op = "compact")
<1>1. CASE e = Write
  BY <1>1, HashAssumption DEF Write, Revs
<1>2. ASSUME NEW r \in Revs, e = Compact(r)
      PROVE  e.rev = r /\ e.op = "compact"
  BY <1>2 DEF Compact
<1>. QED
  BY <1>1, <1>2 DEF Entry, Write

\* CompactedIn is the revision of the last compaction to the highest, or 0.
LEMMA Compacted ==
  ASSUME NEW l \in Seq(Entry), NEW n \in 0..Len(l)
  PROVE  /\ CompactedIn(l, n) \in Revs
         /\ CompactedIn(l, n) > 0 => \E i \in 1..n : l[i].rev = CompactedIn(l, n)
         /\ \A i \in 1..n : l[i].rev <= CompactedIn(l, n)
<1>. DEFINE S == {0} \cup {l[i].rev : i \in 1..n}
<1>0. MaxLog \in Nat
  BY HashAssumption
<1>1. \A i \in 1..n : l[i].rev \in Revs
  <2>. TAKE i \in 1..n
  <2>1. l[i] \in Entry
    OBVIOUS
  <2>. QED
    BY <2>1, EntryType
<1>2. S \subseteq Revs /\ S # {}
  BY <1>0, <1>1 DEF Revs
<1>3. IsFiniteSet(Revs) /\ Revs \subseteq Int
  BY <1>0, FS_Interval DEF Revs
<1>4. IsFiniteSet(S) /\ S \in SUBSET Int
  BY <1>2, <1>3, FS_Subset
<1>. HIDE DEF S
<1>5. \E m \in S : \A x \in S : x <= m
  BY <1>2, <1>4, FiniteMax
<1>6. \E m \in S : \A x \in S : m >= x
  BY <1>4, <1>5
<1>7. Max(S) \in S /\ \A x \in S : Max(S) >= x
  BY <1>6 DEF Max
<1>8. CompactedIn(l, n) = Max(S)
  BY DEF CompactedIn, S
<1>9. CompactedIn(l, n) \in S /\ CompactedIn(l, n) \in Revs
  BY <1>2, <1>7, <1>8
<1>10. \A i \in 1..n : l[i].rev \in S /\ l[i].rev \in Revs
  BY <1>2 DEF S
<1>11. \A i \in 1..n : l[i].rev <= CompactedIn(l, n)
  BY <1>3, <1>7, <1>8, <1>9, <1>10
<1>12. CompactedIn(l, n) = 0 \/ \E i \in 1..n : l[i].rev = CompactedIn(l, n)
  BY <1>9 DEF S
<1>13. ASSUME CompactedIn(l, n) > 0
      PROVE  \E i \in 1..n : l[i].rev = CompactedIn(l, n)
  BY <1>12, <1>13
<1>. QED
  BY <1>9, <1>11, <1>13

\* A log of n entries has a revision of at most n + 1, and revisions only grow.
LEMMA Revised ==
  ASSUME NEW l \in Seq(Entry), NEW n \in 0..Len(l)
  PROVE  /\ RevisionIn(l, n) \in 1..(n + 1)
         /\ \A m \in 0..n : RevisionIn(l, m) <= RevisionIn(l, n)
<1>. DEFINE W(m) == {i \in 1..m : l[i] = Write}
<1>1. ASSUME NEW m \in 0..n
      PROVE  IsFiniteSet(W(m)) /\ Cardinality(W(m)) \in Nat /\ Cardinality(W(m)) <= m
  <2>1. IsFiniteSet(1..m) /\ Cardinality(1..m) = m
    BY FS_Interval
  <2>2. W(m) \in SUBSET (1..m)
    OBVIOUS
  <2>. HIDE DEF W
  <2>. QED
    BY <2>1, <2>2, FS_Subset, FS_CardinalityType
<1>2. ASSUME NEW m \in 0..n
      PROVE  Cardinality(W(m)) <= Cardinality(W(n))
  <2>1. W(m) \in SUBSET W(n)
    OBVIOUS
  <2>2. IsFiniteSet(W(n))
    BY <1>1
  <2>. HIDE DEF W
  <2>. QED
    BY <2>1, <2>2, FS_Subset
<1>3. \A m \in 0..n : RevisionIn(l, m) = 1 + Cardinality(W(m))
  BY DEF RevisionIn
<1>4. n \in 0..n /\ n \in Nat
  OBVIOUS
<1>. HIDE DEF W
<1>5. Cardinality(W(n)) \in Nat /\ Cardinality(W(n)) <= n /\ RevisionIn(l, n) = 1 + Cardinality(W(n))
  BY <1>1, <1>3, <1>4
<1>6. ASSUME NEW m \in 0..n
      PROVE  RevisionIn(l, m) <= RevisionIn(l, n)
  <2>1. Cardinality(W(m)) \in Nat /\ Cardinality(W(m)) <= Cardinality(W(n))
    BY <1>1, <1>2
  <2>2. RevisionIn(l, m) = 1 + Cardinality(W(m))
    BY <1>3
  <2>. QED
    BY <1>5, <2>1, <2>2
<1>. QED
  BY <1>4, <1>5, <1>6

\* A new entry changes nothing of the log before it.
LEMMA Appended ==
  ASSUME NEW l \in Seq(Entry), NEW e, NEW n \in 0..Len(l)
  PROVE  /\ CompactedIn(Append(l, e), n) = CompactedIn(l, n)
         /\ RevisionIn(Append(l, e), n) = RevisionIn(l, n)
<1>1. \A i \in 1..n : Append(l, e)[i] = l[i]
  OBVIOUS
<1>2. {Append(l, e)[i].rev : i \in 1..n} = {l[i].rev : i \in 1..n}
  BY <1>1
<1>3. {i \in 1..n : Append(l, e)[i] = Write} = {i \in 1..n : l[i] = Write}
  BY <1>1
<1>. QED
  BY <1>2, <1>3 DEF CompactedIn, RevisionIn

\* What one member has compacted and another, at revision r or later, has not.
LEMMA CompactionFound ==
  ASSUME NEW l \in Seq(Entry), NEW a \in 0..Len(l), NEW b \in 0..Len(l), NEW r \in Nat,
         CompactedIn(l, a) > CompactedIn(l, b), r <= RevisionIn(l, b)
  PROVE  \E i \in DOMAIN l : l[i].op = "compact" /\ RevisionIn(l, i) >= r
<1>1. CompactedIn(l, a) \in Nat /\ CompactedIn(l, b) \in Nat
  BY Compacted, HashAssumption DEF Revs
<1>2. PICK i \in 1..a : l[i].rev = CompactedIn(l, a)
  BY <1>1, Compacted
<1>3. i \in DOMAIN l /\ i \in 0..Len(l) /\ l[i] \in Entry
  OBVIOUS
<1>4. l[i].op = "compact"
  BY <1>1, <1>2, <1>3, EntryType
<1>5. i > b
  <2>1. CASE i \in 1..b
    BY <1>1, <1>2, <2>1, Compacted
  <2>. QED
    BY <2>1
<1>6. b \in 0..i
  BY <1>5
<1>7. RevisionIn(l, b) <= RevisionIn(l, i)
  BY <1>3, <1>6, Revised
<1>8. RevisionIn(l, b) \in Nat /\ RevisionIn(l, i) \in Nat
  BY <1>3, Revised
<1>. QED
  BY <1>3, <1>4, <1>7, <1>8

\* A finite set has at most one element if and only if all its elements are equal.
LEMMA AtMostOne ==
  ASSUME NEW S, IsFiniteSet(S)
  PROVE  Cardinality(S) <= 1 <=> \A x, y \in S : x = y
<1>1. Cardinality(S) \in Nat
  BY FS_CardinalityType
<1>2. ASSUME Cardinality(S) <= 1
      PROVE  \A x, y \in S : x = y
  <2>1. CASE Cardinality(S) = 0
    BY <2>1, FS_EmptySet
  <2>2. CASE Cardinality(S) = 1
    BY <2>2, FS_Singleton
  <2>. QED
    BY <1>1, <1>2, <2>1, <2>2
<1>3. ASSUME \A x, y \in S : x = y
      PROVE  Cardinality(S) <= 1
  <2>1. CASE S = {}
    BY <2>1, FS_EmptySet
  <2>2. CASE S # {}
    <3>1. \E x : S = {x}
      BY <1>3, <2>2
    <3>. QED
      BY <3>1, FS_Singleton
  <2>. QED
    BY <2>1, <2>2
<1>. QED
  BY <1>2, <1>3

\* The verdict is "consistent" if and only if all hashes that came are equal.
LEMMA AgreeMeans ==
  ASSUME NEW results
  PROVE  Agree(results) <=> \A m, n \in Answered(results) : results[m] = results[n]
<1>. DEFINE by == Answered(results)
            S == {results[m] : m \in by}
            f == [m \in by |-> results[m]]
<1>1. IsFiniteSet(by)
  BY HashAssumption, FS_Subset DEF Answered
<1>2. f \in Surjection(by, S)
  BY DEF Surjection
<1>. HIDE DEF by, f, S
<1>3. IsFiniteSet(S)
  BY <1>1, <1>2, FS_Surjection
<1>4. Agree(results) <=> Cardinality(S) <= 1
  BY DEF Agree, S, by
<1>5. Agree(results) <=> \A x, y \in S : x = y
  BY <1>3, <1>4, AtMostOne
<1>. QED
  BY <1>5 DEF S, by

-----------------------------------------------------------------------------

\* A request that waits for hashes, and one that has its verdict.
Hashing == [pc : {"hash"}, rev : Revs, left : SUBSET Members, results : [Members -> Hashes \cup {NoHash}]]
Verdicts == [pc : {"answered"}, rev : Revs, consistent : BOOLEAN, by : SUBSET Members]

\* What the type of the request says at each of its steps.
LEMMA HashTyped ==
  HashTypeOK =>
    /\ log \in Seq(Entry) /\ Len(log) <= MaxLog
    /\ call.pc = "hash" => call \in Hashing
    /\ call.pc = "answered" => call \in Verdicts
  BY DEF HashTypeOK, Call, Quiet, Hashing, Verdicts, Entry

\* The values a request may have.
LEMMA CallTypes ==
  /\ [pc |-> "failed"] \in Call /\ [pc |-> "status"] \in Call /\ Quiet \in Call
  /\ Hashing \subseteq Call /\ Verdicts \subseteq Call
  BY DEF Call, Quiet, Hashing, Verdicts

\* A step of the request that neither asks for hashes nor gives a verdict.
LEMMA CallOnly ==
  ASSUME HashInv, call' \in Call, call'.pc \notin {"hash", "answered"}, UNCHANGED <<log, applied, answers>>
  PROVE  HashInv'
  BY DEF HashInv, HashTypeOK, ResultsInv, VerdictRight

\* The revision is one the log has reached, and no member has answered for it yet.
LEMMA HashStatusKeeps ==
  ASSUME HashInv, NEW m \in Members, HashStatus(m)
  PROVE  HashInv'
<1>1. applied[m] \in 0..Len(log) /\ log \in Seq(Entry) /\ Len(log) <= MaxLog
  BY HashTyped DEF HashInv, HashTypeOK
<1>2. Revision(applied[m]) = RevisionIn(log, applied[m])
  BY DEF Revision, RevisionIn
<1>3. Revision(applied[m]) \in Revs
  BY <1>1, <1>2, Revised, HashAssumption DEF Revs
<1>4. call' \in Hashing /\ \A x \in Members : call'.results[x] = NoHash
  BY <1>3 DEF HashStatus, Hashing
<1>5. call'.pc = "hash" /\ call' \in Call
  BY <1>4, CallTypes DEF Hashing
<1>. QED
  BY <1>4, <1>5 DEF HashStatus, HashInv, HashTypeOK, ResultsInv, VerdictRight

\* An answer is taken from what the member has applied of the log.
LEMMA HashAnswerKeeps ==
  ASSUME HashInv, NEW m \in Members, HashAnswer(m)
  PROVE  HashInv'
<1>. DEFINE h == Hash(m, call.rev)
<1>1. call \in Hashing /\ applied[m] \in 0..Len(log) /\ log \in Seq(Entry) /\ Len(log) <= MaxLog
  BY HashTyped DEF HashInv, HashTypeOK, HashAnswer
<1>2. /\ Revision(applied[m]) = RevisionIn(log, applied[m])
      /\ CompactedTo(applied[m]) = CompactedIn(log, applied[m])
  BY DEF Revision, RevisionIn, CompactedTo, CompactedIn
<1>3. CompactedTo(applied[m]) \in Revs /\ call.rev \in Revs
  BY <1>1, <1>2, Compacted DEF Hashing
<1>4. h = [rev |-> call.rev, compacted |-> CompactedIn(log, applied[m]), data |-> DataOf(m, call.rev)]
  BY <1>2 DEF Hash, DataOf
<1>5. DataOf(m, call.rev) \in SUBSET Members
  BY DEF DataOf
<1>6. h \in Hashes
  BY <1>2, <1>3, <1>4, <1>5 DEF Hashes
<1>7. call.rev <= RevisionIn(log, applied[m])
  BY <1>2 DEF HashAnswer, Hashable, HashedRevision
<1>8. TakenFrom(log, m, h, call.rev)
  BY <1>1, <1>4, <1>7 DEF TakenFrom
<1>9. call' = [call EXCEPT !.left = @ \ {m}, !.results = [@ EXCEPT ![m] = h]]
  BY DEF HashAnswer, HashedRevision
<1>. HIDE DEF h
<1>10. /\ call' \in Hashing /\ call'.rev = call.rev /\ call'.pc = "hash"
       /\ call'.results[m] = h /\ \A x \in Members : x # m => call'.results[x] = call.results[x]
  BY <1>1, <1>6, <1>9 DEF Hashing
<1>11. log' = log /\ applied' = applied /\ answers' = answers /\ call' \in Call
  BY <1>10, CallTypes DEF HashAnswer
<1>12. HashTypeOK'
  BY <1>11 DEF HashInv, HashTypeOK
<1>13. ResultsInv'
  <2>1. ASSUME NEW x \in Members, call'.results[x] # NoHash
        PROVE  TakenFrom(log, x, call'.results[x], call.rev)
    <3>1. CASE x = m
      BY <1>8, <1>10, <3>1
    <3>2. CASE x # m
      BY <1>1, <1>10, <2>1, <3>2 DEF HashInv, ResultsInv, Hashing
    <3>. QED
      BY <3>1, <3>2
  <2>. QED
    BY <1>10, <1>11, <2>1 DEF ResultsInv
<1>. QED
  BY <1>10, <1>12, <1>13 DEF HashInv, VerdictRight

\* An error leaves the other answers alone.
LEMMA HashErrorKeeps ==
  ASSUME HashInv, NEW m \in Members, HashError(m)
  PROVE  HashInv'
<1>1. call \in Hashing
  BY HashTyped DEF HashInv, HashError
<1>2. call' \in Hashing /\ call'.rev = call.rev /\ call'.results = call.results /\ call'.pc = "hash"
  BY <1>1 DEF HashError, Hashing
<1>3. log' = log /\ applied' = applied /\ answers' = answers /\ call' \in Call
  BY <1>2, CallTypes DEF HashError
<1>4. call.pc = "hash"
  BY DEF HashError
<1>. QED
  BY <1>2, <1>3, <1>4 DEF HashInv, HashTypeOK, ResultsInv, VerdictRight

\* The verdict on what the members have answered, in the log they answered from.
LEMMA VerdictFollows ==
  ASSUME HashInv, call \in Hashing, NEW bad, NEW by,
         bad = (IF call.rev >= DivergedAt THEN Diverged \cap by ELSE {}),
         by = Answered(call.results)
  PROVE  /\ Agree(call.results) => bad = {} \/ Cardinality(by) = 1
         /\ ~Agree(call.results) => bad # {} \/ CompactedAfter(call.rev)
<1>. DEFINE res == call.results
            r == call.rev
<1>1. log \in Seq(Entry) /\ r \in Nat
  BY HashTyped, HashAssumption DEF HashInv, Hashing, Revs
<1>2. \A m \in by : m \in Members /\ TakenFrom(log, m, res[m], r)
  BY DEF HashInv, ResultsInv, Hashing, Answered
<1>3. \A m \in by : /\ res[m].data = DataOf(m, r) /\ res[m].rev = r
                    /\ res[m] = [rev |-> res[m].rev, compacted |-> res[m].compacted, data |-> res[m].data]
                    /\ \E a \in 0..Len(log) : res[m].compacted = CompactedIn(log, a) /\ r <= RevisionIn(log, a)
  <2>. TAKE m \in by
  <2>1. PICK a \in 0..Len(log) :
          /\ res[m] = [rev |-> r, compacted |-> CompactedIn(log, a), data |-> DataOf(m, r)]
          /\ r <= RevisionIn(log, a)
    BY <1>2 DEF TakenFrom
  <2>. HIDE DEF res, r
  <2>. QED
    BY <2>1
<1>4. Agree(res) <=> \A m, n \in by : res[m] = res[n]
  BY AgreeMeans
<1>. HIDE DEF res, r
<1>5. ASSUME Agree(res), bad # {}
      PROVE  Cardinality(by) = 1
  <2>1. PICK m : m \in bad
    BY <1>5
  <2>2. m \in by /\ m \in Diverged /\ r >= DivergedAt
    BY <2>1 DEF r
  <2>3. res[m].data = {m}
    BY <1>3, <2>2 DEF DataOf
  <2>4. \A n \in by : n = m
    <3>. TAKE n \in by
    <3>1. DataOf(n, r) = {m}
      BY <1>3, <1>4, <1>5, <2>2, <2>3
    <3>. QED
      BY <3>1 DEF DataOf
  <2>5. by = {m}
    BY <2>2, <2>4
  <2>. QED
    BY <2>5, FS_Singleton
<1>6. ASSUME ~Agree(res), bad = {}
      PROVE  CompactedAfter(r)
  <2>1. PICK m \in by, n \in by : res[m] # res[n]
    BY <1>4, <1>6
  <2>2. DataOf(m, r) = {} /\ DataOf(n, r) = {}
    BY <1>6 DEF DataOf, r
  <2>3. res[m].compacted # res[n].compacted
    BY <1>3, <2>1, <2>2
  <2>4. PICK a \in 0..Len(log) : res[m].compacted = CompactedIn(log, a) /\ r <= RevisionIn(log, a)
    BY <1>3
  <2>5. PICK b \in 0..Len(log) : res[n].compacted = CompactedIn(log, b) /\ r <= RevisionIn(log, b)
    BY <1>3
  <2>6. CompactedIn(log, a) \in Nat /\ CompactedIn(log, b) \in Nat
    BY <1>1, Compacted, HashAssumption DEF Revs
  <2>7. CompactedIn(log, a) > CompactedIn(log, b) \/ CompactedIn(log, b) > CompactedIn(log, a)
    BY <2>3, <2>4, <2>5, <2>6
  <2>8. \E i \in DOMAIN log : log[i].op = "compact" /\ RevisionIn(log, i) >= r
    <3>1. CASE CompactedIn(log, a) > CompactedIn(log, b)
      BY <1>1, <2>5, <3>1, CompactionFound
    <3>2. CASE CompactedIn(log, b) > CompactedIn(log, a)
      BY <1>1, <2>4, <3>2, CompactionFound
    <3>. QED
      BY <2>7, <3>1, <3>2
  <2>. QED
    BY <2>8 DEF CompactedAfter, Revision, RevisionIn
<1>. QED
  BY <1>5, <1>6 DEF res, r

\* The verdict is right when it is given.
LEMMA HashVerdictKeeps ==
  ASSUME HashInv, HashVerdict
  PROVE  HashInv'
<1>. DEFINE by == Answered(call.results)
            bad == IF call.rev >= DivergedAt THEN Diverged \cap by ELSE {}
<1>1. call \in Hashing
  BY HashTyped DEF HashInv, HashVerdict
<1>2. by \subseteq Members /\ call.rev \in Revs /\ Agree(call.results) \in BOOLEAN
  BY <1>1 DEF Answered, Agree, Hashing
<1>3. call' = [pc |-> "answered", rev |-> call.rev, consistent |-> Agree(call.results), by |-> by]
  BY DEF HashVerdict
<1>4. /\ Agree(call.results) => bad = {} \/ Cardinality(by) = 1
      /\ ~Agree(call.results) => bad # {} \/ CompactedAfter(call.rev)
  BY <1>1, VerdictFollows
<1>5. log' = log /\ applied' = applied /\ answers' = answers
  BY DEF HashVerdict
<1>6. bad = (IF call.rev >= DivergedAt THEN Diverged \cap by ELSE {})
  OBVIOUS
<1>. HIDE DEF by, bad
<1>7. call' \in Verdicts
  BY <1>2, <1>3 DEF Verdicts
<1>8. HashTypeOK'
  BY <1>5, <1>7, CallTypes DEF HashInv, HashTypeOK
<1>9. ResultsInv'
  BY <1>3 DEF ResultsInv
<1>10. call'.rev = call.rev /\ call'.by = by /\ call'.consistent = Agree(call.results)
  BY <1>3
<1>11. CompactedAfter(call.rev) => CompactedAfter(call.rev)'
  BY <1>5, <1>10 DEF CompactedAfter, Revision
<1>12. VerdictRight'
  BY <1>4, <1>5, <1>6, <1>10 DEF VerdictRight, CompactedAfter, Revision
<1>. QED
  BY <1>8, <1>9, <1>12 DEF HashInv

\* A later write or compaction leaves answers and verdict alone.
LEMMA ProposesKeeps ==
  ASSUME HashInv, NEW e \in Entry, Proposes(e)
  PROVE  HashInv'
<1>1. log \in Seq(Entry) /\ Len(log) \in Nat /\ Len(log) < MaxLog /\ MaxLog \in Nat
  BY HashTyped, HashAssumption DEF HashInv, Proposes
<1>2. log' = Append(log, e) /\ applied' = applied /\ answers' = answers /\ call' = call
  BY DEF Proposes
<1>3. log' \in Seq(Entry) /\ Len(log') = Len(log) + 1 /\ Len(log') <= MaxLog
  BY <1>1, <1>2
<1>4. applied' \in [Members -> 0..Len(log')]
  BY <1>1, <1>2, <1>3 DEF HashInv, HashTypeOK
<1>5. HashTypeOK'
  BY <1>2, <1>3, <1>4 DEF HashInv, HashTypeOK, Entry
<1>6. \A n \in 0..Len(log) : CompactedIn(log', n) = CompactedIn(log, n) /\ RevisionIn(log', n) = RevisionIn(log, n)
  BY <1>1, <1>2, Appended
<1>7. \A m, h, r : TakenFrom(log, m, h, r) => TakenFrom(log', m, h, r)
  BY <1>1, <1>3, <1>6 DEF TakenFrom
<1>8. ResultsInv'
  BY <1>2, <1>7 DEF HashInv, ResultsInv
<1>9. \A r : CompactedAfter(r) => \E i \in DOMAIN log' : log'[i].op = "compact" /\ RevisionIn(log', i) >= r
  <2>. TAKE r
  <2>. SUFFICES ASSUME CompactedAfter(r)
                PROVE  \E i \in DOMAIN log' : log'[i].op = "compact" /\ RevisionIn(log', i) >= r
    OBVIOUS
  <2>1. PICK i \in DOMAIN log : log[i].op = "compact" /\ RevisionIn(log, i) >= r
    BY DEF CompactedAfter, Revision, RevisionIn
  <2>2. i \in 0..Len(log) /\ i \in DOMAIN log' /\ log'[i] = log[i]
    BY <1>1, <1>2
  <2>. QED
    BY <1>6, <2>1, <2>2
<1>10. VerdictRight'
  BY <1>2, <1>9 DEF HashInv, VerdictRight, CompactedAfter, Revision, RevisionIn
<1>. QED
  BY <1>5, <1>8, <1>10 DEF HashInv

\* What a member applies and whether it answers leave the verdict alone.
LEMMA MemberKeeps ==
  ASSUME HashInv, applied' \in [Members -> 0..Len(log)], answers' \subseteq Members, UNCHANGED <<log, call>>
  PROVE  HashInv'
<1>1. HashTypeOK'
  BY DEF HashInv, HashTypeOK
<1>2. ResultsInv'
  BY DEF HashInv, ResultsInv
<1>3. VerdictRight'
  BY DEF HashInv, VerdictRight, CompactedAfter, Revision
<1>. QED
  BY <1>1, <1>2, <1>3 DEF HashInv

\* There is no log and no request at first.
LEMMA HashInitially == HashInit => HashInv
<1>. SUFFICES ASSUME HashInit PROVE HashInv
  OBVIOUS
<1>1. call.pc = "idle"
  BY DEF HashInit, Quiet
<1>2. HashTypeOK
  BY HashAssumption, CallTypes DEF HashInit, HashTypeOK
<1>. QED
  BY <1>1, <1>2 DEF HashInv, ResultsInv, VerdictRight

\* Every step of the request, the members or the cluster keeps HashInv.
LEMMA HashStep == HashInv /\ HashNext => HashInv'
<1>. SUFFICES ASSUME HashInv, HashNext PROVE HashInv'
  OBVIOUS
<1>1. CASE HashBegin
  BY <1>1, CallTypes, CallOnly DEF HashBegin
<1>2. CASE HashStatusFails
  BY <1>2, CallTypes, CallOnly DEF HashStatusFails
<1>3. CASE HashEnd
  BY <1>3, CallTypes, CallOnly DEF HashEnd, Quiet
<1>4. CASE HashVerdict
  BY <1>4, HashVerdictKeeps
<1>5. ASSUME NEW m \in Members, HashStatus(m)
      PROVE  HashInv'
  BY <1>5, HashStatusKeeps
<1>6. ASSUME NEW m \in Members, HashAnswer(m)
      PROVE  HashInv'
  BY <1>6, HashAnswerKeeps
<1>7. ASSUME NEW m \in Members, HashError(m)
      PROVE  HashInv'
  BY <1>7, HashErrorKeeps
<1>8. ASSUME NEW m \in Members, Apply(m)
      PROVE  HashInv'
  <2>1. applied' \in [Members -> 0..Len(log)]
    BY <1>8 DEF Apply, HashInv, HashTypeOK
  <2>. QED
    BY <1>8, <2>1, MemberKeeps DEF Apply, HashInv, HashTypeOK
<1>9. ASSUME NEW m \in Members, HashToggle(m)
      PROVE  HashInv'
  BY <1>9, MemberKeeps DEF HashToggle, HashInv, HashTypeOK
<1>10. CASE LogWrite
  BY <1>10, ProposesKeeps DEF LogWrite, Entry
<1>11. ASSUME NEW r \in Revs, LogCompact(r)
       PROVE  HashInv'
  BY <1>11, ProposesKeeps DEF LogCompact, Entry
<1>. QED
  BY <1>1, <1>2, <1>3, <1>4, <1>5, <1>6, <1>7, <1>8, <1>9, <1>10, <1>11 DEF HashNext

-----------------------------------------------------------------------------

\* The bound +Inf lies above the finite bounds, of which there is a greatest.
LEMMA InfFacts ==
  /\ Max(Bounds) \in Bounds /\ \A b \in Bounds : b \in Nat \ {0} /\ b <= Max(Bounds)
  /\ Inf \in Nat /\ Inf \notin Bounds /\ \A b \in Bounds : b < Inf
  /\ Les \in SUBSET Int /\ IsFiniteSet(Les) /\ Cardinality(Les) = Cardinality(Bounds) + 1
<1>1. Bounds \in SUBSET Int /\ Bounds # {} /\ IsFiniteSet(Bounds) /\ Bounds \subseteq Nat \ {0}
  BY HistogramAssumption
<1>2. PICK m \in Bounds : \A b \in Bounds : b <= m
  BY <1>1, FiniteMax
<1>3. Max(Bounds) \in Bounds /\ \A b \in Bounds : Max(Bounds) >= b
  BY <1>1, <1>2 DEF Max
<1>. HIDE DEF Max
<1>4. \A b \in Bounds : b \in Nat \ {0} /\ b <= Max(Bounds)
  BY <1>1, <1>3
<1>5. Inf \in Nat /\ Inf \notin Bounds /\ \A b \in Bounds : b < Inf
  <2>. DEFINE top == Max(Bounds)
  <2>1. Inf = top + 1 /\ top \in Bounds /\ \A b \in Bounds : b \in Nat \ {0} /\ b <= top
    BY <1>3, <1>4 DEF Inf
  <2>. HIDE DEF top
  <2>. QED  BY <2>1
<1>6. IsFiniteSet(Les) /\ Cardinality(Les) = Cardinality(Bounds) + 1
  BY <1>1, <1>5, FS_AddElement DEF Les
<1>7. Les \in SUBSET Int
  BY <1>1, <1>5 DEF Les
<1>. QED  BY <1>3, <1>4, <1>5, <1>6, <1>7

\* The bounds in their order: +Inf is the last and not the first.
LEMMA AscendingFacts ==
  LET L == Cardinality(Les) IN
  /\ L \in Nat /\ L >= 2
  /\ Ascending \in [1..L -> Les] /\ Ascending \in Seq(Les) /\ Len(Ascending) = L
  /\ \A i, j \in 1..L : i <= j => Ascending[i] <= Ascending[j]
  /\ \A x \in Les : \E i \in 1..L : Ascending[i] = x
  /\ Ascending[L] = Inf /\ \A i \in 1..(L - 1) : Ascending[i] \in Bounds
<1>. DEFINE L == Cardinality(Les)
            f == Ascending
<1>1. /\ L \in Nat /\ f \in [1..L -> Les]
      /\ \A i, j \in 1..L : i < j => f[i] < f[j]
      /\ \A x \in Les : \E i \in 1..L : f[i] = x
  BY InfFacts, InOrderFacts DEF Ascending
<1>2. L >= 2
  <2>1. Cardinality(Bounds) \in Nat /\ Cardinality(Bounds) # 0
    BY HistogramAssumption, FS_CardinalityType, FS_EmptySet
  <2>. QED  BY <2>1, InfFacts
<1>3. Les \subseteq Int /\ Inf \in Les /\ (\A x \in Les : x <= Inf) /\ Les = Bounds \cup {Inf}
  BY InfFacts DEF Les
<1>. HIDE DEF L, f
<1>4. f \in Seq(Les) /\ Len(f) = L
  BY <1>1
<1>5. \A i, j \in 1..L : i <= j => f[i] <= f[j]
  <2>. SUFFICES ASSUME NEW i \in 1..L, NEW j \in 1..L, i <= j PROVE f[i] <= f[j]
    OBVIOUS
  <2>1. f[i] \in Int /\ f[j] \in Int
    BY <1>1, <1>3
  <2>2. i = j \/ i < j
    BY <1>1
  <2>. QED  BY <1>1, <2>1, <2>2
<1>6. f[L] = Inf
  <2>1. PICK i \in 1..L : f[i] = Inf
    BY <1>1, <1>3
  <2>2. f[i] <= f[L] /\ f[L] \in Les
    BY <1>1, <1>2, <1>5
  <2>3. f[L] <= Inf /\ f[L] \in Int /\ Inf \in Int
    BY <1>3, <2>2
  <2>. QED  BY <2>1, <2>2, <2>3
<1>7. ASSUME NEW i \in 1..(L - 1)
      PROVE  f[i] \in Bounds
  <2>1. i \in 1..L /\ L \in 1..L /\ i < L
    BY <1>1, <1>2
  <2>2. f[i] \in Les /\ f[i] < f[L]
    BY <1>1, <2>1
  <2>3. f[i] \in Int
    BY <1>3, <2>2
  <2>. QED  BY <1>3, <1>6, <2>2, <2>3
<1>. QED  BY <1>1, <1>2, <1>4, <1>5, <1>6, <1>7 DEF L, f

\* A bucket as it is collected.
Bucket == [le : Les, count : Counts]

\* What the sort gives: bounds that ascend, beginning with a finite one.
Ordered(buckets) ==
  /\ buckets \in Seq(Bucket) /\ Len(buckets) \in Nat \ {0}
  /\ buckets[1].le \in Bounds
  /\ \A i, j \in 1..Len(buckets) : i <= j => buckets[i].le <= buckets[j].le

\* A bucket's numbers.
LEMMA BucketFacts ==
  ASSUME NEW b \in Bucket
  PROVE  /\ b.le \in Nat \ {0} /\ b.le \in Les /\ b.count \in Nat /\ b.count \in Counts
         /\ b.le # Inf => b.le \in Bounds
<1>1. b.le \in Les /\ b.count \in Counts
  BY DEF Bucket
<1>2. Les \subseteq Nat \ {0}
  BY InfFacts DEF Les, Inf
<1>. QED  BY <1>1, <1>2, HistogramAssumption DEF Les

\* Division by the number of series.
LEMMA Quotient ==
  ASSUME NEW n \in Nat \ {0}, NEW a \in Nat, NEW L \in Nat, a < L * n
  PROVE  a \div n \in 0..(L - 1) /\ a % n \in 0..(n - 1)
<1>. DEFINE q == a \div n
<1>1. q \in Nat /\ a % n \in 0..(n - 1) /\ a = n * q + (a % n)
  OBVIOUS
<1>2. n * q <= a
  BY <1>1
<1>. HIDE DEF q
<1>3. q < L
  <2>. SUFFICES ASSUME q >= L PROVE FALSE
    BY <1>1
  <2>1. n * q >= n * L
    BY <1>1
  <2>. QED  BY <1>1, <1>2, <2>1
<1>. QED  BY <1>1, <1>3 DEF q

\* The buckets of any number of series are sorted by their bound; those of one series
\* are its counts.
LEMMA SortedFacts ==
  ASSUME family \in Seq(Series), family # <<>>, NEW order \in [Les -> SetToSeqs(DOMAIN family)]
  PROVE  /\ Ordered(Sorted(order))
         /\ Len(family) = 1 =>
              /\ Len(Sorted(order)) = Cardinality(Les)
              /\ \A i \in 1..Cardinality(Les) :
                   Sorted(order)[i] = [le |-> Ascending[i], count |-> family[1][Ascending[i]]]
<1>. DEFINE n == Len(family)
            L == Cardinality(Les)
            N == L * n
            B == Sorted(order)
<1>1. n \in Nat \ {0} /\ DOMAIN family = 1..n
  BY EmptySeq
<1>2. /\ L \in Nat /\ L >= 2 /\ Len(Ascending) = L
      /\ Ascending \in [1..L -> Les]
      /\ \A i, j \in 1..L : i <= j => Ascending[i] <= Ascending[j]
      /\ Ascending[1] \in Bounds
  BY AscendingFacts
<1>3. \A s \in 1..n, le \in Les : family[s][le] \in Counts
  <2>1. \A s \in 1..n : family[s] \in Series
    BY <1>1
  <2>. QED  BY <2>1 DEF Series
<1>4. \A le \in Les : \A j \in 1..n : order[le][j] \in 1..n
  <2>1. Cardinality(1..n) = n
    BY <1>1, FS_Interval
  <2>. QED  BY <1>1, <2>1 DEF SetToSeqs
<1>5. B = [i \in 1..N |->
             [le |-> Ascending[((i - 1) \div n) + 1],
              count |-> family[order[Ascending[((i - 1) \div n) + 1]][((i - 1) % n) + 1]]
                              [Ascending[((i - 1) \div n) + 1]]]]
  BY <1>2 DEF Sorted
<1>6. N \in Nat \ {0}
  BY <1>1, <1>2
<1>. HIDE DEF n, L, B
<1>7. ASSUME NEW i \in 1..N
      PROVE  /\ ((i - 1) \div n) + 1 \in 1..L /\ ((i - 1) % n) + 1 \in 1..n
             /\ B[i].le = Ascending[((i - 1) \div n) + 1]
             /\ B[i] \in Bucket
  <2>1. i - 1 \in Nat /\ i - 1 < L * n
    BY <1>6
  <2>2. ((i - 1) \div n) + 1 \in 1..L /\ ((i - 1) % n) + 1 \in 1..n
    <3>. DEFINE a == i - 1
    <3>1. a \in Nat /\ a < L * n
      BY <2>1
    <3>. HIDE DEF a
    <3>2. a \div n \in 0..(L - 1) /\ a % n \in 0..(n - 1)
      BY <1>1, <1>2, <3>1, Quotient
    <3>3. (a \div n) + 1 \in 1..L /\ (a % n) + 1 \in 1..n
      BY <1>1, <1>2, <3>2
    <3>. QED  BY <3>3 DEF a
  <2>. DEFINE le == Ascending[((i - 1) \div n) + 1]
              s == order[le][((i - 1) % n) + 1]
  <2>3. le \in Les
    BY <1>2, <2>2
  <2>4. s \in 1..n
    BY <1>4, <2>2, <2>3
  <2>5. B[i] = [le |-> le, count |-> family[s][le]]
    BY <1>5
  <2>. HIDE DEF le, s
  <2>6. B[i].le = le /\ B[i] \in Bucket
    BY <1>3, <2>3, <2>4, <2>5 DEF Bucket
  <2>. QED  BY <2>2, <2>6 DEF le
<1>8. B \in [1..N -> Bucket]
  <2>1. DOMAIN B = 1..N /\ B = [i \in 1..N |-> B[i]]
    BY <1>5
  <2>. QED  BY <1>7, <2>1
<1>9. B \in Seq(Bucket) /\ Len(B) = N
  BY <1>6, <1>8
<1>10. B[1].le \in Bounds
  <2>1. (1 - 1) \div n = 0
    BY <1>1
  <2>. QED  BY <1>2, <1>6, <1>7, <2>1
<1>11. ASSUME NEW i \in 1..N, NEW j \in 1..N, i <= j
       PROVE  B[i].le <= B[j].le
  <2>1. i - 1 \in Nat /\ j - 1 \in Nat /\ i - 1 <= j - 1
    BY <1>6, <1>11
  <2>2. (i - 1) \div n <= (j - 1) \div n
    BY <1>1, <2>1
  <2>3. ((i - 1) \div n) + 1 <= ((j - 1) \div n) + 1
    BY <1>1, <2>1, <2>2
  <2>. QED  BY <1>2, <1>7, <2>3
<1>12. Ordered(B)
  BY <1>6, <1>9, <1>10, <1>11 DEF Ordered
<1>13. ASSUME n = 1
       PROVE  /\ N = L
              /\ \A i \in 1..L : B[i] = [le |-> Ascending[i], count |-> family[1][Ascending[i]]]
  <2>1. N = L
    BY <1>2, <1>13
  <2>2. ASSUME NEW i \in 1..L
        PROVE  B[i] = [le |-> Ascending[i], count |-> family[1][Ascending[i]]]
    <3>1. ((i - 1) \div n) + 1 = i /\ ((i - 1) % n) + 1 = 1
      BY <1>2, <1>13
    <3>2. Ascending[i] \in Les
      BY <1>2
    <3>3. order[Ascending[i]][1] = 1
      BY <1>4, <1>13, <3>2
    <3>4. B[i] = [le |-> Ascending[((i - 1) \div n) + 1],
                  count |-> family[order[Ascending[((i - 1) \div n) + 1]][((i - 1) % n) + 1]]
                                  [Ascending[((i - 1) \div n) + 1]]]
      BY <1>5, <2>1
    <3>. QED  BY <3>1, <3>3, <3>4
  <2>. QED  BY <2>1, <2>2
<1>. QED  BY <1>9, <1>12, <1>13 DEF n, L, B

\* The parts of Percentile.
Rank(buckets, p) == p * Last(buckets).count
FiniteOnes(buckets) == {i \in DOMAIN buckets : buckets[i].le # Inf}
Reaching(buckets, p) == {i \in FiniteOnes(buckets) : 100 * buckets[i].count >= Rank(buckets, p)}

\* Sorted buckets, one by one.
LEMMA SortedBuckets ==
  ASSUME NEW B, Ordered(B)
  PROVE  /\ Len(B) \in Nat \ {0} /\ DOMAIN B = 1..Len(B) /\ Last(B) = B[Len(B)]
         /\ \A i \in 1..Len(B) : /\ B[i] \in Bucket /\ B[i].le \in Nat \ {0} /\ B[i].count \in Nat
                               /\ B[i].count \in Counts /\ (B[i].le # Inf => B[i].le \in Bounds)
         /\ \A i, j \in 1..Len(B) : i <= j => B[i].le <= B[j].le
         /\ B[1].le \in Bounds
<1>1. B \in Seq(Bucket) /\ Len(B) \in Nat \ {0} /\ DOMAIN B = 1..Len(B)
  BY DEF Ordered
<1>2. \A i \in 1..Len(B) : B[i] \in Bucket
  BY <1>1
<1>3. \A i \in 1..Len(B) : /\ B[i].le \in Nat \ {0} /\ B[i].count \in Nat
                           /\ B[i].count \in Counts /\ (B[i].le # Inf => B[i].le \in Bounds)
  BY <1>2, BucketFacts
<1>. QED  BY <1>1, <1>2, <1>3 DEF Ordered, Last

\* A set of positions has a first and a last one, which Min and Max give.
LEMMA FirstAndLast ==
  ASSUME NEW n \in Nat, NEW I \in SUBSET (1..n), I # {}
  PROVE  /\ Min(I) \in I /\ \A x \in I : Min(I) <= x
         /\ Max(I) \in I /\ \A x \in I : x <= Max(I)
<1>1. I \in SUBSET Int /\ IsFiniteSet(I)
  BY PositionsFinite
<1>2. PICK m \in I : \A x \in I : m <= x
  BY <1>1, FiniteMin
<1>3. PICK t \in I : \A x \in I : x <= t
  BY <1>1, FiniteMax
<1>4. Min(I) \in I /\ \A x \in I : Min(I) <= x
  BY <1>2 DEF Min
<1>5. Max(I) \in I /\ \A x \in I : Max(I) >= x
  BY <1>1, <1>3 DEF Max
<1>6. \A x \in I : x <= Max(I)
  <2>. DEFINE t0 == Max(I)
  <2>1. t0 \in Int /\ \A x \in I : t0 >= x /\ x \in Int
    BY <1>1, <1>5
  <2>. HIDE DEF t0
  <2>. QED  BY <2>1 DEF t0
<1>. QED  BY <1>4, <1>5, <1>6

\* A rank that no finite bucket reaches gives the last finite bound.
LEMMA NoneReaches ==
  ASSUME NEW B, Ordered(B), NEW p \in Percentages, Reaching(B, p) = {}
  PROVE  \E m \in FiniteOnes(B) : /\ \A j \in FiniteOnes(B) : j <= m
                                 /\ Percentile(B, p) = [num |-> B[m].le, den |-> 1]
<1>1. /\ Len(B) \in Nat \ {0} /\ DOMAIN B = 1..Len(B) /\ B[1].le \in Bounds
  BY SortedBuckets
<1>2. FiniteOnes(B) \in SUBSET (1..Len(B)) /\ FiniteOnes(B) # {}
  BY <1>1, InfFacts DEF FiniteOnes
<1>3. Max(FiniteOnes(B)) \in FiniteOnes(B) /\ \A j \in FiniteOnes(B) : j <= Max(FiniteOnes(B))
  BY <1>1, <1>2, FirstAndLast
<1>4. Percentile(B, p) = [num |-> B[Max(FiniteOnes(B))].le, den |-> 1]
  BY DEF Percentile, Reaching, FiniteOnes, Rank
<1>. QED  BY <1>3, <1>4

\* A rank that is reached lies in the first finite bucket that reaches it.
LEMMA OneReaches ==
  ASSUME NEW B, Ordered(B), Last(B).count # 0, NEW p \in Percentages, Reaching(B, p) # {}
  PROVE  \E i \in Reaching(B, p) :
           LET low == Before(B, i)
               grown == 100 * (B[i].count - low.count)
               above == Rank(B, p) - 100 * low.count IN
           /\ \A j \in Reaching(B, p) : i <= j
           /\ low.le \in Nat /\ low.le <= B[i].le
           /\ grown \in Nat \ {0} /\ above \in Nat /\ above <= grown
           /\ Percentile(B, p) =
                [num |-> low.le * grown + (B[i].le - low.le) * above, den |-> grown]
<1>. DEFINE R == Reaching(B, p)
            i == Min(R)
            low == Before(B, i)
            grown == 100 * (B[i].count - low.count)
            rank == Rank(B, p)
            above == rank - 100 * low.count
<1>1. /\ Len(B) \in Nat \ {0} /\ DOMAIN B = 1..Len(B) /\ Last(B) = B[Len(B)]
      /\ \A k \in 1..Len(B) : B[k].le \in Nat \ {0} /\ B[k].count \in Nat
      /\ \A k, l \in 1..Len(B) : k <= l => B[k].le <= B[l].le
  BY SortedBuckets
<1>2. R \in SUBSET (1..Len(B))
  BY <1>1 DEF Reaching, FiniteOnes
<1>3. i \in R /\ \A j \in R : i <= j
  BY <1>1, <1>2, FirstAndLast
<1>4. Percentile(B, p) = [num |-> low.le * grown + (B[i].le - low.le) * above, den |-> grown]
  BY DEF Percentile, Reaching, FiniteOnes, Rank
<1>5. rank \in Nat \ {0}
  <2>1. Last(B).count \in Nat \ {0}
    BY <1>1
  <2>. QED  BY <2>1 DEF Rank, Percentages
<1>6. \A k \in 1..Len(B) : k \in R <=> B[k].le # Inf /\ 100 * B[k].count >= rank
  BY <1>1 DEF Reaching, FiniteOnes
<1>. HIDE DEF R, i, rank
<1>7. i \in 1..Len(B) /\ B[i].le # Inf /\ 100 * B[i].count >= rank
  BY <1>2, <1>3, <1>6
<1>8. /\ low.le \in Nat /\ low.le <= B[i].le /\ low.count \in Nat /\ 100 * low.count < rank
  <2>1. CASE i = 1
    <3>1. low.le = 0 /\ low.count = 0
      BY <2>1 DEF Before
    <3>. QED  BY <1>1, <1>5, <1>7, <3>1
  <2>2. CASE i # 1
    <3>1. low = B[i - 1] /\ i - 1 \in 1..Len(B) /\ i - 1 < i
      BY <1>1, <1>7, <2>2 DEF Before
    <3>2. i - 1 \notin R
      BY <1>2, <1>3, <3>1
    <3>3. B[i - 1].le <= B[i].le
      BY <1>1, <1>7, <3>1
    <3>4. B[i - 1].le # Inf
      <4>1. B[i].le <= Max(Bounds) /\ Max(Bounds) \in Nat
        BY <1>7, SortedBuckets, InfFacts
      <4>2. \A x \in 1..Len(B) : B[x].le \in Int
        BY <1>1
      <4>. DEFINE top == Max(Bounds)
      <4>3. Inf = top + 1
        BY DEF Inf
      <4>. HIDE DEF top
      <4>4. B[i].le <= top /\ top \in Nat
        BY <4>1 DEF top
      <4>. QED  BY <1>7, <3>1, <3>3, <4>2, <4>3, <4>4
    <3>5. 100 * B[i - 1].count < rank
      BY <1>1, <1>5, <1>6, <3>1, <3>2, <3>4
    <3>. QED  BY <1>1, <3>1, <3>3, <3>5
  <2>. QED  BY <2>1, <2>2
<1>9. B[i].count \in Nat
  BY <1>1, <1>7
<1>. HIDE DEF low
<1>10. grown \in Nat \ {0} /\ above \in Nat /\ above <= grown
  <2>. DEFINE c == B[i].count
              l == low.count
  <2>1. c \in Nat /\ l \in Nat /\ rank \in Nat /\ 100 * c >= rank /\ 100 * l < rank
    BY <1>5, <1>7, <1>8, <1>9
  <2>. HIDE DEF c, l
  <2>2. /\ 100 * (c - l) \in Nat \ {0} /\ rank - 100 * l \in Nat
        /\ rank - 100 * l <= 100 * (c - l)
    BY <2>1
  <2>. QED  BY <2>2 DEF c, l
<1>. QED  BY <1>3, <1>4, <1>8, <1>10 DEF R, i, low, rank

\* A value within a bucket lies between its bounds, and grows with the rank.
LEMMA Interpolated ==
  ASSUME NEW l \in Nat, NEW h \in Nat, l <= h, NEW g \in Nat \ {0}, NEW r \in Nat, r <= g
  PROVE  /\ l * g + (h - l) * r \in Nat
         /\ l * g <= l * g + (h - l) * r /\ l * g + (h - l) * r <= h * g
         /\ \A s \in Nat : r <= s => l * g + (h - l) * r <= l * g + (h - l) * s
<1>. DEFINE w == h - l
<1>1. w \in Nat /\ h = l + w
  OBVIOUS
<1>. HIDE DEF w
<1>2. w * r \in Nat /\ w * r <= w * g
  BY <1>1
<1>3. h * g = l * g + w * g /\ l * g \in Nat /\ w * g \in Nat
  BY <1>1
<1>4. \A s \in Nat : r <= s => w * r <= w * s
  BY <1>1
<1>5. \A s \in Nat : w * s \in Nat
  BY <1>1
<1>. QED  BY <1>2, <1>3, <1>4, <1>5 DEF w

\* Fractions on the two sides of a whole number.
LEMMA AtMostThrough ==
  ASSUME NEW x \in Fraction, NEW y \in Fraction, NEW b \in Nat, NEW c \in Nat, b <= c,
         AtMost(x, Whole(b)), AtMost(Whole(c), y)
  PROVE  AtMost(x, y)
<1>. DEFINE xn == x.num  xd == x.den  yn == y.num  yd == y.den
<1>1. xn \in Nat /\ xd \in Nat \ {0} /\ yn \in Nat /\ yd \in Nat \ {0}
  BY DEF Fraction
<1>2. xn * 1 <= b * xd /\ c * yd <= yn * 1
  BY DEF AtMost, Whole
<1>3. SUFFICES xn * yd <= yn * xd
  BY DEF AtMost
<1>. HIDE DEF xn, xd, yn, yd
<1>4. xn <= b * xd /\ c * yd <= yn
  BY <1>1, <1>2
<1>5. xn * yd <= (b * xd) * yd
  BY <1>1, <1>4
<1>6. (c * yd) * xd <= yn * xd
  BY <1>1, <1>4
<1>7. (b * xd) * yd = (xd * yd) * b /\ (c * yd) * xd = (xd * yd) * c
  BY <1>1
<1>8. (xd * yd) * b <= (xd * yd) * c
  <2>. DEFINE d == xd * yd
  <2>1. d \in Nat
    BY <1>1
  <2>. HIDE DEF d
  <2>2. d * b <= d * c
    BY <2>1
  <2>. QED  BY <2>2 DEF d
<1>9. xn * yd \in Nat /\ yn * xd \in Nat /\ (xd * yd) * b \in Nat /\ (xd * yd) * c \in Nat
  BY <1>1
<1>. QED  BY <1>5, <1>6, <1>7, <1>8, <1>9

\* Comparing with a whole number that is further off.
LEMMA AtMostWhole ==
  ASSUME NEW x \in Fraction, NEW b \in Nat, NEW c \in Nat, b <= c
  PROVE  /\ AtMost(x, Whole(b)) => AtMost(x, Whole(c))
         /\ AtMost(Whole(c), x) => AtMost(Whole(b), x)
<1>. DEFINE n == x.num  d == x.den
<1>1. n \in Nat /\ d \in Nat \ {0}
  BY DEF Fraction
<1>2. (AtMost(x, Whole(b)) <=> n <= b * d) /\ (AtMost(x, Whole(c)) <=> n <= c * d)
      /\ (AtMost(Whole(c), x) <=> c * d <= n) /\ (AtMost(Whole(b), x) <=> b * d <= n)
  BY <1>1 DEF AtMost, Whole
<1>. HIDE DEF n, d
<1>3. b * d <= c * d /\ b * d \in Nat /\ c * d \in Nat
  BY <1>1
<1>. QED  BY <1>1, <1>2, <1>3

\* A percentile of a rank that is reached lies between the bounds of its bucket.
LEMMA WithinBucket ==
  ASSUME NEW B, Ordered(B), Last(B).count # 0, NEW p \in Percentages, Reaching(B, p) # {}
  PROVE  /\ Percentile(B, p) \in Fraction
         /\ \E i \in Reaching(B, p) :
              /\ \A j \in Reaching(B, p) : i <= j
              /\ Before(B, i).le \in Nat /\ i \in 1..Len(B) /\ B[i].le \in Nat
              /\ AtMost(Whole(Before(B, i).le), Percentile(B, p))
              /\ AtMost(Percentile(B, p), Whole(B[i].le))
<1>. DEFINE value == Percentile(B, p)
<1>1. PICK i \in Reaching(B, p) :
           LET low == Before(B, i)
               grown == 100 * (B[i].count - low.count)
               above == Rank(B, p) - 100 * low.count IN
           /\ \A j \in Reaching(B, p) : i <= j
           /\ low.le \in Nat /\ low.le <= B[i].le
           /\ grown \in Nat \ {0} /\ above \in Nat /\ above <= grown
           /\ value = [num |-> low.le * grown + (B[i].le - low.le) * above, den |-> grown]
  BY OneReaches
<1>2. i \in 1..Len(B) /\ B[i].le \in Nat
  BY SortedBuckets DEF Reaching, FiniteOnes
<1>. DEFINE l == Before(B, i).le
            h == B[i].le
            g == 100 * (B[i].count - Before(B, i).count)
            r == Rank(B, p) - 100 * Before(B, i).count
<1>3. /\ l \in Nat /\ h \in Nat /\ l <= h /\ g \in Nat \ {0} /\ r \in Nat /\ r <= g
      /\ value = [num |-> l * g + (h - l) * r, den |-> g]
  BY <1>1, <1>2
<1>. HIDE DEF l, h, g, r, value
<1>4. l * g + (h - l) * r \in Nat /\ l * g <= l * g + (h - l) * r /\ l * g + (h - l) * r <= h * g
  BY <1>3, Interpolated
<1>5. value.num = l * g + (h - l) * r /\ value.den = g /\ value \in Fraction
  BY <1>3, <1>4 DEF Fraction
<1>6. AtMost(Whole(l), value)
  BY <1>3, <1>4, <1>5 DEF AtMost, Whole
<1>7. AtMost(value, Whole(h))
  BY <1>3, <1>4, <1>5 DEF AtMost, Whole
<1>. QED  BY <1>1, <1>2, <1>3, <1>5, <1>6, <1>7 DEF l, h, value

\* The finite buckets are within the greatest bound.
LEMMA FiniteBounded ==
  ASSUME NEW B, Ordered(B), NEW i \in FiniteOnes(B)
  PROVE  i \in 1..Len(B) /\ B[i].le \in Bounds /\ B[i].le \in Nat /\ B[i].le <= Max(Bounds)
  BY SortedBuckets, InfFacts DEF FiniteOnes

\* A percentile is a fraction within the greatest bound.
LEMMA ValueFacts ==
  ASSUME NEW B, Ordered(B), Last(B).count # 0, NEW p \in Percentages
  PROVE  Percentile(B, p) \in Fraction /\ AtMost(Percentile(B, p), Whole(Max(Bounds)))
<1>1. Max(Bounds) \in Nat
  BY InfFacts
<1>2. CASE Reaching(B, p) = {}
  <2>1. PICK m \in FiniteOnes(B) : Percentile(B, p) = [num |-> B[m].le, den |-> 1]
    BY <1>2, NoneReaches
  <2>2. B[m].le \in Nat /\ B[m].le <= Max(Bounds)
    BY FiniteBounded
  <2>3. Whole(B[m].le) \in Fraction /\ AtMost(Whole(B[m].le), Whole(B[m].le))
    BY <2>2 DEF Fraction, Whole, AtMost
  <2>4. Percentile(B, p) = Whole(B[m].le)
    BY <2>1 DEF Whole
  <2>. QED  BY <1>1, <2>2, <2>3, <2>4, AtMostWhole
<1>3. CASE Reaching(B, p) # {}
  <2>1. PICK i \in Reaching(B, p) : AtMost(Percentile(B, p), Whole(B[i].le))
    BY <1>3, WithinBucket
  <2>2. B[i].le \in Nat /\ B[i].le <= Max(Bounds)
    BY FiniteBounded DEF Reaching
  <2>3. Percentile(B, p) \in Fraction
    BY <1>3, WithinBucket
  <2>. QED  BY <1>1, <2>1, <2>2, <2>3, AtMostWhole
<1>. QED  BY <1>2, <1>3

\* The percentiles ascend.
LEMMA PercentilesAscend ==
  ASSUME NEW B, Ordered(B), Last(B).count # 0, NEW p \in Percentages, NEW q \in Percentages, p <= q
  PROVE  AtMost(Percentile(B, p), Percentile(B, q))
<1>1. Last(B).count \in Nat
  BY SortedBuckets
<1>2. Rank(B, p) \in Nat /\ Rank(B, q) \in Nat /\ Rank(B, p) <= Rank(B, q)
  <2>. DEFINE t == Last(B).count
  <2>1. t \in Nat /\ p \in Nat /\ q \in Nat
    BY <1>1 DEF Percentages
  <2>. HIDE DEF t
  <2>2. p * t <= q * t /\ p * t \in Nat /\ q * t \in Nat
    BY <2>1
  <2>. QED  BY <2>2 DEF Rank, t
<1>3. \A i \in FiniteOnes(B) : i \in 1..Len(B) /\ B[i].count \in Nat /\ B[i].le \in Nat
  BY SortedBuckets DEF FiniteOnes
<1>4. Reaching(B, q) \subseteq Reaching(B, p)
  BY <1>2, <1>3 DEF Reaching
<1>5. CASE Reaching(B, p) = {}
  <2>1. Reaching(B, q) = {}
    BY <1>4, <1>5
  <2>2. PICK m \in FiniteOnes(B) : /\ \A j \in FiniteOnes(B) : j <= m
                                 /\ Percentile(B, p) = [num |-> B[m].le, den |-> 1]
    BY <1>5, NoneReaches
  <2>3. PICK k \in FiniteOnes(B) : /\ \A j \in FiniteOnes(B) : j <= k
                                 /\ Percentile(B, q) = [num |-> B[k].le, den |-> 1]
    BY <2>1, NoneReaches
  <2>4. m = k /\ B[m].le \in Nat
    BY <1>3, <2>2, <2>3
  <2>. QED  BY <2>2, <2>3, <2>4 DEF AtMost
<1>6. CASE Reaching(B, p) # {} /\ Reaching(B, q) = {}
  <2>1. PICK i \in Reaching(B, p) : AtMost(Percentile(B, p), Whole(B[i].le))
    BY <1>6, WithinBucket
  <2>2. PICK m \in FiniteOnes(B) : /\ \A j \in FiniteOnes(B) : j <= m
                                 /\ Percentile(B, q) = [num |-> B[m].le, den |-> 1]
    BY <1>6, NoneReaches
  <2>3. i \in FiniteOnes(B) /\ i <= m
    BY <2>2 DEF Reaching
  <2>4. B[i].le <= B[m].le /\ B[i].le \in Nat /\ B[m].le \in Nat
    BY <1>3, <2>3, SortedBuckets
  <2>5. AtMost(Whole(B[m].le), Percentile(B, q))
    BY <2>2, <2>4 DEF AtMost, Whole
  <2>6. Percentile(B, p) \in Fraction /\ Percentile(B, q) \in Fraction
    BY ValueFacts
  <2>. QED  BY <2>1, <2>4, <2>5, <2>6, AtMostThrough
<1>7. CASE Reaching(B, q) # {}
  <2>. DEFINE x == Percentile(B, p)
              y == Percentile(B, q)
              G(k) == 100 * (B[k].count - Before(B, k).count)
              A(s, k) == Rank(B, s) - 100 * Before(B, k).count
  <2>1. Reaching(B, p) # {}
    BY <1>4, <1>7
  <2>2. PICK i \in Reaching(B, p) :
             /\ \A j \in Reaching(B, p) : i <= j
             /\ Before(B, i).le \in Nat /\ Before(B, i).le <= B[i].le
             /\ G(i) \in Nat \ {0} /\ A(p, i) \in Nat /\ A(p, i) <= G(i)
             /\ x = [num |-> Before(B, i).le * G(i) + (B[i].le - Before(B, i).le) * A(p, i),
                     den |-> G(i)]
    BY <2>1, OneReaches
  <2>3. PICK k \in Reaching(B, q) :
             /\ \A j \in Reaching(B, q) : k <= j
             /\ Before(B, k).le \in Nat /\ Before(B, k).le <= B[k].le
             /\ G(k) \in Nat \ {0} /\ A(q, k) \in Nat /\ A(q, k) <= G(k)
             /\ y = [num |-> Before(B, k).le * G(k) + (B[k].le - Before(B, k).le) * A(q, k),
                     den |-> G(k)]
    BY <1>7, OneReaches
  <2>4. i \in FiniteOnes(B) /\ k \in FiniteOnes(B) /\ i <= k
    BY <1>4, <2>2 DEF Reaching
  <2>5. CASE i = k
    <3>. DEFINE l == Before(B, i).le  h == B[i].le  g == G(i)  r == A(p, i)  s == A(q, i)
                c == Before(B, i).count  rp == Rank(B, p)  rq == Rank(B, q)
    <3>1. r = rp - 100 * c /\ s = rq - 100 * c /\ rp <= rq /\ rp \in Nat /\ rq \in Nat
      BY <1>2
    <3>2. /\ l \in Nat /\ h \in Nat /\ l <= h /\ g \in Nat \ {0}
          /\ r \in Nat /\ r <= g /\ s \in Nat /\ s <= g
          /\ x = [num |-> l * g + (h - l) * r, den |-> g]
          /\ y = [num |-> l * g + (h - l) * s, den |-> g]
      BY <1>3, <2>2, <2>3, <2>4, <2>5
    <3>3. 100 * c \in Int
      <4>1. c \in Nat
        <5>1. CASE i = 1
          BY <5>1 DEF Before
        <5>2. CASE i # 1
          <6>1. i - 1 \in 1..Len(B)
            BY <1>3, <2>4, <5>2, SortedBuckets
          <6>. QED  BY <5>2, <6>1, SortedBuckets DEF Before
        <5>. QED  BY <5>1, <5>2
      <4>. QED  BY <4>1
    <3>. HIDE DEF x, y, l, h, g, r, s, c, rp, rq
    <3>4. r <= s
      BY <3>1, <3>3
    <3>5. /\ l * g + (h - l) * r \in Nat /\ l * g + (h - l) * s \in Nat
          /\ l * g + (h - l) * r <= l * g + (h - l) * s
      BY <3>2, <3>4, Interpolated
    <3>. DEFINE u == l * g + (h - l) * r  v == l * g + (h - l) * s
    <3>6. u \in Nat /\ v \in Nat /\ u <= v /\ x.num = u /\ x.den = g /\ y.num = v /\ y.den = g
      BY <3>2, <3>5
    <3>. HIDE DEF u, v
    <3>7. u * g <= v * g
      BY <3>2, <3>6
    <3>. QED  BY <3>6, <3>7 DEF AtMost, x, y
  <2>6. CASE i < k
    <3>1. PICK a \in Reaching(B, p) :
              (\A j \in Reaching(B, p) : a <= j) /\ AtMost(x, Whole(B[a].le))
      BY <2>1, WithinBucket
    <3>2. PICK b \in Reaching(B, q) :
              (\A j \in Reaching(B, q) : b <= j) /\ AtMost(Whole(Before(B, b).le), y)
      BY <1>7, WithinBucket
    <3>3. \A j \in Reaching(B, p) \cup Reaching(B, q) : j \in Nat
      BY <1>3 DEF Reaching
    <3>4. a = i /\ b = k
      BY <2>2, <2>3, <3>1, <3>2, <3>3
    <3>5. /\ i \in 1..Len(B) /\ k - 1 \in 1..Len(B) /\ i <= k - 1 /\ k # 1
      BY <1>3, <2>4, <2>6, SortedBuckets
    <3>6. Before(B, k).le = B[k - 1].le
      BY <3>5 DEF Before
    <3>7. B[i].le <= B[k - 1].le /\ B[i].le \in Nat /\ B[k - 1].le \in Nat
      BY <3>5, SortedBuckets
    <3>8. x \in Fraction /\ y \in Fraction
      BY ValueFacts
    <3>9. AtMost(x, Whole(B[i].le)) /\ AtMost(Whole(B[k - 1].le), y)
      BY <3>1, <3>2, <3>4, <3>6
    <3>. HIDE DEF x, y
    <3>10. AtMost(x, y)
      BY <3>7, <3>8, <3>9, AtMostThrough
    <3>. QED  BY <3>10 DEF x, y
  <2>7. i = k \/ i < k
    BY <1>3, <2>4
  <2>. QED  BY <2>5, <2>6, <2>7
<1>. QED  BY <1>5, <1>6, <1>7

\* The percentiles of a single series lie on the side of each bound on which the rank
\* lies.
LEMMA SideOfEachBound ==
  ASSUME NEW f \in Series, NEW B, Ordered(B), Last(B).count # 0, Len(B) = Cardinality(Les),
         \A i \in 1..Cardinality(Les) : B[i] = [le |-> Ascending[i], count |-> f[Ascending[i]]],
         NEW p \in Percentages, NEW b \in Bounds
  PROVE  IF 100 * f[b] >= p * f[Inf]
         THEN AtMost(Percentile(B, p), Whole(b)) ELSE AtMost(Whole(b), Percentile(B, p))
<1>. DEFINE n == Cardinality(Les)
            value == Percentile(B, p)
            R == Reaching(B, p)
            rank == p * f[Inf]
<1>1. /\ n \in Nat /\ n >= 2 /\ Ascending \in [1..n -> Les]
      /\ \A i, j \in 1..n : i <= j => Ascending[i] <= Ascending[j]
      /\ \A x \in Les : \E i \in 1..n : Ascending[i] = x
      /\ Ascending[n] = Inf
  BY AscendingFacts
<1>2. /\ f \in [Les -> Counts] /\ \A x, y \in Les : x <= y => f[x] <= f[y]
      /\ \A x \in Les : f[x] \in Nat
      /\ b \in Les /\ Inf \in Les /\ b # Inf /\ b \in Nat
      /\ Les \subseteq Nat
  BY HistogramAssumption, InfFacts DEF Series, Les
<1>3. Len(B) = n /\ \A i \in 1..n : B[i].le = Ascending[i] /\ B[i].count = f[Ascending[i]]
  OBVIOUS
<1>4. Last(B) = B[n] /\ DOMAIN B = 1..n
  BY SortedBuckets
<1>5. Rank(B, p) = rank /\ rank \in Nat
  <2>1. Last(B).count = f[Inf]
    BY <1>1, <1>3, <1>4
  <2>2. p \in Nat /\ f[Inf] \in Nat
    BY <1>2 DEF Percentages
  <2>. QED  BY <2>1, <2>2 DEF Rank
<1>6. \A i \in 1..n : i \in R <=> Ascending[i] # Inf /\ 100 * f[Ascending[i]] >= rank
  BY <1>3, <1>4, <1>5 DEF Reaching, FiniteOnes
<1>7. R \subseteq 1..n
  BY <1>4 DEF Reaching, FiniteOnes
<1>8. PICK k \in 1..n : Ascending[k] = b
  BY <1>1, <1>2
<1>9. value \in Fraction
  BY ValueFacts
<1>10. \A i \in 1..n : Ascending[i] \in Les /\ Ascending[i] \in Nat /\ f[Ascending[i]] \in Nat
  BY <1>1, <1>2
<1>. HIDE DEF n, value, R, rank
<1>11. CASE 100 * f[b] >= rank
  <2>1. k \in R
    BY <1>2, <1>6, <1>8, <1>11
  <2>2. PICK i \in R : (\A j \in R : i <= j) /\ AtMost(value, Whole(B[i].le))
    BY <2>1, WithinBucket DEF R, value
  <2>3. i \in 1..n /\ i <= k
    BY <1>7, <2>1, <2>2
  <2>4. B[i].le = Ascending[i] /\ Ascending[i] <= b /\ Ascending[i] \in Nat
    BY <1>1, <1>3, <1>8, <1>10, <2>3
  <2>5. AtMost(value, Whole(b))
    BY <1>2, <1>9, <2>2, <2>4, AtMostWhole
  <2>. QED  BY <1>11, <2>5 DEF value, rank
<1>12. CASE ~(100 * f[b] >= rank)
  <2>1. ASSUME NEW i \in R PROVE i \in 1..n /\ k < i
    <3>1. i \in 1..n /\ 100 * f[Ascending[i]] >= rank
      BY <1>6, <1>7
    <3>2. SUFFICES ASSUME i <= k PROVE FALSE
      BY <1>1, <1>8, <3>1
    <3>3. f[Ascending[i]] <= f[b]
      BY <1>1, <1>2, <1>8, <1>10, <3>1, <3>2
    <3>4. f[Ascending[i]] \in Nat /\ f[b] \in Nat
      BY <1>2, <1>10, <3>1
    <3>. DEFINE u == f[Ascending[i]]  v == f[b]
    <3>5. u <= v /\ u \in Nat /\ v \in Nat /\ 100 * u >= rank /\ ~(100 * v >= rank)
      BY <1>12, <3>1, <3>3, <3>4
    <3>. HIDE DEF u, v
    <3>. QED  BY <1>5, <3>5
  <2>2. AtMost(Whole(b), value)
    <3>1. CASE R = {}
      <4>1. PICK m \in FiniteOnes(B) : /\ \A j \in FiniteOnes(B) : j <= m
                                       /\ value = [num |-> B[m].le, den |-> 1]
        BY <3>1, NoneReaches DEF R, value
      <4>2. k \in FiniteOnes(B) /\ m \in 1..n
        BY <1>2, <1>3, <1>4, <1>8 DEF FiniteOnes
      <4>3. B[m].le = Ascending[m] /\ b <= Ascending[m] /\ Ascending[m] \in Nat
        BY <1>1, <1>3, <1>8, <1>10, <4>1, <4>2
      <4>. QED  BY <1>2, <4>1, <4>3 DEF AtMost, Whole
    <3>2. CASE R # {}
      <4>1. PICK i \in R : AtMost(Whole(Before(B, i).le), value)
        BY <3>2, WithinBucket DEF R, value
      <4>2. i \in 1..n /\ k < i
        BY <2>1
      <4>3. i - 1 \in 1..n /\ k <= i - 1 /\ i # 1
        BY <1>1, <1>8, <4>2
      <4>4. Before(B, i).le = Ascending[i - 1]
        BY <1>3, <4>3 DEF Before
      <4>5. b <= Ascending[i - 1] /\ Ascending[i - 1] \in Nat
        BY <1>1, <1>8, <1>10, <4>3
      <4>. QED  BY <1>2, <1>9, <4>1, <4>4, <4>5, AtMostWhole
    <3>. QED  BY <3>1, <3>2
  <2>. QED  BY <1>12, <2>2 DEF value, rank
<1>. QED  BY <1>11, <1>12 DEF rank

\* What is extracted of a family is a snapshot, and its percentiles are right.
LEMMA ExtractedRight ==
  ASSUME family \in Seq(Series), family # <<>>, NEW order \in [Les -> SetToSeqs(DOMAIN family)],
         snapshot' = Extracted(Sorted(order)), family' = family
  PROVE  snapshot' \in Snapshot /\ PercentilesRight'
<1>. DEFINE B == Sorted(order)
<1>1. Ordered(B)
  BY SortedFacts
<1>2. /\ Len(B) \in Nat \ {0} /\ Last(B) = B[Len(B)] /\ Last(B).count \in Counts
  BY <1>1, SortedBuckets
<1>3. CASE Last(B).count = 0
  <2>1. snapshot' = [count |-> 0, at |-> [p \in {} |-> Percentile(B, p)]]
    BY <1>3 DEF Extracted
  <2>2. snapshot'.at \in [{} -> Fraction] /\ DOMAIN snapshot'.at = {}
    BY <2>1
  <2>. QED  BY <1>2, <1>3, <2>1, <2>2 DEF Snapshot, PercentilesRight
<1>4. CASE Last(B).count # 0
  <2>1. snapshot' = [count |-> Last(B).count, at |-> [p \in Percentages |-> Percentile(B, p)]]
    BY <1>4 DEF Extracted
  <2>2. \A p \in Percentages : Percentile(B, p) \in Fraction
    BY <1>1, <1>4, ValueFacts
  <2>. HIDE DEF B
  <2>3. /\ snapshot' \in Snapshot
        /\ DOMAIN snapshot'.at = Percentages
        /\ \A p \in Percentages : snapshot'.at[p] = Percentile(B, p)
    BY <1>2, <2>1, <2>2 DEF Snapshot
  <2>4. ASSUME NEW p \in Percentages, NEW q \in Percentages, p <= q
        PROVE  AtMost(snapshot'.at[p], snapshot'.at[q])
    BY <1>1, <1>4, <2>3, <2>4, PercentilesAscend
  <2>5. ASSUME NEW p \in Percentages
        PROVE  AtMost(snapshot'.at[p], Whole(Max(Bounds)))
    BY <1>1, <1>4, <2>3, ValueFacts
  <2>6. ASSUME NEW p \in Percentages, Len(family) = 1, NEW b \in Bounds
        PROVE  IF 100 * family[1][b] >= p * family[1][Inf]
               THEN AtMost(snapshot'.at[p], Whole(b)) ELSE AtMost(Whole(b), snapshot'.at[p])
    <3>1. family[1] \in Series
      BY <2>6
    <3>2. /\ Len(B) = Cardinality(Les)
          /\ \A i \in 1..Cardinality(Les) :
               B[i] = [le |-> Ascending[i], count |-> family[1][Ascending[i]]]
      BY <2>6, SortedFacts DEF B
    <3>3. IF 100 * family[1][b] >= p * family[1][Inf]
          THEN AtMost(Percentile(B, p), Whole(b)) ELSE AtMost(Whole(b), Percentile(B, p))
      BY <1>1, <1>4, <3>1, <3>2, SideOfEachBound
    <3>. QED  BY <2>3, <3>3
  <2>7. PercentilesRight'
    BY <2>3, <2>4, <2>5, <2>6 DEF PercentilesRight
  <2>. QED  BY <2>3, <2>7
<1>. QED  BY <1>3, <1>4

\* The strengthening: a snapshot is one of the family that is there.
HistInv ==
  /\ HistTypeOK
  /\ snapshot # NotYet => family # <<>>
  /\ PercentilesRight

\* Nothing is scraped at first.
LEMMA HistInitially == HistInit => HistInv
<1>. SUFFICES ASSUME HistInit PROVE HistInv
  OBVIOUS
<1>1. HistTypeOK
  BY HistogramAssumption DEF HistInit, HistTypeOK
<1>. QED  BY <1>1 DEF HistInit, HistInv, PercentilesRight

\* A scrape, its extraction and its end keep HistInv.
LEMMA HistStep == HistInv /\ (HistNext \/ UNCHANGED histVars) => HistInv'
<1>. SUFFICES ASSUME HistInv, HistNext \/ UNCHANGED histVars PROVE HistInv'
  OBVIOUS
<1>. USE DEF HistInv
<1>1. ASSUME NEW n \in 1..MaxSeries, NEW f \in [1..n -> Series], Scrape(f) PROVE HistInv'
  <2>1. f \in Seq(Series) /\ Len(f) = n /\ n <= MaxSeries
    BY HistogramAssumption
  <2>2. snapshot = NotYet /\ snapshot' = NotYet /\ family' = f
    BY <1>1 DEF Scrape
  <2>3. HistTypeOK'
    BY <2>1, <2>2 DEF HistTypeOK
  <2>. QED  BY <2>2, <2>3 DEF PercentilesRight
<1>2. ASSUME ExtractHistogram PROVE HistInv'
  <2>1. PICK order \in [Les -> SetToSeqs(DOMAIN family)] : snapshot' = Extracted(Sorted(order))
    BY <1>2 DEF ExtractHistogram
  <2>2. family # <<>> /\ family' = family /\ family \in Seq(Series) /\ Len(family) <= MaxSeries
    BY <1>2 DEF ExtractHistogram, HistTypeOK
  <2>3. snapshot' \in Snapshot /\ PercentilesRight'
    BY <2>1, <2>2, ExtractedRight
  <2>4. HistTypeOK'
    BY <2>2, <2>3 DEF HistTypeOK
  <2>. QED  BY <2>2, <2>3, <2>4
<1>3. ASSUME HistEnd PROVE HistInv'
  <2>1. family' = <<>> /\ snapshot' = NotYet
    BY <1>3 DEF HistEnd
  <2>2. HistTypeOK'
    BY <2>1, HistogramAssumption DEF HistTypeOK
  <2>. QED  BY <2>1, <2>2 DEF PercentilesRight
<1>4. ASSUME UNCHANGED histVars PROVE HistInv'
  BY <1>4 DEF histVars, HistTypeOK, PercentilesRight
<1>. QED  BY <1>1, <1>2, <1>3, <1>4 DEF HistNext
=============================================================================
