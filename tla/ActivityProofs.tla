--------------------------- MODULE ActivityProofs ----------------------------
(***************************************************************************)
(* For any number of requests, listings and entries.  The log is what was  *)
(* logged last, and /api/stats is wrong only when it changed in between:   *)
(* both need that the log never has more than MaxLen entries, and the      *)
(* second that a full one does not grow.  A logged success is counted for  *)
(* its minute unless a listing overlapped: while one listing or request    *)
(* uses the history, the success is in the one that it found and in the    *)
(* one that it leaves.  And no request panics unless a listing overlapped: *)
(* until then both of these are whole.                                     *)
(***************************************************************************)
EXTENDS Activity, SequenceTheorems, FiniteSetTheorems, TLAPS

From(s) == IF Len(s) > MaxLen THEN Len(s) - MaxLen ELSE 0

LogTypes == logs \in Seq(Entry) /\ logged \in Seq(Entry)

\* The total is what the log had when /api/stats took it, unless it changed.
TotalIsOld ==
  /\ stats \in 0 .. MaxLen \cup {NoTotal}
  /\ stats # NoTotal =>
       /\ "cleared" \notin changed => stats <= Len(logs)
       /\ "grown" \notin changed => Len(logs) <= stats

LogInv == LogTypes /\ LogIsRecent /\ TotalIsOld

\* What is left of a sequence without its first n elements.
LEMMA Latest ==
  ASSUME NEW s \in Seq(Entry), NEW n \in 0 .. Len(s)
  PROVE  /\ SubSeq(s, n + 1, Len(s)) \in Seq(Entry)
         /\ Len(SubSeq(s, n + 1, Len(s))) = Len(s) - n
         /\ \A i \in 1 .. Len(s) - n : SubSeq(s, n + 1, Len(s))[i] = s[n + i]
<1>1. Len(s) \in Nat /\ n \in Nat /\ n <= Len(s)
  OBVIOUS
<1>2. \A i \in (n + 1) .. Len(s) : s[i] \in Entry
  BY <1>1
<1>3. /\ SubSeq(s, n + 1, Len(s)) \in Seq(Entry)
      /\ Len(SubSeq(s, n + 1, Len(s))) =
           IF n + 1 <= Len(s) THEN Len(s) - (n + 1) + 1 ELSE 0
      /\ \A i \in 1 .. Len(s) - (n + 1) + 1 :
           SubSeq(s, n + 1, Len(s))[i] = s[(n + 1) + i - 1]
  BY <1>1, <1>2, SubSeqProperties
<1>4. ASSUME NEW i \in 1 .. Len(s) - n
      PROVE  SubSeq(s, n + 1, Len(s))[i] = s[n + i]
  <2>1. i \in 1 .. Len(s) - (n + 1) + 1 /\ (n + 1) + i - 1 = n + i
    BY <1>1
  <2> QED
    BY <1>3, <2>1
<1> QED
  BY <1>1, <1>3, <1>4

\* The log is as long as it may be.
LEMMA LogLength ==
  ASSUME LogTypes, LogIsRecent
  PROVE  /\ Len(logs) \in 0 .. MaxLen
         /\ Len(logged) > MaxLen => Len(logs) = MaxLen
         /\ Len(logged) <= MaxLen => logs = logged
         /\ \A i \in 1 .. Len(logs) : logs[i] = logged[From(logged) + i]
         /\ Len(logs) = Len(logged) - From(logged)
<1>1. Len(logged) \in Nat /\ MaxLen \in Nat \ {0}
  BY ActivityAssumption DEF LogTypes
<1>2. From(logged) \in Nat /\ From(logged) <= Len(logged)
  BY <1>1 DEF From
<1>3. logs = SubSeq(logged, From(logged) + 1, Len(logged))
  BY DEF LogIsRecent, From
<1>4. /\ Len(logs) = Len(logged) - From(logged)
      /\ \A i \in 1 .. Len(logs) : logs[i] = logged[From(logged) + i]
  <2>1. logged \in Seq(Entry) /\ From(logged) \in 0 .. Len(logged)
    BY <1>1, <1>2 DEF LogTypes
  <2>2. Len(SubSeq(logged, From(logged) + 1, Len(logged))) = Len(logged) - From(logged)
        /\ \A i \in 1 .. Len(logged) - From(logged) :
             SubSeq(logged, From(logged) + 1, Len(logged))[i] = logged[From(logged) + i]
    BY <2>1, Latest
  <2> QED
    BY <1>3, <2>2
<1>5. Len(logged) <= MaxLen => logs = logged
  <2> SUFFICES ASSUME Len(logged) <= MaxLen
               PROVE  logs = logged
    OBVIOUS
  <2>1. From(logged) = 0 /\ From(logged) + 1 = 1
    BY <1>1 DEF From
  <2>2. SubSeq(logged, 1, Len(logged)) = logged
    BY SubSeqFull DEF LogTypes
  <2> QED
    BY <1>3, <2>1, <2>2
<1> QED
  BY <1>1, <1>4, <1>5 DEF From

\* An entry more is the last one, and the oldest goes when there is no room.
LEMMA AppendKeeps ==
  ASSUME LogTypes, LogIsRecent, NEW entry \in Entry, AppendLog(entry)
  PROVE  /\ LogTypes' /\ LogIsRecent'
         /\ Len(logs') = IF Len(logs) < MaxLen THEN Len(logs) + 1 ELSE MaxLen
<1> DEFINE all == Append(logs, entry)
<1>1. Len(logged) \in Nat /\ Len(logs) \in Nat /\ MaxLen \in Nat \ {0}
  BY ActivityAssumption DEF LogTypes
<1>2. logged' = Append(logged, entry) /\ Len(logged') = Len(logged) + 1
  BY DEF AppendLog, LogTypes
<1>3. all \in Seq(Entry) /\ Len(all) = Len(logs) + 1
  BY DEF LogTypes
<1>4. CASE Len(logs) = MaxLen
  <2>1. logs' = SubSeq(all, 2, Len(all))
    <3>1. Len(all) > MaxLen /\ Len(all) - MaxLen + 1 = 2
      BY <1>1, <1>3, <1>4
    <3> QED
      BY <3>1 DEF AppendLog
  <2>2. From(logged') = From(logged) + 1 /\ From(logged) \in Nat
    BY <1>1, <1>2, <1>4, LogLength DEF From
  <2>3. logs' \in Seq(Entry) /\ Len(logs') = MaxLen
    BY <1>1, <1>3, <1>4, <2>1
  <2>4. ASSUME NEW i \in 1 .. MaxLen
        PROVE  logs'[i] = logged'[From(logged') + i]
    <3>1. logs'[i] = all[i + 1]
      BY <1>1, <1>3, <1>4, <2>1
    <3>2. CASE i = MaxLen
      <4>1. logs'[i] = entry
        BY <1>1, <1>4, <3>1, <3>2 DEF LogTypes
      <4>2. From(logged') + i = Len(logged) + 1
        BY <1>1, <1>4, <2>2, <3>2, LogLength DEF From
      <4> QED
        BY <1>1, <1>2, <4>1, <4>2 DEF LogTypes
    <3>3. CASE i < MaxLen
      <4>1. i + 1 \in 1 .. Len(logs)
        BY <1>1, <1>4, <3>3
      <4>2. all[i + 1] = logs[i + 1]
        BY <4>1 DEF LogTypes
      <4>3. logs[i + 1] = logged[From(logged) + (i + 1)]
        BY <4>1, LogLength
      <4>4. From(logged) + (i + 1) \in 1 .. Len(logged)
        BY <1>1, <2>2, <4>1, LogLength
      <4>5. From(logged') + i = From(logged) + (i + 1)
        BY <2>2
      <4> QED
        BY <1>2, <3>1, <4>2, <4>3, <4>4, <4>5 DEF LogTypes
    <3> QED
      BY <3>2, <3>3, <1>1
  <2>5. Len(logged') = From(logged') + MaxLen
    BY <1>1, <1>2, <1>4, <2>2, LogLength
  <2>6. logged' \in Seq(Entry)
    BY <1>2 DEF LogTypes
  <2> DEFINE sub == SubSeq(logged', From(logged') + 1, Len(logged'))
  <2>7. sub \in Seq(Entry) /\ Len(sub) = MaxLen
        /\ \A i \in 1 .. MaxLen : sub[i] = logged'[From(logged') + i]
    <3>1. From(logged') \in 0 .. Len(logged') /\ Len(logged') - From(logged') = MaxLen
      BY <1>1, <1>2, <2>2, <2>5
    <3> QED
      BY <2>6, <3>1, Latest
  <2>8. logs' = sub
    BY <2>3, <2>4, <2>7, SeqEqual
  <2>9. LogIsRecent'
    BY <2>8 DEF LogIsRecent, From
  <2> QED
    BY <1>4, <2>3, <2>6, <2>9 DEF LogTypes
<1>5. CASE Len(logs) < MaxLen
  <2>1. logs = logged
    BY <1>1, <1>5, LogLength
  <2>2. logs' = logged' /\ Len(logged') <= MaxLen
    BY <1>1, <1>2, <1>5, <2>1 DEF AppendLog, LogTypes
  <2>3. logged' \in Seq(Entry)
    BY <1>2 DEF LogTypes
  <2>4. SubSeq(logged', 1, Len(logged')) = logged'
    BY <2>3, SubSeqFull
  <2>5. Len(logs') = Len(logs) + 1
    BY <1>2, <2>1, <2>2
  <2>6. LogIsRecent'
    <3>1. From(logged') = 0 /\ From(logged') + 1 = 1
      BY <1>1, <1>2, <2>2 DEF From
    <3>2. logs' = SubSeq(logged', From(logged') + 1, Len(logged'))
      BY <2>2, <2>4, <3>1
    <3> QED
      BY <3>2 DEF LogIsRecent, From
  <2> QED
    BY <1>5, <2>2, <2>3, <2>5, <2>6 DEF LogTypes
<1> QED
  BY <1>1, <1>4, <1>5, LogLength

\* A log that is full stays as long as it is, and another one is noted to grow.
LEMMA AppendNoted ==
  ASSUME LogInv, NEW entry \in Entry, AppendLog(entry), UNCHANGED stats
  PROVE  TotalIsOld'
<1> USE DEF LogInv
<1>1. Len(logs) \in 0 .. MaxLen /\ MaxLen \in Nat
  BY LogLength, ActivityAssumption
<1>2. Len(logs') = IF Len(logs) < MaxLen THEN Len(logs) + 1 ELSE MaxLen
  BY AppendKeeps
<1>3. Len(logs) >= MaxLen => Len(logs) = MaxLen
  BY <1>1
<1>4. changed' = Changed(IF Len(logs) < MaxLen THEN {"grown"} ELSE {})
  BY DEF AppendLog
<1> QED
  BY <1>1, <1>2, <1>3, <1>4 DEF TotalIsOld, Changed, NoTotal

\* The log is empty at the start.
LEMMA LogInit == Init => LogInv
<1> SUFFICES ASSUME Init
             PROVE  LogInv
  OBVIOUS
<1>1. LogTypes /\ TotalIsOld
  BY ActivityAssumption DEF Init, LogTypes, TotalIsOld, NoTotal
<1>2. LogIsRecent
  BY ActivityAssumption DEF Init, LogIsRecent
<1> QED
  BY <1>1, <1>2 DEF LogInv

\* Whoever logs, clears or reads.
LEMMA LogNext == LogInv /\ [Next]_vars => LogInv'
<1> SUFFICES ASSUME LogInv, [Next]_vars
             PROVE  LogInv'
  OBVIOUS
<1> USE DEF LogInv
<1>1. CASE UNCHANGED <<logVars, stats>>
  BY <1>1 DEF LogTypes, LogIsRecent, TotalIsOld, logVars
<1>2. ASSUME NEW r \in Requests, EndRejected(r) \/ LogSuccess(r)
      PROVE  LogInv'
  <2>1. PICK ok \in BOOLEAN : AppendLog([request |-> r, ok |-> ok])
    BY <1>2 DEF EndRejected, LogSuccess
  <2>2. [request |-> r, ok |-> ok] \in Entry /\ UNCHANGED stats
    BY <1>2 DEF Entry, EndRejected, LogSuccess
  <2> QED
    BY <2>1, <2>2, AppendKeeps, AppendNoted
<1>3. CASE Clear
  <2>1. LogTypes' /\ LogIsRecent'
    BY <1>3, ActivityAssumption DEF Clear, LogTypes, LogIsRecent
  <2>2. TotalIsOld'
    BY <1>3, ActivityAssumption DEF Clear, TotalIsOld, Changed, NoTotal
  <2> QED
    BY <2>1, <2>2
<1>4. CASE StatsLen
  <2>1. Len(logs) \in 0 .. MaxLen
    BY LogLength
  <2> QED
    BY <1>4, <2>1 DEF StatsLen, logVars, LogTypes, LogIsRecent, TotalIsOld
<1>5. CASE StatsSnapshot
  BY <1>5 DEF StatsSnapshot, LogTypes, LogIsRecent, TotalIsOld
<1> QED
  BY <1>1, <1>2, <1>3, <1>4, <1>5
     DEF Next, Count, BeginListing, Start, Load, Store, Tick, vars

\* The log is the latest MaxLen entries since the last clear (logstore.go:27-57),
\* whatever MaxLen is and whoever uses it.
THEOREM LogCorrect == Spec => []LogIsRecent
<1>1. LogInv => LogIsRecent
  BY DEF LogInv
<1> QED
  BY <1>1, LogInit, LogNext, PTL DEF Spec

\* The success rate of /api/stats exceeds 100 % only when a log that was not full
\* has grown between its two looks at it (handlers.go:615-616).
THEOREM StatsCorrect == Spec => StatsDiffer
<1>1. LogInv /\ [Next]_vars =>
        [StatsSnapshot =>
           /\ Len(logs) > stats => "grown" \in changed
           /\ Len(logs) < stats => "cleared" \in changed]_vars
  <2> SUFFICES ASSUME LogInv, StatsSnapshot
               PROVE  /\ Len(logs) > stats => "grown" \in changed
                      /\ Len(logs) < stats => "cleared" \in changed
    OBVIOUS
  <2>1. stats \in 0 .. MaxLen /\ Len(logs) \in Nat /\ MaxLen \in Nat
    BY ActivityAssumption DEF StatsSnapshot, LogInv, TotalIsOld, LogTypes
  <2> QED
    BY <2>1 DEF StatsSnapshot, LogInv, TotalIsOld
<1> QED
  BY <1>1, LogInit, LogNext, PTL DEF Spec, StatsDiffer

------------------------------------------------------------------------------
(* What CleanupOldRequests keeps.                                          *)

Rank(S, i) == Cardinality({j \in S : j <= i})

\* No two indices have the same rank.
LEMMA RankIsUnique ==
  ASSUME NEW n \in Nat, NEW S \in SUBSET (1 .. n)
  PROVE  /\ \A i \in S : Rank(S, i) \in 1 .. Cardinality(S)
         /\ \A i, j \in S : Rank(S, i) = Rank(S, j) => i = j
         /\ IsFiniteSet(S) /\ Cardinality(S) \in Nat
<1>1. IsFiniteSet(S) /\ Cardinality(S) \in Nat
  <2>1. IsFiniteSet(1 .. n)
    BY FS_Interval
  <2> QED
    BY <2>1, FS_Subset, FS_CardinalityType
<1>2. ASSUME NEW i \in S
      PROVE  /\ IsFiniteSet({j \in S : j <= i})
             /\ Rank(S, i) \in 1 .. Cardinality(S)
  <2> DEFINE T == {j \in S : j <= i}
  <2>1. T \in SUBSET S /\ i \in T
    OBVIOUS
  <2>2. IsFiniteSet(T) /\ Cardinality(T) <= Cardinality(S)
    BY <1>1, <2>1, FS_Subset
  <2>3. Cardinality(T) \in Nat /\ Cardinality(T) # 0
    BY <2>1, <2>2, FS_CardinalityType, FS_EmptySet
  <2> QED
    BY <1>1, <2>2, <2>3 DEF Rank
<1>3. ASSUME NEW i \in S, NEW j \in S, i < j
      PROVE  Rank(S, i) # Rank(S, j)
  <2> DEFINE T == {k \in S : k <= i}
             U == {k \in S : k <= j}
  <2>1. T \in SUBSET U /\ j \in U /\ j \notin T
    <3>1. i \in Int /\ j \in Int /\ \A k \in S : k \in Int
      OBVIOUS
    <3>2. ~(j <= i) /\ j <= j /\ \A k \in S : k <= i => k <= j
      BY <1>3, <3>1
    <3> QED
      BY <3>2
  <2>2. IsFiniteSet(U)
    BY <1>2
  <2> QED
    BY <2>1, <2>2, FS_Subset DEF Rank
<1>4. ASSUME NEW i \in S, NEW j \in S, Rank(S, i) = Rank(S, j)
      PROVE  i = j
  <2>1. ~(i < j) /\ ~(j < i)
    BY <1>3, <1>4
  <2> QED
    BY <2>1
<1> QED
  BY <1>1, <1>2, <1>4

\* Every index is the one of its rank, and every rank is an index's.
LEMMA NthIsRanked ==
  ASSUME NEW n \in Nat, NEW S \in SUBSET (1 .. n)
  PROVE  /\ \A i \in S : Nth(S, Rank(S, i)) = i
         /\ \A k \in 1 .. Cardinality(S) : Nth(S, k) \in S
<1>1. ASSUME NEW i \in S
      PROVE  Nth(S, Rank(S, i)) = i
  <2>1. \A j \in S : Rank(S, j) = Rank(S, i) <=> j = i
    BY RankIsUnique
  <2> QED
    BY <2>1 DEF Nth, Rank
<1>2. ASSUME NEW k \in 1 .. Cardinality(S)
      PROVE  Nth(S, k) \in S
  <2>1. \E i \in S : Rank(S, i) = k
    <3> SUFFICES ASSUME \A i \in S : Rank(S, i) # k
                 PROVE  FALSE
      OBVIOUS
    <3> DEFINE T == (1 .. Cardinality(S)) \ {k}
               f == [i \in S |-> Rank(S, i)]
    <3>1. IsFiniteSet(S) /\ Cardinality(S) \in Nat
      BY RankIsUnique
    <3>2. IsFiniteSet(1 .. Cardinality(S))
          /\ Cardinality(1 .. Cardinality(S)) = Cardinality(S)
      BY <3>1, FS_Interval
    <3>3. IsFiniteSet(T) /\ Cardinality(T) < Cardinality(S)
      <4>1. IsFiniteSet(T) /\ Cardinality(T) = Cardinality(1 .. Cardinality(S)) - 1
        BY <3>2, FS_RemoveElement
      <4> QED
        BY <3>1, <3>2, <4>1
    <3>4. f \in [S -> T]
      BY RankIsUnique
    <3>5. \E i, j \in S : i # j /\ f[i] = f[j]
      <4> HIDE DEF f, T
      <4> QED
        BY <3>1, <3>3, <3>4, FS_PigeonHole
    <3> QED
      BY <3>5, RankIsUnique
  <2> QED
    BY <2>1 DEF Nth, Rank
<1> QED
  BY <1>1, <1>2

LEMMA EntriesType ==
  ASSUME NEW slice \in Slices, NEW noise \in BOOLEAN
  PROVE  /\ slice.length \in Nat
         /\ Entries(slice, noise) \in [1 .. slice.length -> Mark]
<1>1. slice.length \in Nat /\ slice.array \in Seq(Mark)
  BY DEF Slices
<1>2. \A i \in 1 .. slice.length : i <= Len(slice.array) => slice.array[i] \in Mark
  BY <1>1
<1>3. \A t \in {0, MaxTime + 1} : [request |-> "none", time |-> t] \in Mark
  BY ActivityAssumption DEF Mark, Times
<1> QED
  BY <1>1, <1>2, <1>3 DEF Entries

LEMMA CleanedType ==
  ASSUME NEW slice \in Slices, NEW cutoff, NEW noise \in BOOLEAN
  PROVE  Cleaned(slice, cutoff, noise) \in Seq(Mark)
<1> DEFINE es == Entries(slice, noise)
           S  == {i \in DOMAIN es : es[i].time > cutoff}
<1>1. slice.length \in Nat /\ es \in [1 .. slice.length -> Mark]
  BY EntriesType
<1>2. S \in SUBSET (1 .. slice.length)
  BY <1>1
<1>3. Cleaned(slice, cutoff, noise) = [k \in 1 .. Cardinality(S) |-> es[Nth(S, k)]]
  BY DEF Cleaned, Picked
<1> HIDE DEF es, S
<1>4. \A k \in 1 .. Cardinality(S) : es[Nth(S, k)] \in Mark
  BY <1>1, <1>2, NthIsRanked
<1>5. Cardinality(S) \in Nat
  BY <1>1, <1>2, RankIsUnique
<1> QED
  BY <1>3, <1>4, <1>5

\* Whatever lies behind the array, what is in it and young is kept.
LEMMA CleanedKeeps ==
  ASSUME NEW slice \in Slices, NEW cutoff, NEW noise \in BOOLEAN,
         NEW i \in 1 .. slice.length, i <= Len(slice.array),
         slice.array[i].time > cutoff
  PROVE  \E k \in 1 .. Len(Cleaned(slice, cutoff, noise)) :
           Cleaned(slice, cutoff, noise)[k] = slice.array[i]
<1> DEFINE es == Entries(slice, noise)
           S  == {j \in DOMAIN es : es[j].time > cutoff}
<1>1. slice.length \in Nat /\ es \in [1 .. slice.length -> Mark]
  BY EntriesType
<1>2. es[i] = slice.array[i]
  BY DEF Entries
<1>3. S \in SUBSET (1 .. slice.length) /\ i \in S
  BY <1>1, <1>2
<1>4. Cleaned(slice, cutoff, noise) = [k \in 1 .. Cardinality(S) |-> es[Nth(S, k)]]
  BY DEF Cleaned, Picked
<1> HIDE DEF es, S
<1>5. Rank(S, i) \in 1 .. Cardinality(S) /\ Nth(S, Rank(S, i)) = i
      /\ Cardinality(S) \in Nat
  BY <1>1, <1>3, RankIsUnique, NthIsRanked
<1> QED
  BY <1>2, <1>4, <1>5

------------------------------------------------------------------------------
(* Whoever uses the history.                                               *)

LEMMA CutoffGrows ==
  ASSUME NEW t \in Nat, NEW u \in Nat, t <= u
  PROVE  CutoffAt(t) \in Nat /\ CutoffAt(u) \in Nat /\ CutoffAt(t) <= CutoffAt(u)
BY ActivityAssumption DEF CutoffAt

\* A slice of one word of another.
LEMMA WordType ==
  ASSUME NEW s \in Slices, NEW t \in Slices, NEW w \in Words
  PROVE  /\ [s EXCEPT ![w] = t[w]] \in Slices
         /\ \A v \in Words : [s EXCEPT ![w] = t[w]][v] = IF v = w THEN t[v] ELSE s[v]
<1>1. CASE w = "array"
  BY <1>1 DEF Slices, Words
<1>2. CASE w = "length"
  BY <1>2 DEF Slices, Words
<1> QED
  BY <1>1, <1>2 DEF Words

\* A slice is its two words.
LEMMA SameWords ==
  ASSUME NEW s \in Slices, NEW t \in Slices, \A w \in Words : s[w] = t[w]
  PROVE  s = t
<1>1. s.array = t.array /\ s.length = t.length
  BY DEF Words
<1> QED
  BY <1>1 DEF Slices

LEMMA SliceType ==
  ASSUME NEW s \in Seq(Mark)
  PROVE  Slice(s) \in Slices /\ Slice(s).array = s /\ Slice(s).length = Len(s)
BY DEF Slice, Slices

LEMMA IdleType == Idle \in Progress /\ Idle.step = "idle" /\ Idle.time = 0
BY ActivityAssumption DEF Idle, Nil, Progress, Slice, Slices

\* A step of one user.
LEMMA OneUser ==
  ASSUME WindowTypeOK, NEW u \in Users, NEW p \in Progress,
         p.step = "idle" \/ p.todo # {},
         work' = [work EXCEPT ![u] = p]
  PROVE  /\ work' \in [Users -> Progress]
         /\ \A v \in Busy' : work'[v].todo # {}
         /\ work'[u] = p
         /\ \A v \in Users \ {u} : work'[v] = work[v]
         /\ Busy' = IF p.step = "idle" THEN Busy \ {u} ELSE Busy \cup {u}
<1>1. work \in [Users -> Progress]
  BY DEF WindowTypeOK
<1>2. /\ work' \in [Users -> Progress]
      /\ work'[u] = p
      /\ \A v \in Users \ {u} : work'[v] = work[v]
  BY <1>1
<1>3. Busy' = IF p.step = "idle" THEN Busy \ {u} ELSE Busy \cup {u}
  BY <1>2 DEF Busy
<1>4. \A v \in Busy' : work'[v].todo # {}
  <2>1. \A v \in Busy : work[v].todo # {}
    BY DEF WindowTypeOK
  <2> QED
    BY <1>2, <2>1 DEF Busy
<1> QED
  BY <1>2, <1>3, <1>4

Phases == {"open", "counted", "logged", "lost"}

\* A step of a user at work, which may end it.
LEMMA UserTypes ==
  ASSUME WindowTypeOK, NEW u \in Busy, NEW p \in Progress,
         p.step = "idle" \/ p.todo # {},
         work' = [work EXCEPT ![u] = p],
         u \in Listings => p.step \in {"idle", "load", "store"},
         history' \in Slices, countedAt' \in [Requests -> 0 .. MaxTime],
         UNCHANGED <<clock, suspect, overlapped>>,
         phase' \in [Requests -> Phases],
         p.step = "idle" \/ phase' = phase,
         \A r \in Requests \ {u} : phase'[r] = phase[r]
  PROVE  WindowTypeOK'
<1>1. u \in Users
  BY DEF Busy
<1>2. /\ work' \in [Users -> Progress]
      /\ \A v \in Busy' : work'[v].todo # {}
      /\ work'[u] = p
      /\ \A v \in Users \ {u} : work'[v] = work[v]
      /\ Busy' = IF p.step = "idle" THEN Busy \ {u} ELSE Busy \cup {u}
  BY <1>1, OneUser
<1>3. \A l \in Listings : work'[l].step \in {"idle", "load", "store"}
  <2>1. \A l \in Listings : l \in Users /\ work[l].step \in {"idle", "load", "store"}
    BY DEF WindowTypeOK, Users
  <2> QED
    BY <1>2, <2>1
<1>4. \A r, q \in Busy' \cap Requests : r = q /\ phase'[r] = "open"
  <2>1. \A r, q \in Busy \cap Requests : r = q /\ phase[r] = "open"
    BY DEF WindowTypeOK
  <2>2. CASE p.step = "idle"
    BY <1>2, <2>1, <2>2
  <2>3. CASE p.step # "idle"
    <3>1. Busy' = Busy /\ phase' = phase
      BY <1>2, <2>3
    <3> QED
      BY <2>1, <3>1
  <2> QED
    BY <2>2, <2>3
<1> QED
  BY <1>2, <1>3, <1>4 DEF WindowTypeOK, Phases

\* A user begins with both words to load.
LEMMA StartIs ==
  ASSUME WindowTypeOK, NEW u \in Users, Start(u),
         u \in Listings \/ (u \in Requests /\ phase[u] = "open" /\ Busy \cap Requests = {})
  PROVE  /\ WindowTypeOK'
         /\ work'[u].step = "load" /\ work'[u].todo = Words /\ work'[u].time = clock
         /\ \A v \in Users \ {u} : work'[v] = work[v]
         /\ Busy' = Busy \cup {u}
<1> DEFINE p == [Idle EXCEPT !.step = "load", !.todo = Words, !.time = clock]
<1>1. work' = [work EXCEPT ![u] = p]
  BY DEF Start
<1>2. /\ p.step = "load" /\ p.todo = Words /\ p.time = clock
      /\ p \in Progress /\ p.todo # {}
  <2>1. Idle \in Progress /\ clock \in 0 .. MaxTime
    BY IdleType, ActivityAssumption DEF WindowTypeOK
  <2>2. p.step = "load" /\ p.todo = Words /\ p.time = clock /\ p \in Progress
    BY <2>1 DEF Progress
  <2> QED
    BY <2>2 DEF Words
<1> HIDE DEF p
<1>3. /\ work' \in [Users -> Progress]
      /\ \A v \in Busy' : work'[v].todo # {}
      /\ work'[u] = p /\ Busy' = Busy \cup {u}
      /\ \A v \in Users \ {u} : work'[v] = work[v]
  BY <1>1, <1>2, OneUser
<1>4. \A l \in Listings : work'[l].step \in {"idle", "load", "store"}
  <2>1. \A l \in Listings : l \in Users /\ work[l].step \in {"idle", "load", "store"}
    BY DEF WindowTypeOK, Users
  <2> QED
    BY <1>2, <1>3, <2>1
<1>5. \A r, q \in Busy' \cap Requests : r = q /\ phase'[r] = "open"
  <2>1. /\ \A r, q \in Busy \cap Requests : r = q /\ phase[r] = "open"
        /\ phase' = phase /\ Requests \cap Listings = {}
    BY ActivityAssumption DEF WindowTypeOK, Start
  <2> QED
    BY <1>3, <2>1
<1>6. suspect' \subseteq Requests /\ overlapped' \in BOOLEAN
  BY DEF WindowTypeOK, Start
<1>7. UNCHANGED <<history, countedAt, phase, clock>>
  BY DEF Start
<1>8. WindowTypeOK'
  BY <1>3, <1>4, <1>5, <1>6, <1>7 DEF WindowTypeOK
<1> QED
  BY <1>2, <1>3, <1>8

\* The slice that counts, while one user is at work, and whether what the user has
\* done is done.
AtHand(u) == IF work[u].step \in {"load", "reload"} THEN history ELSE work[u].slice

Agreed(u) == \A w \in Words \ work[u].todo : work[u].slice[w] = history[w]

Loaded(u, w) == [work[u].slice EXCEPT ![w] = history[w]]

\* What may come of loading a word: there is one more to load, or none and a panic,
\* or none and a new slice to store.
LoadsOn(u, w) ==
  /\ Busy' = Busy /\ UNCHANGED <<countedAt, phase>>
  /\ Agreed(u) => Agreed(u)'
  /\ AtHand(u)' = history

PanicsOn(u, w) ==
  /\ work[u].todo = {w} /\ Panics(Loaded(u, w))
  /\ Busy' = Busy \ {u} /\ UNCHANGED countedAt

CleansUp(u, w) ==
  /\ work[u].todo = {w}
  /\ Busy' = Busy /\ UNCHANGED <<countedAt, phase>>
  /\ Agreed(u)'
  /\ \E noise \in BOOLEAN :
       AtHand(u)' = Slice(Cleaned(Loaded(u, w), CutoffAt(work[u].time), noise))

Appends(u, w) ==
  /\ u \in Requests /\ work[u].todo = {w}
  /\ Busy' = Busy /\ countedAt' = [countedAt EXCEPT ![u] = work[u].time]
  /\ UNCHANGED phase
  /\ Agreed(u)'
  /\ \E noise \in BOOLEAN :
       AtHand(u)' = Slice(Append(Entries(Loaded(u, w), noise),
                                 [request |-> u, time |-> work[u].time]))

LEMMA LoadedIs ==
  ASSUME WindowTypeOK, NEW u \in Users, NEW w \in Words
  PROVE  /\ work[u] \in Progress /\ work[u].slice \in Slices /\ history \in Slices
         /\ Loaded(u, w) \in Slices
         /\ \A v \in Words : Loaded(u, w)[v] = IF v = w THEN history[v] ELSE work[u].slice[v]
<1> DEFINE mine == work[u].slice
<1>1. work[u] \in Progress /\ mine \in Slices /\ history \in Slices
  BY DEF WindowTypeOK, Progress
<1> DEFINE theirs == history
           both == [mine EXCEPT ![w] = theirs[w]]
<1>2. Loaded(u, w) = both
  BY DEF Loaded
<1>3. /\ both \in Slices
      /\ \A v \in Words : both[v] = IF v = w THEN theirs[v] ELSE mine[v]
  <2> HIDE DEF mine, theirs
  <2>1. mine \in Slices /\ theirs \in Slices
    BY <1>1 DEF theirs
  <2> QED
    BY <2>1, WordType
<1> HIDE DEF both
<1> QED
  BY <1>1, <1>2, <1>3

\* Who has loaded all words, undisturbed, has the history.
LEMMA LoadedAll ==
  ASSUME WindowTypeOK, NEW u \in Users, NEW w \in Words,
         work[u].todo = {w}, Agreed(u)
  PROVE  Loaded(u, w) = history
<1>1. \A v \in Words : Loaded(u, w)[v] = history[v]
  BY LoadedIs DEF Agreed
<1> QED
  BY <1>1, LoadedIs, SameWords

\* Times are taken and forgotten, never made up.
TimesKept == \A v \in Users : work'[v].time \in {0, work[v].time}

\* A step of loading, when the work of u goes on as p.
LEMMA LoadFrame ==
  ASSUME WindowTypeOK, NEW u \in Users, NEW w \in Words, Load(u, w),
         NEW p \in Progress, p.step = "idle" \/ p.todo # {},
         work' = [work EXCEPT ![u] = p],
         u \in Listings => p.step \in {"idle", "load", "store"},
         countedAt' \in [Requests -> 0 .. MaxTime],
         p.time \in {0, work[u].time},
         UNCHANGED history,
         UNCHANGED <<suspect, overlapped>>,
         phase' \in [Requests -> Phases],
         p.step = "idle" \/ phase' = phase,
         \A r \in Requests \ {u} : phase'[r] = phase[r]
  PROVE  /\ WindowTypeOK' /\ TimesKept /\ work'[u] = p
         /\ Busy' = IF p.step = "idle" THEN Busy \ {u} ELSE Busy
<1>1. u \in Busy /\ UNCHANGED clock
  BY DEF Load, Busy
<1>2. history' \in Slices
  BY DEF WindowTypeOK
<1>3. WindowTypeOK'
  BY <1>1, <1>2, UserTypes
<1>4. /\ work'[u] = p /\ \A v \in Users \ {u} : work'[v] = work[v]
      /\ Busy' = IF p.step = "idle" THEN Busy \ {u} ELSE Busy \cup {u}
  BY OneUser
<1> QED
  BY <1>1, <1>3, <1>4 DEF TimesKept

\* A user loads a word.
LEMMA LoadIs ==
  ASSUME WindowTypeOK, NEW u \in Users, NEW w \in Words, Load(u, w)
  PROVE  /\ WindowTypeOK' /\ TimesKept
         /\ u \in Busy /\ AtHand(u) = history
         /\ UNCHANGED <<history, clock, suspect, overlapped>>
         /\ LoadsOn(u, w) \/ PanicsOn(u, w) \/ CleansUp(u, w) \/ Appends(u, w)
<1> DEFINE loaded == Loaded(u, w)
<1>1. /\ u \in Busy /\ AtHand(u) = history
      /\ work[u].step \in {"load", "reload"} /\ w \in work[u].todo
      /\ u \in Listings => work[u].step = "load"
      /\ UNCHANGED <<history, clock, suspect, overlapped>>
  BY DEF WindowTypeOK, Load, Busy, AtHand, Panic, CleanUp, AppendTo, windowVars
<1>2. /\ work[u] \in Progress /\ loaded \in Slices
      /\ work[u].slice \in Slices /\ history \in Slices
  BY LoadedIs
<1>3. countedAt \in [Requests -> 0 .. MaxTime] /\ phase \in [Requests -> Phases]
  BY DEF WindowTypeOK, Phases
<1>4. CASE work[u].todo # {w}
  <2> DEFINE p == [work[u] EXCEPT !.todo = work[u].todo \ {w}, !.slice = loaded]
  <2>1. work' = [work EXCEPT ![u] = p] /\ UNCHANGED <<countedAt, phase>>
    BY <1>4 DEF Load, Loaded, windowVars
  <2>2. /\ p \in Progress /\ p.step = work[u].step /\ p.slice = loaded
        /\ p.todo = work[u].todo \ {w} /\ p.time = work[u].time
    BY <1>2 DEF Progress
  <2>3. p.todo # {} /\ p.step # "idle"
    BY <1>1, <1>4, <2>2
  <2> HIDE DEF p
  <2>4. WindowTypeOK' /\ TimesKept /\ work'[u] = p /\ Busy' = Busy
    BY <1>1, <1>3, <2>1, <2>2, <2>3, LoadFrame
  <2>5. Agreed(u) => Agreed(u)'
    <3>1. \A v \in Words : loaded[v] = IF v = w THEN history[v] ELSE work[u].slice[v]
      BY LoadedIs
    <3> QED
      BY <1>1, <2>2, <2>4, <3>1 DEF Agreed
  <2>6. AtHand(u)' = history
    BY <1>1, <2>2, <2>4 DEF AtHand
  <2> QED
    BY <1>1, <2>1, <2>4, <2>5, <2>6 DEF LoadsOn
<1>5. CASE work[u].todo = {w} /\ Panics(loaded)
  <2>1. Panic(u)
    BY <1>5 DEF Load, Loaded
  <2>2. work' = [work EXCEPT ![u] = Idle] /\ UNCHANGED countedAt
    BY <2>1 DEF Panic, windowVars
  <2>3. phase' \in [Requests -> Phases] /\ \A r \in Requests \ {u} : phase'[r] = phase[r]
    BY <1>3, <2>1 DEF Panic, Phases
  <2>4. WindowTypeOK' /\ TimesKept /\ Busy' = Busy \ {u}
    BY <1>1, <1>3, <2>2, <2>3, IdleType, LoadFrame
  <2> QED
    BY <1>1, <1>5, <2>2, <2>4 DEF PanicsOn
<1>6. CASE work[u].todo = {w} /\ ~Panics(loaded) /\ work[u].step = "load"
  <2>1. CleanUp(u, loaded)
    BY <1>6 DEF Load, Loaded
  <2>2. PICK noise \in BOOLEAN :
          work' = [work EXCEPT ![u].step = "store", ![u].todo = Words,
                     ![u].slice = Slice(Cleaned(loaded, CutoffAt(work[u].time), noise))]
    BY <2>1 DEF CleanUp
  <2> DEFINE new == Slice(Cleaned(loaded, CutoffAt(work[u].time), noise))
             p == [work[u] EXCEPT !.step = "store", !.todo = Words, !.slice = new]
  <2>3. new \in Slices
    BY <1>2, CleanedType, SliceType
  <2>4. work' = [work EXCEPT ![u] = p] /\ UNCHANGED <<countedAt, phase>>
    BY <2>1, <2>2 DEF CleanUp, windowVars
  <2> HIDE DEF new
  <2>5. /\ p \in Progress /\ p.step = "store" /\ p.todo = Words /\ p.slice = new
        /\ p.time = work[u].time
    BY <1>2, <2>3 DEF Progress
  <2> HIDE DEF p
  <2>6. p.todo # {}
    BY <2>5 DEF Words
  <2>7. WindowTypeOK' /\ TimesKept /\ work'[u] = p /\ Busy' = Busy
    BY <1>1, <1>3, <2>4, <2>5, <2>6, LoadFrame
  <2>8. Agreed(u)' /\ AtHand(u)' = new
    BY <2>5, <2>7 DEF Agreed, AtHand
  <2> QED
    BY <1>1, <1>6, <2>4, <2>7, <2>8 DEF CleansUp, new
<1>7. CASE work[u].todo = {w} /\ ~Panics(loaded) /\ work[u].step = "reload"
  <2>1. AppendTo(u, loaded)
    BY <1>7 DEF Load, Loaded
  <2> DEFINE mark == [request |-> u, time |-> work[u].time]
  <2>2. PICK noise \in BOOLEAN :
          work' = [work EXCEPT ![u].step = "append", ![u].todo = Words,
                     ![u].slice = Slice(Append(Entries(loaded, noise), mark))]
    BY <2>1 DEF AppendTo
  <2> DEFINE new == Slice(Append(Entries(loaded, noise), mark))
             p == [work[u] EXCEPT !.step = "append", !.todo = Words, !.slice = new]
  <2>3. u \in Requests
    BY <1>1, <1>7 DEF Users
  <2>4. new \in Slices
    <3>1. Entries(loaded, noise) \in Seq(Mark)
      BY <1>2, EntriesType
    <3>2. mark \in Mark
      <4>1. work[u].time \in 0 .. MaxTime
        BY <1>2 DEF Progress
      <4>2. work[u].time \in Times
        BY <4>1, ActivityAssumption DEF Times
      <4> QED
        BY <2>3, <4>2 DEF Mark
    <3> QED
      BY <3>1, <3>2, SliceType, AppendProperties
  <2>5. /\ work' = [work EXCEPT ![u] = p] /\ UNCHANGED phase
        /\ countedAt' = [countedAt EXCEPT ![u] = work[u].time]
    BY <2>1, <2>2 DEF AppendTo
  <2> HIDE DEF new
  <2>6. /\ p \in Progress /\ p.step = "append" /\ p.todo = Words /\ p.slice = new
        /\ p.time = work[u].time
    BY <1>2, <2>4 DEF Progress
  <2> HIDE DEF p
  <2>7. p.todo # {} /\ u \notin Listings
    BY <1>1, <1>7, <2>6 DEF Words
  <2>8. countedAt' \in [Requests -> 0 .. MaxTime]
    BY <1>2, <1>3, <2>5 DEF Progress
  <2>9. WindowTypeOK' /\ TimesKept /\ work'[u] = p /\ Busy' = Busy
    BY <1>1, <1>3, <2>5, <2>6, <2>7, <2>8, LoadFrame
  <2>10. Agreed(u)' /\ AtHand(u)' = new
    BY <2>6, <2>9 DEF Agreed, AtHand
  <2> QED
    BY <1>1, <1>7, <2>3, <2>5, <2>9, <2>10 DEF Appends, new
<1> QED
  BY <1>1, <1>4, <1>5, <1>6, <1>7

\* A user stores a word; a listing that has stored both is done, a request goes on,
\* and is done the second time.
LEMMA StoreIs ==
  ASSUME WindowTypeOK, NEW u \in Users, NEW w \in Words, Store(u, w)
  PROVE  /\ WindowTypeOK'
         /\ u \in Busy /\ AtHand(u) = work[u].slice
         /\ UNCHANGED <<clock, countedAt, suspect, overlapped>>
         /\ \A v \in Users : work'[v].time \in {0, work[v].time, clock}
         /\ \A r \in Requests : phase'[r] \in {phase[r], "counted"}
         /\ \/ /\ Busy' = Busy
               /\ Agreed(u) => Agreed(u)' /\ AtHand(u)' = AtHand(u)
            \/ /\ Busy' = Busy \ {u}
               /\ Agreed(u) => history' = AtHand(u)
<1> DEFINE mine == work[u].slice
           theirs == history
           stored == [theirs EXCEPT ![w] = mine[w]]
<1>1. /\ u \in Busy /\ AtHand(u) = mine
      /\ work[u].step \in {"store", "append"} /\ w \in work[u].todo
      /\ UNCHANGED <<clock, countedAt, suspect, overlapped>>
  BY DEF WindowTypeOK, Store, Busy, AtHand
<1>2. work[u] \in Progress /\ mine \in Slices /\ theirs \in Slices
  BY LoadedIs
<1>3. history' = stored
  BY DEF Store
<1>4. /\ stored \in Slices
      /\ \A v \in Words : stored[v] = IF v = w THEN mine[v] ELSE theirs[v]
  <2> HIDE DEF mine, theirs
  <2> QED
    BY <1>2, WordType
<1> HIDE DEF stored
<1>5. countedAt' \in [Requests -> 0 .. MaxTime] /\ phase \in [Requests -> Phases]
  BY <1>1 DEF WindowTypeOK, Phases
<1>6. /\ phase' \in [Requests -> Phases]
      /\ \A r \in Requests \ {u} : phase'[r] = phase[r]
      /\ \A r \in Requests : phase'[r] \in {phase[r], "counted"}
  BY <1>5 DEF Store, Phases
<1>7. ASSUME NEW p \in Progress, p.step = "idle" \/ p.todo # {},
             work' = [work EXCEPT ![u] = p],
             u \in Listings => p.step \in {"idle", "load", "store"},
             p.step = "idle" \/ phase' = phase,
             p.time \in {0, work[u].time, clock}
      PROVE  /\ WindowTypeOK' /\ work'[u] = p
             /\ \A v \in Users : work'[v].time \in {0, work[v].time, clock}
             /\ Busy' = IF p.step = "idle" THEN Busy \ {u} ELSE Busy
  <2>1. WindowTypeOK'
    BY <1>1, <1>3, <1>4, <1>5, <1>6, <1>7, UserTypes
  <2>2. /\ work'[u] = p /\ \A v \in Users \ {u} : work'[v] = work[v]
        /\ Busy' = IF p.step = "idle" THEN Busy \ {u} ELSE Busy \cup {u}
    BY <1>7, OneUser
  <2> QED
    BY <1>1, <1>7, <2>1, <2>2
<1>8. CASE work[u].todo # {w}
  <2> DEFINE p == [work[u] EXCEPT !.todo = work[u].todo \ {w}]
  <2>1. work' = [work EXCEPT ![u] = p] /\ UNCHANGED phase
    BY <1>8 DEF Store
  <2>2. /\ p \in Progress /\ p.step = work[u].step /\ p.slice = mine
        /\ p.todo = work[u].todo \ {w} /\ p.time = work[u].time
    BY <1>2 DEF Progress
  <2>3. p.todo # {} /\ p.step # "idle"
    BY <1>1, <1>8, <2>2
  <2>4. u \in Listings => p.step \in {"idle", "load", "store"}
    BY <2>2 DEF WindowTypeOK
  <2> HIDE DEF p
  <2>5. /\ WindowTypeOK' /\ work'[u] = p /\ Busy' = Busy
        /\ \A v \in Users : work'[v].time \in {0, work[v].time, clock}
    BY <1>7, <2>1, <2>2, <2>3, <2>4
  <2>6. AtHand(u)' = mine
    BY <1>1, <2>2, <2>5 DEF AtHand
  <2>7. Agreed(u) => Agreed(u)'
    BY <1>1, <1>3, <1>4, <2>2, <2>5 DEF Agreed
  <2> QED
    BY <1>1, <1>6, <2>5, <2>6, <2>7
<1>9. ASSUME work[u].todo = {w}, Agreed(u)
      PROVE  history' = mine
  <2>1. \A v \in Words : stored[v] = mine[v]
    BY <1>4, <1>9 DEF Agreed
  <2> HIDE DEF mine, theirs
  <2>2. stored = mine
    BY <1>2, <1>4, <2>1, SameWords
  <2> QED
    BY <1>3, <2>2
<1>10. CASE work[u].todo = {w} /\ u \in Requests /\ work[u].step = "store"
  <2> DEFINE p == [Idle EXCEPT !.step = "reload", !.todo = Words, !.time = clock]
  <2>1. work' = [work EXCEPT ![u] = p] /\ UNCHANGED phase
    BY <1>10 DEF Store
  <2>2. clock \in 0 .. MaxTime /\ u \notin Listings
    BY <1>10, ActivityAssumption DEF WindowTypeOK
  <2>3. /\ p \in Progress /\ p.step = "reload" /\ p.todo = Words /\ p.time = clock
    BY <2>2, IdleType DEF Progress
  <2> HIDE DEF p
  <2>4. p.todo # {}
    BY <2>3 DEF Words
  <2>5. /\ WindowTypeOK' /\ work'[u] = p /\ Busy' = Busy
        /\ \A v \in Users : work'[v].time \in {0, work[v].time, clock}
    BY <1>7, <2>1, <2>2, <2>3, <2>4
  <2>6. Agreed(u)' /\ AtHand(u)' = history'
    BY <2>3, <2>5 DEF AtHand, Agreed
  <2> QED
    BY <1>1, <1>6, <1>9, <1>10, <2>5, <2>6
<1>11. CASE work[u].todo = {w} /\ ~(u \in Requests /\ work[u].step = "store")
  <2>1. work' = [work EXCEPT ![u] = Idle]
    BY <1>11 DEF Store
  <2>2. /\ WindowTypeOK' /\ Busy' = Busy \ {u}
        /\ \A v \in Users : work'[v].time \in {0, work[v].time, clock}
    BY <1>7, <2>1, IdleType
  <2> QED
    BY <1>1, <1>6, <1>9, <1>11, <2>2
<1> QED
  BY <1>8, <1>10, <1>11

------------------------------------------------------------------------------
(* What the history holds.                                                 *)

Holds(slice, r) ==
  \E i \in 1 .. slice.length :
    i <= Len(slice.array) /\ slice.array[i] = [request |-> r, time |-> countedAt[r]]

\* The slice that counts has r in it; who is at work is alone and has done its
\* part of the work.
Remembered(r) ==
  /\ Busy = {} => Holds(history, r)
  /\ \A u \in Busy : Busy = {u} /\ Agreed(u) /\ Holds(AtHand(u), r)

\* A request that no overlap has made suspect is remembered while it is young.
CountedInv ==
  /\ WindowTypeOK
  /\ \A u \in Users : work[u].time <= clock
  /\ \A r \in Busy \cap Requests : r \notin suspect => Busy = {r}
  /\ \A r \in Requests \ suspect : countedAt[r] > Cutoff => Remembered(r)

\* Nothing is counted at the start.
LEMMA CountedInit == Init => CountedInv
<1> SUFFICES ASSUME Init
             PROVE  CountedInv
  OBVIOUS
<1>1. Nil \in Slices /\ \A u \in Users : work[u] = Idle
  BY DEF Init, Nil, Slice, Slices
<1>2. Busy = {} /\ \A l \in Listings : work[l].step = "idle"
  BY <1>1, IdleType DEF Busy, Users
<1>3. 1 \in 1 .. MaxTime /\ 0 \in 0 .. MaxTime
  BY ActivityAssumption
<1>4. work \in [Users -> Progress]
  BY IdleType DEF Init
<1>5. WindowTypeOK
  BY <1>1, <1>2, <1>3, <1>4 DEF Init, WindowTypeOK
<1>6. \A r \in Requests : countedAt[r] = 0
  BY DEF Init
<1>7. Cutoff \in Nat /\ clock = 1
  BY CutoffGrows DEF Init, Cutoff
<1> QED
  BY <1>1, <1>2, <1>5, <1>6, <1>7, IdleType DEF CountedInv

\* The history and the log have lives of their own.
LEMMA MemoryStays ==
  ASSUME CountedInv, UNCHANGED <<history, work, countedAt, suspect, overlapped>>,
         clock' \in 1 .. MaxTime, clock <= clock',
         phase' \in [Requests -> Phases],
         \A r \in Requests : phase'[r] = phase[r] \/ r \notin Busy
  PROVE  CountedInv'
<1>1. Busy' = Busy /\ \A u : Agreed(u)' <=> Agreed(u)
  BY DEF Busy, Agreed
<1>2. WindowTypeOK'
  BY <1>1 DEF CountedInv, WindowTypeOK, Phases
<1>3. clock \in Nat /\ clock' \in Nat
  BY DEF CountedInv, WindowTypeOK
<1>4. Cutoff \in Nat /\ Cutoff' \in Nat /\ Cutoff <= Cutoff'
  BY <1>3, CutoffGrows DEF Cutoff
<1>5. \A u \in Users : work'[u].time <= clock'
  <2>1. \A u \in Users : work[u].time \in Nat /\ work[u].time <= clock
    BY DEF CountedInv, WindowTypeOK, Progress
  <2> QED
    BY <1>3, <2>1
<1>6. ASSUME NEW r \in Requests \ suspect', countedAt'[r] > Cutoff'
      PROVE  Remembered(r)'
  <2>1. countedAt[r] \in Nat
    BY DEF CountedInv, WindowTypeOK
  <2>2. Remembered(r)
    BY <1>4, <1>6, <2>1 DEF CountedInv
  <2> QED
    BY <1>1, <2>2 DEF Remembered, Holds, AtHand
<1> QED
  BY <1>1, <1>2, <1>5, <1>6 DEF CountedInv

\* A user that begins alone finds what is remembered; one that does not makes all
\* suspect.
LEMMA StartKeeps ==
  ASSUME CountedInv, NEW u \in Users, Start(u),
         u \in Listings \/ (u \in Requests /\ phase[u] = "open" /\ Busy \cap Requests = {})
  PROVE  CountedInv'
<1>1. /\ WindowTypeOK' /\ WindowTypeOK
      /\ work'[u].step = "load" /\ work'[u].todo = Words /\ work'[u].time = clock
      /\ \A v \in Users \ {u} : work'[v] = work[v]
      /\ Busy' = Busy \cup {u}
  BY StartIs DEF CountedInv
<1>2. /\ UNCHANGED <<history, countedAt, clock>> /\ Cutoff' = Cutoff
      /\ suspect' = IF Busy # {}
            THEN suspect \cup {r \in Requests : countedAt[r] > 0 \/ r \in Busy \cup {u}}
            ELSE suspect
  BY DEF Start, Cutoff
<1>3. Agreed(u)' /\ AtHand(u)' = history
  BY <1>1, <1>2 DEF Agreed, AtHand
<1>4. \A v \in Users : work'[v].time <= clock'
  <2>1. clock <= clock
    BY <1>1 DEF WindowTypeOK
  <2> QED
    BY <1>1, <1>2, <2>1 DEF CountedInv
<1>5. \A r \in Busy' \cap Requests : r \notin suspect' => Busy' = {r}
  BY <1>1, <1>2
<1>6. ASSUME NEW q \in Requests \ suspect', countedAt'[q] > Cutoff'
      PROVE  Remembered(q)'
  <2>1. Cutoff \in Nat /\ countedAt[q] \in Nat
    BY <1>1, CutoffGrows DEF WindowTypeOK, Cutoff
  <2>2. countedAt[q] > 0 /\ q \notin suspect
    BY <1>2, <1>6, <2>1
  <2>3. Busy = {}
    BY <1>2, <1>6, <2>2
  <2>4. Holds(history, q)
    BY <1>2, <1>6, <2>2, <2>3 DEF CountedInv, Remembered
  <2>5. Busy' = {u} /\ Holds(history, q)'
    BY <1>1, <1>2, <2>3, <2>4 DEF Holds
  <2> QED
    BY <1>2, <1>3, <2>5 DEF Remembered
<1> QED
  BY <1>1, <1>4, <1>5, <1>6 DEF CountedInv

LEMMA MarkType ==
  ASSUME WindowTypeOK, NEW u \in Requests
  PROVE  [request |-> u, time |-> work[u].time] \in Mark
<1>1. work[u].time \in 0 .. MaxTime
  BY DEF WindowTypeOK, Progress, Users
<1>2. work[u].time \in Times
  BY <1>1, ActivityAssumption DEF Times
<1> QED
  BY <1>2 DEF Mark

\* What is young is still there after cleaning up.
LEMMA CleanedHolds ==
  ASSUME WindowTypeOK, NEW r \in Requests, NEW cutoff \in Nat, NEW noise \in BOOLEAN,
         Holds(history, r), countedAt[r] > cutoff
  PROVE  Holds(Slice(Cleaned(history, cutoff, noise)), r)
<1> DEFINE kept == Cleaned(history, cutoff, noise)
           mark == [request |-> r, time |-> countedAt[r]]
<1>1. history \in Slices
  BY DEF WindowTypeOK
<1>2. PICK i \in 1 .. history.length :
        i <= Len(history.array) /\ history.array[i] = mark
  BY DEF Holds
<1>3. history.array[i].time > cutoff
  BY <1>2
<1>4. \E k \in 1 .. Len(kept) : kept[k] = history.array[i]
  BY <1>1, <1>2, <1>3, CleanedKeeps
<1>5. kept \in Seq(Mark)
  BY <1>1, CleanedType
<1> HIDE DEF kept
<1>6. Slice(kept).array = kept /\ Slice(kept).length = Len(kept)
  BY <1>5, SliceType
<1>7. Holds(Slice(kept), r)
  BY <1>2, <1>4, <1>5, <1>6 DEF Holds
<1> QED
  BY <1>7 DEF kept

\* And after appending, which puts the new entry last.
LEMMA AppendedHolds ==
  ASSUME NEW slice \in Slices, NEW noise \in BOOLEAN, NEW mark \in Mark
  PROVE  LET new == Slice(Append(Entries(slice, noise), mark)) IN
         /\ new.length = Len(new.array) /\ new.length = slice.length + 1
         /\ new.array[new.length] = mark
         /\ \A i \in 1 .. slice.length : i <= Len(slice.array) => new.array[i] = slice.array[i]
<1> DEFINE es == Entries(slice, noise)
           longer == Append(es, mark)
<1>1. slice.length \in Nat /\ es \in [1 .. slice.length -> Mark]
  BY EntriesType
<1>2. \A i \in 1 .. slice.length : i <= Len(slice.array) => es[i] = slice.array[i]
  BY DEF Entries
<1> HIDE DEF es
<1>3. es \in Seq(Mark) /\ Len(es) = slice.length
  BY <1>1
<1>4. /\ longer \in Seq(Mark) /\ Len(longer) = slice.length + 1
      /\ \A i \in 1 .. slice.length : longer[i] = es[i]
      /\ longer[slice.length + 1] = mark
  BY <1>3, AppendProperties
<1> HIDE DEF longer
<1>5. Slice(longer).array = longer /\ Slice(longer).length = slice.length + 1
  BY <1>4, SliceType
<1>6. /\ Slice(longer).length = Len(Slice(longer).array)
      /\ Slice(longer).length = slice.length + 1
      /\ Slice(longer).array[Slice(longer).length] = mark
      /\ \A i \in 1 .. slice.length :
           i <= Len(slice.array) => Slice(longer).array[i] = slice.array[i]
  BY <1>2, <1>4, <1>5
<1> QED
  BY <1>6 DEF longer, es

\* What is loaded, cleaned up or appended to holds what the history held.
LEMMA LoadKeeps ==
  ASSUME CountedInv, NEW u \in Users, NEW w \in Words, Load(u, w)
  PROVE  CountedInv'
<1>1. /\ WindowTypeOK' /\ WindowTypeOK /\ TimesKept
      /\ u \in Busy /\ AtHand(u) = history
      /\ UNCHANGED <<history, clock, suspect, overlapped>>
      /\ LoadsOn(u, w) \/ PanicsOn(u, w) \/ CleansUp(u, w) \/ Appends(u, w)
  BY LoadIs DEF CountedInv
<1>2. Cutoff' = Cutoff /\ clock \in Nat /\ Cutoff \in Nat
  BY <1>1, CutoffGrows DEF Cutoff, WindowTypeOK
<1>3. \A v \in Users : work'[v].time <= clock'
  BY <1>1, <1>2 DEF TimesKept, CountedInv
<1>4. Busy' = Busy \/ Busy' = Busy \ {u}
  BY <1>1 DEF LoadsOn, PanicsOn, CleansUp, Appends
<1>5. \A r \in Busy' \cap Requests : r \notin suspect' => Busy' = {r}
  BY <1>1, <1>4 DEF CountedInv
<1>6. ASSUME NEW q \in Requests \ suspect', countedAt[q] > Cutoff,
             countedAt'[q] = countedAt[q]
      PROVE  Remembered(q)'
  <2>1. Remembered(q)
    BY <1>1, <1>6 DEF CountedInv
  <2>2. Busy = {u} /\ Agreed(u) /\ Holds(history, q)
    BY <1>1, <2>1 DEF Remembered
  <2>3. Holds(history, q)'
    BY <1>1, <1>6, <2>2 DEF Holds
  <2>4. CASE LoadsOn(u, w)
    <3>1. Busy' = {u} /\ Agreed(u)' /\ AtHand(u)' = history'
      BY <1>1, <2>2, <2>4 DEF LoadsOn
    <3> QED
      BY <2>3, <3>1 DEF Remembered
  <2>5. CASE PanicsOn(u, w)
    <3>1. Busy' = {}
      BY <2>2, <2>5 DEF PanicsOn
    <3> QED
      BY <2>3, <3>1 DEF Remembered
  <2>6. CASE CleansUp(u, w)
    <3>1. Busy' = {u} /\ Agreed(u)' /\ Loaded(u, w) = history
      BY <1>1, <2>2, <2>6, LoadedAll DEF CleansUp
    <3>2. PICK noise \in BOOLEAN :
            AtHand(u)' = Slice(Cleaned(history, CutoffAt(work[u].time), noise))
      BY <2>6, <3>1 DEF CleansUp
    <3>3. CutoffAt(work[u].time) \in Nat /\ countedAt[q] > CutoffAt(work[u].time)
      <4>1. work[u].time \in Nat /\ work[u].time <= clock
        BY <1>1 DEF CountedInv, WindowTypeOK, Progress
      <4>2. CutoffAt(work[u].time) \in Nat /\ CutoffAt(work[u].time) <= Cutoff
        BY <1>2, <4>1, CutoffGrows DEF Cutoff
      <4>3. countedAt[q] \in Nat
        BY <1>1 DEF WindowTypeOK
      <4> QED
        BY <1>2, <1>6, <4>2, <4>3
    <3> DEFINE cutoff == CutoffAt(work[u].time)
               new == Slice(Cleaned(history, cutoff, noise))
    <3>4. Holds(new, q)
      <4> HIDE DEF cutoff
      <4>1. cutoff \in Nat /\ countedAt[q] > cutoff
        BY <3>3 DEF cutoff
      <4> QED
        BY <1>1, <2>2, <4>1, CleanedHolds
    <3>5. AtHand(u)' = new
      BY <3>2
    <3> HIDE DEF new
    <3>6. Holds(AtHand(u), q)'
      BY <1>6, <3>4, <3>5 DEF Holds
    <3> QED
      BY <3>1, <3>6 DEF Remembered
  <2>7. CASE Appends(u, w)
    <3>1. Busy' = {u} /\ Agreed(u)' /\ Loaded(u, w) = history
      BY <1>1, <2>2, <2>7, LoadedAll DEF Appends
    <3> DEFINE mark == [request |-> u, time |-> work[u].time]
    <3>2. PICK noise \in BOOLEAN :
            AtHand(u)' = Slice(Append(Entries(history, noise), mark))
      BY <2>7, <3>1 DEF Appends
    <3>3. mark \in Mark
      BY <1>1, <2>7, MarkType DEF Appends
    <3> DEFINE new == Slice(Append(Entries(history, noise), mark))
    <3>4. /\ new.length = Len(new.array) /\ new.length = history.length + 1
          /\ \A i \in 1 .. history.length : i <= Len(history.array) =>
               new.array[i] = history.array[i]
      <4> HIDE DEF mark
      <4>1. history \in Slices
        BY <1>1 DEF WindowTypeOK
      <4> QED
        BY <3>3, <4>1, AppendedHolds
    <3>5. AtHand(u)' = new
      BY <3>2
    <3> HIDE DEF new
    <3>6. Holds(new, q)
      <4>1. history.length \in Nat
        BY <1>1 DEF WindowTypeOK, Slices
      <4> QED
        BY <2>2, <3>4, <4>1 DEF Holds
    <3>7. Holds(AtHand(u), q)'
      BY <1>6, <3>5, <3>6 DEF Holds
    <3> QED
      BY <3>1, <3>7 DEF Remembered
  <2> QED
    BY <1>1, <2>4, <2>5, <2>6, <2>7
<1>7. ASSUME u \notin suspect', Appends(u, w)
      PROVE  Remembered(u)'
  <2>1. Busy' = {u} /\ Agreed(u)' /\ u \in Requests
    BY <1>1, <1>7 DEF Appends, CountedInv
  <2> DEFINE mark == [request |-> u, time |-> work[u].time]
  <2>2. PICK noise \in BOOLEAN :
          AtHand(u)' = Slice(Append(Entries(Loaded(u, w), noise), mark))
    BY <1>7 DEF Appends
  <2>3. mark \in Mark /\ Loaded(u, w) \in Slices
    BY <1>1, <2>1, MarkType, LoadedIs
  <2> DEFINE loaded == Loaded(u, w)
             new == Slice(Append(Entries(loaded, noise), mark))
  <2>4. /\ new.length = Len(new.array) /\ new.length = loaded.length + 1
        /\ new.array[new.length] = mark
    <3> HIDE DEF mark, loaded
    <3>1. loaded \in Slices
      BY <2>3 DEF loaded
    <3> QED
      BY <2>3, <3>1, AppendedHolds
  <2>5. AtHand(u)' = new /\ loaded.length \in Nat
    BY <2>2, <2>3 DEF Slices
  <2>6. countedAt'[u] = work[u].time
    BY <1>1, <1>7, <2>1 DEF Appends, WindowTypeOK
  <2> HIDE DEF new, loaded
  <2>7. new.array[new.length] = [request |-> u, time |-> countedAt'[u]]
    BY <2>4, <2>6
  <2>8. Holds(AtHand(u), u)'
    <3>1. new.length \in 1 .. new.length /\ new.length <= Len(new.array)
      BY <2>4, <2>5
    <3>2. \E i \in 1 .. new.length :
            /\ i <= Len(new.array)
            /\ new.array[i] = [request |-> u, time |-> countedAt'[u]]
      BY <2>7, <3>1
    <3> QED
      BY <2>5, <3>2 DEF Holds
  <2> QED
    BY <2>1, <2>8 DEF Remembered
<1>8. ASSUME NEW q \in Requests \ suspect', countedAt'[q] > Cutoff'
      PROVE  Remembered(q)'
  <2>1. CASE countedAt'[q] = countedAt[q]
    BY <1>2, <1>6, <1>8, <2>1
  <2>2. CASE countedAt'[q] # countedAt[q]
    <3>1. Appends(u, w) /\ q = u
      BY <1>1, <2>2 DEF LoadsOn, PanicsOn, CleansUp, Appends, WindowTypeOK
    <3> QED
      BY <1>7, <1>8, <3>1
  <2> QED
    BY <2>1, <2>2
<1> QED
  BY <1>1, <1>3, <1>5, <1>8 DEF CountedInv

LEMMA StoreKeeps ==
  ASSUME CountedInv, NEW u \in Users, NEW w \in Words, Store(u, w)
  PROVE  CountedInv'
<1>1. /\ WindowTypeOK' /\ WindowTypeOK
      /\ u \in Busy /\ AtHand(u) = work[u].slice
      /\ UNCHANGED <<clock, countedAt, suspect, overlapped>>
      /\ \A v \in Users : work'[v].time \in {0, work[v].time, clock}
      /\ \/ /\ Busy' = Busy
            /\ Agreed(u) => Agreed(u)' /\ AtHand(u)' = AtHand(u)
         \/ /\ Busy' = Busy \ {u}
            /\ Agreed(u) => history' = AtHand(u)
  BY StoreIs DEF CountedInv
<1>2. Cutoff' = Cutoff /\ clock \in Nat
  BY <1>1 DEF Cutoff, WindowTypeOK
<1>3. \A v \in Users : work'[v].time <= clock'
  BY <1>1, <1>2 DEF CountedInv
<1>4. \A r \in Busy' \cap Requests : r \notin suspect' => Busy' = {r}
  BY <1>1 DEF CountedInv
<1>5. ASSUME NEW q \in Requests \ suspect', countedAt'[q] > Cutoff'
      PROVE  Remembered(q)'
  <2>1. Remembered(q)
    BY <1>1, <1>2, <1>5 DEF CountedInv
  <2>2. Busy = {u} /\ Agreed(u) /\ Holds(AtHand(u), q)
    BY <1>1, <2>1 DEF Remembered
  <2>3. CASE Busy' = Busy /\ Agreed(u)' /\ AtHand(u)' = AtHand(u)
    <3>1. Holds(AtHand(u), q)'
      BY <1>1, <2>2, <2>3 DEF Holds
    <3> QED
      BY <2>2, <2>3, <3>1 DEF Remembered
  <2>4. CASE Busy' = Busy \ {u} /\ history' = AtHand(u)
    <3>1. Busy' = {} /\ Holds(history, q)'
      BY <1>1, <2>2, <2>4 DEF Holds
    <3> QED
      BY <3>1 DEF Remembered
  <2> QED
    BY <1>1, <2>2, <2>3, <2>4
<1> QED
  BY <1>1, <1>3, <1>4, <1>5 DEF CountedInv

\* The steps that leave the history alone.
LEMMA OtherSteps ==
  ASSUME [Next]_vars,
         \A r \in Requests : ~Count(r), \A l \in Listings : ~BeginListing(l),
         \A u \in Users : \A w \in Words : ~Load(u, w) /\ ~Store(u, w)
  PROVE  \/ \E r \in Requests : EndRejected(r) \/ LogSuccess(r)
         \/ Clear \/ StatsLen \/ StatsSnapshot \/ Tick \/ UNCHANGED vars
BY DEF Next

\* Whoever uses the history or lets time pass.
LEMMA CountedNext == CountedInv /\ [Next]_vars => CountedInv'
<1> SUFFICES ASSUME CountedInv, [Next]_vars
             PROVE  CountedInv'
  OBVIOUS
<1>1. ASSUME NEW r \in Requests, Count(r)
      PROVE  CountedInv'
  <2>1. r \in Users /\ Start(r) /\ phase[r] = "open" /\ Busy \cap Requests = {}
    BY <1>1 DEF Count, Users
  <2> QED
    BY <2>1, StartKeeps
<1>2. ASSUME NEW l \in Listings, BeginListing(l)
      PROVE  CountedInv'
  <2>1. l \in Users /\ Start(l)
    BY <1>2 DEF BeginListing, Users
  <2> QED
    BY <2>1, StartKeeps
<1>3. ASSUME NEW u \in Users, NEW w \in Words, Load(u, w) \/ Store(u, w)
      PROVE  CountedInv'
  BY <1>3, LoadKeeps, StoreKeeps
<1>4. CASE \/ \E r \in Requests : EndRejected(r) \/ LogSuccess(r)
           \/ Clear \/ StatsLen \/ StatsSnapshot \/ Tick \/ UNCHANGED vars
  <2> USE DEF CountedInv, WindowTypeOK
  <2>1. UNCHANGED <<history, work, countedAt, suspect, overlapped>>
    BY <1>4 DEF EndRejected, LogSuccess, Clear, StatsLen, StatsSnapshot, Tick, vars,
                windowVars
  <2>2. clock' \in 1 .. MaxTime /\ clock <= clock'
    <3>1. clock \in Nat /\ clock \in 1 .. MaxTime /\ MaxTime \in Nat
      BY ActivityAssumption
    <3>2. CASE Tick
      BY <3>1, <3>2 DEF Tick
    <3>3. CASE UNCHANGED clock
      BY <3>1, <3>3
    <3> QED
      BY <1>4, <3>2, <3>3
         DEF EndRejected, LogSuccess, Clear, StatsLen, StatsSnapshot, vars
  <2>3. phase' \in [Requests -> Phases]
    BY <1>4 DEF EndRejected, LogSuccess, Clear, StatsLen, StatsSnapshot, Tick, vars, Phases
  <2>4. \A r \in Requests : phase'[r] = phase[r] \/ r \notin Busy
    <3>1. \A r \in Requests : r \in Busy => phase[r] = "open"
      OBVIOUS
    <3>2. ASSUME NEW q \in Requests, EndRejected(q) \/ LogSuccess(q)
          PROVE  q \notin Busy /\ \A r \in Requests \ {q} : phase'[r] = phase[r]
      BY <3>1, <3>2 DEF EndRejected, LogSuccess
    <3>3. CASE phase' = phase
      BY <3>3
    <3> QED
      BY <1>4, <3>2, <3>3 DEF Clear, StatsLen, StatsSnapshot, Tick, vars
  <2> QED
    BY <2>1, <2>2, <2>3, <2>4, MemoryStays
<1> QED
  BY <1>1, <1>2, <1>3, <1>4, OtherSteps

\* A request in the log is in its key's requests of the last minute while it is
\* that young (handlers.go:354-355), unless an overlap made it suspect
\* (handlers.go:461), for any number of requests and listings, any minute and
\* whatever earlier overlaps left behind.
THEOREM CountedCorrect == Spec => []LoggedIsCounted
<1>1. CountedInv /\ LogInv => LoggedIsCounted
  <2> SUFFICES ASSUME CountedInv, LogInv, Busy = {}, NEW i \in DOMAIN logged,
                      logged[i].request \notin suspect,
                      countedAt[logged[i].request] > Cutoff
               PROVE  logged[i].request \in RequestsInLastMinute
    BY DEF LoggedIsCounted
  <2> DEFINE r == logged[i].request
  <2>1. r \in Requests
    <3>1. logged[i] \in Entry
      BY DEF LogInv, LogTypes
    <3> QED
      BY <3>1 DEF Entry
  <2> HIDE DEF r
  <2>2. r \notin suspect /\ countedAt[r] > Cutoff
    BY DEF r
  <2>3. Holds(history, r)
    BY <2>1, <2>2 DEF CountedInv, Remembered
  <2>4. r \in RequestsInLastMinute
    BY <2>1, <2>2, <2>3 DEF Holds, RequestsInLastMinute
  <2> QED
    BY <2>4 DEF r
<1> QED
  BY <1>1, LogInit, LogNext, CountedInit, CountedNext, PTL DEF Spec

------------------------------------------------------------------------------
(* Panics.                                                                 *)

Whole(slice) == slice.length = Len(slice.array)

\* Until a listing overlaps, one at a time uses the history, and what it has found
\* and what it leaves are whole.
WholeInv ==
  ~overlapped =>
    /\ Busy = {} => Whole(history)
    /\ \A u \in Busy : Busy = {u} /\ Agreed(u) /\ Whole(AtHand(u))
    /\ \A r \in Requests : phase[r] # "lost"

LEMMA WholeInit == Init => WholeInv
<1> SUFFICES ASSUME Init
             PROVE  WholeInv
  OBVIOUS
<1>1. Busy = {}
  BY IdleType DEF Init, Busy
<1>2. Whole(history)
  BY DEF Init, Nil, Slice, Whole
<1> QED
  BY <1>1, <1>2 DEF Init, WholeInv

\* What is whole does not panic, and is made whole again.
LEMMA WholeIsSafe ==
  ASSUME NEW slice \in Slices
  PROVE  /\ Whole(slice) => ~Panics(slice)
         /\ \A cutoff : \A noise \in BOOLEAN : Whole(Slice(Cleaned(slice, cutoff, noise)))
         /\ \A mark \in Mark : \A noise \in BOOLEAN :
              Whole(Slice(Append(Entries(slice, noise), mark)))
<1>1. Whole(slice) => ~Panics(slice)
  BY DEF Whole, Panics, Slices
<1>2. ASSUME NEW cutoff, NEW noise \in BOOLEAN
      PROVE  Whole(Slice(Cleaned(slice, cutoff, noise)))
  BY DEF Whole, Slice
<1>3. ASSUME NEW mark \in Mark, NEW noise \in BOOLEAN
      PROVE  Whole(Slice(Append(Entries(slice, noise), mark)))
  BY DEF Whole, Slice
<1> QED
  BY <1>1, <1>2, <1>3

LEMMA WholeStart ==
  ASSUME WindowTypeOK, WholeInv, NEW u \in Users, Start(u),
         u \in Listings \/ (u \in Requests /\ phase[u] = "open" /\ Busy \cap Requests = {})
  PROVE  WholeInv'
<1>1. /\ work'[u].step = "load" /\ work'[u].todo = Words
      /\ Busy' = Busy \cup {u}
  BY StartIs
<1>2. /\ UNCHANGED <<history, phase>>
      /\ overlapped' = (overlapped \/ (Busy # {} /\ (Busy \cup {u}) \cap Listings # {}))
  BY DEF Start
<1>3. Agreed(u)' /\ AtHand(u)' = history
  BY <1>1, <1>2 DEF Agreed, AtHand
<1> SUFFICES ASSUME ~overlapped'
             PROVE  WholeInv'
  BY DEF WholeInv
<1>4. ~overlapped /\ Busy = {}
  <2>1. CASE Busy # {} /\ u \in Listings
    BY <1>2, <2>1
  <2>2. CASE Busy # {} /\ Busy \cap Requests = {}
    <3>1. Busy \cap Listings # {}
      BY <2>2 DEF Busy, Users
    <3> QED
      BY <1>2, <3>1
  <2> QED
    BY <1>2, <2>1, <2>2
<1>5. Busy' = {u} /\ Whole(AtHand(u))'
  BY <1>1, <1>2, <1>3, <1>4 DEF WholeInv, Whole
<1> QED
  BY <1>2, <1>3, <1>4, <1>5 DEF WholeInv

LEMMA WholeLoad ==
  ASSUME WindowTypeOK, WholeInv, NEW u \in Users, NEW w \in Words, Load(u, w)
  PROVE  WholeInv'
<1>1. /\ u \in Busy /\ AtHand(u) = history
      /\ UNCHANGED <<history, overlapped>>
      /\ LoadsOn(u, w) \/ PanicsOn(u, w) \/ CleansUp(u, w) \/ Appends(u, w)
  BY LoadIs
<1> SUFFICES ASSUME ~overlapped
             PROVE  WholeInv'
  BY <1>1 DEF WholeInv
<1>2. /\ Busy = {u} /\ Agreed(u) /\ Whole(history) /\ history \in Slices
      /\ \A r \in Requests : phase[r] # "lost"
  BY <1>1 DEF WholeInv, WindowTypeOK
<1>3. work[u].todo = {w} => Loaded(u, w) = history
  BY <1>2, LoadedAll
<1>4. ~PanicsOn(u, w)
  BY <1>2, <1>3, WholeIsSafe DEF PanicsOn
<1>5. Busy' = {u} /\ UNCHANGED phase /\ Agreed(u)'
  BY <1>1, <1>2, <1>4 DEF LoadsOn, CleansUp, Appends
<1>6. Whole(AtHand(u))'
  <2>1. CASE LoadsOn(u, w)
    BY <1>2, <2>1 DEF LoadsOn, Whole
  <2>2. CASE CleansUp(u, w)
    BY <1>2, <1>3, <2>2, WholeIsSafe DEF CleansUp, Whole
  <2>3. CASE Appends(u, w)
    <3> DEFINE mark == [request |-> u, time |-> work[u].time]
    <3>1. mark \in Mark
      BY <2>3, MarkType DEF Appends
    <3> QED
      BY <1>2, <1>3, <2>3, <3>1, WholeIsSafe DEF Appends, Whole
  <2> QED
    BY <1>1, <1>4, <2>1, <2>2, <2>3
<1> QED
  BY <1>2, <1>5, <1>6 DEF WholeInv

LEMMA WholeStore ==
  ASSUME WindowTypeOK, WholeInv, NEW u \in Users, NEW w \in Words, Store(u, w)
  PROVE  WholeInv'
<1>1. /\ u \in Busy /\ UNCHANGED overlapped
      /\ \A r \in Requests : phase'[r] \in {phase[r], "counted"}
      /\ \/ /\ Busy' = Busy
            /\ Agreed(u) => Agreed(u)' /\ AtHand(u)' = AtHand(u)
         \/ /\ Busy' = Busy \ {u}
            /\ Agreed(u) => history' = AtHand(u)
  BY StoreIs
<1> SUFFICES ASSUME ~overlapped
             PROVE  WholeInv'
  BY <1>1 DEF WholeInv
<1>2. /\ Busy = {u} /\ Agreed(u) /\ Whole(AtHand(u))
      /\ \A r \in Requests : phase[r] # "lost"
  BY <1>1 DEF WholeInv
<1>3. \A r \in Requests : phase'[r] # "lost"
  BY <1>1, <1>2
<1>4. CASE Busy' = Busy /\ Agreed(u)' /\ AtHand(u)' = AtHand(u)
  BY <1>2, <1>3, <1>4 DEF WholeInv, Whole
<1>5. CASE Busy' = Busy \ {u} /\ history' = AtHand(u)
  BY <1>2, <1>3, <1>5 DEF WholeInv, Whole
<1> QED
  BY <1>1, <1>2, <1>4, <1>5

LEMMA WholeNext == WindowTypeOK /\ WholeInv /\ [Next]_vars => WholeInv'
<1> SUFFICES ASSUME WindowTypeOK, WholeInv, [Next]_vars
             PROVE  WholeInv'
  OBVIOUS
<1>1. ASSUME NEW r \in Requests, Count(r)
      PROVE  WholeInv'
  <2>1. r \in Users /\ Start(r) /\ phase[r] = "open" /\ Busy \cap Requests = {}
    BY <1>1 DEF Count, Users
  <2> QED
    BY <2>1, WholeStart
<1>2. ASSUME NEW l \in Listings, BeginListing(l)
      PROVE  WholeInv'
  <2>1. l \in Users /\ Start(l)
    BY <1>2 DEF BeginListing, Users
  <2> QED
    BY <2>1, WholeStart
<1>3. CASE \/ \E r \in Requests : EndRejected(r) \/ LogSuccess(r)
           \/ Clear \/ StatsLen \/ StatsSnapshot \/ Tick \/ UNCHANGED vars
  <2>1. UNCHANGED <<history, work, overlapped>>
    BY <1>3 DEF EndRejected, LogSuccess, Clear, StatsLen, StatsSnapshot, Tick, vars,
                windowVars
  <2>2. \A r \in Requests : phase'[r] \in {phase[r], "logged"}
    BY <1>3 DEF EndRejected, LogSuccess, Clear, StatsLen, StatsSnapshot, Tick, vars,
                WindowTypeOK
  <2> QED
    BY <2>1, <2>2 DEF WholeInv, Busy, Agreed, AtHand
<1> QED
  BY <1>1, <1>2, <1>3, OtherSteps, WholeLoad, WholeStore

\* No success is lost to a panic in IncrementRequestCount (keypool.go:120) until a
\* listing has overlapped with another, or with the end of a request, for any
\* number of requests that end one after the other under the lock (keypool.go:276).
THEOREM LostToOverlap == Spec => []LostOnlyToOverlap
<1>1. WholeInv => LostOnlyToOverlap
  BY DEF WholeInv, LostOnlyToOverlap
<1>2. CountedInv => WindowTypeOK
  BY DEF CountedInv
<1> QED
  BY <1>1, <1>2, CountedInit, CountedNext, WholeInit, WholeNext, PTL DEF Spec

\* The log, the history, its users and the total of /api/stats are well typed.
THEOREM ActivityTypeOK == Spec => []TypeOK
<1>1. Init => changed \subseteq {"grown", "cleared"}
  BY DEF Init
<1>2. changed \subseteq {"grown", "cleared"} /\ [Next]_vars
        => (changed \subseteq {"grown", "cleared"})'
  BY DEF Next, EndRejected, Count, LogSuccess, AppendLog, BeginListing, Start, Load, Store,
         Clear, StatsLen, StatsSnapshot, Tick, Changed, logVars, vars
<1>3. CountedInv /\ LogInv /\ changed \subseteq {"grown", "cleared"} => TypeOK
  BY DEF CountedInv, LogInv, LogTypes, TotalIsOld, TypeOK, LogTypeOK
<1> QED
  BY <1>1, <1>2, <1>3, LogInit, LogNext, CountedInit, CountedNext, PTL DEF Spec

==============================================================================
