-------------------------- MODULE RateLimiterProofs --------------------------
(***************************************************************************)
(* Proofs about RateLimiter, for every limit, window and horizon.          *)
(*                                                                         *)
(* The two bounds speak of the whole history of grants, while allow() only *)
(* looks at its deque.  The inductive invariant links the two: the deque   *)
(* is the end of the history, what it has dropped is older than the        *)
(* window, and the history is in the order of time.                        *)
(***************************************************************************)
EXTENDS RateLimiter, FiniteSetTheorems, SequenceTheorems, TLAPS

Types == /\ now \in Nat
         /\ timestamps \in Seq(Nat)
         /\ grants \in Seq(Nat)

\* Grants are in the order of time, and none lies in the future.
GrantsSorted ==
    /\ \A i \in 1..Len(grants) : grants[i] <= now
    /\ \A i, j \in 1..Len(grants) : i <= j => grants[i] <= grants[j]

\* The deque is the history without its first d grants, all of them expired.
TailAfter(d) ==
    /\ Len(timestamps) = Len(grants) - d
    /\ \A i \in 1..Len(timestamps) : timestamps[i] = grants[d + i]
    /\ \A i \in 1..d : grants[i] < now - Window

DequeIsTail == \E d \in 0..Len(grants) : TailAfter(d)

LimiterInv == Types /\ GrantsSorted /\ DequeIsTail /\ WindowBound /\ BurstBound

-----------------------------------------------------------------------------
\* What remains after dropping k elements: a shorter sequence of the same
\* elements.
LEMMA KeptProperties ==
    ASSUME NEW ts \in Seq(Nat), NEW k \in 0..Len(ts)
    PROVE  /\ Kept(ts, k) \in Seq(Nat)
           /\ Len(Kept(ts, k)) = Len(ts) - k
           /\ \A i \in 1..(Len(ts) - k) : Kept(ts, k)[i] = ts[k + i]
<1>1. Len(ts) \in Nat /\ \A i \in 1..Len(ts) : ts[i] \in Nat
  BY LenProperties, ElementOfSeq
<1>2. \A i \in (k+1)..Len(ts) : ts[i] \in Nat
  BY <1>1
<1> DEFINE m == k + 1
           n == Len(ts)
<1>3. m \in Int /\ n \in Int /\ \A i \in m..n : ts[i] \in Nat
  BY <1>1, <1>2
<1> HIDE DEF m, n
<1>4. /\ SubSeq(ts, m, n) \in Seq(Nat)
      /\ Len(SubSeq(ts, m, n)) = IF m <= n THEN n-m+1 ELSE 0
      /\ \A i \in 1..(n-m+1) : SubSeq(ts, m, n)[i] = ts[m+i-1]
  BY <1>3, SubSeqProperties
<1> USE DEF m, n
<1>5. Kept(ts, k) = SubSeq(ts, m, n)
  BY DEF Kept
<1>6. ASSUME NEW i \in 1..(Len(ts) - k) PROVE i \in 1..(n-m+1) /\ m+i-1 = k+i
  BY <1>1
<1> HIDE DEF m, n
<1>7. \A i \in 1..(Len(ts) - k) : Kept(ts, k)[i] = ts[k + i]
  BY <1>4, <1>5, <1>6
<1> QED
  BY <1>1, <1>4, <1>5, <1>7 DEF m, n

\* Dropping the expired front of the deque keeps it a tail of the history.
LEMMA PruneKeepsTail ==
    ASSUME Types, NEW d \in 0..Len(grants), TailAfter(d),
           NEW k \in 0..Len(timestamps), Drops(timestamps, now, k)
    PROVE  /\ d + k \in 0..Len(grants)
           /\ Len(Kept(timestamps, k)) = Len(grants) - (d + k)
           /\ \A i \in 1..(Len(grants) - (d + k)) :
                Kept(timestamps, k)[i] = grants[d + k + i]
           /\ \A i \in 1..(d + k) : grants[i] < now - Window
<1>1. Len(grants) \in Nat /\ Len(timestamps) \in Nat
  BY LenProperties DEF Types
<1>2. /\ Len(Kept(timestamps, k)) = Len(timestamps) - k
      /\ \A i \in 1..(Len(timestamps) - k) : Kept(timestamps, k)[i] = timestamps[k + i]
  BY KeptProperties DEF Types
<1>3. \A i \in 1..(d + k) : grants[i] < now - Window
  <2> SUFFICES ASSUME NEW i \in 1..(d + k) PROVE grants[i] < now - Window
    OBVIOUS
  <2>1. CASE i <= d
    BY <2>1, <1>1 DEF TailAfter
  <2>2. CASE i > d
    <3>1. i - d \in 1..k /\ i - d \in 1..Len(timestamps) /\ d + (i - d) = i
      BY <2>2, <1>1
    <3>2. timestamps[i - d] < now - Window
      BY <3>1 DEF Drops
    <3>3. timestamps[i - d] = grants[d + (i - d)]
      BY <3>1 DEF TailAfter
    <3> QED BY <3>1, <3>2, <3>3
  <2> QED BY <2>1, <2>2, <1>1
<1>4. \A i \in 1..(Len(grants) - (d + k)) : Kept(timestamps, k)[i] = grants[d + k + i]
  <2> SUFFICES ASSUME NEW i \in 1..(Len(grants) - (d + k))
               PROVE  Kept(timestamps, k)[i] = grants[d + k + i]
    OBVIOUS
  <2>1. i \in 1..(Len(timestamps) - k) /\ k + i \in 1..Len(timestamps)
    BY <1>1 DEF TailAfter
  <2>2. Kept(timestamps, k)[i] = timestamps[k + i]
    BY <2>1, <1>2
  <2>3. timestamps[k + i] = grants[d + (k + i)]
    BY <2>1 DEF TailAfter
  <2>4. d + (k + i) = d + k + i
    BY <1>1
  <2> QED BY <2>2, <2>3, <2>4
<1> QED
  BY <1>1, <1>2, <1>3, <1>4 DEF TailAfter
-----------------------------------------------------------------------------
\* The deque after a pruning call is again the tail of the history, and the
\* history has not changed: the case of refusals and of the two properties.
LEMMA PruneStep ==
    ASSUME LimiterInv, NEW k \in 0..Len(timestamps), Drops(timestamps, now, k),
           timestamps' = Kept(timestamps, k), UNCHANGED <<now, grants>>
    PROVE  LimiterInv'
<1>1. PICK d \in 0..Len(grants) : TailAfter(d)
  BY DEF LimiterInv, DequeIsTail
<1>2. Len(grants) \in Nat /\ Len(timestamps) \in Nat
  BY LenProperties DEF LimiterInv, Types
<1>3. Types'
  BY KeptProperties DEF LimiterInv, Types
<1>4. TailAfter(d + k)' /\ (d + k \in 0..Len(grants))'
  <2>1. /\ d + k \in 0..Len(grants)
        /\ Len(Kept(timestamps, k)) = Len(grants) - (d + k)
        /\ \A i \in 1..(Len(grants) - (d + k)) :
             Kept(timestamps, k)[i] = grants[d + k + i]
        /\ \A i \in 1..(d + k) : grants[i] < now - Window
    BY <1>1, PruneKeepsTail DEF LimiterInv
  <2> DEFINE e == d + k
  <2> HIDE DEF e
  <2>2. TailAfter(e)'
    BY <2>1 DEF TailAfter, e
  <2> QED BY <2>1, <2>2 DEF e
<1>5. GrantsSorted' /\ WindowBound' /\ BurstBound'
  BY DEF LimiterInv, GrantsSorted, WindowBound, BurstBound
<1> QED
  BY <1>3, <1>4, <1>5 DEF LimiterInv, DequeIsTail

\* When a request is admitted, the grant MaxPerMinute places back is expired.
LEMMA WindowHasRoom ==
    ASSUME LimiterInv, NEW k \in 0..Len(timestamps), Drops(timestamps, now, k),
           Admits(Kept(timestamps, k), now),
           NEW i \in 1..Len(grants), i + MaxPerMinute = Len(grants) + 1
    PROVE  grants[i] < now - Window
<1>1. PICK d \in 0..Len(grants) : TailAfter(d)
  BY DEF LimiterInv, DequeIsTail
<1>2. Len(grants) \in Nat /\ Len(timestamps) \in Nat
  BY LenProperties DEF LimiterInv, Types
<1>3. /\ Len(Kept(timestamps, k)) = Len(grants) - (d + k)
      /\ \A j \in 1..(d + k) : grants[j] < now - Window
  BY <1>1, PruneKeepsTail DEF LimiterInv
<1>4. i \in 1..(d + k)
  BY <1>2, <1>3, LimiterAssumption DEF Admits
<1> QED
  BY <1>3, <1>4

\* When a request is admitted, the grant BurstSize places back is not recent:
\* otherwise all the grants after it would be, and they fill the burst.
LEMMA BurstHasRoom ==
    ASSUME LimiterInv, NEW k \in 0..Len(timestamps), Drops(timestamps, now, k),
           Admits(Kept(timestamps, k), now),
           NEW i \in 1..Len(grants), i + BurstSize = Len(grants) + 1
    PROVE  now - grants[i] >= BurstWindow
<1> DEFINE kept == Kept(timestamps, k)
<1>1. PICK d \in 0..Len(grants) : TailAfter(d)
  BY DEF LimiterInv, DequeIsTail
<1>2. /\ Len(grants) \in Nat /\ Len(timestamps) \in Nat
      /\ now \in Nat /\ \A j \in 1..Len(grants) : grants[j] \in Nat
  BY LenProperties, ElementOfSeq DEF LimiterInv, Types
<1>3. /\ d + k \in 0..Len(grants)
      /\ Len(kept) = Len(grants) - (d + k)
      /\ \A j \in 1..(Len(grants) - (d + k)) : kept[j] = grants[d + k + j]
      /\ \A j \in 1..(d + k) : grants[j] < now - Window
  BY <1>1, PruneKeepsTail DEF LimiterInv
<1> SUFFICES ASSUME now - grants[i] < BurstWindow PROVE FALSE
  BY <1>2, LimiterAssumption
<1>4. i > d + k
  BY <1>2, <1>3, LimiterAssumption
<1> DEFINE lo == i - (d + k)
           newest == lo..Len(kept)
<1>5. newest \subseteq Recent(kept, now)
  <2> SUFFICES ASSUME NEW j \in newest
               PROVE  j \in 1..Len(kept) /\ now - kept[j] < BurstWindow
    BY DEF Recent
  <2>1. j \in 1..Len(kept) /\ d + k + j \in i..Len(grants)
    BY <1>2, <1>3, <1>4
  <2>2. grants[i] <= grants[d + k + j]
    BY <2>1, <1>2, <1>3 DEF LimiterInv, GrantsSorted
  <2>3. kept[j] = grants[d + k + j]
    BY <2>1, <1>3
  <2>4. d + k + j \in 1..Len(grants) /\ i \in 1..Len(grants)
    BY <2>1, <1>2, <1>3
  <2>5. /\ now \in Nat /\ grants[d + k + j] \in Nat /\ grants[i] \in Nat
        /\ BurstWindow \in Nat
    BY <2>4, <1>2, LimiterAssumption
  <2>6. now - grants[d + k + j] < BurstWindow
    BY <2>2, <2>5
  <2> QED BY <2>1, <2>3, <2>6
<1>6. IsFiniteSet(newest) /\ Cardinality(newest) = BurstSize
  <2>1. lo \in Int /\ Len(kept) \in Int /\ Len(kept) - lo + 1 = BurstSize /\ lo <= Len(kept)
    BY <1>2, <1>3, LimiterAssumption
  <2> HIDE DEF lo, kept
  <2> QED BY <2>1, FS_Interval
<1>7. IsFiniteSet(Recent(kept, now))
  <2>1. Recent(kept, now) \in SUBSET (1..Len(kept))
    BY DEF Recent
  <2>2. IsFiniteSet(1..Len(kept))
    BY <1>2, <1>3, FS_Interval
  <2> QED BY <2>1, <2>2, FS_Subset
<1>8. /\ Cardinality(newest) <= Cardinality(Recent(kept, now))
      /\ Cardinality(newest) \in Nat /\ Cardinality(Recent(kept, now)) \in Nat
  BY <1>5, <1>6, <1>7, FS_Subset, FS_CardinalityType
<1> QED
  BY <1>6, <1>8, LimiterAssumption DEF Admits

\* Granting a request keeps both bounds.
LEMMA GrantStep ==
    ASSUME LimiterInv, Grant
    PROVE  LimiterInv'
<1>1. PICK k \in 0..Len(timestamps) :
        /\ Drops(timestamps, now, k)
        /\ Admits(Kept(timestamps, k), now)
        /\ timestamps' = Append(Kept(timestamps, k), now)
        /\ grants' = Append(grants, now)
        /\ now' = now
  BY DEF Grant
<1>2. PICK d \in 0..Len(grants) : TailAfter(d)
  BY DEF LimiterInv, DequeIsTail
<1>3. /\ now \in Nat /\ Len(grants) \in Nat /\ Len(timestamps) \in Nat
      /\ \A i \in 1..Len(grants) : grants[i] \in Nat
  BY LenProperties, ElementOfSeq DEF LimiterInv, Types
<1>4. /\ grants' \in Seq(Nat)
      /\ Len(grants') = Len(grants) + 1
      /\ \A i \in 1..Len(grants) : grants'[i] = grants[i]
      /\ grants'[Len(grants) + 1] = now
  BY <1>1, <1>3, AppendProperties DEF LimiterInv, Types
<1>5. /\ d + k \in 0..Len(grants)
      /\ Len(Kept(timestamps, k)) = Len(grants) - (d + k)
      /\ \A i \in 1..(Len(grants) - (d + k)) : Kept(timestamps, k)[i] = grants[d + k + i]
      /\ \A i \in 1..(d + k) : grants[i] < now - Window
  BY <1>1, <1>2, PruneKeepsTail DEF LimiterInv
<1>6. /\ timestamps' \in Seq(Nat)
      /\ Len(timestamps') = Len(grants) - (d + k) + 1
      /\ \A i \in 1..(Len(grants) - (d + k)) : timestamps'[i] = grants[d + k + i]
      /\ timestamps'[Len(grants) - (d + k) + 1] = now
  <2>1. Kept(timestamps, k) \in Seq(Nat)
    BY KeptProperties DEF LimiterInv, Types
  <2>2. /\ Append(Kept(timestamps, k), now) \in Seq(Nat)
        /\ Len(Append(Kept(timestamps, k), now)) = Len(Kept(timestamps, k)) + 1
        /\ \A i \in 1..Len(Kept(timestamps, k)) :
             Append(Kept(timestamps, k), now)[i] = Kept(timestamps, k)[i]
        /\ Append(Kept(timestamps, k), now)[Len(Kept(timestamps, k)) + 1] = now
    BY <2>1, <1>3, AppendProperties
  <2> QED BY <2>2, <1>1, <1>5
<1>7. Types'
  BY <1>1, <1>4, <1>6, <1>3 DEF Types
<1>8. GrantsSorted'
  BY <1>1, <1>3, <1>4 DEF LimiterInv, GrantsSorted
<1>9. TailAfter(d + k)'
  <2> DEFINE e == d + k
  <2>1. /\ e \in 0..Len(grants)
        /\ Len(timestamps') = Len(grants') - e
        /\ \A i \in 1..e : grants'[i] < now' - Window
    BY <1>1, <1>3, <1>4, <1>5, <1>6
  <2>2. ASSUME NEW i \in 1..Len(timestamps')
        PROVE  timestamps'[i] = grants'[e + i]
    <3>1. CASE i <= Len(grants) - e
      BY <3>1, <1>3, <1>4, <1>6, <2>1
    <3>2. CASE i = Len(grants) - e + 1
      <4>1. i = Len(grants) - (d + k) + 1 /\ e + i = Len(grants) + 1
        BY <3>2, <1>3, <2>1
      <4> QED BY <4>1, <1>4, <1>6
    <3>3. i <= Len(grants) - e \/ i = Len(grants) - e + 1
      <4>1. Len(timestamps') = Len(grants) - e + 1
        BY <1>6
      <4> QED BY <4>1, <1>3, <2>1
    <3> QED BY <3>1, <3>2, <3>3
  <2> HIDE DEF e
  <2>3. TailAfter(e)'
    BY <2>1, <2>2 DEF TailAfter
  <2> QED BY <2>3 DEF e
<1>10. WindowBound'
  <2> SUFFICES ASSUME NEW i \in 1..(Len(grants) + 1), i + MaxPerMinute <= Len(grants) + 1
               PROVE  grants'[i + MaxPerMinute] - grants'[i] > Window
    BY <1>4 DEF WindowBound
  <2>0. MaxPerMinute > 0
    BY <1>3, <1>5, LimiterAssumption, <1>1 DEF Admits
  <2>1. CASE i + MaxPerMinute <= Len(grants)
    <3>1. /\ i \in 1..Len(grants) /\ i + MaxPerMinute \in 1..Len(grants)
          /\ i + MaxPerMinute <= Len(grants)
      BY <2>1, <2>0, <1>3, LimiterAssumption
    <3>2. grants[i + MaxPerMinute] - grants[i] > Window
      BY <3>1 DEF LimiterInv, WindowBound
    <3>3. grants'[i + MaxPerMinute] = grants[i + MaxPerMinute] /\ grants'[i] = grants[i]
      BY <3>1, <1>4
    <3> QED BY <3>2, <3>3
  <2>2. CASE i + MaxPerMinute = Len(grants) + 1
    <3>1. i \in 1..Len(grants)
      BY <2>0, <2>2, <1>3, LimiterAssumption
    <3>2. grants[i] < now - Window
      BY <3>1, <2>2, <1>1, WindowHasRoom
    <3> QED BY <3>1, <3>2, <2>2, <1>3, <1>4, LimiterAssumption
  <2> QED BY <2>1, <2>2, <1>3, LimiterAssumption
<1>11. BurstBound'
  <2> SUFFICES ASSUME NEW i \in 1..(Len(grants) + 1), i + BurstSize <= Len(grants) + 1
               PROVE  grants'[i + BurstSize] - grants'[i] >= BurstWindow
    BY <1>4 DEF BurstBound
  <2>0. BurstSize > 0
    <3>1. Cardinality(Recent(Kept(timestamps, k), now)) \in Nat
      <4>1. Recent(Kept(timestamps, k), now) \in SUBSET (1..Len(Kept(timestamps, k)))
        BY DEF Recent
      <4>2. IsFiniteSet(1..Len(Kept(timestamps, k)))
        BY <1>3, <1>5, FS_Interval
      <4> QED BY <4>1, <4>2, FS_Subset, FS_CardinalityType
    <3> QED BY <3>1, <1>1, LimiterAssumption DEF Admits
  <2>1. CASE i + BurstSize <= Len(grants)
    <3>1. /\ i \in 1..Len(grants) /\ i + BurstSize \in 1..Len(grants)
          /\ i + BurstSize <= Len(grants)
      BY <2>1, <2>0, <1>3, LimiterAssumption
    <3>2. grants[i + BurstSize] - grants[i] >= BurstWindow
      BY <3>1 DEF LimiterInv, BurstBound
    <3>3. grants'[i + BurstSize] = grants[i + BurstSize] /\ grants'[i] = grants[i]
      BY <3>1, <1>4
    <3> QED BY <3>2, <3>3
  <2>2. CASE i + BurstSize = Len(grants) + 1
    <3>1. i \in 1..Len(grants)
      BY <2>0, <2>2, <1>3, LimiterAssumption
    <3>2. now - grants[i] >= BurstWindow
      BY <3>1, <2>2, <1>1, BurstHasRoom
    <3> QED BY <3>1, <3>2, <2>2, <1>3, <1>4, LimiterAssumption
  <2> QED BY <2>1, <2>2, <1>3, LimiterAssumption
<1>12. (d + k \in 0..Len(grants))'
  BY <1>4, <1>5, <1>3
<1> QED
  BY <1>7, <1>8, <1>9, <1>10, <1>11, <1>12 DEF LimiterInv, DequeIsTail

\* Time only makes expired grants older.
LEMMA TickStep ==
    ASSUME LimiterInv, now' = now + 1, UNCHANGED <<timestamps, grants>>
    PROVE  LimiterInv'
<1>1. PICK d \in 0..Len(grants) : TailAfter(d)
  BY DEF LimiterInv, DequeIsTail
<1>2. now \in Nat /\ Len(grants) \in Nat /\ \A i \in 1..Len(grants) : grants[i] \in Nat
  BY LenProperties, ElementOfSeq DEF LimiterInv, Types
<1>3. Types' /\ WindowBound' /\ BurstBound'
  BY <1>2 DEF LimiterInv, Types, WindowBound, BurstBound
<1>4. GrantsSorted'
  BY <1>2 DEF LimiterInv, GrantsSorted
<1>5. TailAfter(d)'
  BY <1>1, <1>2, LimiterAssumption DEF TailAfter
<1> QED
  BY <1>3, <1>4, <1>5 DEF LimiterInv, DequeIsTail

\* The invariant holds of every reachable state.
THEOREM LimiterInvariance == Spec => []LimiterInv
<1>1. Init => LimiterInv
  <2> SUFFICES ASSUME Init PROVE LimiterInv
    OBVIOUS
  <2>1. Len(grants) = 0 /\ Len(timestamps) = 0 /\ Types
    BY EmptySeq DEF Init, Types
  <2>2. TailAfter(0) /\ 0 \in 0..Len(grants)
    BY <2>1 DEF TailAfter
  <2> QED
    BY <2>1, <2>2 DEF Init, LimiterInv, GrantsSorted, DequeIsTail, WindowBound, BurstBound
<1>2. LimiterInv /\ [Next]_limiterVars => LimiterInv'
  <2> SUFFICES ASSUME LimiterInv, [Next]_limiterVars PROVE LimiterInv'
    OBVIOUS
  <2>1. CASE Grant
    BY <2>1, GrantStep
  <2>2. CASE Refuse
    BY <2>2, PruneStep DEF Refuse
  <2>3. CASE Observe
    BY <2>3, PruneStep DEF Observe
  <2>4. CASE Tick
    BY <2>4, TickStep DEF Tick
  <2>5. CASE UNCHANGED limiterVars
    BY <2>5 DEF limiterVars, LimiterInv, Types, GrantsSorted, DequeIsTail, TailAfter,
                WindowBound, BurstBound
  <2> QED BY <2>1, <2>2, <2>3, <2>4, <2>5 DEF Next
<1> QED
  BY <1>1, <1>2, PTL DEF Spec

\* No closed window of 60 s ever holds more than max_per_minute grants.
THEOREM WindowBoundHolds == Spec => []WindowBound
<1>1. LimiterInv => WindowBound
  BY DEF LimiterInv
<1> QED
  BY <1>1, LimiterInvariance, PTL

\* No 5 s ever hold more than burst_size grants.
THEOREM BurstBoundHolds == Spec => []BurstBound
<1>1. LimiterInv => BurstBound
  BY DEF LimiterInv
<1> QED
  BY <1>1, LimiterInvariance, PTL

-----------------------------------------------------------------------------
(* The deque answers as the whole history would.                           *)

\* The history's windows, in the words of the abstract specification.
InWindow == {i \in DOMAIN grants : now - grants[i] <= Window}
InBurst == {i \in DOMAIN grants : now - grants[i] < BurstWindow}

\* Sets with a bijection between them are equally many.
LEMMA SameSize ==
  ASSUME NEW S, NEW T, IsFiniteSet(S), NEW f \in [S -> T],
         \A i, j \in S : f[i] = f[j] => i = j, \A t \in T : \E i \in S : f[i] = t
  PROVE  Cardinality(T) = Cardinality(S)
<1>1. f \in Bijection(S, T)
  BY DEF Bijection, Injection, Surjection, IsInjective
<1> QED
  BY <1>1, FS_Bijection DEF ExistsBijection

\* Counting what is left of the deque is counting the grants of the windows.
LEMMA SameCounts ==
    ASSUME LimiterInv, NEW k \in 0..Len(timestamps), Drops(timestamps, now, k)
    PROVE  /\ Cardinality(InWindow) = Len(Kept(timestamps, k))
           /\ Cardinality(InBurst) = Cardinality(Recent(Kept(timestamps, k), now))
<1> DEFINE kept == Kept(timestamps, k)
           n == Len(grants)
<1>1. PICK d \in 0..n : TailAfter(d)
  BY DEF LimiterInv, DequeIsTail
<1> DEFINE e == d + k
<1>2. /\ n \in Nat /\ Len(timestamps) \in Nat /\ now \in Nat /\ DOMAIN grants = 1..n
      /\ \A i \in 1..n : grants[i] \in Nat
      /\ Window \in Nat /\ BurstWindow \in Nat /\ BurstWindow <= Window
  BY LenProperties, ElementOfSeq, LimiterAssumption DEF LimiterInv, Types
<1>3. /\ e \in 0..n /\ Len(kept) = n - e
      /\ \A j \in 1..(n - e) : kept[j] = grants[e + j]
      /\ \A j \in 1..e : grants[j] < now - Window
  BY <1>1, PruneKeepsTail DEF LimiterInv
\* What is kept is in the window: the first of it is, and the rest is later.
<1>4. \A i \in (e+1)..n : grants[i] >= now - Window
  <2> SUFFICES ASSUME NEW i \in (e+1)..n PROVE grants[i] >= now - Window
    OBVIOUS
  <2>1. e + 1 \in 1..n /\ i \in 1..n /\ e + 1 <= i /\ k < Len(timestamps) /\ d + (k+1) = e + 1
    BY <1>1, <1>2, <1>3 DEF TailAfter
  <2>2. timestamps[k+1] >= now - Window
    BY <2>1 DEF Drops
  <2>3. timestamps[k+1] = grants[e + 1]
    <3>1. k + 1 \in 1..Len(timestamps)
      BY <1>2, <2>1
    <3> QED BY <1>1, <2>1, <3>1 DEF TailAfter
  <2>4. grants[e + 1] <= grants[i]
    BY <2>1 DEF LimiterInv, GrantsSorted
  <2>5. grants[e + 1] \in Nat /\ grants[i] \in Nat
    BY <1>2, <2>1
  <2> QED BY <1>2, <2>2, <2>3, <2>4, <2>5
<1>5. Cardinality(InWindow) = Len(kept)
  <2>1. \A i : i \in InWindow <=> i \in (e+1)..n
    <3>1. ASSUME NEW i \in 1..n PROVE now - grants[i] <= Window <=> i \in (e+1)..n
      <4>1. CASE i \in 1..e
        BY <1>2, <1>3, <4>1
      <4>2. CASE i \in (e+1)..n
        BY <1>2, <1>4, <4>2
      <4> QED BY <1>2, <1>3, <4>1, <4>2
    <3>2. \A i \in (e+1)..n : i \in 1..n
      BY <1>2, <1>3
    <3> QED BY <1>2, <3>1, <3>2 DEF InWindow
  <2>2. InWindow = (e+1)..n
    BY <2>1
  <2> DEFINE lo == e + 1
  <2>3. lo \in Int /\ n \in Int /\ (IF lo > n THEN 0 ELSE n - lo + 1) = n - e
    <3>1. e \in Int /\ n \in Nat /\ e <= n
      BY <1>2, <1>3
    <3> HIDE DEF e, n
    <3> QED BY <3>1
  <2> HIDE DEF lo, n
  <2>4. Cardinality(lo..n) = IF lo > n THEN 0 ELSE n - lo + 1
    BY <2>3, FS_Interval
  <2> USE DEF lo, n
  <2> QED BY <1>3, <2>2, <2>3, <2>4
<1>6. Cardinality(InBurst) = Cardinality(Recent(kept, now))
  <2> DEFINE R == Recent(kept, now)
             f == [j \in R |-> e + j]
  <2>0. e \in Nat /\ n - e \in Nat
    BY <1>2, <1>3
  <2>1. \A j : j \in R <=> j \in 1..(n - e) /\ now - grants[e + j] < BurstWindow
    BY <1>3 DEF Recent
  <2>2. \A i : i \in InBurst <=> i \in 1..n /\ now - grants[i] < BurstWindow
    BY <1>2 DEF InBurst
  <2>3. \A i \in InBurst : i \in (e+1)..n
    <3> SUFFICES ASSUME NEW i \in InBurst, i \in 1..e PROVE FALSE
      BY <1>2, <1>3, <2>2
    <3>1. grants[i] < now - Window /\ now - grants[i] < BurstWindow /\ grants[i] \in Nat
      BY <1>2, <1>3, <2>2
    <3> QED BY <1>2, <3>1
  <2>4. IsFiniteSet(R)
    <3> DEFINE m == n - e
    <3>1. R \in SUBSET (1..m) /\ m \in Int
      BY <2>0, <2>1
    <3> HIDE DEF m, R
    <3>2. IsFiniteSet(1..m)
      BY <3>1, FS_Interval
    <3> QED BY <3>1, <3>2, FS_Subset
  <2> HIDE DEF R
  <2>5. f \in [R -> InBurst]
    <3>1. \A j \in R : e + j \in InBurst
      <4> SUFFICES ASSUME NEW j \in R PROVE e + j \in InBurst
        OBVIOUS
      <4>1. j \in 1..(n - e) /\ now - grants[e + j] < BurstWindow
        BY <2>1
      <4>2. e + j \in 1..n
        BY <1>2, <2>0, <4>1
      <4> QED BY <2>2, <4>1, <4>2
    <3> QED BY <3>1
  <2>6. \A i, j \in R : f[i] = f[j] => i = j
    BY <2>0, <2>1
  <2>7. \A i \in InBurst : \E j \in R : f[j] = i
    <3> SUFFICES ASSUME NEW i \in InBurst PROVE i - e \in R /\ f[i - e] = i
      OBVIOUS
    <3>1. i \in (e+1)..n /\ now - grants[i] < BurstWindow
      BY <2>2, <2>3
    <3>2. i - e \in 1..(n - e) /\ e + (i - e) = i
      BY <1>2, <2>0, <3>1
    <3> QED BY <2>1, <3>1, <3>2
  <2> HIDE DEF f
  <2> QED
    BY <2>4, <2>5, <2>6, <2>7, SameSize DEF R
<1> QED
  BY <1>5, <1>6

\* allow() decides as the history does, and everything else it does is
\* bookkeeping.
LEMMA StepRefines ==
    ASSUME LimiterInv, [Next]_limiterVars
    PROVE  [History!Request \/ History!Pass]_(History!swVars)
<1>1. ASSUME NEW k \in 0..Len(timestamps), Drops(timestamps, now, k)
      PROVE  History!MayGrant <=> Admits(Kept(timestamps, k), now)
  <2>1. /\ Cardinality(InWindow) = Len(Kept(timestamps, k))
        /\ Cardinality(InBurst) = Cardinality(Recent(Kept(timestamps, k), now))
    BY <1>1, SameCounts
  <2>2. History!InWindow = InWindow /\ History!InBurst = InBurst
    BY DEF InWindow, InBurst, History!InWindow, History!InBurst
  <2>3. History!MayGrant <=> /\ Cardinality(InWindow) < MaxPerMinute
                             /\ Cardinality(InBurst) < BurstSize
    BY <2>2, Zenon DEF History!MayGrant, History!Cardinality, Cardinality
  <2> QED
    BY <2>1, <2>3, Zenon DEF Admits
<1>2. CASE Grant
  BY <1>1, <1>2 DEF Grant, History!Request
<1>3. CASE Refuse
  BY <1>1, <1>3 DEF Refuse, History!Request
<1>4. CASE Observe
  BY <1>4 DEF Observe, History!swVars
<1>5. CASE Tick
  BY <1>5 DEF Tick, History!Pass
<1>6. CASE UNCHANGED limiterVars
  BY <1>6 DEF limiterVars, History!swVars
<1> QED
  BY <1>2, <1>3, <1>4, <1>5, <1>6 DEF Next

\* Forgetting loses nothing: for every limit and window, the limiter with its
\* deque is an implementation of the one that remembers every grant.
THEOREM DequeImplementsHistory == Spec => ImplementsSlidingWindow
<1>1. Init => History!Init
  BY DEF Init, History!Init
<1>2. LimiterInv /\ [Next]_limiterVars => [History!Request \/ History!Pass]_(History!swVars)
  BY StepRefines
<1> QED
  BY <1>1, <1>2, LimiterInvariance, PTL DEF Spec, ImplementsSlidingWindow, History!Spec

-----------------------------------------------------------------------------
\* The types with their bounds; the clock stops at the horizon.
LEMMA TypesBounded == LimiterInv /\ LimiterTypeOK /\ [Next]_limiterVars => LimiterTypeOK'
<1> SUFFICES ASSUME LimiterInv, LimiterTypeOK, [Next]_limiterVars PROVE LimiterTypeOK'
  OBVIOUS
<1> USE DEF LimiterTypeOK
<1>0. /\ Len(timestamps) \in Nat /\ MaxPerMinute \in Nat /\ Horizon \in Nat
      /\ now \in 0..Horizon /\ timestamps \in Seq(0..Horizon)
  BY LenProperties, LimiterAssumption
<1>1. ASSUME NEW k \in 0..Len(timestamps)
      PROVE  /\ Kept(timestamps, k) \in Seq(0..Horizon)
             /\ Len(Kept(timestamps, k)) = Len(timestamps) - k
  BY <1>0 DEF Kept
<1>2. CASE Grant
  <2>1. PICK k \in 0..Len(timestamps) :
          /\ Len(Kept(timestamps, k)) < MaxPerMinute
          /\ timestamps' = Append(Kept(timestamps, k), now)
          /\ grants' = Append(grants, now) /\ verdict' = "granted" /\ now' = now
    BY <1>2 DEF Grant, Admits
  <2> DEFINE ks == Kept(timestamps, k)
  <2>2. ks \in Seq(0..Horizon) /\ Len(ks) < MaxPerMinute
    BY <1>1, <2>1
  <2> HIDE DEF ks
  <2>3. Append(ks, now) \in Seq(0..Horizon) /\ Len(Append(ks, now)) <= MaxPerMinute
    BY <1>0, <2>2
  <2>4. Append(grants, now) \in Seq(0..Horizon)
    BY <1>0
  <2> QED BY <1>0, <2>1, <2>3, <2>4 DEF ks
<1>3. CASE Refuse \/ Observe
  <2>1. PICK k \in 0..Len(timestamps) :
          /\ timestamps' = Kept(timestamps, k)
          /\ grants' = grants /\ verdict' \in {verdict, "refused"} /\ now' = now
    BY <1>3 DEF Refuse, Observe
  <2> QED BY <1>0, <1>1, <2>1
<1>4. CASE Tick
  BY <1>0, <1>4 DEF Tick
<1>5. CASE UNCHANGED limiterVars
  BY <1>5 DEF limiterVars
<1> QED
  BY <1>2, <1>3, <1>4, <1>5 DEF Next

\* The deque holds times up to now and never more than max_per_minute of them.
THEOREM LimiterTypes == Spec => []LimiterTypeOK
<1>1. Init => LimiterTypeOK
  BY LimiterAssumption, EmptySeq DEF Init, LimiterTypeOK
<1> QED
  BY <1>1, TypesBounded, LimiterInvariance, PTL DEF Spec
=============================================================================
