-------------------------- MODULE RelayManagerProofs --------------------------
(***************************************************************************)
(* What the relay manager's filter promises, for every set of packets,     *)
(* TTL, size of the filter and number of hearings, and what the manager    *)
(* counts.                                                                 *)
(*                                                                         *)
(* The filter answers from what it still holds, the promises speak of all  *)
(* the packets it ever let through.  The invariant links the two: seen is  *)
(* the end of fresh, and what it has dropped is TTL old or has MaxEntries  *)
(* newer ones behind it.                                                   *)
(***************************************************************************)
EXTENDS RelayManager, SequenceTheorems, TLAPS

Entry == [key : Keys, at : Nat]

Types == /\ now \in Nat
         /\ seen \in Seq(Entry)
         /\ fresh \in Seq(Entry)

\* Packets are let through in the order of time, and none in the future.
FreshSorted ==
    /\ \A i \in 1..Len(fresh) : fresh[i].at <= now
    /\ \A i, j \in 1..Len(fresh) : i <= j => fresh[i].at <= fresh[j].at

\* The i-th packet let through may be let through again.
Gone(i) == \/ now - fresh[i].at >= TTL
           \/ Len(fresh) + 1 - i > MaxEntries

\* The filter holds all but the first d of the packets it let through.
TailAfter(d) ==
    /\ Len(seen) = Len(fresh) - d
    /\ \A i \in 1..Len(seen) : seen[i] = fresh[d + i]
    /\ \A i \in 1..d : Gone(i)

SeenIsTail == \E d \in 0..Len(fresh) : TailAfter(d)

DedupInv == Types /\ FreshSorted /\ SeenIsTail /\ ReadmittedLateOrCrowdedOut

\* An approval belongs to the packet let through at that moment.
ApprovalsAreFresh ==
    /\ approvals \in Seq([key : Keys, at : Nat, nth : Nat])
    /\ \A i \in 1..Len(approvals) :
          /\ approvals[i].nth \in 1..Len(fresh)
          /\ fresh[approvals[i].nth].key = approvals[i].key
          /\ fresh[approvals[i].nth].at = approvals[i].at

RelayInv == DedupInv /\ ApprovalsAreFresh

-----------------------------------------------------------------------------
\* The numbers the steps below calculate with.
LEMMA Numbers ==
    ASSUME Types
    PROVE  /\ now \in Nat /\ TTL \in Nat /\ MaxEntries \in Nat
           /\ Len(fresh) \in Nat /\ Len(seen) \in Nat
           /\ \A i \in 1..Len(fresh) : fresh[i] \in Entry /\ fresh[i].at \in Nat
<1>1. Len(fresh) \in Nat /\ Len(seen) \in Nat
  BY LenProperties DEF Types
<1>2. \A i \in 1..Len(fresh) : fresh[i] \in Entry
  BY ElementOfSeq DEF Types
<1>3. \A f \in Entry : f.at \in Nat
  BY DEF Entry
<1> QED  BY <1>1, <1>2, <1>3, RelayAssumption DEF Types

\* What dropping the first k elements leaves.
LEMMA LiveProperties ==
    ASSUME NEW s \in Seq(Entry), NEW k \in 0..Len(s)
    PROVE  /\ Dedup!Live(s, k) \in Seq(Entry)
           /\ Len(Dedup!Live(s, k)) = Len(s) - k
           /\ \A i \in 1..(Len(s) - k) : Dedup!Live(s, k)[i] = s[k + i]
<1>1. Len(s) \in Nat /\ \A i \in 1..Len(s) : s[i] \in Entry
  BY LenProperties, ElementOfSeq
<1> DEFINE m == k + 1
           n == Len(s)
<1>2. m \in Int /\ n \in Int /\ \A i \in m..n : s[i] \in Entry
  BY <1>1
<1> HIDE DEF m, n
<1>3. /\ SubSeq(s, m, n) \in Seq(Entry)
      /\ Len(SubSeq(s, m, n)) = IF m <= n THEN n-m+1 ELSE 0
      /\ \A i \in 1..(n-m+1) : SubSeq(s, m, n)[i] = s[m+i-1]
  BY <1>2, SubSeqProperties
<1> USE DEF m, n
<1>4. Dedup!Live(s, k) = SubSeq(s, m, n)
  BY DEF Dedup!Live
<1>5. ASSUME NEW i \in 1..(Len(s) - k) PROVE i \in 1..(n-m+1) /\ m+i-1 = k+i
  BY <1>1
<1> HIDE DEF m, n
<1>6. \A i \in 1..(Len(s) - k) : Dedup!Live(s, k)[i] = s[k + i]
  BY <1>3, <1>4, <1>5
<1> QED  BY <1>1, <1>3, <1>4, <1>6 DEF m, n

\* The eviction by size drops nothing, or leaves MaxEntries.
LEMMA LatestProperties ==
    ASSUME NEW s \in Seq(Entry)
    PROVE  \E c \in 0..Len(s) :
              /\ Dedup!Latest(s) \in Seq(Entry)
              /\ Len(Dedup!Latest(s)) = Len(s) - c
              /\ \A i \in 1..(Len(s) - c) : Dedup!Latest(s)[i] = s[c + i]
              /\ c = 0 \/ Len(s) - c = MaxEntries
<1>1. Len(s) \in Nat /\ MaxEntries \in Nat
  BY LenProperties, RelayAssumption
<1>2. CASE Len(s) > MaxEntries
  <2> DEFINE c == Len(s) - MaxEntries
  <2>1. c \in 0..Len(s) /\ Len(s) - c = MaxEntries
    BY <1>1, <1>2
  <2>2. Dedup!Latest(s) = Dedup!Live(s, c)
    BY <1>2 DEF Dedup!Latest, Dedup!Live
  <2> HIDE DEF c
  <2> QED  BY <2>1, <2>2, LiveProperties
<1>3. CASE ~(Len(s) > MaxEntries)
  <2>1. Dedup!Latest(s) = s
    BY <1>3 DEF Dedup!Latest
  <2> QED  BY <1>1, <2>1
<1> QED  BY <1>2, <1>3

-----------------------------------------------------------------------------
\* Dropping the expired entries keeps the rest a tail of the history.
LEMMA PruneKeepsTail ==
    ASSUME Types, NEW d \in 0..Len(fresh), TailAfter(d),
           NEW k \in 0..Len(seen), Dedup!Expires(seen, now, k)
    PROVE  /\ d + k \in 0..Len(fresh)
           /\ Len(Dedup!Live(seen, k)) = Len(fresh) - (d + k)
           /\ \A i \in 1..(Len(fresh) - (d + k)) :
                Dedup!Live(seen, k)[i] = fresh[d + k + i]
           /\ \A i \in 1..(d + k) : Gone(i)
<1>1. /\ Len(fresh) \in Nat /\ Len(seen) \in Nat /\ now \in Nat /\ TTL \in Nat
      /\ \A i \in 1..Len(fresh) : fresh[i].at \in Nat
  BY Numbers
<1>2. /\ Len(Dedup!Live(seen, k)) = Len(seen) - k
      /\ \A i \in 1..(Len(seen) - k) : Dedup!Live(seen, k)[i] = seen[k + i]
  BY LiveProperties DEF Types
<1>3. ASSUME NEW i \in 1..(d + k) PROVE Gone(i)
  <2>1. CASE i <= d
    BY <2>1, <1>1 DEF TailAfter
  <2>2. CASE i > d
    <3>1. i - d \in 1..k /\ i - d \in 1..Len(seen) /\ d + (i - d) = i
             /\ i \in 1..Len(fresh)
      BY <2>2, <1>1 DEF TailAfter
    <3>2. seen[i - d].at <= now - TTL
      BY <3>1 DEF Dedup!Expires
    <3>3. seen[i - d] = fresh[d + (i - d)]
      BY <3>1 DEF TailAfter
    <3>4. fresh[i].at <= now - TTL
      BY <3>1, <3>2, <3>3
    <3> QED  BY <3>1, <3>4, <1>1 DEF Gone
  <2> QED  BY <2>1, <2>2, <1>1
<1>4. ASSUME NEW i \in 1..(Len(fresh) - (d + k))
      PROVE  Dedup!Live(seen, k)[i] = fresh[d + k + i]
  <2>1. i \in 1..(Len(seen) - k) /\ k + i \in 1..Len(seen)
    BY <1>1 DEF TailAfter
  <2>2. Dedup!Live(seen, k)[i] = seen[k + i]
    BY <2>1, <1>2
  <2>3. seen[k + i] = fresh[d + (k + i)]
    BY <2>1 DEF TailAfter
  <2>4. d + (k + i) = d + k + i
    BY <1>1
  <2> QED  BY <2>2, <2>3, <2>4
<1> QED  BY <1>1, <1>2, <1>3, <1>4 DEF TailAfter

\* A duplicate changes nothing but what the filter holds.
LEMMA DuplicateStep ==
    ASSUME NEW key \in Keys, DedupInv, Dedup!Duplicate(key)
    PROVE  DedupInv' /\ fresh' = fresh
<1>1. PICK k \in 0..Len(seen) :
         /\ Dedup!Expires(seen, now, k)
         /\ seen' = Dedup!Live(seen, k)
         /\ now' = now /\ fresh' = fresh
  BY DEF Dedup!Duplicate
<1>2. PICK d \in 0..Len(fresh) : TailAfter(d)
  BY DEF DedupInv, SeenIsTail
<1>3. Types'
  BY <1>1, LiveProperties DEF DedupInv, Types
<1>4. SeenIsTail'
  <2> DEFINE e == d + k
  <2>1. /\ e \in 0..Len(fresh)
        /\ Len(Dedup!Live(seen, k)) = Len(fresh) - e
        /\ \A i \in 1..(Len(fresh) - e) : Dedup!Live(seen, k)[i] = fresh[e + i]
        /\ \A i \in 1..e : Gone(i)
    BY <1>1, <1>2, PruneKeepsTail DEF DedupInv
  <2> HIDE DEF e
  <2>2. TailAfter(e)'
    BY <1>1, <2>1 DEF TailAfter, Gone
  <2> QED  BY <1>1, <2>1, <2>2 DEF SeenIsTail
<1>5. FreshSorted' /\ ReadmittedLateOrCrowdedOut'
  BY <1>1 DEF DedupInv, FreshSorted, ReadmittedLateOrCrowdedOut,
     Dedup!ReadmittedLateOrCrowdedOut
<1> QED  BY <1>1, <1>3, <1>4, <1>5 DEF DedupInv

\* What one more packet let through makes of the history.
LEMMA Appended ==
    ASSUME Types, NEW e \in Entry, fresh' = Append(fresh, e)
    PROVE  /\ fresh' \in Seq(Entry)
           /\ Len(fresh') = Len(fresh) + 1
           /\ fresh'[Len(fresh) + 1] = e
           /\ \A i \in 1..Len(fresh) : fresh'[i] = fresh[i]
  BY AppendProperties, LenProperties DEF Types

\* An entry with a full filter behind it, and one more in front of that.
LEMMA Crowded ==
    ASSUME NEW n \in Nat, NEW f \in Nat, NEW i \in 1..f, n + 1 - f = MaxEntries
    PROVE  (n + 1) + 1 - i > MaxEntries
  OBVIOUS

\* A packet let through leaves the filter a tail of the history, and comes TTL
\* or MaxEntries after the last time.
LEMMA FreshStep ==
    ASSUME NEW key \in Keys, DedupInv, Dedup!Fresh(key)
    PROVE  DedupInv' /\ now' = now /\ fresh' = Append(fresh, [key |-> key, at |-> now])
<1> DEFINE e == [key |-> key, at |-> now]
           n == Len(fresh)
<1>1. PICK k \in 0..Len(seen) :
         /\ Dedup!Expires(seen, now, k)
         /\ ~Dedup!Holds(Dedup!Live(seen, k), key)
         /\ seen' = Dedup!Latest(Append(Dedup!Live(seen, k), e))
         /\ fresh' = Append(fresh, e)
         /\ now' = now
  BY DEF Dedup!Fresh
<1>2. PICK d \in 0..Len(fresh) : TailAfter(d)
  BY DEF DedupInv, SeenIsTail
<1>3. /\ n \in Nat /\ now \in Nat /\ TTL \in Nat /\ MaxEntries \in Nat
      /\ e \in Entry
      /\ \A i \in 1..n : fresh[i] \in Entry /\ fresh[i].at \in Nat
  <2>1. e \in Entry
    BY DEF DedupInv, Types, Entry
  <2> QED  BY <2>1, Numbers DEF DedupInv
<1>4. /\ fresh' \in Seq(Entry) /\ Len(fresh') = n + 1 /\ fresh'[n + 1] = e
      /\ \A i \in 1..n : fresh'[i] = fresh[i]
  BY <1>1, <1>3, Appended DEF DedupInv
<1> DEFINE live == Dedup!Live(seen, k)
           g == d + k
           a == Append(live, e)
<1>5. /\ g \in 0..n
      /\ Len(live) = n - g
      /\ \A i \in 1..(n - g) : live[i] = fresh[g + i]
      /\ \A i \in 1..g : Gone(i)
  BY <1>1, <1>2, PruneKeepsTail DEF DedupInv
<1>6. live \in Seq(Entry)
  BY LiveProperties DEF DedupInv, Types
<1> HIDE DEF live, g
<1>7. /\ a \in Seq(Entry) /\ Len(a) = n + 1 - g
      /\ \A i \in 1..(n + 1 - g) : a[i] = fresh'[g + i]
  <2>1. /\ a \in Seq(Entry) /\ Len(a) = Len(live) + 1
        /\ a[Len(live) + 1] = e
        /\ \A i \in 1..Len(live) : a[i] = live[i]
    BY <1>3, <1>6, AppendProperties, LenProperties
  <2> HIDE DEF a
  <2>2. ASSUME NEW i \in 1..(n + 1 - g) PROVE a[i] = fresh'[g + i]
    <3>1. CASE i <= n - g
      <4>1. i \in 1..Len(live) /\ g + i \in 1..n
        BY <3>1, <1>3, <1>5
      <4> QED  BY <4>1, <2>1, <1>4, <1>5
    <3>2. CASE i = n + 1 - g
      <4>1. i = Len(live) + 1 /\ g + i = n + 1
        BY <3>2, <1>3, <1>5
      <4> QED  BY <4>1, <2>1, <1>4
    <3> QED  BY <3>1, <3>2, <1>3, <1>5
  <2>3. Len(a) = n + 1 - g
    BY <2>1, <1>3, <1>5
  <2> QED  BY <2>1, <2>2, <2>3
<1>8. seen' = Dedup!Latest(a)
  BY <1>1 DEF live
<1> HIDE DEF a
<1>9. PICK c \in 0..Len(a) :
         /\ seen' \in Seq(Entry)
         /\ Len(seen') = Len(a) - c
         /\ \A i \in 1..(Len(a) - c) : seen'[i] = a[c + i]
         /\ c = 0 \/ Len(a) - c = MaxEntries
  BY <1>7, <1>8, LatestProperties
<1>10. Types'
  BY <1>1, <1>3, <1>4, <1>9 DEF Types
<1>11. FreshSorted'
  <2>1. ASSUME NEW i \in 1..(n + 1) PROVE fresh'[i].at <= now
    BY <1>3, <1>4 DEF DedupInv, FreshSorted
  <2>2. ASSUME NEW i \in 1..(n + 1), NEW j \in 1..(n + 1), i <= j
        PROVE  fresh'[i].at <= fresh'[j].at
    <3>1. CASE j = n + 1
      BY <3>1, <2>1, <1>4
    <3>2. CASE j <= n
      <4>1. i \in 1..n /\ j \in 1..n
        BY <3>2, <2>2, <1>3
      <4> QED  BY <4>1, <2>2, <1>4 DEF DedupInv, FreshSorted
    <3> QED  BY <3>1, <3>2, <1>3
  <2> QED  BY <2>1, <2>2, <1>1, <1>4 DEF FreshSorted
<1>12. SeenIsTail'
  <2> DEFINE f == g + c
  <2>1. f \in 0..(n + 1) /\ Len(a) - c = n + 1 - f /\ Len(seen') = n + 1 - f
    BY <1>3, <1>5, <1>7, <1>9
  <2>5. f = g + c
    OBVIOUS
  <2>2. ASSUME NEW i \in 1..Len(seen') PROVE seen'[i] = fresh'[f + i]
    <3>1. /\ i \in 1..(Len(a) - c) /\ c + i \in 1..(n + 1 - g)
          /\ g + (c + i) = f + i
      BY <2>1, <1>3, <1>5, <1>7, <1>9
    <3> QED  BY <3>1, <1>7, <1>9
  <2> HIDE DEF f
  <2>3. ASSUME NEW i \in 1..f PROVE Gone(i)'
    <3>1. CASE i <= g
      <4>1. i \in 1..g /\ i \in 1..n
        BY <3>1, <1>3, <1>5
      <4>2. Gone(i)
        BY <4>1, <1>5
      <4>3. /\ fresh'[i] = fresh[i] /\ Len(fresh') = n + 1 /\ now' = now
            /\ n \in Nat /\ MaxEntries \in Nat
        BY <4>1, <1>1, <1>3, <1>4
      <4> QED  BY <4>2, <4>3 DEF Gone
    <3>2. CASE i > g
      <4>1. n + 1 - f = MaxEntries
        BY <3>2, <2>1, <2>5, <1>3, <1>5, <1>7, <1>9
      <4>2. f \in Nat
        BY <2>1, <1>3
      <4>3. (n + 1) + 1 - i > MaxEntries
        BY <4>1, <4>2, <1>3, Crowded
      <4> QED  BY <4>3, <1>4 DEF Gone
    <3> QED  BY <3>1, <3>2, <1>3, <1>5
  <2>4. TailAfter(f)'
    BY <2>1, <2>2, <2>3, <1>4 DEF TailAfter
  <2> QED  BY <2>1, <2>4, <1>4 DEF SeenIsTail
<1>13. ReadmittedLateOrCrowdedOut'
  <2>1. ASSUME NEW i \in 1..n, fresh[i].key = key
        PROVE  now - fresh[i].at >= TTL \/ n + 1 - i > MaxEntries
    <3>1. CASE i <= g
      <4>1. i \in 1..g
        BY <3>1, <1>3, <1>5
      <4>2. Gone(i)
        BY <4>1, <1>5
      <4> QED  BY <4>2 DEF Gone
    <3>2. CASE i > g
      <4>1. i - g \in 1..(n - g) /\ g + (i - g) = i
        BY <3>2, <1>3, <1>5
      <4>2. live[i - g].key = key /\ i - g \in 1..Len(live)
        BY <4>1, <2>1, <1>5
      <4>3. Dedup!Holds(live, key)
        BY <4>2 DEF Dedup!Holds
      <4> QED  BY <4>3, <1>1 DEF live
    <3> QED  BY <3>1, <3>2, <1>3, <1>5
  <2>2. ASSUME NEW i \in 1..(n + 1), NEW j \in 1..(n + 1), i < j,
               fresh'[i].key = fresh'[j].key
        PROVE  fresh'[j].at - fresh'[i].at >= TTL \/ j - i > MaxEntries
    <3>1. i \in 1..n
      BY <2>2, <1>3
    <3>2. CASE j = n + 1
      <4>1. fresh[i].key = key
        BY <3>1, <3>2, <2>2, <1>4
      <4> QED  BY <4>1, <3>1, <3>2, <2>1, <1>4
    <3>3. CASE j <= n
      <4>1. j \in 1..n
        BY <3>3, <1>3
      <4> QED  BY <4>1, <3>1, <2>2, <1>4
               DEF DedupInv, ReadmittedLateOrCrowdedOut, Dedup!ReadmittedLateOrCrowdedOut
    <3> QED  BY <3>2, <3>3, <1>3
  <2> QED  BY <2>2, <1>4
           DEF ReadmittedLateOrCrowdedOut, Dedup!ReadmittedLateOrCrowdedOut
<1> QED  BY <1>1, <1>10, <1>11, <1>12, <1>13 DEF DedupInv

\* As time goes on, what is gone stays gone.
LEMMA TickStep ==
    ASSUME DedupInv, now' = now + 1, seen' = seen, fresh' = fresh
    PROVE  DedupInv'
<1>1. /\ now \in Nat /\ TTL \in Nat /\ Len(fresh) \in Nat
      /\ \A i \in 1..Len(fresh) : fresh[i].at \in Nat
  BY Numbers DEF DedupInv
<1>2. PICK d \in 0..Len(fresh) : TailAfter(d)
  BY DEF DedupInv, SeenIsTail
<1>3. ASSUME NEW i \in 1..d PROVE Gone(i)'
  <2>1. Gone(i) /\ fresh[i].at \in Nat
    <3>1. i \in 1..d /\ i \in 1..Len(fresh)
      BY <1>1, <1>3
    <3>2. Gone(i)
      BY <1>2, <3>1, Zenon DEF TailAfter
    <3> QED  BY <1>1, <3>1, <3>2
  <2>2. CASE now - fresh[i].at >= TTL
    <3>1. now' - fresh'[i].at >= TTL
      BY <1>1, <2>1, <2>2
    <3> QED  BY <3>1 DEF Gone
  <2>3. CASE Len(fresh) + 1 - i > MaxEntries
    BY <2>3 DEF Gone
  <2> QED  BY <2>1, <2>2, <2>3 DEF Gone
<1>4. TailAfter(d)'
  BY <1>2, <1>3 DEF TailAfter
<1>5. SeenIsTail'
  BY <1>4 DEF SeenIsTail
<1>6. FreshSorted'
  BY <1>1 DEF DedupInv, FreshSorted
<1> QED  BY <1>1, <1>5, <1>6 DEF DedupInv, Types, ReadmittedLateOrCrowdedOut,
         Dedup!ReadmittedLateOrCrowdedOut

-----------------------------------------------------------------------------
\* A longer history keeps the approvals in it.
LEMMA ApprovalsStay ==
    ASSUME RelayInv, NEW e \in Entry, fresh' = Append(fresh, e), approvals' = approvals
    PROVE  ApprovalsAreFresh'
<1>1. Len(fresh) \in Nat
  BY LenProperties DEF RelayInv, DedupInv, Types
<1>2. Len(fresh') = Len(fresh) + 1 /\ \A i \in 1..Len(fresh) : fresh'[i] = fresh[i]
  BY Appended DEF RelayInv, DedupInv
<1> QED  BY <1>1, <1>2 DEF RelayInv, ApprovalsAreFresh

\* An approval is of the packet just let through.
LEMMA ApproveStep ==
    ASSUME RelayInv, NEW key \in Keys, NEW hops, NEW signal, Approve(key, hops, signal)
    PROVE  RelayInv'
<1> DEFINE e == [key |-> key, at |-> now]
           r == [key |-> key, at |-> now, nth |-> Len(fresh')]
           n == Len(approvals)
<1>1. DedupInv' /\ fresh' = Append(fresh, e)
  BY FreshStep DEF Approve, RelayInv
<1>2. e \in Entry /\ Len(fresh) \in Nat /\ now \in Nat
  BY LenProperties DEF RelayInv, DedupInv, Types, Entry
<1>3. /\ Len(fresh') = Len(fresh) + 1 /\ fresh'[Len(fresh) + 1] = e
      /\ \A i \in 1..Len(fresh) : fresh'[i] = fresh[i]
  BY <1>1, <1>2, Appended DEF RelayInv, DedupInv
<1>4. approvals' = Append(approvals, r)
  BY DEF Approve
<1>5. r \in [key : Keys, at : Nat, nth : Nat]
  BY <1>2, <1>3
<1>6. /\ approvals' \in Seq([key : Keys, at : Nat, nth : Nat])
      /\ Len(approvals') = n + 1 /\ approvals'[n + 1] = r
      /\ \A i \in 1..n : approvals'[i] = approvals[i]
  BY <1>4, <1>5, AppendProperties, LenProperties DEF RelayInv, ApprovalsAreFresh
<1>7. n \in Nat
  BY LenProperties DEF RelayInv, ApprovalsAreFresh
<1>8. ASSUME NEW i \in 1..(n + 1)
      PROVE  /\ approvals'[i].nth \in 1..Len(fresh')
             /\ fresh'[approvals'[i].nth].key = approvals'[i].key
             /\ fresh'[approvals'[i].nth].at = approvals'[i].at
  <2>1. CASE i = n + 1
    BY <2>1, <1>2, <1>3, <1>6
  <2>2. CASE i <= n
    <3>1. i \in 1..n /\ approvals'[i] = approvals[i]
      BY <2>2, <1>6, <1>7
    <3>2. /\ approvals[i].nth \in 1..Len(fresh)
          /\ fresh[approvals[i].nth].key = approvals[i].key
          /\ fresh[approvals[i].nth].at = approvals[i].at
      BY <3>1 DEF RelayInv, ApprovalsAreFresh
    <3>3. fresh'[approvals[i].nth] = fresh[approvals[i].nth]
      BY <3>2, <1>3
    <3>4. approvals[i].nth \in 1..Len(fresh')
      BY <3>2, <1>2, <1>3
    <3> QED  BY <3>1, <3>2, <3>3, <3>4
  <2> QED  BY <2>1, <2>2, <1>7
<1> QED  BY <1>1, <1>6, <1>8 DEF RelayInv, ApprovalsAreFresh

\* Nothing was heard and nothing approved.
LEMMA InitInv == Init => RelayInv
<1> SUFFICES ASSUME Init PROVE RelayInv
  OBVIOUS
<1>1. now = 0 /\ seen = <<>> /\ fresh = <<>> /\ approvals = <<>>
  BY DEF Init, Dedup!Init
<1>2. Types /\ Len(fresh) = 0 /\ Len(seen) = 0
  BY <1>1, EmptySeq DEF Types
<1>3. TailAfter(0)
  BY <1>2 DEF TailAfter
<1>4. SeenIsTail
  BY <1>2, <1>3 DEF SeenIsTail
<1>5. FreshSorted /\ ReadmittedLateOrCrowdedOut
  BY <1>2 DEF FreshSorted, ReadmittedLateOrCrowdedOut,
     Dedup!ReadmittedLateOrCrowdedOut
<1>6. ApprovalsAreFresh
  BY <1>1, EmptySeq DEF ApprovalsAreFresh
<1> QED  BY <1>2, <1>4, <1>5, <1>6 DEF RelayInv, DedupInv

\* Steps that leave the filter and the approvals alone.
LEMMA Unmoved ==
    ASSUME RelayInv, UNCHANGED <<now, seen, fresh, approvals>>
    PROVE  RelayInv'
  BY DEF RelayInv, DedupInv, Types, FreshSorted, SeenIsTail, TailAfter, Gone,
     ReadmittedLateOrCrowdedOut, Dedup!ReadmittedLateOrCrowdedOut, ApprovalsAreFresh

\* Every action keeps the invariant.
LEMMA NextInv == RelayInv /\ [Next]_vars => RelayInv'
<1> SUFFICES ASSUME RelayInv, [Next]_vars PROVE RelayInv'
  OBVIOUS
<1>1. CASE RejectDisabled \/ Relayed \/ SetEnabled \/ Stats \/ UNCHANGED vars
  BY <1>1, Unmoved DEF RejectDisabled, Reject, Relayed, SetEnabled, Stats,
     dedupPart, vars, Limiter!Observe
<1>2. ASSUME NEW key \in Keys, RejectDuplicate(key) PROVE RelayInv'
  <2>1. DedupInv' /\ fresh' = fresh /\ approvals' = approvals
    BY <1>2, DuplicateStep DEF RejectDuplicate, Reject, RelayInv
  <2> QED  BY <2>1 DEF RelayInv, ApprovalsAreFresh
<1>3. ASSUME NEW key \in Keys, NEW hops, NEW signal,
             RejectFiltered(key, hops, signal) \/ RejectRateLimited(key, hops, signal)
      PROVE  RelayInv'
  <2>1. /\ DedupInv' /\ fresh' = Append(fresh, [key |-> key, at |-> now])
        /\ approvals' = approvals
    BY <1>3, FreshStep DEF RejectFiltered, RejectRateLimited, Reject, RelayInv
  <2>2. [key |-> key, at |-> now] \in Entry
    BY DEF RelayInv, DedupInv, Types, Entry
  <2> QED  BY <2>1, <2>2, ApprovalsStay DEF RelayInv
<1>4. ASSUME NEW key \in Keys, NEW hops, NEW signal, Approve(key, hops, signal)
      PROVE  RelayInv'
  BY <1>4, ApproveStep
<1>5. CASE Tick
  <2>1. DedupInv'
    BY <1>5, TickStep DEF Tick, Limiter!Tick, dedupPart, RelayInv
  <2> QED  BY <1>5, <2>1 DEF Tick, dedupPart, RelayInv, ApprovalsAreFresh
<1> QED  BY <1>1, <1>2, <1>3, <1>4, <1>5 DEF Next, Process

\* The inductive invariant holds always.
LEMMA Invariance == Spec => []RelayInv
  BY InitInv, NextInv, PTL DEF Spec

-----------------------------------------------------------------------------
\* A packet is let through twice only after TTL or MaxEntries newer packets
\* (dedup_filter.py, is_duplicate with its two evictions).
THEOREM ReadmissionHolds == Spec => []ReadmittedLateOrCrowdedOut
<1>1. RelayInv => ReadmittedLateOrCrowdedOut
  BY DEF RelayInv, DedupInv
<1> QED  BY <1>1, Invariance, PTL

\* An entry no older than one within the TTL is within it too.
LEMMA NotLater ==
    ASSUME NEW t \in Nat, NEW w \in Nat, NEW a \in Nat, NEW b \in Nat,
           a > t - w, a <= b
    PROVE  t - b < w
  OBVIOUS

\* The filter silences a packet for no longer than TTL after it let it through
\* (dedup_filter.py, _evict_expired).
THEOREM SilenceIsShort == Spec => []DuplicateIsRecent
<1>1. RelayInv => DuplicateIsRecent
  <2> SUFFICES ASSUME RelayInv, NEW key \in Keys, Dedup!RejectsNow(key)
               PROVE  \E i \in 1..Len(fresh) : /\ fresh[i].key = key
                                               /\ now - fresh[i].at < TTL
    BY DEF DuplicateIsRecent, Dedup!DuplicateIsRecent
  <2>1. PICK k \in 0..Len(seen) : /\ Dedup!Expires(seen, now, k)
                                  /\ Dedup!Holds(Dedup!Live(seen, k), key)
    BY DEF Dedup!RejectsNow
  <2>2. PICK d \in 0..Len(fresh) : TailAfter(d)
    BY DEF RelayInv, DedupInv, SeenIsTail
  <2>3. /\ now \in Nat /\ TTL \in Nat /\ Len(fresh) \in Nat /\ Len(seen) \in Nat
        /\ \A i \in 1..Len(fresh) : fresh[i].at \in Nat
    BY Numbers DEF RelayInv, DedupInv
  <2>4. /\ Len(Dedup!Live(seen, k)) = Len(seen) - k
        /\ \A i \in 1..(Len(seen) - k) : Dedup!Live(seen, k)[i] = seen[k + i]
    BY LiveProperties DEF RelayInv, DedupInv, Types
  <2>5. PICK i \in 1..(Len(seen) - k) : seen[k + i].key = key
    BY <2>1, <2>4 DEF Dedup!Holds
  <2> DEFINE m == d + (k + i)
             l == d + (k + 1)
  <2>6. /\ k + i \in 1..Len(seen) /\ k + 1 \in 1..Len(seen) /\ k < Len(seen)
        /\ m \in 1..Len(fresh) /\ l \in 1..Len(fresh) /\ l <= m
    BY <2>2, <2>3 DEF TailAfter
  <2>7. seen[k + i] = fresh[m] /\ seen[k + 1] = fresh[l]
    BY <2>2, <2>6 DEF TailAfter
  <2>8. seen[k + 1].at > now - TTL
    BY <2>1, <2>6 DEF Dedup!Expires
  <2> HIDE DEF m, l
  <2>9. fresh[l].at <= fresh[m].at
    BY <2>6 DEF RelayInv, DedupInv, FreshSorted
  <2>10. now - fresh[m].at < TTL
    <3>1. fresh[l].at > now - TTL
      BY <2>7, <2>8
    <3>2. fresh[l].at \in Nat /\ fresh[m].at \in Nat
      BY <2>3, <2>6
    <3> QED  BY <2>3, <2>9, <3>1, <3>2, NotLater
  <2> QED  BY <2>5, <2>6, <2>7, <2>10
<1> QED  BY <1>1, Invariance, PTL

\* The first hearing of a packet decides for the TTL, whether it was relayed or
\* filtered out (relay_manager.py, evaluate).
THEOREM FirstHearingHolds == Spec => []FirstHearingDecides
<1>1. RelayInv => FirstHearingDecides
  <2> SUFFICES ASSUME RelayInv, NEW i \in 1..Len(approvals),
                      NEW m \in 1..(approvals[i].nth - 1),
                      fresh[m].key = approvals[i].key
               PROVE  \/ approvals[i].at - fresh[m].at >= TTL
                      \/ approvals[i].nth - m > MaxEntries
    BY DEF FirstHearingDecides
  <2> DEFINE j == approvals[i].nth
  <2>1. /\ j \in 1..Len(fresh)
        /\ fresh[j].key = approvals[i].key /\ fresh[j].at = approvals[i].at
    BY DEF RelayInv, ApprovalsAreFresh
  <2>2. Len(fresh) \in Nat
    BY LenProperties DEF RelayInv, DedupInv, Types
  <2> HIDE DEF j
  <2>3. m \in 1..Len(fresh) /\ m < j
    BY <2>1, <2>2 DEF j
  <2>4. fresh[j].at - fresh[m].at >= TTL \/ j - m > MaxEntries
    BY <2>1, <2>3
    DEF RelayInv, DedupInv, ReadmittedLateOrCrowdedOut,
        Dedup!ReadmittedLateOrCrowdedOut
  <2> QED  BY <2>1, <2>4 DEF j
<1> QED  BY <1>1, Invariance, PTL

-----------------------------------------------------------------------------
(* What the manager counts.                                                *)

Counted == /\ relayed \in Nat
           /\ rejected \in [Reasons -> Nat]
           /\ approvals \in Seq([key : Worthy, at : Nat, nth : Nat])

\* A rejection is the only change, and it is one packet more.
LEMMA RejectedOnce ==
    ASSUME Counted, RelayTypeOK, NEW reason \in Reasons, Idle, Reject(reason)
    PROVE  Counted' /\ RelayTypeOK'
<1>1. /\ rejected \in [Reasons -> Nat] /\ relayed \in Nat /\ MaxHeard \in Nat
      /\ rejected' = [rejected EXCEPT ![reason] = @ + 1]
      /\ UNCHANGED <<enabled, radio, relaying, relayed, approvals, pushed>>
      /\ relaying = NoPacket
  BY RelayAssumption DEF Counted, Reject, Idle
<1>2. /\ rejected' \in [Reasons -> Nat]
      /\ \A r \in Reasons : rejected'[r] = IF r = reason THEN rejected[r] + 1
                                           ELSE rejected[r]
      /\ \A r \in Reasons : rejected[r] \in Nat /\ rejected'[r] \in Nat
  BY <1>1
<1>3. Processed' = Processed + 1 /\ Processed \in Nat
  BY <1>1, <1>2 DEF Processed, Reasons
<1>4. Processed' \in 0..MaxHeard
  BY <1>1, <1>3 DEF Idle
<1> QED  BY <1>1, <1>2, <1>4 DEF Counted, RelayTypeOK

\* Only relay-worthy packets pass the filters.
LEMMA FilterReasons ==
    ASSUME NEW key, NEW hops \in Int, NEW signal
    PROVE  /\ Filter(key, hops, signal) \in Reasons \cup {"pass"}
           /\ Filter(key, hops, signal) = "pass" => key \in Worthy
  BY DEF Filter, Reasons

\* The packet approved is the one more until _relay has returned.
LEMMA ApprovedOnce ==
    ASSUME Counted, RelayTypeOK, NEW key \in Keys, NEW hops \in Int, NEW signal,
           Types, fresh' \in Seq(Entry), Approve(key, hops, signal)
    PROVE  Counted' /\ RelayTypeOK'
<1> DEFINE r == [key |-> key, at |-> now, nth |-> Len(fresh')]
<1>1. /\ approvals' = Append(approvals, r) /\ relaying' = key
      /\ UNCHANGED <<enabled, radio, relayed, rejected, pushed>>
      /\ relaying = NoPacket /\ Processed < MaxHeard
      /\ Filter(key, hops, signal) = "pass"
  BY DEF Approve, Idle
<1>2. r \in [key : Worthy, at : Nat, nth : Nat]
  BY <1>1, FilterReasons, LenProperties DEF Types
<1>3. /\ approvals' \in Seq([key : Worthy, at : Nat, nth : Nat])
      /\ \A i \in 1..Len(approvals') : approvals'[i] \in [key : Worthy, at : Nat, nth : Nat]
  BY <1>1, <1>2, AppendProperties, ElementOfSeq DEF Counted
<1>4. Counted'
  BY <1>1, <1>3 DEF Counted
<1>5. key # NoPacket /\ MaxHeard \in Nat
  BY RelayAssumption
<1>6. relayed \in Nat /\ \A x \in Reasons : rejected[x] \in Nat
  BY DEF Counted
<1>7. Processed' = Processed + 1 /\ Processed \in Nat
  <2>1. relaying' # NoPacket /\ relaying = NoPacket
    BY <1>1, <1>5
  <2>2. relayed' = relayed /\ rejected' = rejected
    BY <1>1
  <2> DEFINE a == rejected["relay_disabled"]     b == rejected["duplicate"]
             c == rejected["no_hops_remaining"]  d == rejected["non_relayable_type"]
             e == rejected["signal_too_strong"]  f == rejected["signal_too_weak"]
             g == rejected["rate_limited"]
             total(x) == relayed + x + a + b + c + d + e + f + g
  <2>3. /\ a \in Nat /\ b \in Nat /\ c \in Nat /\ d \in Nat
        /\ e \in Nat /\ f \in Nat /\ g \in Nat
    BY <1>6 DEF Reasons
  <2>4. Processed = total(0) /\ Processed' = total(1)
    BY <2>1, <2>2, Zenon DEF Processed
  <2> HIDE DEF a, b, c, d, e, f, g, r
  <2>5. total(0) \in Nat /\ total(1) = total(0) + 1
    BY <1>6, <2>3
  <2> HIDE DEF total
  <2> QED  BY <2>4, <2>5
<1>8. Processed' \in 0..MaxHeard
  BY <1>1, <1>5, <1>7
<1>9. \A i \in 1..Len(approvals') : approvals'[i].key \in Worthy
  BY <1>3
<1> QED  BY <1>1, <1>4, <1>8, <1>9 DEF RelayTypeOK

\* When _relay returns, the packet in hand becomes one relayed.
LEMMA RelayedOnce ==
    ASSUME Counted, RelayTypeOK, Relayed
    PROVE  Counted' /\ RelayTypeOK'
<1>1. /\ relaying # NoPacket /\ relaying' = NoPacket /\ relayed' = relayed + 1
      /\ UNCHANGED <<enabled, rejected, approvals>>
      /\ pushed' \subseteq pushed \cup {relaying} /\ relaying \in Keys
  BY DEF Relayed, RelayTypeOK
<1>2. relayed \in Nat /\ \A x \in Reasons : rejected[x] \in Nat
  BY DEF Counted
<1>3. Processed' = Processed
  BY <1>1, <1>2 DEF Processed, Reasons
<1>4. Counted'
  BY <1>1, <1>2 DEF Counted
<1> QED  BY <1>1, <1>3, <1>4 DEF RelayTypeOK

\* Every action keeps the counts.
LEMMA CountedNext ==
    RelayInv /\ RelayInv' /\ Counted /\ RelayTypeOK /\ [Next]_vars
        => Counted' /\ RelayTypeOK'
<1> SUFFICES ASSUME RelayInv, RelayInv', Counted, RelayTypeOK, [Next]_vars
             PROVE  Counted' /\ RelayTypeOK'
  OBVIOUS
<1>1. CASE UNCHANGED <<enabled, relaying, relayed, rejected, approvals, pushed>>
  BY <1>1 DEF Counted, RelayTypeOK, Processed
<1>2. CASE SetEnabled
  BY <1>2 DEF SetEnabled, Counted, RelayTypeOK, Processed
<1>3. CASE RejectDisabled
  BY <1>3, RejectedOnce DEF RejectDisabled, Reasons
<1>4. CASE Relayed
  BY <1>4, RelayedOnce
<1>5. ASSUME NEW key \in Keys, RejectDuplicate(key)
      PROVE  Counted' /\ RelayTypeOK'
  BY <1>5, RejectedOnce DEF RejectDuplicate, Reasons
<1>6. ASSUME NEW key \in Keys, NEW hops \in {0, 1}, NEW signal,
             RejectFiltered(key, hops, signal)
      PROVE  Counted' /\ RelayTypeOK'
  <2>1. Filter(key, hops, signal) \in Reasons
    BY <1>6, FilterReasons DEF RejectFiltered
  <2> QED  BY <1>6, <2>1, RejectedOnce DEF RejectFiltered
<1>7. ASSUME NEW key \in Keys, NEW hops \in {0, 1}, NEW signal,
             RejectRateLimited(key, hops, signal)
      PROVE  Counted' /\ RelayTypeOK'
  BY <1>7, RejectedOnce DEF RejectRateLimited, Reasons
<1>8. ASSUME NEW key \in Keys, NEW hops \in {0, 1}, NEW signal,
             Approve(key, hops, signal)
      PROVE  Counted' /\ RelayTypeOK'
  BY <1>8, ApprovedOnce DEF RelayInv, DedupInv, Types
<1>9. Stats \/ Tick \/ UNCHANGED vars =>
         UNCHANGED <<enabled, relaying, relayed, rejected, approvals, pushed>>
  BY DEF Stats, Tick, vars
<1> QED  BY <1>1, <1>2, <1>3, <1>4, <1>5, <1>6, <1>7, <1>8, <1>9 DEF Next, Process

\* Only relay-worthy packets are ever approved, whatever is heard with whatever
\* hops and signal, and every packet is counted no more than once, as relayed
\* or under one reason (relay_manager.py, evaluate and process_packet).
THEOREM RelayTypes == Spec => []RelayTypeOK
<1>1. Init => Counted /\ RelayTypeOK
  <2> SUFFICES ASSUME Init PROVE Counted /\ RelayTypeOK
    OBVIOUS
  <2>1. /\ relaying = NoPacket /\ relayed = 0 /\ approvals = <<>> /\ pushed = {}
        /\ rejected = [r \in Reasons |-> 0] /\ enabled \in BOOLEAN
    BY DEF Init
  <2>2. Processed = 0
    BY <2>1 DEF Processed, Reasons
  <2> QED  BY <2>1, <2>2, EmptySeq, RelayAssumption DEF Counted, RelayTypeOK
<1> QED  BY <1>1, CountedNext, Invariance, PTL DEF Spec
=============================================================================
