-------------------------- MODULE AddressPoolProofs --------------------------
(***************************************************************************)
(* Proofs about AddressPool, for any pools, requests, peers and actors.    *)
(*                                                                         *)
(* The two scans are recursive functions.  What they find is proved from   *)
(* their equations, by the least-number principle.  What a preview has     *)
(* checked holds as long as its revision is the current one, because every *)
(* step that changes a row, a peer or an AllowedIP ends all of them.       *)
(***************************************************************************)
EXTENDS AddressPool, WellFoundedInduction, FiniteSetTheorems, TLAPS

-----------------------------------------------------------------------------
(* The scans *)

LEMMA LeastNumber ==
  ASSUME NEW S \in SUBSET Nat, S # {}
  PROVE  \E m \in S : \A n \in S : m <= n
<1> DEFINE R == OpToRel(<, Nat)
<1>1. IsWellFoundedOn(R, Nat)
  BY NatLessThanWellFounded, Zenon
<1>2. \A a, b \in Nat : a < b => <<a, b>> \in R
  BY DEF OpToRel
<1> HIDE DEF R
<1>3. PICK m \in S : \A n \in S : ~(<<n, m>> \in R)
  BY <1>1, WFMin
<1>4. \A n \in S : ~(n < m)
  BY <1>2, <1>3, Zenon
<1>5. \A n \in S : m <= n
  BY <1>4
<1> QED BY <1>5

\* A pool's fields are numbers.
LEMMA PoolTypes ==
  /\ Len(Pools) \in Nat /\ DOMAIN Pools = 1 .. Len(Pools)
  /\ \A k \in DOMAIN Pools : /\ Pools[k].base \in Nat /\ Pools[k].size \in Nat /\ Pools[k].size > 0
                             /\ Pools[k].fam \in {4, 6}
<1> DEFINE P == [fam : {4, 6}, base : Nat, size : Nat \ {0}, gateway : Nat]
<1>1. Pools \in Seq(P)
  BY PoolsAssumption
<1>2. \A x \in P : x.base \in Nat /\ x.size \in Nat /\ x.size > 0 /\ x.fam \in {4, 6}
  OBVIOUS
<1> HIDE DEF P
<1>3. Len(Pools) \in Nat /\ DOMAIN Pools = 1 .. Len(Pools) /\ \A k \in DOMAIN Pools : Pools[k] \in P
  BY <1>1
<1> QED BY <1>2, <1>3

\* Address i of pool k can be handed out, and a scan gets as far.
Open(k, i) == i < Pools[k].size /\ Usable(k, Pools[k].base + i) /\ Free(<<k, Pools[k].base + i>>)

ScanStep(k, f) ==
  [i \in 0 .. MaxScan |->
     IF i = MaxScan \/ i >= Pools[k].size THEN None
     ELSE IF Usable(k, Pools[k].base + i) /\ Free(<<k, Pools[k].base + i>>)
          THEN <<k, Pools[k].base + i>> ELSE f[i + 1]]

\* A function that satisfies the equation of the scan, found without recursion
LEMMA ScanExists ==
  ASSUME NEW k \in DOMAIN Pools
  PROVE  \E f : f = ScanStep(k, f)
<1> DEFINE from(i) == {j \in 0 .. MaxScan - 1 : i <= j /\ Open(k, j)}
           least(i) == CHOOSE m \in from(i) : \A n \in from(i) : m <= n
           f == [i \in 0 .. MaxScan |->
                   IF from(i) = {} THEN None ELSE <<k, Pools[k].base + least(i)>>]
<1>1. \A i \in 0 .. MaxScan : from(i) # {} =>
        least(i) \in from(i) /\ \A n \in from(i) : least(i) <= n
  <2> TAKE i \in 0 .. MaxScan
  <2> HAVE from(i) # {}
  <2>1. from(i) \in SUBSET Nat
    BY MaxScanAssumption
  <2> HIDE DEF from
  <2>2. \E m \in from(i) : \A n \in from(i) : m <= n
    BY <2>1, LeastNumber
  <2> QED BY <2>2
<1> SUFFICES ASSUME NEW i \in 0 .. MaxScan PROVE f[i] = ScanStep(k, f)[i]
  <2>1. f = [i \in 0 .. MaxScan |-> f[i]]
    OBVIOUS
  <2> HIDE DEF f
  <2>2. ScanStep(k, f) = [i \in 0 .. MaxScan |-> ScanStep(k, f)[i]]
    BY DEF ScanStep
  <2>3. (\A i \in 0 .. MaxScan : f[i] = ScanStep(k, f)[i]) => f = ScanStep(k, f)
    <3> HIDE DEF ScanStep
    <3> QED BY <2>1, <2>2, Zenon
  <2> QED BY <2>3
<1>2. Pools[k].base \in Nat /\ Pools[k].size \in Nat
  BY PoolTypes
<1>3. CASE i = MaxScan \/ i >= Pools[k].size
  <2>1. from(i) = {}
    BY <1>2, <1>3, MaxScanAssumption DEF Open
  <2> QED BY <1>3, <2>1 DEF ScanStep
<1>4. CASE ~(i = MaxScan \/ i >= Pools[k].size) /\ Open(k, i)
  <2>1. i \in from(i) /\ \A n \in from(i) : i <= n
    BY <1>4, MaxScanAssumption
  <2>2. least(i) = i
    <3>1. least(i) \in from(i) /\ least(i) <= i /\ i <= least(i)
      BY <1>1, <2>1
    <3>2. least(i) \in Nat
      BY <3>1, MaxScanAssumption
    <3> HIDE DEF least, from
    <3> QED BY <3>1, <3>2
  <2>3. f[i] = <<k, Pools[k].base + i>>
    <3> HIDE DEF least, from
    <3> QED BY <2>1, <2>2
  <2> QED BY <1>4, <2>3 DEF ScanStep, Open
<1>5. CASE ~(i = MaxScan \/ i >= Pools[k].size) /\ ~Open(k, i)
  <2>1. i + 1 \in 0 .. MaxScan /\ i < Pools[k].size
    BY <1>2, <1>5, MaxScanAssumption
  <2>2. from(i) = from(i + 1)
    BY <1>5, MaxScanAssumption
  <2>3. f[i] = f[i + 1]
    <3> HIDE DEF from
    <3> QED BY <2>1, <2>2
  <2> HIDE DEF f
  <2> QED BY <1>5, <2>1, <2>3 DEF ScanStep, Open
<1> QED BY <1>3, <1>4, <1>5

LEMMA ScanEquation ==
  ASSUME NEW k \in DOMAIN Pools
  PROVE  Scan(k) = ScanStep(k, Scan(k))
<1>1. Scan(k) = CHOOSE f : f = ScanStep(k, f)
  BY DEF Scan, ScanStep
<1> HIDE DEF ScanStep
<1> QED BY <1>1, ScanExists, Zenon

\* From i on, the scan finds the first address that is open, or that there is none.
Finds(k, i) ==
  LET r == Scan(k)[i]
  IN  \/ r = None /\ \A j \in i .. MaxScan - 1 : ~Open(k, j)
      \/ \E m \in i .. MaxScan - 1 : /\ r = <<k, Pools[k].base + m>> /\ Open(k, m)
                                     /\ \A j \in i .. m - 1 : ~Open(k, j)

LEMMA ScanFinds ==
  ASSUME NEW k \in DOMAIN Pools
  PROVE  Finds(k, 0)
<1> DEFINE bad == {d \in 0 .. MaxScan : ~Finds(k, MaxScan - d)}
<1>1. Pools[k].base \in Nat /\ Pools[k].size \in Nat
  BY PoolTypes
<1>2. ASSUME NEW i \in 0 .. MaxScan, i < MaxScan => Finds(k, i + 1)
      PROVE  Finds(k, i)
  <2>1. Scan(k)[i] = IF i = MaxScan \/ i >= Pools[k].size THEN None
                     ELSE IF Usable(k, Pools[k].base + i) /\ Free(<<k, Pools[k].base + i>>)
                          THEN <<k, Pools[k].base + i>> ELSE Scan(k)[i + 1]
    BY ScanEquation, Zenon DEF ScanStep
  <2>2. CASE i = MaxScan \/ i >= Pools[k].size
    BY <1>1, <2>1, <2>2, MaxScanAssumption DEF Finds, Open
  <2>3. CASE ~(i = MaxScan \/ i >= Pools[k].size) /\ Open(k, i)
    <3>1. Scan(k)[i] = <<k, Pools[k].base + i>>
      BY <2>1, <2>3 DEF Open
    <3>2. i \in i .. MaxScan - 1 /\ \A j \in i .. i - 1 : ~Open(k, j)
      BY <2>3, MaxScanAssumption
    <3> QED BY <2>3, <3>1, <3>2 DEF Finds
  <2>4. CASE ~(i = MaxScan \/ i >= Pools[k].size) /\ ~Open(k, i)
    <3>1. Finds(k, i + 1) /\ Scan(k)[i] = Scan(k)[i + 1]
      BY <1>1, <1>2, <2>1, <2>4, MaxScanAssumption DEF Open
    <3>2. \A j \in i .. MaxScan - 1 : j = i \/ j \in (i + 1) .. MaxScan - 1
      BY <1>1, MaxScanAssumption
    <3>3. CASE Scan(k)[i + 1] = None /\ \A j \in (i + 1) .. MaxScan - 1 : ~Open(k, j)
      BY <2>4, <3>1, <3>2, <3>3 DEF Finds
    <3>4. CASE \E m \in (i + 1) .. MaxScan - 1 :
                 /\ Scan(k)[i + 1] = <<k, Pools[k].base + m>> /\ Open(k, m)
                 /\ \A j \in (i + 1) .. m - 1 : ~Open(k, j)
      <4>1. PICK m \in (i + 1) .. MaxScan - 1 :
                 /\ Scan(k)[i + 1] = <<k, Pools[k].base + m>> /\ Open(k, m)
                 /\ \A j \in (i + 1) .. m - 1 : ~Open(k, j)
        BY <3>4
      <4>2. m \in i .. MaxScan - 1 /\ \A j \in i .. m - 1 : j = i \/ j \in (i + 1) .. m - 1
        BY MaxScanAssumption
      <4>3. \A j \in i .. m - 1 : ~Open(k, j)
        BY <2>4, <4>1, <4>2
      <4> QED BY <3>1, <4>1, <4>2, <4>3 DEF Finds
    <3> QED BY <3>1, <3>3, <3>4 DEF Finds
  <2> QED BY <2>2, <2>3, <2>4
<1>3. bad = {}
  <2> SUFFICES ASSUME bad # {} PROVE FALSE
    OBVIOUS
  <2>1. bad \in SUBSET Nat
    BY MaxScanAssumption
  <2>2. PICK d \in bad : \A e \in bad : d <= e
    <3> HIDE DEF bad
    <3> QED BY <2>1, LeastNumber
  <2>3. MaxScan - d \in 0 .. MaxScan /\ d \in 0 .. MaxScan
    BY <2>2, MaxScanAssumption
  <2>4. MaxScan - d < MaxScan => Finds(k, (MaxScan - d) + 1)
    <3> SUFFICES ASSUME MaxScan - d < MaxScan PROVE Finds(k, (MaxScan - d) + 1)
      OBVIOUS
    <3>1. d - 1 \in 0 .. MaxScan /\ ~(d <= d - 1)
      BY <2>3, MaxScanAssumption
    <3>2. Finds(k, MaxScan - (d - 1))
      BY <2>2, <3>1
    <3>3. MaxScan - (d - 1) = (MaxScan - d) + 1
      BY <2>3, MaxScanAssumption
    <3> QED BY <3>2, <3>3
  <2>5. Finds(k, MaxScan - d)
    BY <1>2, <2>3, <2>4
  <2> QED BY <2>2, <2>5
<1>4. MaxScan \in 0 .. MaxScan /\ MaxScan - MaxScan = 0
  BY MaxScanAssumption
<1> QED BY <1>3, <1>4

PoolStep(f) ==
  [k \in 1 .. Len(Pools) + 1 |->
     IF k > Len(Pools) THEN None ELSE IF Allocate(k) # None THEN Allocate(k) ELSE f[k + 1]]

LEMMA ScanPoolsExists == \E f : f = PoolStep(f)
<1> DEFINE from(k) == {j \in 1 .. Len(Pools) : k <= j /\ Allocate(j) # None}
           least(k) == CHOOSE m \in from(k) : \A n \in from(k) : m <= n
           f == [k \in 1 .. Len(Pools) + 1 |->
                   IF from(k) = {} THEN None ELSE Allocate(least(k))]
<1>0. Len(Pools) \in Nat
  BY PoolTypes
<1>1. \A k \in 1 .. Len(Pools) + 1 : from(k) # {} =>
        least(k) \in from(k) /\ \A n \in from(k) : least(k) <= n
  <2> TAKE k \in 1 .. Len(Pools) + 1
  <2> HAVE from(k) # {}
  <2>1. from(k) \in SUBSET Nat
    BY <1>0
  <2> HIDE DEF from
  <2>2. \E m \in from(k) : \A n \in from(k) : m <= n
    BY <2>1, LeastNumber
  <2> QED BY <2>2
<1> SUFFICES ASSUME NEW k \in 1 .. Len(Pools) + 1 PROVE f[k] = PoolStep(f)[k]
  <2>1. f = [k \in 1 .. Len(Pools) + 1 |-> f[k]]
    OBVIOUS
  <2> HIDE DEF f
  <2>2. PoolStep(f) = [k \in 1 .. Len(Pools) + 1 |-> PoolStep(f)[k]]
    BY DEF PoolStep
  <2>3. (\A k \in 1 .. Len(Pools) + 1 : f[k] = PoolStep(f)[k]) => f = PoolStep(f)
    <3> HIDE DEF PoolStep
    <3> QED BY <2>1, <2>2, Zenon
  <2> QED BY <2>3
<1>2. CASE k > Len(Pools)
  <2>1. from(k) = {}
    BY <1>0, <1>2
  <2> QED BY <1>2, <2>1 DEF PoolStep
<1>3. CASE k <= Len(Pools) /\ Allocate(k) # None
  <2>1. k \in from(k) /\ \A n \in from(k) : k <= n
    BY <1>0, <1>3
  <2>2. least(k) = k
    <3>1. least(k) \in from(k) /\ least(k) <= k /\ k <= least(k)
      BY <1>1, <2>1
    <3>2. least(k) \in Nat
      BY <1>0, <3>1
    <3> HIDE DEF least, from
    <3> QED BY <3>1, <3>2
  <2>3. f[k] = Allocate(k)
    <3> HIDE DEF least, from
    <3> QED BY <2>1, <2>2
  <2>4. ~(k > Len(Pools))
    BY <1>0, <1>3
  <2> HIDE DEF f
  <2> QED BY <1>3, <2>3, <2>4 DEF PoolStep
<1>4. CASE k <= Len(Pools) /\ Allocate(k) = None
  <2>1. k + 1 \in 1 .. Len(Pools) + 1 /\ ~(k > Len(Pools))
    BY <1>0, <1>4
  <2>2. from(k) = from(k + 1)
    BY <1>0, <1>4
  <2>3. f[k] = f[k + 1]
    <3> HIDE DEF from
    <3> QED BY <2>1, <2>2
  <2> HIDE DEF f
  <2> QED BY <1>4, <2>1, <2>3 DEF PoolStep
<1>5. k > Len(Pools) \/ k <= Len(Pools)
  BY <1>0
<1> HIDE DEF f
<1> QED BY <1>2, <1>3, <1>4, <1>5

LEMMA ScanPoolsEquation == ScanPools = PoolStep(ScanPools)
<1>1. ScanPools = CHOOSE f : f = PoolStep(f)
  BY DEF ScanPools, PoolStep
<1> HIDE DEF PoolStep
<1> QED BY <1>1, ScanPoolsExists, Zenon

\* From pool k on, the address is that of the first pool that has one.
FindsPool(k) ==
  LET r == ScanPools[k]
  IN  \/ r = None
      \/ \E m \in k .. Len(Pools) : /\ r = Allocate(m) /\ r # None
                                    /\ \A j \in k .. m - 1 : Allocate(j) = None

LEMMA ScanPoolsFinds == FindsPool(1)
<1> DEFINE bad == {d \in 0 .. Len(Pools) : ~FindsPool(Len(Pools) + 1 - d)}
<1>0. Len(Pools) \in Nat
  BY PoolTypes
<1>2. ASSUME NEW k \in 1 .. Len(Pools) + 1, k <= Len(Pools) => FindsPool(k + 1)
      PROVE  FindsPool(k)
  <2>1. ScanPools[k] = IF k > Len(Pools) THEN None
                       ELSE IF Allocate(k) # None THEN Allocate(k) ELSE ScanPools[k + 1]
    BY ScanPoolsEquation, Zenon DEF PoolStep
  <2>2. CASE k > Len(Pools)
    BY <2>1, <2>2 DEF FindsPool
  <2>3. CASE k <= Len(Pools) /\ Allocate(k) # None
    <3>1. ScanPools[k] = Allocate(k)
      BY <1>0, <2>1, <2>3
    <3>2. k \in k .. Len(Pools) /\ \A j \in k .. k - 1 : Allocate(j) = None
      BY <1>0, <2>3
    <3> QED BY <2>3, <3>1, <3>2 DEF FindsPool
  <2>4. CASE k <= Len(Pools) /\ Allocate(k) = None
    <3>1. ScanPools[k] = ScanPools[k + 1] /\ FindsPool(k + 1)
      BY <1>0, <1>2, <2>1, <2>4
    <3>2. CASE ScanPools[k + 1] = None
      BY <3>1, <3>2 DEF FindsPool
    <3>3. CASE ScanPools[k + 1] # None
      <4>1. PICK m \in (k + 1) .. Len(Pools) :
                 /\ ScanPools[k + 1] = Allocate(m) /\ ScanPools[k + 1] # None
                 /\ \A j \in (k + 1) .. m - 1 : Allocate(j) = None
        BY <3>1, <3>3, Zenon DEF FindsPool
      <4>2. m \in k .. Len(Pools) /\ \A j \in k .. m - 1 : j = k \/ j \in (k + 1) .. m - 1
        BY <1>0
      <4>3. \A j \in k .. m - 1 : Allocate(j) = None
        BY <2>4, <4>1, <4>2
      <4> QED BY <3>1, <3>3, <4>1, <4>2, <4>3 DEF FindsPool
    <3> QED BY <3>2, <3>3
  <2> QED BY <1>0, <2>2, <2>3, <2>4
<1>3. bad = {}
  <2> SUFFICES ASSUME bad # {} PROVE FALSE
    OBVIOUS
  <2>1. bad \in SUBSET Nat
    BY <1>0
  <2>2. PICK d \in bad : \A e \in bad : d <= e
    <3> HIDE DEF bad
    <3> QED BY <2>1, LeastNumber
  <2>3. Len(Pools) + 1 - d \in 1 .. Len(Pools) + 1 /\ d \in 0 .. Len(Pools)
    BY <1>0, <2>2
  <2>4. Len(Pools) + 1 - d <= Len(Pools) => FindsPool((Len(Pools) + 1 - d) + 1)
    <3> SUFFICES ASSUME Len(Pools) + 1 - d <= Len(Pools) PROVE FindsPool((Len(Pools) + 1 - d) + 1)
      OBVIOUS
    <3>1. d - 1 \in 0 .. Len(Pools) /\ ~(d <= d - 1)
      BY <1>0, <2>3
    <3>2. FindsPool(Len(Pools) + 1 - (d - 1))
      BY <2>2, <3>1
    <3>3. Len(Pools) + 1 - (d - 1) = (Len(Pools) + 1 - d) + 1
      BY <1>0, <2>3
    <3> QED BY <3>2, <3>3
  <2>5. FindsPool(Len(Pools) + 1 - d)
    BY <1>2, <2>3, <2>4
  <2> QED BY <2>2, <2>5
<1>4. Len(Pools) \in 0 .. Len(Pools) /\ Len(Pools) + 1 - Len(Pools) = 1
  BY <1>0
<1> QED BY <1>3, <1>4

LEMMA SlotFacts ==
  /\ \A s \in Slots : /\ s = <<s[1], s[2]>> /\ s[1] \in DOMAIN Pools /\ s[1] \in Nat /\ s[2] \in Nat
                      /\ s[2] \in Span(Pools[s[1]])
                      /\ s[2] - Pools[s[1]].base \in 0 .. Pools[s[1]].size - 1
  /\ \A k \in DOMAIN Pools : \A n \in Span(Pools[k]) : <<k, n>> \in Slots
<1>1. \A k \in DOMAIN Pools : \A n \in Span(Pools[k]) : <<k, n>> \in Slots
  BY DEF Slots
<1>2. ASSUME NEW s \in Slots
      PROVE  /\ s = <<s[1], s[2]>> /\ s[1] \in DOMAIN Pools /\ s[1] \in Nat /\ s[2] \in Nat
             /\ s[2] \in Span(Pools[s[1]])
             /\ s[2] - Pools[s[1]].base \in 0 .. Pools[s[1]].size - 1
  <2>1. PICK k \in DOMAIN Pools : s \in {<<k, n>> : n \in Span(Pools[k])}
    BY DEF Slots
  <2>2. PICK n \in Span(Pools[k]) : s = <<k, n>>
    BY <2>1
  <2>3. Pools[k].base \in Nat /\ Pools[k].size \in Nat /\ k \in Nat
    BY PoolTypes
  <2>4. n \in Nat /\ n - Pools[k].base \in 0 .. Pools[k].size - 1
    BY <2>2, <2>3 DEF Span
  <2> QED BY <2>2, <2>3, <2>4
<1> QED BY <1>1, <1>2

\* The address is usable and has no row, and every usable one before it that a scan
\* reaches has one.
FirstFree(s) ==
  /\ Usable(s[1], s[2])
  /\ \A t \in Slots : Before(t, s) /\ InReach(t) /\ Usable(t[1], t[2]) => rows[t] # None

\* What the two scans find together, for every set of pools and rows
LEMMA NextAvailableIsFirst ==
  ASSUME NextAvailableAddress \in Slots
  PROVE  rows[NextAvailableAddress] = None /\ FirstFree(NextAvailableAddress)
<1> DEFINE s == NextAvailableAddress
<1>1. PICK m \in 1 .. Len(Pools) : /\ s = Allocate(m) /\ s # None
                                   /\ \A j \in 1 .. m - 1 : Allocate(j) = None
  <2>1. s # None
    BY NoneAssumption
  <2> QED BY <2>1, ScanPoolsFinds, Zenon DEF FindsPool, NextAvailableAddress
<1>2. m \in DOMAIN Pools /\ m \in Nat /\ Pools[m].base \in Nat /\ Pools[m].size \in Nat
  BY PoolTypes
<1>3. PICK i \in 0 .. MaxScan - 1 : /\ s = <<m, Pools[m].base + i>> /\ Open(m, i)
                                    /\ \A j \in 0 .. i - 1 : ~Open(m, j)
  BY <1>1, <1>2, ScanFinds, Zenon DEF Finds, Allocate
<1> HIDE DEF s
<1>4. rows[s] = None /\ Usable(s[1], s[2]) /\ s[1] = m /\ s[2] = Pools[m].base + i
  BY <1>3 DEF Open, Free
<1>5. ASSUME NEW t \in Slots, Before(t, s), InReach(t), Usable(t[1], t[2]), rows[t] = None
      PROVE  FALSE
  <2> DEFINE k == t[1]
             d == t[2] - Pools[k].base
  <2>1. /\ k \in DOMAIN Pools /\ k \in Nat /\ t[2] \in Nat /\ d \in 0 .. Pools[k].size - 1
        /\ t = <<k, t[2]>> /\ Pools[k].base \in Nat /\ Pools[k].size \in Nat
    BY SlotFacts, PoolTypes
  <2>2. Pools[k].base + d = t[2] /\ d \in 0 .. MaxScan - 1 /\ d < Pools[k].size
    <3>1. PICK b \in Nat, z \in Nat, n \in Nat : b = Pools[k].base /\ z = Pools[k].size /\ n = t[2]
      BY <2>1
    <3>2. n < b + MaxScan /\ n - b \in 0 .. z - 1
      BY <1>5, <2>1, <3>1 DEF InReach
    <3>3. b + (n - b) = n /\ n - b \in 0 .. MaxScan - 1 /\ n - b < z
      BY <3>2, MaxScanAssumption
    <3> QED BY <3>1, <3>3
  <2>3. Open(k, d)
    <3>1. t = <<k, Pools[k].base + d>>
      BY <2>1, <2>2
    <3> QED BY <1>5, <2>2, <3>1 DEF Open, Free
  <2>4. CASE k < m
    <3>1. Allocate(k) = None
      BY <1>1, <1>2, <2>1, <2>4, PoolTypes
    <3>2. \A n \in 0 .. MaxScan - 1 : Open(k, n) => <<k, Pools[k].base + n>> # None
      <4> TAKE n \in 0 .. MaxScan - 1
      <4> HAVE Open(k, n)
      <4>1. Pools[k].base + n \in Span(Pools[k])
        <5>1. PICK b \in Nat, z \in Nat : b = Pools[k].base /\ z = Pools[k].size
          BY <2>1
        <5>2. n < z
          BY <5>1 DEF Open
        <5>3. b + n \in b .. b + z - 1
          BY <5>2, MaxScanAssumption
        <5> QED BY <5>1, <5>3 DEF Span
      <4> QED BY <2>1, <4>1, SlotFacts, NoneAssumption
    <3>3. \A j \in 0 .. MaxScan - 1 : ~Open(k, j)
      BY <2>1, <3>1, <3>2, ScanFinds DEF Finds, Allocate
    <3> QED BY <2>2, <2>3, <3>3
  <2>5. CASE k = m /\ t[2] < Pools[m].base + i
    <3>1. d \in 0 .. i - 1
      BY <1>2, <2>1, <2>5, MaxScanAssumption
    <3> QED BY <1>3, <2>3, <2>5, <3>1
  <2> QED BY <1>4, <1>5, <2>4, <2>5 DEF Before
<1> QED BY <1>4, <1>5 DEF FirstFree, s

-----------------------------------------------------------------------------
(* The invariant *)

\* What the preview of a request has checked, as long as the request is current
CreateOK(q) ==
  /\ life[q.peer] = "none" /\ q.slot \in Slots /\ rows[q.slot] = None
  /\ HostPrefix(q.slot) \in CanonicalPrefixes(q.list)
  /\ ~OverlapsOther(CanonicalPrefixes(q.list), q.peer)
  /\ q.auto => FirstFree(q.slot)
Checked(q) ==
  q.current =>
    /\ q.kind = "create" => CreateOK(q)
    /\ q.kind = "update" => life[q.peer] = "active" /\ ~OverlapsOther(q.set, q.peer)
    /\ q.kind \in {"disable", "enable", "revoke"} => LifecycleAllows(q.kind, q.peer)

RequestsOK ==
  /\ op # None => Checked(op) /\ (op.stage = "executing" => op.current)
  /\ \A a \in Actors : plan[a] # None => Checked(plan[a]) /\ plan[a].stage = "pending"

IInv ==
  /\ TypeOK /\ RequestsOK /\ RowsMatchPeers
  /\ \A p \in synced : life[p] # "none"

LEMMA DesiredFacts ==
  ASSUME NEW set \in SUBSET Prefixes
  PROVE  /\ Desired(set) \subseteq Slots
         /\ \A s \in Desired(set) : HostPrefix(s) \in set
<1> SUFFICES ASSUME NEW s \in Desired(set) PROVE s \in Slots /\ HostPrefix(s) \in set
  OBVIOUS
<1>1. PICK x \in set : \E k \in PoolsOf(x) : s = <<k, x.base>>
  BY DEF Desired
<1>2. PICK k \in DOMAIN Pools : IsHost(x) /\ Contains(k, x) /\ s = <<k, x.base>>
  BY <1>1 DEF PoolsOf
<1>3. x.base \in Span(Pools[k]) /\ x.fam = Pools[k].fam /\ x.size = 1
  BY <1>2 DEF Contains, IsHost
<1>4. s \in Slots
  BY <1>2, <1>3, SlotFacts
<1>5. x = [fam |-> x.fam, base |-> x.base, size |-> x.size]
  BY DEF Prefixes
<1>6. HostPrefix(s) = x
  BY <1>2, <1>3, <1>5 DEF HostPrefix, Prefix
<1> QED BY <1>4, <1>6

LEMMA RowFacts ==
  ASSUME NEW p \in Peers, NEW q \in Peers
  PROVE  /\ Row("allocated", p) \in Rows /\ Row("quarantined", p) \in Rows
         /\ Row("allocated", p) # None /\ Row("quarantined", p) # None
         /\ Row("allocated", p) # Row("quarantined", q)
         /\ p # q => Row("allocated", p) # Row("allocated", q)
<1>1. Row("allocated", p) \in Rows /\ Row("quarantined", p) \in Rows
  BY DEF Row, Rows
<1>2. Row("allocated", p) # Row("quarantined", q)
  BY DEF Row
<1>3. p # q => Row("allocated", p) # Row("allocated", q)
  BY DEF Row
<1> QED BY <1>1, <1>2, <1>3, NoneAssumption

-----------------------------------------------------------------------------
(* Steps that change no row, peer or AllowedIP *)

LEMMA InitInv == Init => IInv
<1> SUFFICES ASSUME NEW peers \in Adopted,
               /\ allowed = peers
               /\ life = [p \in Peers |-> IF peers[p] = {} THEN "none" ELSE "active"]
               /\ rows = [s \in Slots |->
                            LET owners == {p \in Peers : s \in Desired(peers[p])}
                            IN  IF owners = {} THEN None
                                ELSE Row("allocated", CHOOSE p \in owners : TRUE)]
               /\ plan = [a \in Actors |-> None]
               /\ op = None
               /\ synced = {p \in Peers : peers[p] # {}}
             PROVE  IInv
  BY DEF Init
<1> DEFINE owners(s) == {p \in Peers : s \in Desired(peers[p])}
<1>1. peers \in [Peers -> SUBSET Prefixes]
  BY AdoptedAssumption
<1>2. \A s \in Slots : \A p \in owners(s) : owners(s) = {p}
  BY AdoptedAssumption
<1>3. \A s \in Slots, p \in Peers : s \in Desired(peers[p]) => rows[s] = Row("allocated", p)
  <2> TAKE s \in Slots, p \in Peers
  <2> HAVE s \in Desired(peers[p])
  <2>1. owners(s) = {p}
    BY <1>2
  <2>2. rows[s] = Row("allocated", CHOOSE q \in owners(s) : TRUE)
    BY <2>1
  <2> HIDE DEF owners
  <2> QED BY <2>1, <2>2
<1>4. \A s \in Slots : owners(s) = {} => rows[s] = None
  OBVIOUS
<1>5. \A p \in Peers : Held(p) = Desired(peers[p])
  <2> TAKE p \in Peers
  <2>1. Desired(peers[p]) \subseteq Held(p)
    BY <1>1, <1>3, DesiredFacts DEF Held
  <2>2. ASSUME NEW s \in Held(p) PROVE s \in Desired(peers[p])
    <3>1. s \in Slots /\ rows[s] = Row("allocated", p) /\ rows[s] # None
      BY <2>2, RowFacts DEF Held
    <3>2. PICK q \in Peers : s \in Desired(peers[q])
      BY <1>4, <3>1
    <3>3. Row("allocated", q) = Row("allocated", p)
      BY <1>3, <3>1, <3>2
    <3> QED BY <3>2, <3>3, RowFacts
  <2> QED BY <2>1, <2>2
<1>6. TypeOK
  <2>1. \A s \in Slots : rows[s] \in Rows \cup {None}
    <3> TAKE s \in Slots
    <3>1. CASE owners(s) = {}
      BY <1>4, <3>1
    <3>2. CASE owners(s) # {}
      BY <1>3, <3>2, RowFacts
    <3> QED BY <3>1, <3>2
  <2>2. rows \in [Slots -> Rows \cup {None}]
    BY <2>1
  <2>3. life \in [Peers -> {"none", "active", "disabled", "revoked"}]
    OBVIOUS
  <2>4. plan \in [Actors -> Requests \cup {None}] /\ op \in Requests \cup {None}
    OBVIOUS
  <2>5. allowed \in [Peers -> SUBSET Prefixes] /\ synced \subseteq Peers
    BY <1>1
  <2> QED BY <2>2, <2>3, <2>4, <2>5 DEF TypeOK
<1>7. RequestsOK
  BY DEF RequestsOK
<1>8. RowsMatchPeers
  <2>1. \A p \in Peers : \A s \in Held(p) :
          life[p] \in {"active", "disabled"} /\ HostPrefix(s) \in allowed[p]
    BY <1>1, <1>5, DesiredFacts
  <2>2. \A p \in Peers : life[p] \in {"active", "disabled"} =>
          p \in synced /\ Held(p) = Desired(allowed[p])
    BY <1>5
  <2> QED BY <2>1, <2>2 DEF RowsMatchPeers
<1>9. \A p \in synced : life[p] # "none"
  OBVIOUS
<1> QED BY <1>6, <1>7, <1>8, <1>9 DEF IInv

LEMMA RowsKept ==
  ASSUME IInv, UNCHANGED <<rows, life, allowed, synced>>
  PROVE  RowsMatchPeers' /\ \A p \in synced' : life'[p] # "none"
BY DEF IInv, RowsMatchPeers, Held

\* An actor's plan is made, or goes.
LEMMA PlanStep ==
  ASSUME IInv, NEW a \in Actors, UNCHANGED <<rows, life, allowed, op, synced>>,
         plan' \in [Actors -> Requests \cup {None}], \A b \in Actors \ {a} : plan'[b] = plan[b],
         plan'[a] # None => Checked(plan'[a]) /\ plan'[a].stage = "pending"
  PROVE  IInv'
<1>1. TypeOK'
  BY DEF IInv, TypeOK
<1>2. RequestsOK'
  <2>1. op' # None => Checked(op)' /\ (op'.stage = "executing" => op'.current)
    BY DEF IInv, RequestsOK, Checked, CreateOK, FirstFree, OverlapsOther, LifecycleAllows
  <2>2. \A b \in Actors : plan'[b] # None => Checked(plan'[b]) /\ plan'[b].stage = "pending"
    BY DEF IInv, RequestsOK
  <2>3. \A b \in Actors : plan'[b] # None => Checked(plan[b])' /\ plan'[b].stage = "pending"
    BY <2>2 DEF Checked, CreateOK, FirstFree, OverlapsOther, LifecycleAllows
  <2> QED BY <2>1, <2>3 DEF RequestsOK
<1> QED BY <1>1, <1>2, RowsKept DEF IInv

LEMMA RequestType ==
  ASSUME NEW kind \in Kinds, NEW p \in Peers
  PROVE  Request(kind, p) \in Requests
<1>1. <<>> \in Seq(Prefixes) /\ {} \in SUBSET Prefixes /\ FALSE \in BOOLEAN /\ TRUE \in BOOLEAN
  OBVIOUS
<1> QED BY <1>1, Zenon DEF Request, Requests

LEMMA EnsureFacts ==
  ASSUME NEW list \in Seq(Prefixes), NEW x \in Prefixes
  PROVE  /\ EnsureTunnelAllowedIP(list, x) \in Seq(Prefixes)
         /\ x \in CanonicalPrefixes(EnsureTunnelAllowedIP(list, x))
<1>1. CASE x \in CanonicalPrefixes(list)
  BY <1>1 DEF EnsureTunnelAllowedIP
<1>2. CASE x \notin CanonicalPrefixes(list)
  <2> DEFINE l == <<x>> \o list
  <2>1. l \in Seq(Prefixes) /\ 1 \in DOMAIN l /\ l[1] = x
    OBVIOUS
  <2>2. EnsureTunnelAllowedIP(list, x) = l
    BY <1>2 DEF EnsureTunnelAllowedIP
  <2> HIDE DEF l
  <2> QED BY <2>1, <2>2 DEF CanonicalPrefixes
<1> QED BY <1>1, <1>2

LEMMA HostPrefixType == ASSUME NEW s \in Slots PROVE HostPrefix(s) \in Prefixes
<1>1. Pools[s[1]].fam \in {4, 6} /\ s[2] \in Nat /\ 1 \in Nat \ {0}
  BY SlotFacts, PoolTypes
<1> QED BY <1>1 DEF HostPrefix, Prefix, Prefixes

LEMMA PlanCreateStep ==
  ASSUME IInv, NEW a \in Actors, NEW p \in Peers, PlanCreate(a, p)
  PROVE  IInv'
<1>1. PICK list \in CreateRequests, slot \in Slots :
        /\ PreflightPeer(p, list) = slot
        /\ plan' = [plan EXCEPT ![a] =
             [Request("create", p) EXCEPT
                !.list = EnsureTunnelAllowedIP(list, HostPrefix(slot)),
                !.slot = slot, !.auto = (list = <<>>)]]
  BY DEF PlanCreate
<1> DEFINE l == EnsureTunnelAllowedIP(list, HostPrefix(slot))
           q == [Request("create", p) EXCEPT !.list = l, !.slot = slot, !.auto = (list = <<>>)]
<1>2. /\ UNCHANGED <<rows, life, allowed, op, synced>>
      /\ life[p] = "none" /\ slot # None
  BY NoneAssumption DEF PlanCreate, IdentityTaken
<1>3. l \in Seq(Prefixes) /\ HostPrefix(slot) \in CanonicalPrefixes(l)
  BY RequestsAssumption, HostPrefixType, EnsureFacts
<1>4. /\ slot = IF list = <<>> THEN NextAvailableAddress ELSE ValidateAddressCandidate(list[1])
      /\ ~OverlapsOther(CanonicalPrefixes(l), p)
  BY <1>1, <1>2 DEF PreflightPeer
<1> HIDE DEF l
<1>5. rows[slot] = None /\ (list = <<>> => FirstFree(slot))
  <2>1. CASE list = <<>>
    BY <1>4, <2>1, NextAvailableIsFirst
  <2>2. CASE list # <<>>
    BY <1>2, <1>4, <2>2 DEF ValidateAddressCandidate, Free
  <2> QED BY <2>1, <2>2
<1>6. q \in Requests
  <2>1. (list = <<>>) \in BOOLEAN /\ slot \in Slots \cup {None} /\ Request("create", p) \in Requests
    BY RequestType DEF Kinds
  <2> QED BY <1>3, <2>1, Zenon DEF Requests
<1>7. /\ q.kind = "create" /\ q.peer = p /\ q.list = l /\ q.slot = slot /\ q.stage = "pending"
      /\ q.auto = (list = <<>>)
  BY DEF Request
<1>8. plan' = [plan EXCEPT ![a] = q]
  BY <1>1 DEF l
<1> HIDE DEF q
<1>9. Checked(q)
  BY <1>2, <1>3, <1>4, <1>5, <1>7 DEF Checked, CreateOK
<1>10. plan' \in [Actors -> Requests \cup {None}] /\ plan'[a] = q
       /\ \A b \in Actors \ {a} : plan'[b] = plan[b]
  BY <1>6, <1>8 DEF IInv, TypeOK
<1> QED BY <1>2, <1>7, <1>9, <1>10, PlanStep

LEMMA PlanUpdateStep ==
  ASSUME IInv, NEW a \in Actors, NEW p \in Peers, PlanUpdate(a, p)
  PROVE  IInv'
<1>1. PICK set \in UpdateRequests :
        LET wanted == IF set = {} THEN allowed[p] ELSE set
        IN  /\ ~OverlapsOther(wanted, p)
            /\ plan' = [plan EXCEPT ![a] = [Request("update", p) EXCEPT !.set = wanted]]
  BY DEF PlanUpdate
<1> DEFINE w == IF set = {} THEN allowed[p] ELSE set
           q == [Request("update", p) EXCEPT !.set = w]
<1>2. UNCHANGED <<rows, life, allowed, op, synced>> /\ life[p] = "active"
  BY DEF PlanUpdate
<1>3. w \in SUBSET Prefixes
  BY RequestsAssumption DEF IInv, TypeOK
<1>4. ~OverlapsOther(w, p) /\ plan' = [plan EXCEPT ![a] = q]
  BY <1>1
<1> HIDE DEF w
<1>5. q \in Requests
  <2>1. Request("update", p) \in Requests
    BY RequestType DEF Kinds
  <2> QED BY <1>3, <2>1, Zenon DEF Requests
<1>6. q.kind = "update" /\ q.peer = p /\ q.set = w /\ q.stage = "pending"
  BY DEF Request
<1> HIDE DEF q
<1>7. Checked(q)
  BY <1>2, <1>4, <1>6 DEF Checked
<1>8. plan' \in [Actors -> Requests \cup {None}] /\ plan'[a] = q
      /\ \A b \in Actors \ {a} : plan'[b] = plan[b]
  BY <1>4, <1>5 DEF IInv, TypeOK
<1> QED BY <1>2, <1>6, <1>7, <1>8, PlanStep

LEMMA PlanLifecycleStep ==
  ASSUME IInv, NEW a \in Actors, NEW p \in Peers, PlanLifecycle(a, p)
  PROVE  IInv'
<1>1. PICK kind \in {"disable", "enable", "revoke"} :
        LifecycleAllows(kind, p) /\ plan' = [plan EXCEPT ![a] = Request(kind, p)]
  BY DEF PlanLifecycle
<1> DEFINE q == Request(kind, p)
<1>2. UNCHANGED <<rows, life, allowed, op, synced>>
  BY DEF PlanLifecycle
<1>3. q \in Requests
  BY RequestType DEF Kinds
<1>4. q.kind = kind /\ q.peer = p /\ q.stage = "pending"
  BY DEF Request
<1>5. plan' = [plan EXCEPT ![a] = q]
  BY <1>1
<1> HIDE DEF q
<1>6. Checked(q)
  BY <1>1, <1>4 DEF Checked
<1>7. plan' \in [Actors -> Requests \cup {None}] /\ plan'[a] = q
      /\ \A b \in Actors \ {a} : plan'[b] = plan[b]
  BY <1>3, <1>5 DEF IInv, TypeOK
<1> QED BY <1>2, <1>4, <1>6, <1>7, PlanStep

\* The operation in progress changes, or plans go; what remains has been checked.
LEMMA OpStep ==
  ASSUME IInv, UNCHANGED <<rows, life, allowed, synced>>,
         op' \in Requests \cup {None}, plan' \in [Actors -> Requests \cup {None}],
         \A a \in Actors : plan'[a] # None => plan'[a] = plan[a],
         op' # None => Checked(op') /\ (op'.stage = "executing" => op'.current)
  PROVE  IInv'
<1>1. TypeOK'
  BY DEF IInv, TypeOK
<1>2. RequestsOK'
  <2>1. op' # None => Checked(op)'
    BY DEF Checked, CreateOK, FirstFree, OverlapsOther, LifecycleAllows
  <2>2. \A b \in Actors : plan'[b] # None => Checked(plan'[b]) /\ plan'[b].stage = "pending"
    BY DEF IInv, RequestsOK
  <2>3. \A b \in Actors : plan'[b] # None => Checked(plan[b])' /\ plan'[b].stage = "pending"
    BY <2>2 DEF Checked, CreateOK, FirstFree, OverlapsOther, LifecycleAllows
  <2> QED BY <2>1, <2>3 DEF RequestsOK
<1> QED BY <1>1, <1>2, RowsKept DEF IInv

\* Two requests that differ in their stage or actor only ask for the same.
LEMMA CheckedAlike ==
  ASSUME NEW q, NEW r, Checked(q),
         r.current = q.current, r.kind = q.kind, r.peer = q.peer, r.list = q.list,
         r.set = q.set, r.slot = q.slot, r.auto = q.auto
  PROVE  Checked(r)
BY Zenon DEF Checked, CreateOK

LEMMA JournalStep ==
  ASSUME IInv, NEW a \in Actors, Journal(a)
  PROVE  IInv'
<1> DEFINE q == [plan[a] EXCEPT !.actor = a]
<1>1. /\ plan[a] \in Requests /\ Checked(plan[a]) /\ plan[a].stage = "pending"
      /\ UNCHANGED <<rows, life, allowed, synced>>
      /\ plan' = [plan EXCEPT ![a] = None]
      /\ op' = q \/ op' = op
  BY DEF Journal, IInv, TypeOK, RequestsOK
<1>2. q \in Requests
  <2>1. a \in Actors \cup {None}
    OBVIOUS
  <2> QED BY <1>1, <2>1, Zenon DEF Requests
<1>3. /\ q.current = plan[a].current /\ q.kind = plan[a].kind /\ q.peer = plan[a].peer
      /\ q.list = plan[a].list /\ q.set = plan[a].set /\ q.slot = plan[a].slot
      /\ q.auto = plan[a].auto /\ q.stage = plan[a].stage
  BY <1>1 DEF Requests
<1> HIDE DEF q
<1>4. Checked(q) /\ q.stage = "pending"
  BY <1>1, <1>3, CheckedAlike
<1>5. op' \in Requests \cup {None} /\ plan' \in [Actors -> Requests \cup {None}]
  BY <1>1, <1>2 DEF IInv, TypeOK
<1>6. \A b \in Actors : plan'[b] # None => plan'[b] = plan[b]
  BY <1>1 DEF IInv, TypeOK
<1>7. op' # None => Checked(op') /\ (op'.stage = "executing" => op'.current)
  BY <1>1, <1>4 DEF IInv, RequestsOK
<1> QED BY <1>1, <1>5, <1>6, <1>7, OpStep

LEMMA CommitStep == ASSUME IInv, Commit PROVE IInv'
<1> DEFINE q == [op EXCEPT !.stage = "executing"]
<1>1. /\ op \in Requests /\ Checked(op) /\ op.current
      /\ UNCHANGED <<rows, life, allowed, plan, synced>>
      /\ op' = q
  BY DEF Commit, IInv, TypeOK, RequestsOK
<1>2. q \in Requests
  <2>1. "executing" \in {"pending", "executing"}
    OBVIOUS
  <2> QED BY <1>1, <2>1, Zenon DEF Requests
<1>3. /\ q.current = op.current /\ q.kind = op.kind /\ q.peer = op.peer
      /\ q.list = op.list /\ q.set = op.set /\ q.slot = op.slot /\ q.auto = op.auto
  BY <1>1 DEF Requests
<1> HIDE DEF q
<1>4. Checked(q) /\ q.current
  BY <1>1, <1>3, CheckedAlike
<1>5. plan' \in [Actors -> Requests \cup {None}] /\ \A b \in Actors : plan'[b] = plan[b]
  BY <1>1 DEF IInv, TypeOK
<1> QED BY <1>1, <1>2, <1>4, <1>5, OpStep

LEMMA AbandonStep == ASSUME IInv, Abandon PROVE IInv'
<1>1. /\ UNCHANGED <<rows, life, allowed, plan, synced>> /\ op' = None
      /\ plan' \in [Actors -> Requests \cup {None}]
  BY DEF Abandon, IInv, TypeOK
<1> QED BY <1>1, OpStep

-----------------------------------------------------------------------------
(* The final transactions *)

\* Afterwards no request is current, so that there is nothing to have been checked.
LEMMA Completed ==
  ASSUME IInv, NEW kind, Completes(kind)
  PROVE  /\ op \in Requests /\ op.peer \in Peers /\ op.kind = kind /\ op.current /\ Checked(op)
         /\ op' = None /\ plan' \in [Actors -> Requests \cup {None}] /\ RequestsOK'
<1>1. op \in Requests /\ op.kind = kind /\ op.current /\ Checked(op) /\ op' = None
  BY DEF Completes, IInv, TypeOK, RequestsOK
<1>2. op.peer \in Peers
  BY <1>1 DEF Requests
<1>3. ASSUME NEW a \in Actors, plan[a] # None
      PROVE  /\ plan'[a] \in Requests /\ ~plan'[a].current /\ plan'[a].stage = "pending"
  <2> DEFINE q == [plan[a] EXCEPT !.current = FALSE]
  <2>1. plan[a] \in Requests /\ plan[a].stage = "pending" /\ plan'[a] = q
    BY <1>3 DEF Completes, IInv, TypeOK, RequestsOK
  <2>2. q \in Requests
    <3>1. FALSE \in BOOLEAN
      OBVIOUS
    <3> QED BY <2>1, <3>1, Zenon DEF Requests
  <2>3. q.current = FALSE /\ q.stage = plan[a].stage
    BY <2>1 DEF Requests
  <2> HIDE DEF q
  <2> QED BY <2>1, <2>2, <2>3
<1>4. \A a \in Actors : plan[a] = None => plan'[a] = None
  BY DEF Completes
<1>5. plan' \in [Actors -> Requests \cup {None}]
  <2>1. plan' = [a \in Actors |-> plan'[a]]
    BY DEF Completes
  <2>2. \A a \in Actors : plan'[a] \in Requests \cup {None}
    BY <1>3, <1>4
  <2> QED BY <2>1, <2>2
<1>6. \A a \in Actors : plan'[a] # None => Checked(plan[a])' /\ plan'[a].stage = "pending"
  BY <1>3, <1>4 DEF Checked
<1>7. RequestsOK'
  BY <1>1, <1>6 DEF RequestsOK
<1> QED BY <1>1, <1>2, <1>5, <1>7

LEMMA CompletePeerCreateStep == ASSUME IInv, CompletePeerCreate PROVE IInv'
<1>1. /\ op \in Requests /\ op.peer \in Peers /\ CreateOK(op)
      /\ op' = None /\ plan' \in [Actors -> Requests \cup {None}] /\ RequestsOK'
  BY Completed DEF CompletePeerCreate, Checked
<1>2. CanonicalPrefixes(op.list) \in SUBSET Prefixes
  <2>1. op.list \in Seq(Prefixes)
    BY <1>1 DEF Requests
  <2>2. \A i \in DOMAIN op.list : op.list[i] \in Prefixes
    BY <2>1
  <2> QED BY <2>2 DEF CanonicalPrefixes
<1>3. PICK p \in Peers, s \in Slots, set \in SUBSET Prefixes :
        p = op.peer /\ s = op.slot /\ set = CanonicalPrefixes(op.list)
  BY <1>1, <1>2 DEF CreateOK
<1>4. life[p] = "none" /\ rows[s] = None /\ HostPrefix(s) \in set
  BY <1>1, <1>3 DEF CreateOK
<1>5. /\ rows' = [rows EXCEPT ![s] = Row("allocated", p)]
      /\ life' = [life EXCEPT ![p] = "active"]
      /\ allowed' = [allowed EXCEPT ![p] = set]
      /\ synced' = synced
  BY <1>3 DEF CompletePeerCreate
<1>6. TypeOK'
  BY <1>1, <1>5, RowFacts DEF IInv, TypeOK
<1>7. p \notin synced /\ Held(p) = {}
  BY <1>4 DEF IInv, RowsMatchPeers
<1>8. \A t \in Slots : rows'[t] = IF t = s THEN Row("allocated", p) ELSE rows[t]
  BY <1>5 DEF IInv, TypeOK
<1>9. Held(p)' = {s}
  BY <1>7, <1>8 DEF Held
<1>10. \A q \in Peers \ {p} : Held(q)' = Held(q)
  <2> TAKE q \in Peers \ {p}
  <2>1. Row("allocated", p) # Row("allocated", q) /\ rows[s] # Row("allocated", q)
    BY <1>4, RowFacts
  <2> QED BY <1>8, <2>1 DEF Held
<1>11. \A q \in Peers \ {p} : life'[q] = life[q] /\ allowed'[q] = allowed[q]
  BY <1>5 DEF IInv, TypeOK
<1>12. life'[p] = "active" /\ allowed'[p] = set
  BY <1>5 DEF IInv, TypeOK
<1>13. Cardinality({s}) = 1
  BY FS_Singleton
<1>14. RowsMatchPeers'
  <2>1. \A q \in Peers \ {p} :
          /\ \A t \in Held(q)' : life'[q] \in {"active", "disabled"} /\ HostPrefix(t) \in allowed'[q]
          /\ life'[q] \in {"active", "disabled"} =>
               IF q \in synced' THEN Held(q)' = Desired(allowed'[q]) ELSE Cardinality(Held(q)') = 1
    BY <1>5, <1>10, <1>11 DEF IInv, RowsMatchPeers
  <2>2. /\ \A t \in Held(p)' : life'[p] \in {"active", "disabled"} /\ HostPrefix(t) \in allowed'[p]
        /\ p \notin synced' /\ Cardinality(Held(p)') = 1
    BY <1>4, <1>5, <1>7, <1>9, <1>12, <1>13
  <2> QED BY <2>1, <2>2 DEF RowsMatchPeers
<1>15. \A q \in synced' : life'[q] # "none"
  BY <1>5, <1>11, <1>12 DEF IInv, TypeOK
<1> QED BY <1>1, <1>6, <1>14, <1>15 DEF IInv

LEMMA CompletePeerUpdateStep == ASSUME IInv, CompletePeerUpdate PROVE IInv'
<1>1. /\ op \in Requests /\ op.peer \in Peers /\ op.set \in SUBSET Prefixes
      /\ op' = None /\ plan' \in [Actors -> Requests \cup {None}] /\ RequestsOK'
  BY Completed DEF CompletePeerUpdate, Requests
<1>2. PICK p \in Peers, set \in SUBSET Prefixes : p = op.peer /\ set = op.set
  BY <1>1
<1> DEFINE d == Desired(set)
<1>3. /\ life[p] = "active" /\ \A s \in d \ Held(p) : rows[s] = None
      /\ rows' = SyncPeerAllocations(p, d)
      /\ allowed' = [allowed EXCEPT ![p] = set]
      /\ synced' = synced \cup {p} /\ life' = life
  BY <1>2 DEF CompletePeerUpdate, Free
<1>4. d \subseteq Slots /\ \A s \in d : HostPrefix(s) \in set
  BY DesiredFacts
<1> HIDE DEF d
<1>5. \A s \in Slots : rows'[s] = IF s \in d \ Held(p) THEN Row("allocated", p)
                                  ELSE IF s \in Held(p) \ d THEN Row("quarantined", p) ELSE rows[s]
  BY <1>3 DEF SyncPeerAllocations
<1>6. TypeOK'
  <2>1. \A s \in Slots : rows'[s] \in Rows \cup {None}
    BY <1>5, RowFacts DEF IInv, TypeOK
  <2>2. rows' \in [Slots -> Rows \cup {None}]
    BY <1>3, <2>1 DEF SyncPeerAllocations
  <2> QED BY <1>1, <1>3, <2>2 DEF IInv, TypeOK
<1>7. Held(p)' = d
  <2>1. ASSUME NEW s \in Slots PROVE rows'[s] = Row("allocated", p) <=> s \in d
    <3>1. s \in Held(p) <=> rows[s] = Row("allocated", p)
      BY DEF Held
    <3>2. Row("allocated", p) # Row("quarantined", p)
      BY RowFacts
    <3> QED BY <1>5, <3>1, <3>2
  <2> QED BY <1>4, <2>1 DEF Held
<1>8. ASSUME NEW q \in Peers \ {p} PROVE Held(q)' = Held(q)
  <2>1. ASSUME NEW s \in Slots PROVE rows'[s] = Row("allocated", q) <=> rows[s] = Row("allocated", q)
    <3>1. /\ Row("allocated", p) # Row("allocated", q) /\ None # Row("allocated", q)
          /\ Row("allocated", q) # Row("quarantined", p)
      BY RowFacts
    <3>2. s \in Held(p) => rows[s] = Row("allocated", p)
      BY DEF Held
    <3> QED BY <1>3, <1>5, <3>1, <3>2
  <2> QED BY <2>1 DEF Held
<1>9. allowed'[p] = set /\ \A q \in Peers \ {p} : allowed'[q] = allowed[q]
  BY <1>3 DEF IInv, TypeOK
<1>10. RowsMatchPeers'
  <2>1. \A q \in Peers \ {p} :
          /\ \A t \in Held(q)' : life'[q] \in {"active", "disabled"} /\ HostPrefix(t) \in allowed'[q]
          /\ life'[q] \in {"active", "disabled"} =>
               IF q \in synced' THEN Held(q)' = Desired(allowed'[q]) ELSE Cardinality(Held(q)') = 1
    BY <1>3, <1>8, <1>9 DEF IInv, RowsMatchPeers
  <2>2. /\ \A t \in Held(p)' : life'[p] \in {"active", "disabled"} /\ HostPrefix(t) \in allowed'[p]
        /\ p \in synced' /\ Held(p)' = Desired(allowed'[p])
    BY <1>3, <1>4, <1>7, <1>9 DEF d
  <2> QED BY <2>1, <2>2 DEF RowsMatchPeers
<1>11. \A q \in synced' : life'[q] # "none"
  BY <1>3 DEF IInv
<1> QED BY <1>1, <1>6, <1>10, <1>11 DEF IInv

LEMMA CompletePeerLifecycleStep ==
  ASSUME IInv, NEW kind \in {"disable", "enable", "revoke"}, CompletePeerLifecycle(kind)
  PROVE  IInv'
<1>1. /\ op \in Requests /\ op.peer \in Peers /\ LifecycleAllows(kind, op.peer)
      /\ op' = None /\ plan' \in [Actors -> Requests \cup {None}] /\ RequestsOK'
  BY Completed DEF CompletePeerLifecycle, Checked
<1>2. PICK p \in Peers : p = op.peer
  BY <1>1
<1>3. /\ life' = [life EXCEPT ![p] = CASE kind = "enable" -> "active"
                                       [] kind = "disable" -> "disabled" [] OTHER -> "revoked"]
      /\ rows' = IF kind = "revoke"
                 THEN [s \in Slots |-> IF s \in Held(p) THEN Row("quarantined", p) ELSE rows[s]]
                 ELSE rows
      /\ allowed' = allowed /\ synced' = synced
  BY <1>2 DEF CompletePeerLifecycle
<1>4. life[p] \in {"active", "disabled"}
  BY <1>1, <1>2 DEF LifecycleAllows
<1>5. /\ life'[p] = IF kind = "enable" THEN "active" ELSE IF kind = "disable" THEN "disabled" ELSE "revoked"
      /\ \A q \in Peers \ {p} : life'[q] = life[q]
      /\ life' \in [Peers -> {"none", "active", "disabled", "revoked"}]
  BY <1>3 DEF IInv, TypeOK
<1>6. rows' \in [Slots -> Rows \cup {None}]
  BY <1>3, RowFacts DEF IInv, TypeOK
<1>7. TypeOK'
  BY <1>1, <1>3, <1>5, <1>6 DEF IInv, TypeOK
<1>8. ASSUME NEW q \in Peers \ {p} PROVE Held(q)' = Held(q)
  <2>1. CASE kind = "revoke"
    <3>1. ASSUME NEW s \in Slots PROVE rows'[s] = Row("allocated", q) <=> rows[s] = Row("allocated", q)
      <4>1. Row("allocated", p) # Row("allocated", q) /\ Row("allocated", q) # Row("quarantined", p)
        BY RowFacts
      <4>2. s \in Held(p) => rows[s] = Row("allocated", p)
        BY DEF Held
      <4> QED BY <1>3, <2>1, <4>1, <4>2
    <3> QED BY <3>1 DEF Held
  <2>2. CASE kind # "revoke"
    BY <1>3, <2>2 DEF Held
  <2> QED BY <2>1, <2>2
<1>9. IF kind = "revoke" THEN Held(p)' = {} ELSE Held(p)' = Held(p)
  <2>1. CASE kind = "revoke"
    <3>1. ASSUME NEW s \in Slots PROVE rows'[s] # Row("allocated", p)
      <4>1. Row("allocated", p) # Row("quarantined", p)
        BY RowFacts
      <4>2. s \in Held(p) <=> rows[s] = Row("allocated", p)
        BY DEF Held
      <4> QED BY <1>3, <2>1, <4>1, <4>2
    <3> QED BY <2>1, <3>1 DEF Held
  <2>2. CASE kind # "revoke"
    BY <1>3, <2>2 DEF Held
  <2> QED BY <2>1, <2>2
<1>10. RowsMatchPeers'
  <2>1. \A q \in Peers \ {p} :
          /\ \A t \in Held(q)' : life'[q] \in {"active", "disabled"} /\ HostPrefix(t) \in allowed'[q]
          /\ life'[q] \in {"active", "disabled"} =>
               IF q \in synced' THEN Held(q)' = Desired(allowed'[q]) ELSE Cardinality(Held(q)') = 1
    BY <1>3, <1>5, <1>8 DEF IInv, RowsMatchPeers
  <2>2. /\ \A t \in Held(p)' : life'[p] \in {"active", "disabled"} /\ HostPrefix(t) \in allowed'[p]
        /\ life'[p] \in {"active", "disabled"} =>
             IF p \in synced' THEN Held(p)' = Desired(allowed'[p]) ELSE Cardinality(Held(p)') = 1
    BY <1>3, <1>4, <1>5, <1>9 DEF IInv, RowsMatchPeers
  <2> QED BY <2>1, <2>2 DEF RowsMatchPeers
<1>11. \A q \in synced' : life'[q] # "none"
  BY <1>3, <1>5 DEF IInv, TypeOK
<1> QED BY <1>1, <1>7, <1>10, <1>11 DEF IInv

LEMMA Inductive == ASSUME IInv, [Next]_vars PROVE IInv'
<1>1. CASE \E a \in Actors, p \in Peers : PlanCreate(a, p) \/ PlanUpdate(a, p) \/ PlanLifecycle(a, p)
  BY <1>1, PlanCreateStep, PlanUpdateStep, PlanLifecycleStep
<1>2. CASE \E a \in Actors : Journal(a)
  BY <1>2, JournalStep
<1>3. CASE Commit \/ Abandon
  BY <1>3, CommitStep, AbandonStep
<1>4. CASE CompletePeerCreate \/ CompletePeerUpdate
  BY <1>4, CompletePeerCreateStep, CompletePeerUpdateStep
<1>5. CASE \E kind \in {"disable", "enable", "revoke"} : CompletePeerLifecycle(kind)
  BY <1>5, CompletePeerLifecycleStep
<1>6. CASE UNCHANGED vars
  <2>1. UNCHANGED <<rows, life, allowed, plan, op, synced>>
    BY <1>6 DEF vars
  <2>2. op \in Requests \cup {None} /\ plan \in [Actors -> Requests \cup {None}]
        /\ (op # None => Checked(op) /\ (op.stage = "executing" => op.current))
    BY DEF IInv, TypeOK, RequestsOK
  <2> QED BY <2>1, <2>2, OpStep
<1> QED BY <1>1, <1>2, <1>3, <1>4, <1>5, <1>6 DEF Next

LEMMA Invariance == Spec => []IInv
<1>1. Init => IInv
  BY InitInv
<1>2. IInv /\ [Next]_vars => IInv'
  BY Inductive
<1> QED BY <1>1, <1>2, PTL DEF Spec

-----------------------------------------------------------------------------
(* The results *)

\* The types of the rows, the peers and the requests, for every pool and request.
THEOREM TypeCorrect == Spec => []TypeOK
<1>1. IInv => TypeOK
  BY DEF IInv
<1> QED BY <1>1, Invariance, PTL

\* Whatever sequence of creates, updates and lifecycle changes ran, the rows of
\* address_allocations and the AllowedIPs of the peers agree.
THEOREM RowsAgree == Spec => []RowsMatchPeers
<1>1. IInv => RowsMatchPeers
  BY DEF IInv
<1> QED BY <1>1, Invariance, PTL

\* The address a preview showed has no row yet when the host has been changed, and an
\* automatic one is still the first that the scans would find.
THEOREM PreviewHolds == Spec => []PreviewedAddressHolds
<1>1. IInv => PreviewedAddressHolds
  BY DEF IInv, RequestsOK, Checked, CreateOK, FirstFree, PreviewedAddressHolds
<1> QED BY <1>1, Invariance, PTL

\* A peer's AllowedIPs become set, and they overlap with those of no other active peer.
LEMMA NoNewShare ==
  ASSUME TypeOK, NEW r \in Peers, NEW set, ~OverlapsOther(set, r),
         allowed' = [allowed EXCEPT ![r] = set],
         \A s \in Peers \ {r} : life'[s] = life[s],
         NEW p \in Peers, NEW q \in Peers, p # q, ~Shares(p, q)
  PROVE  ~Shares(p, q)'
<1>1. allowed'[r] = set /\ \A s \in Peers \ {r} : allowed'[s] = allowed[s]
  BY DEF TypeOK
<1>2. \A x, y : Overlaps(x, y) <=> Overlaps(y, x)
  BY DEF Overlaps
<1>3. \A s \in Peers \ {r} : life[s] = "active" => \A x \in set, y \in allowed[s] : ~Overlaps(x, y)
  BY Zenon DEF OverlapsOther
<1>4. CASE p # r /\ q # r
  BY <1>1, <1>4 DEF Shares
<1>5. CASE p = r
  BY <1>1, <1>3, <1>5 DEF Shares
<1>6. CASE q = r
  BY <1>1, <1>2, <1>3, <1>6 DEF Shares
<1> QED BY <1>4, <1>5, <1>6

\* No create and no update makes two active peers share an address, whatever other
\* actors' operations came between its check and its write; only an enable can.
THEOREM OverlapsComeFromEnable == Spec => OverlapOnlyByEnable
<1> DEFINE Step == \A p, q \in Peers :
                     p # q /\ ~Shares(p, q) /\ Shares(p, q)'
                       => op.kind = "enable" /\ op.peer \in {p, q}
<1>1. ASSUME IInv, [Next]_vars PROVE [Step]_vars
  <2> SUFFICES ASSUME NEW p \in Peers, NEW q \in Peers, p # q, ~Shares(p, q), Shares(p, q)'
               PROVE  op.kind = "enable" /\ op.peer \in {p, q}
    OBVIOUS
  <2>1. CASE UNCHANGED <<life, allowed>>
    BY <2>1 DEF Shares
  <2>2. CASE CompletePeerCreate
    <3>1. op.peer \in Peers /\ CreateOK(op)
      BY <1>1, <2>2, Completed DEF CompletePeerCreate, Checked
    <3>2. PICK r, set : r \in Peers /\ r = op.peer /\ set = CanonicalPrefixes(op.list)
      BY <3>1
    <3>3. /\ ~OverlapsOther(set, r) /\ allowed' = [allowed EXCEPT ![r] = set]
          /\ \A s \in Peers \ {r} : life'[s] = life[s]
      BY <1>1, <2>2, <3>1, <3>2 DEF CreateOK, CompletePeerCreate, IInv, TypeOK
    <3> QED BY <1>1, <3>2, <3>3, NoNewShare DEF IInv
  <2>3. CASE CompletePeerUpdate
    <3>1. op.peer \in Peers /\ ~OverlapsOther(op.set, op.peer)
      BY <1>1, <2>3, Completed DEF CompletePeerUpdate, Checked
    <3>2. PICK r, set : r \in Peers /\ r = op.peer /\ set = op.set
      BY <3>1
    <3>3. /\ ~OverlapsOther(set, r) /\ allowed' = [allowed EXCEPT ![r] = set]
          /\ \A s \in Peers \ {r} : life'[s] = life[s]
      BY <2>3, <3>1, <3>2 DEF CompletePeerUpdate
    <3> QED BY <1>1, <3>2, <3>3, NoNewShare DEF IInv
  <2>4. CASE \E kind \in {"disable", "enable", "revoke"} : CompletePeerLifecycle(kind)
    <3>1. PICK kind \in {"disable", "enable", "revoke"} : CompletePeerLifecycle(kind)
      BY <2>4
    <3>2. op.peer \in Peers /\ op.kind = kind
      BY <1>1, <3>1, Completed DEF CompletePeerLifecycle
    <3>3. /\ allowed' = allowed /\ \A s \in Peers \ {op.peer} : life'[s] = life[s]
          /\ kind # "enable" => life'[op.peer] # "active"
      BY <1>1, <3>1, <3>2 DEF CompletePeerLifecycle, IInv, TypeOK
    <3> QED BY <3>2, <3>3 DEF Shares
  <2> QED BY <1>1, <2>1, <2>2, <2>3, <2>4
      DEF Next, vars, PlanCreate, PlanUpdate, PlanLifecycle, Journal, Commit, Abandon
<1>2. Spec => [][Step]_vars
  <2>1. IInv /\ [Next]_vars => [Step]_vars
    BY <1>1
  <2> QED BY <2>1, Invariance, PTL DEF Spec
<1> QED BY <1>2 DEF OverlapOnlyByEnable
=============================================================================
