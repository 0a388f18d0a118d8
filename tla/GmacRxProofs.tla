---------------------------- MODULE GmacRxProofs ----------------------------
(***************************************************************************)
(* What holds of the receiving half of the Ethernet for any sizes of ring, *)
(* queue and pool and any number of frames.                                *)
(*                                                                         *)
(* The counters (Counts) keep their meaning whatever happens.  Where each  *)
(* pbuf is (Owned, Cover) and which frame it holds (InOrder) is known as   *)
(* long as no allocation has failed, for then the ring is always full      *)
(* (RingFull), and no slot of the queue was used too early (Room).         *)
(***************************************************************************)
EXTENDS GmacRx, SequenceTheorems, FiniteSetTheorems, WellFoundedInduction, TLAPS

Counts ==
  /\ hwCnt \in Int /\ freeCnt = Ring - hwCnt
  /\ freeHead = Ahead(hwHead, hwCnt)
  /\ task.pc = "store" => 1 <= task.r /\ task.r <= len
  /\ backlog \in Seq(Nat)
  /\ Len(backlog) = len + uncounted

Always == TypeOK /\ Counts

(* The pbufs that the ring and the queue hold, by their place.             *)
Held     == {slot[i] : i \in Bds}
Queued(k) == data[(tail + k) % QueueSize]
Places   == 0 .. Len(backlog) - 1
Busy     == IF task.pc = "take" THEN 1 ELSE 0

Room ==
  /\ Len(backlog) + Busy <= QueueSize
  /\ head = (tail + Len(backlog)) % QueueSize
  /\ task.pc = "take" => tail = (task.ptail + 1) % QueueSize

Owned ==
  /\ \A i, j \in Bds : slot[i] = slot[j] => i = j
  /\ \A j, k \in Places : Queued(j) = Queued(k) => j = k
  /\ pool \cap stack = {} /\ pool \cap Held = {} /\ stack \cap Held = {}
  /\ \A k \in Places : Queued(k) \notin pool /\ Queued(k) \notin stack /\ Queued(k) \notin Held
  /\ InTask \cap (pool \cup stack \cup Held) = {}
  /\ \A k \in Places : Queued(k) \notin InTask

Cover == /\ pool \cup stack \cup Held \cup InQueue \cup InTask = Pbufs

(* m frames are in the ring, from hwHead on; their BDs are marked.         *)
Pending(m) ==
  /\ dma = Ahead(hwHead, m) /\ m <= arrived
  /\ \A k \in 0 .. Ring - 1 : new[Ahead(hwHead, k)] <=> k < m
  /\ \A k \in 0 .. Ring - 1 : k < m => content[slot[Ahead(hwHead, k)]] = (arrived - m) + k + 1
  /\ \A j \in 1 .. Len(backlog) : backlog[j] <= arrived - m
  /\ \A b \in InTask : content[b] <= arrived - m
  /\ last <= arrived - m

RingFull == hwCnt = Ring /\ \E m \in 0 .. Ring : Pending(m)

(* The frames of the queue, the task and lwIP, in the order of arrival.    *)
InOrder ==
  /\ \A k \in Places : content[Queued(k)] = backlog[k + 1]
  /\ \A j, k \in 1 .. Len(backlog) : j < k => backlog[j] < backlog[k]
  /\ \A j \in 1 .. Len(backlog) : last < backlog[j]
  /\ \A b \in InTask : last < content[b] /\ \A j \in 1 .. Len(backlog) : content[b] < backlog[j]

InPlace == RingFull /\ Room /\ Owned /\ Cover /\ InOrder

IInv == Always /\ (~starved /\ ~brimmed => InPlace)

-----------------------------------------------------------------------------
(* Division.                                                               *)

LEMMA DivMod ==
  ASSUME NEW S \in Nat \ {0}, NEW x \in Int
  PROVE  x % S \in 0 .. S - 1 /\ x \div S \in Int /\ x = S * (x \div S) + (x % S)
<1>1. x % S \in 0 .. S - 1
  OBVIOUS
<1>2. x \div S \in Int
  OBVIOUS
<1>3. x = S * (x \div S) + (x % S)
  OBVIOUS
<1> QED
  BY <1>1, <1>2, <1>3

(* A multiple of S between -S and S is 0.                                  *)
LEMMA SmallMultiple ==
  ASSUME NEW S \in Nat \ {0}, NEW q \in Int, S * q < S, 0 - S < S * q
  PROVE  q = 0
<1>1. CASE q > 0
  <2> DEFINE z == q - 1
  <2>1. z \in Nat
    BY <1>1
  <2>2. S * q = S * z + S
    OBVIOUS
  <2> HIDE DEF z
  <2>3. S * z \in Nat
    BY <2>1
  <2> QED
    BY <2>2, <2>3
<1>2. CASE q < 0
  <2> DEFINE z == 0 - q - 1
  <2>1. z \in Nat
    BY <1>2
  <2>2. S * q = 0 - S * z - S
    OBVIOUS
  <2> HIDE DEF z
  <2>3. S * z \in Nat
    BY <2>1
  <2> QED
    BY <2>2, <2>3
<1> QED
  BY <1>1, <1>2

(* A place of a ring that is reached in two hops.                          *)
LEMMA ModMod ==
  ASSUME NEW S \in Nat \ {0}, NEW x \in Int, NEW n \in Int
  PROVE  ((x % S) + n) % S = (x + n) % S
<1> DEFINE a == x \div S  b == ((x % S) + n) \div S  c == (x + n) \div S
           r == x % S  s == ((x % S) + n) % S  t == (x + n) % S
<1>1. a \in Int /\ r \in Int /\ x = S * a + r
  BY DivMod
<1>2. b \in Int /\ s \in 0 .. S - 1 /\ r + n = S * b + s
  <2>1. (x % S) + n \in Int
    BY <1>1
  <2>2. \A y \in Int : y % S \in 0 .. S - 1 /\ y \div S \in Int /\ y = S * (y \div S) + (y % S)
    BY DivMod
  <2> QED
    BY <2>1, <2>2, Zenon
<1>3. c \in Int /\ t \in 0 .. S - 1 /\ x + n = S * c + t
  <2>1. x + n \in Int
    OBVIOUS
  <2> QED
    BY <2>1, DivMod, Zenon
<1> HIDE DEF a, b, c, r, s, t
<1>4. S * (a + b - c) = S * a + S * b - S * c
  BY <1>1, <1>2, <1>3
<1>5. S * a \in Int /\ S * b \in Int /\ S * c \in Int
  BY <1>1, <1>2, <1>3
<1>6. S * (a + b - c) = t - s
  BY <1>1, <1>2, <1>3, <1>4, <1>5
<1>7. a + b - c = 0
  BY <1>1, <1>2, <1>3, <1>6, SmallMultiple
<1>8. s = t
  BY <1>2, <1>3, <1>6, <1>7
<1> QED
  BY <1>8 DEF s, t

(* The places from x on, up to a whole turn, are different.                *)
LEMMA ModApart ==
  ASSUME NEW S \in Nat \ {0}, NEW x \in Int, NEW y \in Int, x < y, y < x + S
  PROVE  x % S # y % S
<1> SUFFICES ASSUME x % S = y % S PROVE FALSE
  OBVIOUS
<1> DEFINE a == x \div S  b == y \div S  r == x % S
<1>1. a \in Int /\ b \in Int /\ r \in Int /\ x = S * a + r /\ y = S * b + r
  BY DivMod
<1> HIDE DEF a, b, r
<1>2. S * (b - a) = S * b - S * a
  BY <1>1
<1>3. S * a \in Int /\ S * b \in Int
  BY <1>1
<1>4. S * (b - a) = y - x
  BY <1>1, <1>2, <1>3
<1>5. b - a = 0
  BY <1>1, <1>4, SmallMultiple
<1> QED
  BY <1>1, <1>4, <1>5

LEMMA ModSame ==
  ASSUME NEW S \in Nat \ {0}, NEW x \in Int, NEW j \in 0 .. S - 1, NEW k \in 0 .. S - 1,
         (x + j) % S = (x + k) % S
  PROVE  j = k
<1>1. x + j \in Int /\ x + k \in Int /\ j \in Int /\ k \in Int
  OBVIOUS
<1>2. ~(j < k)
  <2> SUFFICES ASSUME j < k PROVE FALSE
    OBVIOUS
  <2>1. x + j < x + k /\ x + k < x + j + S
    OBVIOUS
  <2> QED
    BY <1>1, <2>1, ModApart
<1>3. ~(k < j)
  <2> SUFFICES ASSUME k < j PROVE FALSE
    OBVIOUS
  <2>1. x + k < x + j /\ x + j < x + k + S
    OBVIOUS
  <2> QED
    BY <1>1, <2>1, ModApart
<1> QED
  BY <1>1, <1>2, <1>3

(* ... and they are all the places.                                        *)
LEMMA ModReaches ==
  ASSUME NEW S \in Nat \ {0}, NEW h \in 0 .. S - 1, NEW i \in 0 .. S - 1
  PROVE  \E k \in 0 .. S - 1 : (h + k) % S = i
<1>1. i % S = i
  OBVIOUS
<1>2. CASE h <= i
  <2>1. i - h \in 0 .. S - 1 /\ h + (i - h) = i
    BY <1>2
  <2> QED
    BY <1>1, <2>1
<1>3. CASE i < h
  <2>1. i - h + S \in 0 .. S - 1 /\ h + (i - h + S) = S + i
    BY <1>3
  <2>2. S % S = 0
    OBVIOUS
  <2>3. ((S % S) + i) % S = (S + i) % S
    <3>1. S \in Int /\ i \in Int
      OBVIOUS
    <3> QED
      BY <3>1, ModMod, Zenon
  <2>4. (S + i) % S = i
    <3>1. (0 + i) % S = (S + i) % S
      BY <2>2, <2>3, Zenon
    <3>2. 0 + i = i
      OBVIOUS
    <3> QED
      BY <1>1, <3>1, <3>2, Zenon
  <2> QED
    BY <2>1, <2>4
<1> QED
  BY <1>2, <1>3

-----------------------------------------------------------------------------
(* The ring and the queue.                                                 *)

LEMMA Sizes ==
  /\ Ring \in Nat \ {0} /\ QueueSize \in Nat \ {0} /\ MaxFrames \in Nat \ {0}
  /\ PoolSize \in Nat /\ Ring <= PoolSize
BY SizesAssumption

LEMMA AheadIn ==
  ASSUME NEW h \in Int, NEW k \in Int
  PROVE  Ahead(h, k) \in Bds
BY Sizes, DivMod DEF Ahead, Bds

LEMMA AheadAhead ==
  ASSUME NEW h \in Int, NEW j \in Int, NEW k \in Int
  PROVE  Ahead(Ahead(h, j), k) = Ahead(h, j + k)
<1>1. (((h + j) % Ring) + k) % Ring = (h + j + k) % Ring
  <2>1. h + j \in Int
    OBVIOUS
  <2> QED
    BY <2>1, Sizes, ModMod, Zenon
<1>2. h + j + k = h + (j + k)
  OBVIOUS
<1> QED
  BY <1>1, <1>2 DEF Ahead

LEMMA AheadSame ==
  ASSUME NEW h \in Int, NEW j \in 0 .. Ring - 1, NEW k \in 0 .. Ring - 1, Ahead(h, j) = Ahead(h, k)
  PROVE  j = k
BY Sizes, ModSame DEF Ahead

LEMMA AheadReaches ==
  ASSUME NEW h \in Bds, NEW i \in Bds
  PROVE  \E k \in 0 .. Ring - 1 : i = Ahead(h, k)
<1>1. h \in 0 .. Ring - 1 /\ i \in 0 .. Ring - 1
  BY DEF Bds
<1>2. \E k \in 0 .. Ring - 1 : (h + k) % Ring = i
  BY <1>1, Sizes, ModReaches, Zenon
<1> QED
  BY <1>2, Zenon DEF Ahead

LEMMA AheadTurn ==
  ASSUME NEW h \in Bds
  PROVE  Ahead(h, 0) = h /\ Ahead(h, Ring) = h
<1>1. h % Ring = h /\ Ring % Ring = 0 /\ h + 0 = h /\ h + Ring = Ring + h /\ 0 + h = h /\ h \in Int
  BY Sizes DEF Bds
<1>2. ((Ring % Ring) + h) % Ring = (Ring + h) % Ring
  <2>1. Ring \in Int
    BY Sizes
  <2> QED
    BY <1>1, <2>1, Sizes, ModMod, Zenon
<1>3. (h + 0) % Ring = h /\ (h + Ring) % Ring = h
  BY <1>1, <1>2, Zenon
<1> QED
  BY <1>3 DEF Ahead

-----------------------------------------------------------------------------
(* What is found and what is given.                                        *)

LEMMA LeastNatural ==
  ASSUME NEW T \in SUBSET Nat, T # {}
  PROVE  \E n \in T : \A m \in T : n <= m
<1> DEFINE R == {ss \in Nat \X Nat : ss[1] < ss[2]}
<1>1. IsWellFoundedOn(R, Nat)
  BY NatLessThanWellFounded DEF OpToRel
<1>2. \A m, n \in Nat : m < n => <<m, n>> \in R
  OBVIOUS
<1> HIDE DEF R
<1>3. PICK n \in T : \A m \in T : <<m, n>> \notin R
  BY <1>1, WFMin
<1>4. \A m \in T : ~(m < n)
  BY <1>2, <1>3
<1> QED
  BY <1>4

LEMMA GreatestIndex ==
  ASSUME NEW n \in Nat, NEW S \in SUBSET (1 .. n), S # {}
  PROVE  \E i \in S : \A j \in S : j <= i
<1> DEFINE T == {n - i : i \in S}
<1>0. \A i \in S : n - i \in Nat
  OBVIOUS
<1>1. T \in SUBSET Nat /\ T # {}
  BY <1>0
<1>2. PICK d \in T : \A e \in T : d <= e
  BY <1>1, LeastNatural
<1>3. PICK i \in S : d = n - i
  BY <1>2
<1>4. \A j \in S : n - j \in T /\ j \in Nat
  OBVIOUS
<1>5. \A j \in S : j <= i
  BY <1>2, <1>3, <1>4
<1> QED
  BY <1>5

(* The BDs that are taken for received ones are counted from hwHead up to  *)
(* the first that is not marked.                                           *)
LEMMA ProcessedIs ==
  ASSUME hwCnt # 0
  PROVE  /\ Processed \in 0 .. Ring
         /\ \A k \in 0 .. Processed - 1 : new[Ahead(hwHead, k)]
         /\ Processed = Ring \/ ~new[Ahead(hwHead, Processed)]
<1> DEFINE Stop(n) == n = Ring \/ ~new[Ahead(hwHead, n)]
           T == {n \in 0 .. Ring : Stop(n)}
<1>1. T \in SUBSET Nat /\ T # {}
  BY Sizes
<1>2. PICK n \in T : \A m \in T : n <= m
  BY <1>1, LeastNatural
<1>3. n \in 0 .. Ring
  OBVIOUS
<1>4. \A k \in 0 .. n - 1 : new[Ahead(hwHead, k)]
  <2> SUFFICES ASSUME NEW k \in 0 .. n - 1 PROVE ~Stop(k)
    OBVIOUS
  <2>1. k \in 0 .. Ring /\ ~(n <= k)
    BY <1>3, Sizes
  <2>2. k \notin T
    BY <1>2, <2>1
  <2> QED
    BY <2>1, <2>2
<1> QED
  BY <1>2, <1>4 DEF Processed

LEMMA ProcessedRange ==
  Processed \in 0 .. Ring /\ (hwCnt = 0 => Processed = 0)
BY ProcessedIs, Sizes DEF Processed

(* As many pbufs are given as are asked for, all different, when there are *)
(* that many.                                                              *)
LEMMA AllocIs ==
  ASSUME NEW spare, IsFiniteSet(spare), NEW n \in Nat, n <= Cardinality(spare)
  PROVE  /\ Alloc(spare, n) \in [1 .. n -> spare]
         /\ \A j, k \in 1 .. n : Alloc(spare, n)[j] = Alloc(spare, n)[k] => j = k
<1> DEFINE c == Cardinality(spare)
<1>1. c \in Nat /\ ExistsBijection(1 .. c, spare)
  BY FS_CardinalityType
<1> HIDE DEF c
<1>2. PICK g \in [1 .. c -> spare] : \A j, k \in 1 .. c : g[j] = g[k] => j = k
  BY <1>1 DEF ExistsBijection, Bijection, Injection, IsInjective
<1>3. n <= c
  BY DEF c
<1> DEFINE f == [k \in 1 .. n |-> g[k]]
<1>4. f \in [1 .. n -> spare] /\ \A j, k \in 1 .. n : f[j] = f[k] => j = k
  <2>1. \A k \in 1 .. n : k \in 1 .. c
    BY <1>1, <1>3
  <2> QED
    BY <1>2, <2>1
<1> QED
  BY <1>4 DEF Alloc

LEMMA FinitePbufs ==
  /\ IsFiniteSet(Pbufs) /\ Cardinality(Pbufs) = PoolSize
  /\ \A S \in SUBSET Pbufs : IsFiniteSet(S) /\ Cardinality(S) \in Nat
<1>1. IsFiniteSet(Pbufs) /\ Cardinality(Pbufs) = PoolSize
  BY Sizes, FS_Interval DEF Pbufs
<1> QED
  BY <1>1, FS_Subset, FS_CardinalityType

-----------------------------------------------------------------------------
(* A pass of the interrupt: its local variables.                           *)

Kept   == Least(Processed, QueueSize - len)
Spare  == pool \cup FreedWhenFull(Taken(Processed), Kept)
Filled == IF Processed = 0 THEN 0 ELSE Least(freeCnt + Processed, Cardinality(Spare))
Fresh  == Alloc(Spare, Filled)
QueuedAt(i) == {k \in 1 .. Kept : (head + k - 1) % QueueSize = i}
FreshAt(bd) == {k \in 1 .. Filled : Ahead(freeHead, k - 1) = bd}

LEMMA HandlerIs ==
  ASSUME RecvHandler
  PROVE  /\ irq' = FALSE
         /\ data' = [i \in DOMAIN data |-> IF QueuedAt(i) = {} THEN data[i]
                                           ELSE Taken(Processed)[CHOOSE k \in QueuedAt(i) : TRUE]]
         /\ head' = (head + Kept) % QueueSize
         /\ len' = len + Kept
         /\ pool' = Spare \ {Fresh[k] : k \in 1 .. Filled}
         /\ slot' = [i \in Bds |-> IF FreshAt(i) = {} THEN slot[i]
                                   ELSE Fresh[CHOOSE k \in FreshAt(i) : \A j \in FreshAt(i) : j <= k]]
         /\ new' = [i \in Bds |-> new[i] /\ FreshAt(i) = {}]
         /\ hwHead' = Ahead(hwHead, Processed)
         /\ hwCnt' = hwCnt - Processed + Filled
         /\ freeHead' = Ahead(freeHead, Filled)
         /\ freeCnt' = (freeCnt + Processed) - Filled
         /\ sem' = TRUE
         /\ backlog' = backlog \o [k \in 1 .. Kept |-> content[Taken(Processed)[k]]]
         /\ starved' = (starved \/ (Processed > 0 /\ Filled < freeCnt + Processed))
         /\ brimmed' = (brimmed \/ Len(backlog) + Busy + Kept > QueueSize)
         /\ UNCHANGED <<content, arrived, dma, tail, task, stack, last, uncounted>>
<1> USE DEF RecvHandler, Kept, Spare, Filled, Fresh, QueuedAt, FreshAt, Counted, Signal, Busy
<1>1. irq' = FALSE /\ head' = (head + Kept) % QueueSize /\ len' = len + Kept /\ sem' = TRUE
  BY Zenon
<1>2. data' = [i \in DOMAIN data |-> IF QueuedAt(i) = {} THEN data[i]
                                    ELSE Taken(Processed)[CHOOSE k \in QueuedAt(i) : TRUE]]
  BY Zenon
<1>3. pool' = Spare \ {Fresh[k] : k \in 1 .. Filled}
  BY Zenon
<1>4. slot' = [i \in Bds |-> IF FreshAt(i) = {} THEN slot[i]
                            ELSE Fresh[CHOOSE k \in FreshAt(i) : \A j \in FreshAt(i) : j <= k]]
  BY Zenon
<1>5. new' = [i \in Bds |-> new[i] /\ FreshAt(i) = {}]
  BY Zenon
<1>6. hwHead' = Ahead(hwHead, Processed) /\ hwCnt' = hwCnt - Processed + Filled
  BY Zenon
<1>7. freeHead' = Ahead(freeHead, Filled) /\ freeCnt' = (freeCnt + Processed) - Filled
  <2>1. freeHead' = Ahead(freeHead, Filled)
    BY Zenon
  <2>2. freeCnt' = (freeCnt + Processed) - Filled
    BY SMT
  <2> QED
    BY <2>1, <2>2, Zenon
<1>8. backlog' = backlog \o [k \in 1 .. Kept |-> content[Taken(Processed)[k]]]
  BY Zenon
<1>9. starved' = (starved \/ (Processed > 0 /\ Filled < freeCnt + Processed))
  BY Zenon
<1>10. brimmed' = (brimmed \/ Len(backlog) + Busy + Kept > QueueSize)
  BY Zenon
<1>11. UNCHANGED <<content, arrived, dma, tail, task, stack, last, uncounted>>
  BY Zenon
<1> QED
  BY <1>1, <1>2, <1>3, <1>4, <1>5, <1>6, <1>7, <1>8, <1>9, <1>10, <1>11, Zenon

LEMMA Typed ==
  ASSUME Always
  PROVE  /\ pool \subseteq Pbufs /\ stack \subseteq Pbufs
         /\ content \in [Pbufs -> 0 .. MaxFrames] /\ slot \in [Bds -> Pbufs] /\ new \in [Bds -> BOOLEAN]
         /\ hwHead \in Bds /\ freeHead \in Bds /\ dma \in Bds
         /\ hwHead \in Int /\ freeHead \in Int /\ dma \in Int
         /\ hwCnt \in Int /\ freeCnt \in Int /\ freeCnt = Ring - hwCnt
         /\ data \in [0 .. QueueSize - 1 -> 0 .. PoolSize]
         /\ head \in 0 .. QueueSize - 1 /\ tail \in 0 .. QueueSize - 1
         /\ len \in 0 .. QueueSize /\ len \in Int
         /\ backlog \in Seq(Nat) /\ Len(backlog) \in Nat /\ uncounted \in Nat
         /\ last \in 0 .. MaxFrames /\ starved \in BOOLEAN /\ brimmed \in BOOLEAN
<1>1. hwHead \in Bds /\ freeHead \in Bds /\ dma \in Bds /\ head \in 0 .. QueueSize - 1 /\ tail \in 0 .. QueueSize - 1
  BY DEF Always, TypeOK
<1>2. hwHead \in Int /\ freeHead \in Int /\ dma \in Int
  BY <1>1 DEF Bds
<1>3. hwCnt \in Int /\ freeCnt \in Int /\ freeCnt = Ring - hwCnt
  BY Sizes DEF Always, Counts
<1>4. len \in 0 .. QueueSize /\ len \in Int
  BY DEF Always, TypeOK
<1>5. backlog \in Seq(Nat) /\ Len(backlog) \in Nat
  BY DEF Always, Counts
<1> QED
  BY <1>1, <1>2, <1>3, <1>4, <1>5 DEF Always, TypeOK

LEMMA HandlerNumbers ==
  ASSUME Always
  PROVE  /\ Processed \in 0 .. Ring /\ Processed \in Int
         /\ Kept \in 0 .. Processed /\ Kept \in Int /\ len + Kept <= QueueSize
         /\ Taken(Processed) \in [1 .. Processed -> Pbufs]
         /\ Len(Taken(Processed)) = Processed
         /\ \A k \in 1 .. Processed : Taken(Processed)[k] = slot[Ahead(hwHead, k - 1)]
<1> USE Typed
<1>1. Processed \in 0 .. Ring /\ Processed \in Int
  BY ProcessedRange, Sizes
<1>2. Kept \in 0 .. Processed /\ Kept \in Int /\ len + Kept <= QueueSize
  <2>1. \A a \in 0 .. Ring : Least(a, QueueSize - len) \in 0 .. a
                            /\ len + Least(a, QueueSize - len) <= QueueSize
    <3>1. len \in 0 .. QueueSize
      BY Typed
    <3> QED
      BY <3>1, Sizes DEF Least
  <2>2. Kept \in 0 .. Processed /\ len + Kept <= QueueSize
    BY <1>1, <2>1, Zenon DEF Kept
  <2> QED
    BY <1>1, <2>2
<1>3. \A k \in 1 .. Processed : Ahead(hwHead, k - 1) \in Bds
  BY AheadIn
<1>4. \A k \in 1 .. Processed : Taken(Processed)[k] = slot[Ahead(hwHead, k - 1)]
  BY DEF Taken
<1>5. \A k \in 1 .. Processed : slot[Ahead(hwHead, k - 1)] \in Pbufs
  BY <1>3
<1>6. Taken(Processed) \in [1 .. Processed -> Pbufs]
  BY <1>5 DEF Taken
<1>7. Len(Taken(Processed)) = Processed
  BY <1>1, <1>6
<1> QED
  BY <1>1, <1>2, <1>4, <1>6, <1>7

LEMMA HandlerPbufs ==
  ASSUME Always
  PROVE  /\ Spare \subseteq Pbufs
         /\ \A b : b \in Spare <=> \/ b \in pool
                                   \/ \E k \in Kept + 1 .. Processed : b = slot[Ahead(hwHead, k - 1)]
<1> USE Typed, HandlerNumbers
<1>1. FreedWhenFull(Taken(Processed), Kept) = {Taken(Processed)[k] : k \in Kept + 1 .. Processed}
  BY DEF FreedWhenFull
<1>2. \A k \in Kept + 1 .. Processed : k \in 1 .. Processed
  <2>1. Kept \in 0 .. Processed /\ Processed \in 0 .. Ring
    OBVIOUS
  <2>2. \A n \in 0 .. Ring : \A j \in 0 .. n : \A k \in j + 1 .. n : k \in 1 .. n
    BY Sizes
  <2> QED
    BY <2>1, <2>2, Zenon
<1>3. \A b : b \in FreedWhenFull(Taken(Processed), Kept)
             <=> \E k \in Kept + 1 .. Processed : b = slot[Ahead(hwHead, k - 1)]
  BY <1>1, <1>2
<1>4. FreedWhenFull(Taken(Processed), Kept) \subseteq Pbufs
  BY <1>1, <1>2
<1> QED
  BY <1>3, <1>4 DEF Spare

LEMMA HandlerAllocs ==
  ASSUME Always, hwCnt \in 0 .. Ring
  PROVE  /\ Filled \in 0 .. freeCnt + Processed /\ Filled \in Nat
         /\ Fresh \in [1 .. Filled -> Spare]
         /\ \A j, k \in 1 .. Filled : Fresh[j] = Fresh[k] => j = k
<1>1. Spare \subseteq Pbufs
  BY HandlerPbufs
<1>2. IsFiniteSet(Spare) /\ Cardinality(Spare) \in Nat
  BY <1>1, FinitePbufs
<1>3. freeCnt \in 0 .. Ring /\ freeCnt + Processed \in Nat
  <2>1. freeCnt = Ring - hwCnt /\ Processed \in 0 .. Ring
    BY Typed, HandlerNumbers
  <2> QED
    BY <2>1, Sizes
<1>4. Filled \in 0 .. freeCnt + Processed /\ Filled \in Nat /\ Filled <= Cardinality(Spare)
  <2>1. \A a, c \in Nat : Least(a, c) \in 0 .. a /\ Least(a, c) \in Nat /\ Least(a, c) <= c
    BY DEF Least
  <2>2. CASE Processed = 0
    <3>1. Filled = 0
      BY <2>2 DEF Filled
    <3> QED
      BY <1>2, <1>3, <3>1
  <2>3. CASE Processed # 0
    <3>1. Filled = Least(freeCnt + Processed, Cardinality(Spare))
      BY <2>3 DEF Filled
    <3> QED
      BY <1>2, <1>3, <2>1, <3>1, Zenon
  <2> QED
    BY <2>2, <2>3
<1> QED
  BY <1>2, <1>4, AllocIs DEF Fresh

(* The queue: the new frames' pbufs follow the old ones.                   *)
LEMMA HandlerQueue ==
  ASSUME Always, RecvHandler
  PROVE  /\ data' \in [0 .. QueueSize - 1 -> 0 .. PoolSize]
         /\ \A i \in 0 .. QueueSize - 1 :
              (\A k \in 0 .. Kept - 1 : (head + k) % QueueSize # i) => data'[i] = data[i]
         /\ \A k \in 0 .. Kept - 1 : data'[(head + k) % QueueSize] = slot[Ahead(hwHead, k)]
<1>1. data' = [i \in DOMAIN data |-> IF QueuedAt(i) = {} THEN data[i]
                                    ELSE Taken(Processed)[CHOOSE k \in QueuedAt(i) : TRUE]]
  BY HandlerIs
<1>2. data \in [0 .. QueueSize - 1 -> 0 .. PoolSize] /\ head \in Int /\ len \in 0 .. QueueSize
  BY Typed
<1>3. /\ Kept \in 0 .. Processed /\ Processed \in 0 .. Ring /\ len + Kept <= QueueSize
      /\ Taken(Processed) \in [1 .. Processed -> Pbufs]
      /\ \A k \in 1 .. Processed : Taken(Processed)[k] = slot[Ahead(hwHead, k - 1)]
  BY HandlerNumbers
<1>4. \A i : QueuedAt(i) # {} => /\ (CHOOSE k \in QueuedAt(i) : TRUE) \in QueuedAt(i)
                                 /\ (CHOOSE k \in QueuedAt(i) : TRUE) \in 1 .. Processed
  <2> SUFFICES ASSUME NEW i, QueuedAt(i) # {}
               PROVE  /\ (CHOOSE k \in QueuedAt(i) : TRUE) \in QueuedAt(i)
                      /\ (CHOOSE k \in QueuedAt(i) : TRUE) \in 1 .. Processed
    OBVIOUS
  <2>1. (CHOOSE k \in QueuedAt(i) : TRUE) \in QueuedAt(i)
    OBVIOUS
  <2>2. \A k \in QueuedAt(i) : k \in 1 .. Processed
    BY <1>3, Sizes DEF QueuedAt
  <2> QED
    BY <2>1, <2>2
<1>5. \A b \in Pbufs : b \in 0 .. PoolSize
  BY DEF Pbufs
<1>6. \A i \in 0 .. QueueSize - 1 : QueuedAt(i) # {} => data'[i] \in Pbufs
  BY <1>1, <1>2, <1>3, <1>4
<1>7. data' \in [0 .. QueueSize - 1 -> 0 .. PoolSize]
  BY <1>1, <1>2, <1>5, <1>6
<1>8. ASSUME NEW i \in 0 .. QueueSize - 1, \A k \in 0 .. Kept - 1 : (head + k) % QueueSize # i
      PROVE  data'[i] = data[i]
  <2>1. \A k \in 1 .. Kept : k - 1 \in 0 .. Kept - 1 /\ head + k - 1 = head + (k - 1)
    BY <1>2, <1>3, Sizes
  <2>2. QueuedAt(i) = {}
    BY <1>8, <2>1 DEF QueuedAt
  <2> QED
    BY <1>1, <1>2, <2>2
<1>9. ASSUME NEW k \in 0 .. Kept - 1
      PROVE  data'[(head + k) % QueueSize] = slot[Ahead(hwHead, k)]
  <2> DEFINE i == (head + k) % QueueSize
             j == CHOOSE j \in QueuedAt(i) : TRUE
  <2>1. i \in 0 .. QueueSize - 1
    <3>1. head + k \in Int
      BY <1>2, <1>3
    <3> QED
      BY <3>1, Sizes, DivMod, Zenon
  <2>2. k + 1 \in QueuedAt(i)
    <3>1. k + 1 \in 1 .. Kept /\ head + (k + 1) - 1 = head + k
      BY <1>2, <1>3
    <3> QED
      BY <3>1 DEF QueuedAt
  <2>3. j \in QueuedAt(i) /\ j \in 1 .. Processed
    BY <1>4, <2>2
  <2>4. j \in 1 .. Kept /\ (head + j - 1) % QueueSize = i
    BY <2>3 DEF QueuedAt
  <2> HIDE DEF j
  <2>5. j - 1 = k
    <3>1. j - 1 \in 0 .. QueueSize - 1 /\ k \in 0 .. QueueSize - 1 /\ head + j - 1 = head + (j - 1)
      BY <1>2, <1>3, <2>4, Sizes
    <3>2. (head + (j - 1)) % QueueSize = (head + k) % QueueSize
      BY <2>4, <3>1
    <3> QED
      BY <1>2, <3>1, <3>2, Sizes, ModSame, Zenon
  <2>6. Taken(Processed)[j] = slot[Ahead(hwHead, k)]
    BY <1>3, <2>3, <2>5
  <2>7. data'[i] = Taken(Processed)[j]
    BY <1>1, <1>2, <2>1, <2>2 DEF j
  <2> QED
    BY <2>6, <2>7
<1> QED
  BY <1>7, <1>8, <1>9

(* The ring: the free BDs that can be filled get a pbuf each.              *)
LEMMA HandlerRing ==
  ASSUME Always, hwCnt \in 0 .. Ring, RecvHandler
  PROVE  /\ slot' \in [Bds -> Pbufs] /\ new' \in [Bds -> BOOLEAN]
         /\ Filled <= Ring =>
              \A k \in 0 .. Filled - 1 : /\ slot'[Ahead(freeHead, k)] = Fresh[k + 1]
                                         /\ ~new'[Ahead(freeHead, k)]
         /\ \A i \in Bds : (\A k \in 0 .. Filled - 1 : Ahead(freeHead, k) # i)
                             => slot'[i] = slot[i] /\ (new'[i] <=> new[i])
<1>1. /\ slot' = [i \in Bds |-> IF FreshAt(i) = {} THEN slot[i]
                                ELSE Fresh[CHOOSE k \in FreshAt(i) : \A j \in FreshAt(i) : j <= k]]
      /\ new' = [i \in Bds |-> new[i] /\ FreshAt(i) = {}]
  BY HandlerIs
<1>2. slot \in [Bds -> Pbufs] /\ new \in [Bds -> BOOLEAN] /\ freeHead \in Int
  BY Typed
<1>3. Filled \in Nat /\ Fresh \in [1 .. Filled -> Spare] /\ Spare \subseteq Pbufs
  BY HandlerAllocs, HandlerPbufs
<1>4. ASSUME NEW i, FreshAt(i) # {}
      PROVE  (CHOOSE k \in FreshAt(i) : \A j \in FreshAt(i) : j <= k) \in FreshAt(i)
  <2>1. FreshAt(i) \in SUBSET (1 .. Filled)
    BY DEF FreshAt
  <2>2. \E k \in FreshAt(i) : \A j \in FreshAt(i) : j <= k
    BY <1>3, <1>4, <2>1, GreatestIndex
  <2> QED
    BY <2>2
<1>5. \A i : FreshAt(i) # {}
        => Fresh[CHOOSE k \in FreshAt(i) : \A j \in FreshAt(i) : j <= k] \in Pbufs
  <2>1. \A i : \A k \in FreshAt(i) : k \in 1 .. Filled
    BY DEF FreshAt
  <2>2. \A k \in 1 .. Filled : Fresh[k] \in Pbufs
    BY <1>3
  <2> QED
    BY <1>4, <2>1, <2>2
<1>6. slot' \in [Bds -> Pbufs]
  BY <1>1, <1>2, <1>5
<1>7. new' \in [Bds -> BOOLEAN]
  BY <1>1
<1>8. ASSUME Filled <= Ring, NEW k \in 0 .. Filled - 1
      PROVE  slot'[Ahead(freeHead, k)] = Fresh[k + 1] /\ ~new'[Ahead(freeHead, k)]
  <2> DEFINE i == Ahead(freeHead, k)
             j == CHOOSE j \in FreshAt(i) : \A h \in FreshAt(i) : h <= j
  <2>1. i \in Bds
    BY <1>2, <1>3, AheadIn
  <2>2. k + 1 \in FreshAt(i)
    <3>1. k + 1 \in 1 .. Filled /\ (k + 1) - 1 = k
      BY <1>3
    <3> QED
      BY <3>1 DEF FreshAt
  <2>3. j \in FreshAt(i)
    BY <1>4, <2>2
  <2>4. j \in 1 .. Filled /\ Ahead(freeHead, j - 1) = i
    BY <2>3 DEF FreshAt
  <2>7. slot'[i] = Fresh[j] /\ ~new'[i]
    BY <1>1, <2>1, <2>2
  <2> HIDE DEF j
  <2>5. j = k + 1
    <3>1. j - 1 \in 0 .. Ring - 1 /\ k \in 0 .. Ring - 1 /\ j \in Int
      BY <1>3, <1>8, <2>4, Sizes
    <3>2. j - 1 = k
      BY <1>2, <2>4, <3>1, AheadSame
    <3> QED
      BY <3>1, <3>2
  <2> QED
    BY <2>5, <2>7
<1>9. ASSUME NEW i \in Bds, \A k \in 0 .. Filled - 1 : Ahead(freeHead, k) # i
      PROVE  slot'[i] = slot[i] /\ (new'[i] <=> new[i])
  <2>1. \A k \in 1 .. Filled : k - 1 \in 0 .. Filled - 1
    BY <1>3
  <2>2. FreshAt(i) = {}
    BY <1>9, <2>1 DEF FreshAt
  <2> QED
    BY <1>1, <1>2, <2>2
<1> QED
  BY <1>6, <1>7, <1>8, <1>9

LEMMA HandlerBacklog ==
  ASSUME Always, RecvHandler
  PROVE  /\ backlog' \in Seq(Nat) /\ Len(backlog') = Len(backlog) + Kept
         /\ \A j \in 1 .. Len(backlog) : backlog'[j] = backlog[j]
         /\ \A k \in 1 .. Kept : backlog'[Len(backlog) + k] = content[slot[Ahead(hwHead, k - 1)]]
<1> DEFINE more == [k \in 1 .. Kept |-> content[Taken(Processed)[k]]]
<1>1. backlog' = backlog \o more
  BY HandlerIs
<1>2. /\ Kept \in Nat /\ \A k \in 1 .. Kept : k \in 1 .. Processed
      /\ Taken(Processed) \in [1 .. Processed -> Pbufs]
      /\ \A k \in 1 .. Processed : Taken(Processed)[k] = slot[Ahead(hwHead, k - 1)]
  BY HandlerNumbers
<1>3. backlog \in Seq(Nat) /\ content \in [Pbufs -> 0 .. MaxFrames]
  BY Typed
<1>4. \A n \in 0 .. MaxFrames : n \in Nat
  OBVIOUS
<1>5. \A k \in 1 .. Kept : content[Taken(Processed)[k]] \in Nat
  BY <1>2, <1>3, <1>4
<1>6. more \in Seq(Nat) /\ Len(more) = Kept
  BY <1>2, <1>5
<1>7. \A k \in 1 .. Kept : more[k] = content[slot[Ahead(hwHead, k - 1)]]
  BY <1>2
<1> HIDE DEF more
<1>8. /\ backlog \o more \in Seq(Nat) /\ Len(backlog \o more) = Len(backlog) + Len(more)
      /\ \A i \in 1 .. Len(backlog) + Len(more) :
           (backlog \o more)[i] = IF i <= Len(backlog) THEN backlog[i] ELSE more[i - Len(backlog)]
  BY <1>3, <1>6, ConcatProperties
<1>9. Len(backlog) \in Nat
  BY <1>3
<1>10. \A k \in 1 .. Kept : /\ Len(backlog) + k \in 1 .. Len(backlog) + Kept
                            /\ ~(Len(backlog) + k <= Len(backlog))
                            /\ (Len(backlog) + k) - Len(backlog) = k
  BY <1>2, <1>9
<1>11. \A j \in 1 .. Len(backlog) : j \in 1 .. Len(backlog) + Kept /\ j <= Len(backlog)
  BY <1>2, <1>9
<1> QED
  BY <1>1, <1>6, <1>7, <1>8, <1>10, <1>11

-----------------------------------------------------------------------------
(* What always holds.                                                      *)

Pcs   == {"wait", "length", "next", "store", "take", "input"}
Tasks == [pc : Pcs, n : 0 .. QueueSize, r : 0 .. QueueSize, ptail : 0 .. QueueSize - 1, p : 0 .. PoolSize]

(* TypeOK without the clause that Counts implies.                          *)
Types ==
  /\ pool \subseteq Pbufs /\ stack \subseteq Pbufs
  /\ content \in [Pbufs -> 0 .. MaxFrames] /\ slot \in [Bds -> Pbufs] /\ new \in [Bds -> BOOLEAN]
  /\ hwHead \in Bds /\ freeHead \in Bds /\ dma \in Bds
  /\ arrived \in 0 .. MaxFrames /\ irq \in BOOLEAN /\ sem \in BOOLEAN
  /\ data \in [0 .. QueueSize - 1 -> 0 .. PoolSize]
  /\ head \in 0 .. QueueSize - 1 /\ tail \in 0 .. QueueSize - 1 /\ len \in 0 .. QueueSize
  /\ task \in Tasks
  /\ last \in 0 .. MaxFrames /\ uncounted \in Nat /\ starved \in BOOLEAN /\ brimmed \in BOOLEAN

LEMMA AlwaysIs == Always <=> Types /\ Counts
<1>1. Counts => freeCnt = Ring - hwCnt /\ freeHead = Ahead(hwHead, hwCnt)
  BY DEF Counts
<1>2. (TypeOK /\ Counts) <=> (Types /\ Counts)
  BY <1>1 DEF TypeOK, Types, Tasks, Pcs
<1> QED
  BY <1>2 DEF Always

LEMMA AlwaysThen == Types' /\ Counts' => Always'
<1>1. Counts' => freeCnt' = Ring - hwCnt' /\ freeHead' = Ahead(hwHead', hwCnt')
  BY DEF Counts
<1>2. Types' /\ Counts' => TypeOK'
  BY <1>1 DEF TypeOK, Types, Tasks, Pcs
<1> QED
  BY <1>2 DEF Always

LEMMA InTaskIn ==
  ASSUME Sound
  PROVE  hwCnt \in 0 .. Ring /\ (task.pc = "input" => task.p \in Pbufs)
BY Zenon DEF Sound, InTask

(* The task's record, as its steps change it.                              *)
LEMMA TaskChanges ==
  ASSUME NEW t \in Tasks
  PROVE  /\ t.n \in 0 .. QueueSize /\ t.r \in 0 .. QueueSize /\ t.ptail \in 0 .. QueueSize - 1
         /\ t.p \in 0 .. PoolSize /\ t.pc \in Pcs
         /\ \A pc \in Pcs : [t EXCEPT !.pc = pc] \in Tasks
         /\ \A pc \in Pcs, n \in 0 .. QueueSize : [t EXCEPT !.pc = pc, !.n = n] \in Tasks
         /\ \A pc \in Pcs, n \in 0 .. QueueSize : \A r \in 0 .. QueueSize :
              [t EXCEPT !.pc = pc, !.n = n, !.r = r] \in Tasks
         /\ \A pc \in Pcs, k \in 0 .. QueueSize - 1 : \A r \in 0 .. QueueSize :
              [t EXCEPT !.pc = pc, !.ptail = k, !.r = r] \in Tasks
         /\ \A pc \in Pcs, b \in 0 .. PoolSize : \A k \in 0 .. QueueSize - 1 :
              [t EXCEPT !.pc = pc, !.p = b, !.ptail = k] \in Tasks
         /\ \A pc \in Pcs, b \in 0 .. PoolSize : [t EXCEPT !.pc = pc, !.p = b] \in Tasks
<1>1. t.n \in 0 .. QueueSize /\ t.r \in 0 .. QueueSize /\ t.ptail \in 0 .. QueueSize - 1
  BY DEF Tasks
<1>2. t.p \in 0 .. PoolSize /\ t.pc \in Pcs
  BY DEF Tasks
<1>3. \A pc \in Pcs : [t EXCEPT !.pc = pc] \in Tasks
  BY DEF Tasks
<1>4. \A pc \in Pcs, n \in 0 .. QueueSize : [t EXCEPT !.pc = pc, !.n = n] \in Tasks
  BY DEF Tasks
<1>5. \A pc \in Pcs, n \in 0 .. QueueSize : \A r \in 0 .. QueueSize :
        [t EXCEPT !.pc = pc, !.n = n, !.r = r] \in Tasks
  BY DEF Tasks
<1>6. \A pc \in Pcs, k \in 0 .. QueueSize - 1 : \A r \in 0 .. QueueSize :
        [t EXCEPT !.pc = pc, !.ptail = k, !.r = r] \in Tasks
  BY DEF Tasks
<1>7. \A pc \in Pcs, b \in 0 .. PoolSize : \A k \in 0 .. QueueSize - 1 :
        [t EXCEPT !.pc = pc, !.p = b, !.ptail = k] \in Tasks
  BY DEF Tasks
<1>8. \A pc \in Pcs, b \in 0 .. PoolSize : [t EXCEPT !.pc = pc, !.p = b] \in Tasks
  BY DEF Tasks
<1> QED
  BY <1>1, <1>2, <1>3, <1>4, <1>5, <1>6, <1>7, <1>8

LEMMA InitAlways == Init => Always
<1> SUFFICES ASSUME Init PROVE Types /\ Counts
  BY AlwaysIs
<1>1. \A i \in Bds : i + 1 \in Pbufs
  BY Sizes DEF Bds, Pbufs
<1>2. 0 \in Bds /\ 0 \in 0 .. QueueSize - 1 /\ 0 \in 0 .. QueueSize /\ 0 \in 0 .. MaxFrames /\ 0 \in 0 .. PoolSize
  BY Sizes DEF Bds
<1>3. pool \subseteq Pbufs
  BY Sizes DEF Init, Pbufs
<1>4. task \in Tasks
  BY <1>2 DEF Init, Tasks, Pcs
<1>5. Types
  BY <1>1, <1>2, <1>3, <1>4 DEF Init, Types
<1>6. hwCnt \in Int /\ freeCnt = Ring - hwCnt
  BY Sizes DEF Init
<1>7. freeHead = Ahead(hwHead, hwCnt)
  BY <1>2, AheadTurn DEF Init
<1>8. backlog \in Seq(Nat) /\ Len(backlog) = len + uncounted /\ task.pc # "store"
  BY DEF Init
<1> QED
  BY <1>5, <1>6, <1>7, <1>8 DEF Counts

LEMMA ReceiveAlways == Always /\ Receive => Always'
<1> SUFFICES ASSUME Types, Counts, Receive PROVE Types' /\ Counts'
  BY AlwaysIs, AlwaysThen
<1>1. arrived + 1 \in 0 .. MaxFrames
  BY Sizes DEF Types, Receive
<1>2. content' \in [Pbufs -> 0 .. MaxFrames]
  BY <1>1 DEF Types, Receive
<1>3. new' \in [Bds -> BOOLEAN]
  BY DEF Types, Receive
<1>4. dma' \in Bds
  <2>1. dma \in Int
    BY DEF Types, Bds
  <2> QED
    BY <2>1, AheadIn DEF Receive
<1>5. arrived' \in 0 .. MaxFrames /\ irq' \in BOOLEAN
  BY <1>1 DEF Receive
<1>6. UNCHANGED <<pool, ring, queue, sem, task, stack, history>>
  BY DEF Receive
<1>7. Types'
  BY <1>2, <1>3, <1>4, <1>5, <1>6 DEF Types, ring, queue, history
<1>8. Counts'
  BY <1>6 DEF Counts, ring, queue, history
<1> QED
  BY <1>7, <1>8

LEMMA HandlerAlways == Always /\ Sound /\ RecvHandler => Always'
<1> SUFFICES ASSUME Always, Sound, RecvHandler PROVE Types' /\ Counts'
  BY AlwaysIs, AlwaysThen
<1>0. Types /\ Counts /\ hwCnt \in 0 .. Ring
  BY AlwaysIs, InTaskIn
<1>1. /\ Processed \in 0 .. Ring /\ Processed \in Int /\ Kept \in 0 .. Processed /\ Kept \in Int
      /\ len + Kept <= QueueSize
  BY HandlerNumbers
<1>2. Filled \in Nat
  BY <1>0, HandlerAllocs
<1>3. /\ hwHead \in Int /\ freeHead \in Int /\ head \in Int /\ len \in Int /\ freeCnt \in Int /\ hwCnt \in Int
      /\ freeCnt = Ring - hwCnt /\ len \in 0 .. QueueSize
  BY Typed
<1>4. pool' \subseteq Pbufs
  BY HandlerIs, HandlerPbufs
<1>5. data' \in [0 .. QueueSize - 1 -> 0 .. PoolSize]
  BY HandlerQueue
<1>6. slot' \in [Bds -> Pbufs] /\ new' \in [Bds -> BOOLEAN]
  BY <1>0, HandlerRing
<1>7. hwHead' \in Bds /\ freeHead' \in Bds
  BY <1>1, <1>2, <1>3, HandlerIs, AheadIn
<1>8. head' \in 0 .. QueueSize - 1
  <2>1. head + Kept \in Int
    BY <1>1, <1>3
  <2>2. (head + Kept) % QueueSize \in 0 .. QueueSize - 1
    BY <2>1, Sizes, DivMod, Zenon
  <2> QED
    BY <2>2, HandlerIs
<1>9. len' = len + Kept /\ len' \in 0 .. QueueSize
  <2>1. len' = len + Kept
    BY HandlerIs
  <2> QED
    BY <1>1, <1>3, <2>1
<1>10. irq' \in BOOLEAN /\ sem' \in BOOLEAN
  BY HandlerIs
<1>11. starved' \in BOOLEAN /\ brimmed' \in BOOLEAN
  <2>1. starved' \in BOOLEAN
    <3>1. starved' = (starved \/ (Processed > 0 /\ Filled < freeCnt + Processed))
      BY HandlerIs
    <3> QED
      BY <3>1, Zenon
  <2>2. brimmed' \in BOOLEAN
    <3>1. brimmed' = (brimmed \/ Len(backlog) + Busy + Kept > QueueSize)
      BY HandlerIs
    <3> QED
      BY <3>1, Zenon
  <2> QED
    BY <2>1, <2>2
<1>12. UNCHANGED <<content, arrived, dma, tail, task, stack, last, uncounted>>
  BY HandlerIs
<1>13. Types'
  BY <1>0, <1>4, <1>5, <1>6, <1>7, <1>8, <1>9, <1>10, <1>11, <1>12 DEF Types
<1>14. hwCnt' \in Int /\ freeCnt' = Ring - hwCnt'
  <2>1. hwCnt' = hwCnt - Processed + Filled /\ freeCnt' = (freeCnt + Processed) - Filled
    BY HandlerIs
  <2> QED
    BY <1>1, <1>2, <1>3, <2>1, Sizes
<1>15. freeHead' = Ahead(hwHead', hwCnt')
  <2>1. hwCnt' = hwCnt - Processed + Filled /\ freeHead' = Ahead(freeHead, Filled) /\ hwHead' = Ahead(hwHead, Processed)
    BY HandlerIs
  <2>2. freeHead = Ahead(hwHead, hwCnt)
    BY <1>0 DEF Counts
  <2>3. freeHead' = Ahead(hwHead, hwCnt + Filled)
    BY <1>2, <1>3, <2>1, <2>2, AheadAhead
  <2>4. Ahead(hwHead', hwCnt') = Ahead(hwHead, Processed + hwCnt')
    BY <1>1, <1>3, <1>14, <2>1, AheadAhead
  <2>5. Processed + hwCnt' = hwCnt + Filled
    BY <1>1, <1>2, <1>3, <2>1
  <2> QED
    BY <2>3, <2>4, <2>5
<1>16. backlog' \in Seq(Nat) /\ Len(backlog') = Len(backlog) + Kept
  BY HandlerBacklog
<1>17. Len(backlog') = len' + uncounted'
  <2>1. Len(backlog) = len + uncounted /\ uncounted' = uncounted /\ uncounted \in Nat
    BY <1>0, <1>12 DEF Counts, Types
  <2> QED
    BY <1>1, <1>3, <1>9, <1>16, <2>1
<1>18. task'.pc = "store" => 1 <= task'.r /\ task'.r <= len'
  <2> SUFFICES ASSUME task.pc = "store" PROVE 1 <= task.r /\ task.r <= len + Kept
    BY <1>9, <1>12
  <2>1. 1 <= task.r /\ task.r <= len /\ task.r \in 0 .. QueueSize
    BY <1>0, TaskChanges DEF Counts, Types
  <2> QED
    BY <1>1, <1>3, <2>1
<1>19. Counts'
  BY <1>14, <1>15, <1>16, <1>17, <1>18 DEF Counts
<1> QED
  BY <1>13, <1>19

LEMMA TaskAlways == Always /\ Sound /\ Task => Always'
<1> SUFFICES ASSUME Types, Counts, Sound, Task PROVE Types' /\ Counts'
  BY AlwaysIs, AlwaysThen
<1>0. /\ task \in Tasks /\ len \in 0 .. QueueSize /\ len \in Int
      /\ backlog \in Seq(Nat) /\ Len(backlog) \in Nat /\ uncounted \in Nat
  BY DEF Types, Counts
<1>1. ASSUME Wait PROVE Types' /\ Counts'
  <2>1. task' \in Tasks /\ task'.pc # "store" /\ sem' \in BOOLEAN
    <3>1. task' = [task EXCEPT !.pc = "length"] /\ sem' = FALSE
      BY <1>1 DEF Wait
    <3>2. "length" \in Pcs
      BY DEF Pcs
    <3>3. task' \in Tasks
      BY <1>0, <3>1, <3>2, TaskChanges
    <3>4. task'.pc = "length"
      BY <1>0, <3>1 DEF Tasks
    <3> QED
      BY <3>1, <3>3, <3>4
  <2>2. UNCHANGED <<pool, hardware, ring, irq, queue, stack, history>>
    BY <1>1 DEF Wait
  <2>3. Types'
    BY <2>1, <2>2 DEF Types, hardware, ring, queue, history
  <2>4. Counts'
    BY <2>1, <2>2 DEF Counts, ring, queue, history
  <2> QED
    BY <2>3, <2>4
<1>2. ASSUME Length PROVE Types' /\ Counts'
  <2>1. task' \in Tasks /\ task'.pc # "store"
    <3>1. task' = [task EXCEPT !.pc = "next", !.n = len]
      BY <1>2 DEF Length
    <3>2. "next" \in Pcs
      BY DEF Pcs
    <3>3. task' \in Tasks
      BY <1>0, <3>1, <3>2, TaskChanges
    <3>4. task'.pc = "next"
      BY <1>0, <3>1 DEF Tasks
    <3> QED
      BY <3>3, <3>4
  <2>2. UNCHANGED <<pool, hardware, ring, irq, queue, sem, stack, history>>
    BY <1>2 DEF Length
  <2>3. Types'
    BY <2>1, <2>2 DEF Types, hardware, ring, queue, history
  <2>4. Counts'
    BY <2>1, <2>2 DEF Counts, ring, queue, history
  <2> QED
    BY <2>3, <2>4
<1>3. ASSUME LowLevelInput PROVE Types' /\ Counts'
  <2>2. UNCHANGED <<pool, hardware, ring, irq, queue, sem, stack, history>>
    BY <1>3 DEF LowLevelInput
  <2>1. task' \in Tasks /\ (task'.pc = "store" => 1 <= task'.r /\ task'.r <= len)
    <3>1. CASE task.n = 0 \/ len = 0
      <4>1. task' = [task EXCEPT !.pc = "wait", !.n = 0, !.r = 0]
        BY <1>3, <3>1 DEF LowLevelInput
      <4>2. 0 \in 0 .. QueueSize /\ "wait" \in Pcs
        BY Sizes DEF Pcs
      <4>3. task' \in Tasks
        BY <1>0, <4>1, <4>2, TaskChanges
      <4>4. task'.pc = "wait"
        BY <1>0, <4>1 DEF Tasks
      <4> QED
        BY <4>3, <4>4
    <3>2. CASE ~(task.n = 0 \/ len = 0)
      <4>1. task' = [task EXCEPT !.pc = "store", !.n = task.n - 1, !.r = len]
        BY <1>3, <3>2 DEF LowLevelInput
      <4>2. task.n - 1 \in 0 .. QueueSize /\ "store" \in Pcs
        <5>1. task.n \in 0 .. QueueSize
          BY <1>0, TaskChanges
        <5> QED
          BY <3>2, <5>1, Sizes DEF Pcs
      <4>3. task' \in Tasks
        BY <1>0, <4>1, <4>2, TaskChanges
      <4>4. task'.r = len
        BY <1>0, <4>1 DEF Tasks
      <4> QED
        BY <1>0, <3>2, <4>3, <4>4
    <3> QED
      BY <3>1, <3>2
  <2>3. Types'
    BY <2>1, <2>2 DEF Types, hardware, ring, queue, history
  <2>4. Counts'
    BY <2>1, <2>2 DEF Counts, ring, queue, history
  <2> QED
    BY <2>3, <2>4
<1>4. ASSUME Store PROVE Types' /\ Counts'
  <2>1. /\ task' = [task EXCEPT !.pc = "take", !.ptail = tail, !.r = 0]
        /\ tail' = (tail + 1) % QueueSize /\ len' = task.r - 1 /\ backlog' = Tail(backlog)
        /\ uncounted' = uncounted + (len - task.r)
        /\ UNCHANGED <<pool, hardware, ring, irq, data, head, sem, stack, last, starved, brimmed>>
    BY <1>4 DEF Store
  <2>2. 1 <= task.r /\ task.r <= len /\ task.r \in Int
    <3>1. task.r \in 0 .. QueueSize
      BY <1>0, TaskChanges
    <3>2. 1 <= task.r /\ task.r <= len
      BY <1>4 DEF Store, Counts
    <3> QED
      BY <3>1, <3>2
  <2>3. tail \in 0 .. QueueSize - 1 /\ 0 \in 0 .. QueueSize /\ "take" \in Pcs
    BY Sizes DEF Types, Pcs
  <2>4. task' \in Tasks
    BY <1>0, <2>1, <2>3, TaskChanges
  <2>5. task'.pc = "take"
    BY <1>0, <2>1 DEF Tasks
  <2>6. tail' \in 0 .. QueueSize - 1
    <3>1. tail + 1 \in Int
      BY <2>3
    <3>2. (tail + 1) % QueueSize \in 0 .. QueueSize - 1
      BY <3>1, Sizes, DivMod, Zenon
    <3> QED
      BY <2>1, <3>2
  <2>7. len' \in 0 .. QueueSize /\ uncounted' \in Nat
    <3>1. \A r \in Int : 1 <= r /\ r <= len => r - 1 \in 0 .. QueueSize /\ uncounted + (len - r) \in Nat
      BY <1>0, Sizes
    <3> QED
      BY <2>1, <2>2, <3>1
  <2>8. Types'
    BY <2>1, <2>4, <2>6, <2>7 DEF Types, hardware, ring
  <2>9. Len(backlog) = len + uncounted
    BY DEF Counts
  <2>10. backlog # << >>
    BY <1>0, <2>2, <2>9
  <2>11. backlog' \in Seq(Nat) /\ Len(backlog') = Len(backlog) - 1
    BY <1>0, <2>1, <2>10, HeadTailProperties
  <2>12. Len(backlog') = len' + uncounted'
    BY <1>0, <2>1, <2>2, <2>9, <2>11
  <2>13. Counts'
    BY <2>1, <2>5, <2>11, <2>12 DEF Counts, ring
  <2> QED
    BY <2>8, <2>13
<1>5. ASSUME Take PROVE Types' /\ Counts'
  <2>1. /\ task' = [task EXCEPT !.pc = "input", !.p = data[task.ptail], !.ptail = 0]
        /\ UNCHANGED <<pool, hardware, ring, irq, queue, sem, stack, history>>
    BY <1>5 DEF Take
  <2>2. data[task.ptail] \in 0 .. PoolSize /\ 0 \in 0 .. QueueSize - 1 /\ "input" \in Pcs
    <3>1. task.ptail \in 0 .. QueueSize - 1
      BY <1>0, TaskChanges
    <3>2. 0 \in 0 .. QueueSize - 1 /\ "input" \in Pcs
      BY Sizes DEF Pcs
    <3> QED
      BY <3>1, <3>2 DEF Types
  <2>3. task' \in Tasks
    BY <1>0, <2>1, <2>2, TaskChanges
  <2>4. task'.pc = "input"
    BY <1>0, <2>1 DEF Tasks
  <2>5. Types'
    BY <2>1, <2>3 DEF Types, hardware, ring, queue, history
  <2>6. Counts'
    BY <2>1, <2>4 DEF Counts, ring, queue, history
  <2> QED
    BY <2>5, <2>6
<1>6. ASSUME NEW a \in BOOLEAN, Input(a) PROVE Types' /\ Counts'
  <2>1. /\ task.pc = "input" /\ task' = [task EXCEPT !.pc = "next", !.p = 0]
        /\ last' = content[task.p]
        /\ UNCHANGED <<hardware, ring, irq, queue, sem, backlog, uncounted, starved, brimmed>>
    BY <1>6 DEF Input
  <2>2. task.p \in Pbufs
    BY <2>1, InTaskIn
  <2>3. stack' \subseteq Pbufs /\ pool' \subseteq Pbufs
    BY <1>6, <2>2 DEF Input, Types
  <2>4. task' \in Tasks
    <3>1. 0 \in 0 .. PoolSize /\ "next" \in Pcs
      BY Sizes DEF Pcs
    <3> QED
      BY <1>0, <2>1, <3>1, TaskChanges
  <2>5. task'.pc = "next"
    BY <1>0, <2>1 DEF Tasks
  <2>6. last' \in 0 .. MaxFrames
    BY <2>1, <2>2 DEF Types
  <2>7. Types'
    BY <2>1, <2>3, <2>4, <2>6 DEF Types, hardware, ring, queue
  <2>8. Counts'
    BY <2>1, <2>5 DEF Counts, ring, queue
  <2> QED
    BY <2>7, <2>8
<1> QED
  BY <1>1, <1>2, <1>3, <1>4, <1>5, <1>6 DEF Task

LEMMA FreeAlways ==
  ASSUME NEW b \in stack, Always, Free(b)
  PROVE  Always'
<1>1. Types /\ Counts
  BY AlwaysIs
<1>2. pool' \subseteq Pbufs /\ stack' \subseteq Pbufs
  BY <1>1 DEF Types, Free
<1>3. UNCHANGED <<hardware, ring, irq, queue, sem, task, history>>
  BY DEF Free
<1>4. Types'
  BY <1>1, <1>2, <1>3 DEF Types, hardware, ring, queue, history
<1>5. Counts'
  BY <1>1, <1>3 DEF Counts, ring, queue, history
<1> QED
  BY <1>4, <1>5, AlwaysThen

LEMMA StutterAlways == Always /\ UNCHANGED vars => Always'
<1> SUFFICES ASSUME Types, Counts, UNCHANGED vars PROVE Types' /\ Counts'
  BY AlwaysIs, AlwaysThen
<1>1. Types'
  BY DEF Types, vars, hardware, ring, queue, history
<1>2. Counts'
  BY DEF Counts, vars, ring, queue, history
<1> QED
  BY <1>1, <1>2

LEMMA StepAlways == Always /\ [Next]_vars => Always'
BY ReceiveAlways, HandlerAlways, TaskAlways, FreeAlways, StutterAlways DEF Next

-----------------------------------------------------------------------------
(* Where the pbufs are.                                                    *)

(* All that Owned and Cover depend on.                                     *)
places == <<pool, slot, data, tail, task, stack, backlog>>

LEMMA InitInPlace == Init => InPlace
<1> SUFFICES ASSUME Init PROVE InPlace
  OBVIOUS
<1>1. backlog = << >> /\ Places = {} /\ InTask = {} /\ InQueue = {} /\ stack = {}
  BY DEF Init, Places, InTask, InQueue
<1>2. Held = 1 .. Ring
  <2>1. Held = {i + 1 : i \in 0 .. Ring - 1}
    BY DEF Held, Init, Bds
  <2>2. \A b \in 1 .. Ring : b - 1 \in 0 .. Ring - 1 /\ b = (b - 1) + 1
    BY Sizes
  <2>3. \A i \in 0 .. Ring - 1 : i + 1 \in 1 .. Ring
    BY Sizes
  <2> QED
    BY <2>1, <2>2, <2>3
<1>3. Owned
  <2>1. \A i, j \in Bds : slot[i] = slot[j] => i = j
    BY DEF Init, Bds
  <2>2. pool \cap Held = {}
    BY <1>2, Sizes DEF Init
  <2> QED
    BY <1>1, <2>1, <2>2 DEF Owned
<1>4. Cover
  BY <1>1, <1>2, Sizes DEF Cover, Init, Pbufs
<1>5. Room
  <2>1. 0 % QueueSize = 0
    BY Sizes
  <2> QED
    BY <2>1, Sizes DEF Room, Init, Busy
<1>6. InOrder
  BY <1>1 DEF InOrder
<1>7. Pending(0)
  <2>1. dma = Ahead(hwHead, 0)
    BY AheadTurn, Sizes DEF Init, Bds
  <2>2. ASSUME NEW k \in 0 .. Ring - 1
        PROVE  ~new[Ahead(hwHead, k)] /\ ~(k < 0)
    <3>1. Ahead(hwHead, k) \in Bds
      BY AheadIn DEF Init
    <3> QED
      BY <3>1 DEF Init
  <2>3. 0 <= arrived /\ last <= arrived - 0
    BY DEF Init
  <2>4. Len(backlog) = 0 /\ \A j \in 1 .. Len(backlog) : FALSE
    BY <1>1
  <2> QED
    BY <1>1, <2>1, <2>2, <2>3, <2>4, Zenon DEF Pending
<1>8. RingFull
  BY <1>7, Sizes DEF RingFull, Init
<1> QED
  BY <1>3, <1>4, <1>5, <1>6, <1>8 DEF InPlace

LEMMA SamePlaces ==
  ASSUME UNCHANGED places
  PROVE  /\ Held' = Held /\ InTask' = InTask /\ InQueue' = InQueue /\ Places' = Places /\ Busy' = Busy
         /\ Owned' = Owned /\ Cover' = Cover
<1>1. Held' = Held /\ InTask' = InTask /\ InQueue' = InQueue /\ Places' = Places /\ Busy' = Busy
  BY DEF places, Held, InTask, InQueue, Places, Busy
<1>2. Owned' = Owned
  BY <1>1 DEF Owned, places, Queued
<1>3. Cover' = Cover
  BY <1>1 DEF Cover, places
<1> QED
  BY <1>1, <1>2, <1>3

(* What the places hold are pbufs; a pbuf of the task or the queue is not  *)
(* in the ring.                                                            *)
LEMMA PlacesHold ==
  ASSUME Always, Owned, Cover
  PROVE  /\ Held \subseteq Pbufs /\ InTask \subseteq Pbufs
         /\ \A k \in Places : Queued(k) \in Pbufs /\ Queued(k) \in InQueue
         /\ \A i \in Bds : slot[i] \in Held /\ slot[i] \notin InTask /\ slot[i] \notin pool /\ slot[i] \notin stack
         /\ \A k \in Places, i \in Bds : Queued(k) # slot[i]
         /\ \A b : b \in InQueue <=> \E k \in Places : b = Queued(k)
<1>1. \A i \in Bds : slot[i] \in Held
  BY DEF Held
<1>2. \A b : b \in InQueue <=> \E k \in Places : b = Queued(k)
  BY DEF InQueue, Places, Queued
<1> QED
  BY <1>1, <1>2 DEF Owned, Cover

LEMMA ReceiveInPlace ==
  ASSUME Always, InPlace, Receive
  PROVE  InPlace'
<1>1. /\ Owned /\ Cover /\ Room /\ InOrder /\ hwCnt = Ring
      /\ UNCHANGED <<pool, ring, queue, sem, task, stack, history>>
  BY DEF InPlace, RingFull, Receive
<1>2. UNCHANGED places /\ UNCHANGED <<hwHead, hwCnt, head, last, slot, backlog>>
  BY <1>1 DEF places, ring, queue, history
<1>3. Owned' /\ Cover' /\ InTask' = InTask /\ Places' = Places /\ Busy' = Busy
  BY <1>1, <1>2, SamePlaces
<1>4. Room'
  BY <1>1, <1>2, <1>3 DEF Room, places
<1>5. PICK m \in 0 .. Ring : Pending(m)
  BY DEF InPlace, RingFull
<1>6. /\ content \in [Pbufs -> 0 .. MaxFrames] /\ slot \in [Bds -> Pbufs] /\ new \in [Bds -> BOOLEAN]
      /\ hwHead \in Bds /\ hwHead \in Int /\ dma \in Bds /\ arrived \in Int /\ last \in Int /\ m \in Int
      /\ backlog \in Seq(Nat)
  <2>1. arrived \in Int /\ last \in Int
    BY DEF Always, TypeOK
  <2>2. m \in Int
    BY Sizes
  <2>3. /\ content \in [Pbufs -> 0 .. MaxFrames] /\ slot \in [Bds -> Pbufs] /\ new \in [Bds -> BOOLEAN]
        /\ hwHead \in Bds /\ hwHead \in Int /\ dma \in Bds /\ backlog \in Seq(Nat)
    BY Typed
  <2> QED
    BY <2>1, <2>2, <2>3
<1>7. /\ arrived' = arrived + 1 /\ ~new[dma]
      /\ content' = [content EXCEPT ![slot[dma]] = arrived + 1]
      /\ new' = [new EXCEPT ![dma] = TRUE] /\ dma' = Ahead(dma, 1)
  BY DEF Receive
<1>8. dma = Ahead(hwHead, m) /\ m <= arrived
  BY <1>5 DEF Pending
<1>9. m < Ring
  <2> SUFFICES ASSUME m = Ring PROVE FALSE
    BY <1>6, Sizes
  <2>1. dma = Ahead(hwHead, 0)
    BY <1>6, <1>8, AheadTurn
  <2>2. new[Ahead(hwHead, 0)]
    BY <1>5, Sizes DEF Pending
  <2> QED
    BY <1>7, <2>1, <2>2
<1>10. \A k \in 0 .. Ring - 1 : Ahead(hwHead, k) \in Bds /\ (Ahead(hwHead, k) = dma => k = m)
  <2> SUFFICES ASSUME NEW k \in 0 .. Ring - 1
               PROVE  Ahead(hwHead, k) \in Bds /\ (Ahead(hwHead, k) = dma => k = m)
    OBVIOUS
  <2>1. Ahead(hwHead, k) \in Bds
    BY <1>6, AheadIn
  <2>2. m \in 0 .. Ring - 1
    BY <1>6, <1>9, Sizes
  <2>3. Ahead(hwHead, k) = dma => k = m
    BY <1>6, <1>8, <2>2, AheadSame
  <2> QED
    BY <2>1, <2>3
<1>11. /\ slot[dma] \in Pbufs /\ content'[slot[dma]] = arrived + 1
       /\ \A b \in Pbufs : b # slot[dma] => content'[b] = content[b]
  BY <1>6, <1>7
<1>12. /\ \A k \in Places : Queued(k) \in Pbufs /\ Queued(k) # slot[dma]
       /\ \A b \in InTask : b \in Pbufs /\ b # slot[dma]
  BY <1>1, <1>6, PlacesHold
<1>13. Pending(m + 1)'
  <2>1. dma' = Ahead(hwHead', m + 1) /\ m + 1 <= arrived'
    <3>1. Ahead(dma, 1) = Ahead(hwHead, m + 1)
      BY <1>6, <1>8, AheadAhead
    <3> QED
      BY <1>2, <1>6, <1>7, <1>8, <3>1
  <2>2. ASSUME NEW k \in 0 .. Ring - 1
        PROVE  new'[Ahead(hwHead', k)] <=> k < m + 1
    <3>1. new[Ahead(hwHead, k)] <=> k < m
      BY <1>5 DEF Pending
    <3>2. CASE k = m
      <4>1. new'[Ahead(hwHead, k)]
        BY <1>6, <1>7, <1>8, <3>2
      <4> QED
        BY <1>2, <1>6, <3>2, <4>1
    <3>3. CASE k # m
      <4>1. new'[Ahead(hwHead, k)] <=> new[Ahead(hwHead, k)]
        BY <1>6, <1>7, <1>10, <3>3
      <4>2. k < m <=> k < m + 1
        BY <1>6, <3>3
      <4> QED
        BY <1>2, <3>1, <4>1, <4>2
    <3> QED
      BY <3>2, <3>3
  <2>3. ASSUME NEW k \in 0 .. Ring - 1, k < m + 1
        PROVE  content'[slot'[Ahead(hwHead', k)]] = (arrived' - (m + 1)) + k + 1
    <3>1. CASE k = m
      <4>1. content'[slot[Ahead(hwHead, k)]] = arrived + 1
        BY <1>8, <1>11, <3>1
      <4>2. arrived + 1 = (arrived' - (m + 1)) + k + 1
        BY <1>6, <1>7, <3>1
      <4> QED
        BY <1>2, <4>1, <4>2
    <3>2. CASE k # m
      <4>1. k < m
        BY <1>6, <2>3, <3>2
      <4>2. content[slot[Ahead(hwHead, k)]] = (arrived - m) + k + 1
        BY <1>5, <4>1 DEF Pending
      <4>3. slot[Ahead(hwHead, k)] # slot[dma] /\ slot[Ahead(hwHead, k)] \in Pbufs
        BY <1>1, <1>6, <1>10, <3>2 DEF Owned
      <4>4. (arrived' - (m + 1)) + k + 1 = (arrived - m) + k + 1
        BY <1>6, <1>7
      <4> QED
        BY <1>2, <1>11, <4>2, <4>3, <4>4
    <3> QED
      BY <3>1, <3>2
  <2>4. arrived' - (m + 1) = arrived - m
    BY <1>6, <1>7
  <2>5. \A j \in 1 .. Len(backlog') : backlog'[j] <= arrived' - (m + 1)
    BY <1>2, <1>5, <2>4 DEF Pending
  <2>6. \A b \in InTask' : content'[b] <= arrived' - (m + 1)
    BY <1>3, <1>5, <1>11, <1>12, <2>4 DEF Pending
  <2>7. last' <= arrived' - (m + 1)
    BY <1>2, <1>5, <2>4 DEF Pending
  <2> QED
    BY <2>1, <2>2, <2>3, <2>5, <2>6, <2>7 DEF Pending
<1>14. RingFull'
  <2>1. m + 1 \in 0 .. Ring
    BY <1>6, <1>9, Sizes
  <2> QED
    BY <1>1, <1>2, <1>13, <2>1 DEF RingFull
<1>15. InOrder'
  <2>1. \A k \in Places' : content'[data'[(tail' + k) % QueueSize]] = backlog'[k + 1]
    BY <1>1, <1>2, <1>3, <1>11, <1>12 DEF InOrder, Queued, places
  <2>2. \A b \in InTask' : content'[b] = content[b]
    BY <1>3, <1>11, <1>12
  <2> QED
    BY <1>1, <1>2, <1>3, <2>1, <2>2 DEF InOrder, Queued
<1> QED
  BY <1>3, <1>4, <1>14, <1>15 DEF InPlace

(* The task's steps that move no pbuf, or none that it does not hold.      *)
LEMMA SameInPlace ==
  ASSUME InPlace, InTask' = InTask, task'.pc # "take",
         UNCHANGED <<pool, hardware, ring, queue, stack, history>>
  PROVE  InPlace'
<1>1. /\ Owned /\ Cover /\ Room /\ InOrder /\ hwCnt = Ring
      /\ UNCHANGED <<pool, content, new, arrived, dma, slot, hwHead, hwCnt, data, head, tail, stack, backlog, last>>
  BY DEF InPlace, RingFull, hardware, ring, queue, history
<1>2. Held' = Held /\ Places' = Places /\ InQueue' = InQueue
  BY <1>1 DEF Held, Places, InQueue
<1>3. Owned'
  BY <1>1, <1>2 DEF Owned, Queued
<1>4. Cover'
  BY <1>1, <1>2 DEF Cover
<1>5. Room'
  <2>1. Busy' = 0 /\ Busy \in {0, 1}
    BY DEF Busy
  <2>2. Len(backlog) + Busy <= QueueSize => Len(backlog) <= QueueSize
    BY <2>1, Sizes
  <2>3. Len(backlog') + Busy' <= QueueSize
    BY <1>1, <2>1, <2>2 DEF Room
  <2> QED
    BY <1>1, <2>3 DEF Room
<1>6. RingFull'
  <2>1. PICK m \in 0 .. Ring : Pending(m)
    BY DEF InPlace, RingFull
  <2>2. Pending(m)'
    BY <1>1, <2>1 DEF Pending
  <2> QED
    BY <1>1, <2>2 DEF RingFull
<1>7. InOrder'
  BY <1>1, <1>2 DEF InOrder, Queued
<1> QED
  BY <1>3, <1>4, <1>5, <1>6, <1>7 DEF InPlace

LEMMA InTaskIs ==
  /\ task.pc \notin {"take", "input"} => InTask = {}
  /\ task.pc = "take" => InTask = {data[task.ptail]}
  /\ task.pc = "input" => InTask = {task.p}
BY DEF InTask

LEMMA InTaskThen ==
  /\ task'.pc \notin {"take", "input"} => InTask' = {}
  /\ task'.pc = "take" => InTask' = {data'[task'.ptail]}
  /\ task'.pc = "input" => InTask' = {task'.p}
BY DEF InTask

LEMMA WaitInPlace == Always /\ InPlace /\ Wait => InPlace'
<1> SUFFICES ASSUME Always, InPlace, Wait PROVE InPlace'
  OBVIOUS
<1>1. task \in Tasks /\ task.pc = "wait" /\ task' = [task EXCEPT !.pc = "length"]
  BY AlwaysIs DEF Types, Wait
<1>2. task'.pc = "length"
  BY <1>1 DEF Tasks
<1>3. InTask' = InTask /\ task'.pc # "take"
  BY <1>1, <1>2, InTaskIs, InTaskThen
<1> QED
  BY <1>3, SameInPlace DEF Wait

LEMMA LengthInPlace == Always /\ InPlace /\ Length => InPlace'
<1> SUFFICES ASSUME Always, InPlace, Length PROVE InPlace'
  OBVIOUS
<1>1. task \in Tasks /\ task.pc = "length" /\ task' = [task EXCEPT !.pc = "next", !.n = len]
  BY AlwaysIs DEF Types, Length
<1>2. task'.pc = "next"
  BY <1>1 DEF Tasks
<1>3. InTask' = InTask /\ task'.pc # "take"
  BY <1>1, <1>2, InTaskIs, InTaskThen
<1> QED
  BY <1>3, SameInPlace DEF Length

LEMMA LowLevelInputInPlace == Always /\ InPlace /\ LowLevelInput => InPlace'
<1> SUFFICES ASSUME Always, InPlace, LowLevelInput PROVE InPlace'
  OBVIOUS
<1>1. task \in Tasks /\ task.pc = "next"
  BY AlwaysIs DEF Types, LowLevelInput
<1>2. task'.pc \in {"wait", "store"}
  BY <1>1 DEF Tasks, LowLevelInput
<1>3. InTask' = InTask /\ task'.pc # "take"
  BY <1>1, <1>2, InTaskIs, InTaskThen
<1> QED
  BY <1>3, SameInPlace DEF LowLevelInput

LEMMA TakeInPlace == Always /\ InPlace /\ Take => InPlace'
<1> SUFFICES ASSUME Always, InPlace, Take PROVE InPlace'
  OBVIOUS
<1>1. /\ task \in Tasks /\ task.pc = "take"
      /\ task' = [task EXCEPT !.pc = "input", !.p = data[task.ptail], !.ptail = 0]
  BY AlwaysIs DEF Types, Take
<1>2. task'.pc = "input" /\ task'.p = data[task.ptail]
  BY <1>1 DEF Tasks
<1>3. InTask' = InTask /\ task'.pc # "take"
  BY <1>1, <1>2, InTaskIs, InTaskThen
<1> QED
  BY <1>3, SameInPlace DEF Take

(* lwIP gets the frame, or it is freed.                                    *)
LEMMA InputInPlace ==
  ASSUME NEW a \in BOOLEAN, Always, InPlace, Input(a)
  PROVE  InPlace'
<1>1. /\ Owned /\ Cover /\ Room /\ InOrder /\ hwCnt = Ring
      /\ task \in Tasks /\ task.pc = "input" /\ task' = [task EXCEPT !.pc = "next", !.p = 0]
      /\ last' = content[task.p]
      /\ UNCHANGED <<content, new, arrived, dma, slot, hwHead, hwCnt, data, head, tail, backlog>>
  BY AlwaysIs DEF InPlace, RingFull, Types, Input, hardware, ring, queue
<1>2. \/ stack' = stack \cup {task.p} /\ pool' = pool
      \/ stack' = stack /\ pool' = pool \cup {task.p}
  BY DEF Input
<1>3. task'.pc = "next"
  BY <1>1 DEF Tasks
<1>4. InTask = {task.p} /\ InTask' = {}
  BY <1>1, <1>3, InTaskIs, InTaskThen
<1>5. Held' = Held /\ Places' = Places /\ InQueue' = InQueue
  BY <1>1 DEF Held, Places, InQueue
<1>6. \A k \in Places : Queued(k) # task.p
  BY <1>1, <1>4 DEF Owned
<1>7. task.p \notin pool /\ task.p \notin stack /\ task.p \notin Held
  BY <1>1, <1>4 DEF Owned
<1>8. Owned'
  <2>1. \A i, j \in Bds : slot'[i] = slot'[j] => i = j
    BY <1>1 DEF Owned
  <2>2. \A j, k \in Places' : data'[(tail' + j) % QueueSize] = data'[(tail' + k) % QueueSize] => j = k
    BY <1>1, <1>5 DEF Owned, Queued
  <2>3. pool' \cap stack' = {} /\ pool' \cap Held' = {} /\ stack' \cap Held' = {}
    BY <1>1, <1>2, <1>5, <1>7 DEF Owned
  <2>4. \A k \in Places' : /\ data'[(tail' + k) % QueueSize] \notin pool'
                           /\ data'[(tail' + k) % QueueSize] \notin stack'
                           /\ data'[(tail' + k) % QueueSize] \notin Held'
    BY <1>1, <1>2, <1>5, <1>6 DEF Owned, Queued
  <2> QED
    BY <1>4, <2>1, <2>2, <2>3, <2>4 DEF Owned, Queued
<1>9. Cover'
  BY <1>1, <1>2, <1>4, <1>5 DEF Cover
<1>10. Room'
  <2>1. Busy' = 0 /\ Busy = 0
    BY <1>1, <1>3 DEF Busy
  <2> QED
    BY <1>1, <1>3, <2>1 DEF Room
<1>11. RingFull'
  <2>1. PICK m \in 0 .. Ring : Pending(m)
    BY DEF InPlace, RingFull
  <2>2. content[task.p] <= arrived - m
    BY <1>4, <2>1 DEF Pending
  <2>3. Pending(m)'
    BY <1>1, <1>4, <2>1, <2>2 DEF Pending
  <2> QED
    BY <1>1, <2>3 DEF RingFull
<1>12. InOrder'
  BY <1>1, <1>4, <1>5 DEF InOrder, Queued
<1> QED
  BY <1>8, <1>9, <1>10, <1>11, <1>12 DEF InPlace

LEMMA FreeInPlace ==
  ASSUME NEW b \in stack, Always, InPlace, Free(b)
  PROVE  InPlace'
<1>1. /\ Owned /\ Cover /\ Room /\ InOrder /\ hwCnt = Ring
      /\ stack' = stack \ {b} /\ pool' = pool \cup {b}
      /\ UNCHANGED <<content, new, arrived, dma, slot, hwHead, hwCnt, data, head, tail, task, backlog, last>>
  BY DEF InPlace, RingFull, Free, hardware, ring, queue, history
<1>2. Held' = Held /\ Places' = Places /\ InQueue' = InQueue /\ InTask' = InTask /\ Busy' = Busy
  BY <1>1 DEF Held, Places, InQueue, InTask, Busy
<1>3. Owned'
  BY <1>1, <1>2 DEF Owned, Queued
<1>4. Cover'
  BY <1>1, <1>2 DEF Cover
<1>5. Room'
  BY <1>1, <1>2 DEF Room
<1>6. RingFull'
  <2>1. PICK m \in 0 .. Ring : Pending(m)
    BY DEF InPlace, RingFull
  <2>2. Pending(m)'
    BY <1>1, <1>2, <2>1 DEF Pending
  <2> QED
    BY <1>1, <2>2 DEF RingFull
<1>7. InOrder'
  BY <1>1, <1>2 DEF InOrder, Queued
<1> QED
  BY <1>3, <1>4, <1>5, <1>6, <1>7 DEF InPlace

(* The task takes the oldest pbuf of the queue.                            *)
LEMMA StoreInPlace == Always /\ InPlace /\ Store => InPlace'
<1> SUFFICES ASSUME Always, InPlace, Store PROVE InPlace'
  OBVIOUS
<1>1. /\ Owned /\ Cover /\ Room /\ InOrder /\ hwCnt = Ring
      /\ task \in Tasks /\ task.pc = "store"
      /\ task' = [task EXCEPT !.pc = "take", !.ptail = tail, !.r = 0]
      /\ tail' = (tail + 1) % QueueSize /\ backlog' = Tail(backlog)
      /\ UNCHANGED <<pool, content, new, arrived, dma, slot, hwHead, hwCnt, data, head, stack, last>>
  BY AlwaysIs DEF InPlace, RingFull, Types, Store, hardware, ring
<1>2. task'.pc = "take" /\ task'.ptail = tail
  BY <1>1 DEF Tasks
<1>3. tail \in 0 .. QueueSize - 1 /\ tail \in Int /\ backlog \in Seq(Nat) /\ Len(backlog) \in Nat
  <2>1. tail \in 0 .. QueueSize - 1 /\ backlog \in Seq(Nat) /\ Len(backlog) \in Nat
    BY Typed
  <2> QED
    BY <2>1
<1>4. Len(backlog) >= 1
  <2>1. task.r \in 0 .. QueueSize /\ 1 <= task.r /\ task.r <= len /\ Len(backlog) = len + uncounted
    BY <1>1, TaskChanges DEF Always, Counts
  <2>2. len \in 0 .. QueueSize /\ uncounted \in Nat
    BY Typed
  <2> QED
    BY <2>1, <2>2
<1>5. /\ Len(backlog') = Len(backlog) - 1
      /\ \A i \in 1 .. Len(backlog') : backlog'[i] = backlog[i + 1]
  <2>1. backlog # << >>
    BY <1>3, <1>4
  <2> QED
    BY <1>1, <1>3, <2>1, HeadTailProperties
<1>6. \A k \in Places' : k + 1 \in Places /\ k \in Int /\ k + 1 \in 1 .. Len(backlog')
  BY <1>3, <1>5 DEF Places
<1>7. 0 \in Places /\ \A k \in Places : k # 0 => k - 1 \in Places' /\ (k - 1) + 1 = k
  BY <1>3, <1>4, <1>5 DEF Places
<1>8. ASSUME NEW k \in Int
      PROVE  data'[(tail' + k) % QueueSize] = Queued(k + 1)
  <2>1. (((tail + 1) % QueueSize) + k) % QueueSize = (tail + 1 + k) % QueueSize
    <3>1. tail + 1 \in Int
      BY <1>3
    <3> QED
      BY <3>1, Sizes, ModMod, Zenon
  <2>2. tail + 1 + k = tail + (k + 1)
    BY <1>3
  <2>3. (tail' + k) % QueueSize = (tail + (k + 1)) % QueueSize
    BY <1>1, <2>1, <2>2, Zenon
  <2> QED
    BY <1>1, <2>3, Zenon DEF Queued
<1>9. InTask = {} /\ InTask' = {Queued(0)}
  <2>1. (tail + 0) % QueueSize = tail
    BY <1>3, Sizes
  <2>2. InTask' = {data[tail]} /\ InTask = {}
    BY <1>1, <1>2, InTaskIs, InTaskThen
  <2> QED
    BY <2>1, <2>2 DEF Queued
<1>10. Held' = Held
  BY <1>1 DEF Held
<1>11. Owned'
  <2>1. \A j, k \in Places' : Queued(j + 1) = Queued(k + 1) => j = k
    <3> SUFFICES ASSUME NEW j \in Places', NEW k \in Places', Queued(j + 1) = Queued(k + 1)
                 PROVE  j = k
      OBVIOUS
    <3>1. j + 1 \in Places /\ k + 1 \in Places /\ j \in Int /\ k \in Int
      BY <1>6
    <3>2. j + 1 = k + 1
      BY <1>1, <3>1 DEF Owned
    <3> QED
      BY <3>1, <3>2
  <2>2. \A k \in Places' : /\ Queued(k + 1) \notin pool /\ Queued(k + 1) \notin stack
                           /\ Queued(k + 1) \notin Held /\ Queued(k + 1) # Queued(0)
    <3> SUFFICES ASSUME NEW k \in Places'
                 PROVE  /\ Queued(k + 1) \notin pool /\ Queued(k + 1) \notin stack
                        /\ Queued(k + 1) \notin Held /\ Queued(k + 1) # Queued(0)
      OBVIOUS
    <3>1. k + 1 \in Places /\ k + 1 # 0
      BY <1>3, <1>5 DEF Places
    <3> QED
      BY <1>1, <1>7, <3>1 DEF Owned
  <2>3. \A k \in Places' : data'[(tail' + k) % QueueSize] = Queued(k + 1)
    BY <1>6, <1>8
  <2>4. Queued(0) \notin pool /\ Queued(0) \notin stack /\ Queued(0) \notin Held
    BY <1>1, <1>7 DEF Owned
  <2>5. \A i, j \in Bds : slot'[i] = slot'[j] => i = j
    BY <1>1 DEF Owned
  <2>6. pool' \cap stack' = {} /\ pool' \cap Held' = {} /\ stack' \cap Held' = {}
    BY <1>1, <1>10 DEF Owned
  <2>7. InTask' \cap (pool' \cup stack' \cup Held') = {}
    BY <1>1, <1>9, <1>10, <2>4
  <2>8. \A j, k \in Places' : data'[(tail' + j) % QueueSize] = data'[(tail' + k) % QueueSize] => j = k
    BY <2>1, <2>3
  <2>9. \A k \in Places' : /\ data'[(tail' + k) % QueueSize] \notin pool'
                           /\ data'[(tail' + k) % QueueSize] \notin stack'
                           /\ data'[(tail' + k) % QueueSize] \notin Held'
                           /\ data'[(tail' + k) % QueueSize] \notin InTask'
    BY <1>1, <1>9, <1>10, <2>2, <2>3
  <2> QED
    BY <2>5, <2>6, <2>7, <2>8, <2>9 DEF Owned, Queued
<1>12. Cover'
  <2>1. \A b : b \in InQueue => b \in InTask' \/ \E k \in Places' : b = data'[(tail' + k) % QueueSize]
    <3> SUFFICES ASSUME NEW k \in Places
                 PROVE  Queued(k) \in InTask' \/ \E j \in Places' : Queued(k) = data'[(tail' + j) % QueueSize]
      BY <1>1, PlacesHold
    <3>1. CASE k = 0
      BY <1>9, <3>1
    <3>2. CASE k # 0
      <4>1. k - 1 \in Places' /\ (k - 1) + 1 = k
        BY <1>7, <3>2
      <4>2. k - 1 \in Int
        BY <1>6, <4>1
      <4>3. data'[(tail' + (k - 1)) % QueueSize] = Queued(k)
        BY <1>8, <4>1, <4>2
      <4> QED
        BY <4>1, <4>3
    <3> QED
      BY <3>1, <3>2
  <2>2. \A k \in Places' : data'[(tail' + k) % QueueSize] \in InQueue
    BY <1>1, <1>6, <1>8, PlacesHold
  <2>3. InTask' \subseteq InQueue
    BY <1>1, <1>7, <1>9, PlacesHold
  <2>4. \A b : b \in InQueue' <=> \E k \in Places' : b = data'[(tail' + k) % QueueSize]
    BY DEF InQueue, Places
  <2>5. InQueue' \cup InTask' = InQueue \cup InTask
    BY <1>9, <2>1, <2>2, <2>3, <2>4
  <2> QED
    BY <1>1, <1>10, <2>5 DEF Cover
<1>13. Room'
  <2>1. Busy = 0 /\ Busy' = 1
    BY <1>1, <1>2 DEF Busy
  <2>2. Len(backlog') + Busy' <= QueueSize
    BY <1>1, <1>3, <1>5, <2>1, Sizes DEF Room
  <2>3. head' = (tail' + Len(backlog')) % QueueSize
    <3>1. tail + 1 \in Int /\ Len(backlog') \in Int /\ tail + 1 + Len(backlog') = tail + Len(backlog)
      BY <1>3, <1>5
    <3>2. (((tail + 1) % QueueSize) + Len(backlog')) % QueueSize = (tail + 1 + Len(backlog')) % QueueSize
      BY <3>1, Sizes, ModMod, Zenon
    <3>3. head = (tail + Len(backlog)) % QueueSize
      BY <1>1 DEF Room
    <3> QED
      BY <1>1, <3>1, <3>2, <3>3, Zenon
  <2> QED
    BY <1>1, <1>2, <2>2, <2>3 DEF Room
<1>14. RingFull'
  <2>1. PICK m \in 0 .. Ring : Pending(m)
    BY DEF InPlace, RingFull
  <2>2. \A j \in 1 .. Len(backlog') : j + 1 \in 1 .. Len(backlog)
    BY <1>3, <1>5
  <2>3. \A j \in 1 .. Len(backlog') : backlog'[j] <= arrived - m
    BY <1>5, <2>1, <2>2 DEF Pending
  <2>4. content[Queued(0)] = backlog[1]
    BY <1>1, <1>7 DEF InOrder
  <2>5. backlog[1] <= arrived - m
    BY <1>3, <1>4, <2>1 DEF Pending
  <2>6. \A b \in InTask' : content'[b] <= arrived - m
    BY <1>1, <1>9, <2>4, <2>5
  <2>7. Pending(m)'
    BY <1>1, <2>1, <2>3, <2>6 DEF Pending
  <2> QED
    BY <1>1, <2>7 DEF RingFull
<1>15. InOrder'
  <2>1. \A k \in Places' : content'[data'[(tail' + k) % QueueSize]] = backlog'[k + 1]
    BY <1>1, <1>5, <1>6, <1>8 DEF InOrder
  <2>2. \A j \in 1 .. Len(backlog') : j \in Int /\ j + 1 \in 1 .. Len(backlog) /\ 1 < j + 1
    BY <1>3, <1>5
  <2>3. \A j, k \in 1 .. Len(backlog') : j < k => backlog'[j] < backlog'[k]
    <3>1. \A j, k \in 1 .. Len(backlog') : j < k => j + 1 < k + 1
      BY <2>2
    <3> QED
      BY <1>1, <1>5, <2>2, <3>1 DEF InOrder
  <2>4. \A j \in 1 .. Len(backlog') : last < backlog'[j]
    BY <1>1, <1>5, <2>2 DEF InOrder
  <2>5. content[Queued(0)] = backlog[1] /\ 1 \in 1 .. Len(backlog)
    BY <1>1, <1>3, <1>4, <1>7 DEF InOrder
  <2>6. \A j \in 1 .. Len(backlog') : backlog[1] < backlog'[j]
    BY <1>1, <1>5, <2>2, <2>5 DEF InOrder
  <2>7. last < backlog[1]
    BY <1>1, <2>5 DEF InOrder
  <2>8. \A b \in InTask' : last' < content'[b] /\ \A j \in 1 .. Len(backlog') : content'[b] < backlog'[j]
    BY <1>1, <1>9, <2>5, <2>6, <2>7
  <2> QED
    BY <1>1, <2>1, <2>3, <2>4, <2>8 DEF InOrder, Queued
<1> QED
  BY <1>11, <1>12, <1>13, <1>14, <1>15 DEF InPlace

-----------------------------------------------------------------------------
(* The interrupt, with a full ring and pbufs for all that it takes out.    *)

Slot(k) == slot[Ahead(hwHead, k)]

LEMMA RingPlaces ==
  ASSUME Always, Owned
  PROVE  /\ \A k \in 0 .. Ring - 1 : Ahead(hwHead, k) \in Bds /\ Slot(k) \in Held /\ Slot(k) \in Pbufs
         /\ \A j, k \in 0 .. Ring - 1 : Slot(j) = Slot(k) => j = k
         /\ \A b \in Held : \E k \in 0 .. Ring - 1 : b = Slot(k)
<1>1. hwHead \in Bds /\ hwHead \in Int /\ slot \in [Bds -> Pbufs]
  BY Typed
<1>2. \A k \in 0 .. Ring - 1 : Ahead(hwHead, k) \in Bds
  BY <1>1, AheadIn
<1>3. \A j, k \in 0 .. Ring - 1 : Slot(j) = Slot(k) => j = k
  <2> SUFFICES ASSUME NEW j \in 0 .. Ring - 1, NEW k \in 0 .. Ring - 1, Slot(j) = Slot(k)
               PROVE  j = k
    OBVIOUS
  <2>1. Ahead(hwHead, j) = Ahead(hwHead, k)
    BY <1>2 DEF Owned, Slot
  <2> QED
    BY <1>1, <2>1, AheadSame
<1>4. \A b \in Held : \E k \in 0 .. Ring - 1 : b = Slot(k)
  <2> SUFFICES ASSUME NEW i \in Bds PROVE \E k \in 0 .. Ring - 1 : slot[i] = Slot(k)
    BY DEF Held
  <2>1. \E k \in 0 .. Ring - 1 : i = Ahead(hwHead, k)
    BY <1>1, AheadReaches
  <2> QED
    BY <2>1 DEF Slot
<1> QED
  BY <1>1, <1>2, <1>3, <1>4 DEF Slot, Held

LEMMA PendingProcessed ==
  ASSUME hwCnt = Ring, NEW m \in 0 .. Ring, Pending(m)
  PROVE  Processed = m
<1>1. /\ Processed \in 0 .. Ring
      /\ \A k \in 0 .. Processed - 1 : new[Ahead(hwHead, k)]
      /\ Processed = Ring \/ ~new[Ahead(hwHead, Processed)]
  BY ProcessedIs, Sizes
<1>2. \A k \in 0 .. Ring - 1 : new[Ahead(hwHead, k)] <=> k < m
  BY DEF Pending
<1>3. ~(Processed < m)
  <2> SUFFICES ASSUME Processed < m PROVE FALSE
    OBVIOUS
  <2>1. Processed \in 0 .. Ring - 1 /\ Processed # Ring
    BY <1>1, Sizes
  <2> QED
    BY <1>1, <1>2, <2>1
<1>4. ~(m < Processed)
  <2> SUFFICES ASSUME m < Processed PROVE FALSE
    OBVIOUS
  <2>1. m \in 0 .. Ring - 1 /\ m \in 0 .. Processed - 1 /\ ~(m < m)
    BY <1>1, Sizes
  <2> QED
    BY <1>1, <1>2, <2>1
<1> QED
  BY <1>1, <1>3, <1>4, Sizes

LEMMA HandlerMoves ==
  ASSUME Always, InPlace, RecvHandler, ~starved', NEW m \in 0 .. Ring, Pending(m)
  PROVE  /\ hwCnt' = Ring /\ hwHead' = Ahead(hwHead, m) /\ Kept \in 0 .. m
         /\ Fresh \in [1 .. m -> Spare]
         /\ \A j, k \in 1 .. m : Fresh[j] = Fresh[k] => j = k
         /\ pool' = Spare \ {Fresh[k] : k \in 1 .. m}
         /\ \A b : b \in Spare <=> b \in pool \/ \E k \in Kept .. m - 1 : b = Slot(k)
         /\ \A k \in 0 .. m - 1 : slot'[Ahead(hwHead, k)] = Fresh[k + 1] /\ ~new'[Ahead(hwHead, k)]
         /\ \A k \in m .. Ring - 1 : slot'[Ahead(hwHead, k)] = Slot(k) /\ ~new'[Ahead(hwHead, k)]
<1>1. hwCnt = Ring
  BY DEF InPlace, RingFull
<1>2. Processed = m
  BY <1>1, PendingProcessed
<1>3. freeCnt = 0 /\ freeHead = hwHead /\ hwHead \in Bds /\ hwHead \in Int /\ m \in Int
  <2>1. freeCnt = Ring - hwCnt /\ freeHead = Ahead(hwHead, hwCnt)
    BY DEF Always, Counts
  <2>2. hwHead \in Bds /\ hwHead \in Int
    BY Typed
  <2> QED
    BY <1>1, <2>1, <2>2, AheadTurn, Sizes
<1>4. Filled \in 0 .. freeCnt + Processed
  BY <1>1, HandlerAllocs, Sizes
<1>5. Filled = m
  <2>1. starved' = (starved \/ (Processed > 0 /\ Filled < freeCnt + Processed))
    BY HandlerIs
  <2>2. ~(m > 0 /\ Filled < 0 + m)
    BY <1>2, <1>3, <2>1
  <2> QED
    BY <1>2, <1>3, <1>4, <2>2
<1>6. hwCnt' = Ring /\ hwHead' = Ahead(hwHead, m)
  <2>1. hwCnt' = hwCnt - Processed + Filled /\ hwHead' = Ahead(hwHead, Processed)
    BY HandlerIs
  <2> QED
    BY <1>1, <1>2, <1>3, <1>5, <2>1, Sizes
<1>7. Kept \in 0 .. m
  BY <1>2, HandlerNumbers
<1>8. /\ Fresh \in [1 .. m -> Spare]
      /\ \A j, k \in 1 .. m : Fresh[j] = Fresh[k] => j = k
  BY <1>1, <1>5, HandlerAllocs, Sizes
<1>9. pool' = Spare \ {Fresh[k] : k \in 1 .. m}
  BY <1>5, HandlerIs
<1>10. \A b : b \in Spare <=> b \in pool \/ \E k \in Kept .. m - 1 : b = Slot(k)
  <2>1. \A b : b \in Spare <=> \/ b \in pool
                               \/ \E k \in Kept + 1 .. m : b = slot[Ahead(hwHead, k - 1)]
    BY <1>2, HandlerPbufs
  <2>2. \A k \in Kept + 1 .. m : k - 1 \in Kept .. m - 1
    BY <1>7
  <2>3. \A k \in Kept .. m - 1 : k + 1 \in Kept + 1 .. m /\ (k + 1) - 1 = k
    BY <1>7
  <2>4. \A b : (\E k \in Kept + 1 .. m : b = slot[Ahead(hwHead, k - 1)]) => \E k \in Kept .. m - 1 : b = Slot(k)
    BY <2>2 DEF Slot
  <2>5. \A b : (\E k \in Kept .. m - 1 : b = Slot(k)) => \E k \in Kept + 1 .. m : b = slot[Ahead(hwHead, k - 1)]
    <3> SUFFICES ASSUME NEW k \in Kept .. m - 1
                 PROVE  \E j \in Kept + 1 .. m : Slot(k) = slot[Ahead(hwHead, j - 1)]
      OBVIOUS
    <3>1. Slot(k) = slot[Ahead(hwHead, (k + 1) - 1)]
      BY <2>3 DEF Slot
    <3> QED
      BY <2>3, <3>1
  <2> QED
    BY <2>1, <2>4, <2>5
<1>11. /\ \A k \in 0 .. m - 1 : slot'[Ahead(hwHead, k)] = Fresh[k + 1] /\ ~new'[Ahead(hwHead, k)]
       /\ \A i \in Bds : (\A k \in 0 .. m - 1 : Ahead(hwHead, k) # i)
                           => slot'[i] = slot[i] /\ (new'[i] <=> new[i])
  BY <1>1, <1>3, <1>5, HandlerRing, Sizes
<1>12. ASSUME NEW k \in m .. Ring - 1
       PROVE  slot'[Ahead(hwHead, k)] = Slot(k) /\ ~new'[Ahead(hwHead, k)]
  <2>1. k \in 0 .. Ring - 1 /\ Ahead(hwHead, k) \in Bds /\ ~(k < m)
    BY <1>3, AheadIn, Sizes
  <2>2. \A j \in 0 .. m - 1 : j \in 0 .. Ring - 1 /\ j # k
    BY <1>3, Sizes
  <2>3. \A j \in 0 .. m - 1 : Ahead(hwHead, j) # Ahead(hwHead, k)
    BY <1>3, <2>1, <2>2, AheadSame
  <2>4. ~new[Ahead(hwHead, k)]
    BY <2>1 DEF Pending
  <2> QED
    BY <1>11, <2>1, <2>3, <2>4 DEF Slot
<1> QED
  BY <1>6, <1>7, <1>8, <1>9, <1>10, <1>11, <1>12

(* The queue's pbufs after it: the old ones, then those of the frames that *)
(* fitted in.                                                              *)
LEMMA HandlerQueued ==
  ASSUME Always, InPlace, RecvHandler, ~brimmed'
  PROVE  /\ Len(backlog) + Busy + Kept <= QueueSize /\ Kept \in Nat
         /\ Len(backlog') = Len(backlog) + Kept /\ backlog' \in Seq(Nat)
         /\ \A k \in Places : data'[(tail' + k) % QueueSize] = Queued(k)
         /\ \A k \in 0 .. Kept - 1 : data'[(tail' + (Len(backlog) + k)) % QueueSize] = Slot(k)
         /\ InTask' = InTask /\ Busy' = Busy
<1>1. Room
  BY DEF InPlace
<1>2. /\ tail \in 0 .. QueueSize - 1 /\ tail \in Int /\ Len(backlog) \in Nat
      /\ data \in [0 .. QueueSize - 1 -> 0 .. PoolSize]
  <2>1. tail \in 0 .. QueueSize - 1 /\ Len(backlog) \in Nat /\ data \in [0 .. QueueSize - 1 -> 0 .. PoolSize]
    BY Typed
  <2> QED
    BY <2>1
<1>3. Kept \in Nat /\ Kept \in Int
  <2>1. Kept \in 0 .. Processed /\ Kept \in Int
    BY HandlerNumbers
  <2> QED
    BY <2>1
<1>4. Busy \in {0, 1}
  BY DEF Busy
<1>5. Len(backlog) + Busy + Kept <= QueueSize
  <2>1. brimmed' = (brimmed \/ Len(backlog) + Busy + Kept > QueueSize)
    BY HandlerIs
  <2>2. ~(Len(backlog) + Busy + Kept > QueueSize)
    BY <2>1
  <2> QED
    BY <1>2, <1>3, <1>4, <2>2, Sizes
<1>6. tail' = tail /\ task' = task
  BY HandlerIs
<1>7. \A k \in Int : (head + k) % QueueSize = (tail + (Len(backlog) + k)) % QueueSize
  <2> SUFFICES ASSUME NEW k \in Int
               PROVE  (head + k) % QueueSize = (tail + (Len(backlog) + k)) % QueueSize
    OBVIOUS
  <2>1. tail + Len(backlog) \in Int /\ tail + Len(backlog) + k = tail + (Len(backlog) + k)
    BY <1>2
  <2>2. (((tail + Len(backlog)) % QueueSize) + k) % QueueSize = (tail + Len(backlog) + k) % QueueSize
    BY <2>1, Sizes, ModMod, Zenon
  <2>3. head = (tail + Len(backlog)) % QueueSize
    BY <1>1 DEF Room
  <2> QED
    BY <2>1, <2>2, <2>3, Zenon
<1>8. /\ \A i \in 0 .. QueueSize - 1 :
           (\A k \in 0 .. Kept - 1 : (head + k) % QueueSize # i) => data'[i] = data[i]
      /\ \A k \in 0 .. Kept - 1 : data'[(head + k) % QueueSize] = Slot(k)
  BY HandlerQueue DEF Slot
<1>9. ASSUME NEW k \in Places
      PROVE  data'[(tail' + k) % QueueSize] = Queued(k)
  <2>1. tail + k \in Int /\ k \in Int
    BY <1>2 DEF Places
  <2>2. (tail + k) % QueueSize \in 0 .. QueueSize - 1
    BY <2>1, Sizes, DivMod, Zenon
  <2>3. ASSUME NEW j \in 0 .. Kept - 1
        PROVE  (head + j) % QueueSize # (tail + k) % QueueSize
    <3>1. j \in Int /\ tail + (Len(backlog) + j) \in Int
      BY <1>2, <1>3
    <3>2. tail + k < tail + (Len(backlog) + j) /\ tail + (Len(backlog) + j) < (tail + k) + QueueSize
      BY <1>2, <1>3, <1>4, <1>5, <2>1, <3>1, Sizes DEF Places
    <3>3. (tail + k) % QueueSize # (tail + (Len(backlog) + j)) % QueueSize
      BY <2>1, <3>1, <3>2, Sizes, ModApart, Zenon
    <3> QED
      BY <1>7, <3>1, <3>3, Zenon
  <2> QED
    BY <1>6, <1>8, <2>2, <2>3, Zenon DEF Queued
<1>10. ASSUME NEW k \in 0 .. Kept - 1
       PROVE  data'[(tail' + (Len(backlog) + k)) % QueueSize] = Slot(k)
  <2>1. k \in Int
    OBVIOUS
  <2> QED
    BY <1>6, <1>7, <1>8, <2>1, Zenon
<1>11. InTask' = InTask
  <2>1. CASE task.pc = "take"
    <3>1. task.ptail \in 0 .. QueueSize - 1 /\ task.ptail \in Int
      <4>1. task \in Tasks
        BY AlwaysIs DEF Types
      <4>2. task.ptail \in 0 .. QueueSize - 1
        BY <4>1, TaskChanges
      <4> QED
        BY <4>2
    <3>2. tail = (task.ptail + 1) % QueueSize /\ Busy = 1
      BY <1>1, <2>1 DEF Room, Busy
    <3>3. ASSUME NEW j \in 0 .. Kept - 1
          PROVE  (head + j) % QueueSize # task.ptail
      <4> DEFINE n == Len(backlog) + j
      <4>1. j \in Int /\ n \in Nat /\ n \in Int /\ n + 1 < QueueSize
        BY <1>2, <1>3, <1>5, <3>2, Sizes
      <4> HIDE DEF n
      <4>2. (((task.ptail + 1) % QueueSize) + n) % QueueSize = (task.ptail + 1 + n) % QueueSize
        <5>1. task.ptail + 1 \in Int
          BY <3>1
        <5> QED
          BY <4>1, <5>1, Sizes, ModMod, Zenon
      <4>3. task.ptail % QueueSize # (task.ptail + 1 + n) % QueueSize
        <5>1. /\ task.ptail + 1 + n \in Int /\ task.ptail < task.ptail + 1 + n
              /\ task.ptail + 1 + n < task.ptail + QueueSize
          BY <3>1, <4>1, Sizes
        <5> QED
          BY <3>1, <5>1, Sizes, ModApart, Zenon
      <4>4. task.ptail % QueueSize = task.ptail
        BY <3>1, Sizes
      <4>5. (head + j) % QueueSize = (tail + n) % QueueSize
        BY <1>7, <4>1, Zenon DEF n
      <4> QED
        BY <3>2, <4>2, <4>3, <4>4, <4>5, Zenon
    <3>4. data'[task.ptail] = data[task.ptail]
      BY <1>8, <3>1, <3>3
    <3> QED
      BY <1>6, <2>1, <3>4, InTaskIs, InTaskThen
  <2>2. CASE task.pc # "take"
    BY <1>6, <2>2 DEF InTask
  <2> QED
    BY <2>1, <2>2
<1>12. Busy' = Busy
  BY <1>6 DEF Busy
<1>13. Len(backlog') = Len(backlog) + Kept /\ backlog' \in Seq(Nat)
  BY HandlerBacklog
<1> QED
  BY <1>3, <1>5, <1>9, <1>10, <1>11, <1>12, <1>13

LEMMA HandlerInPlace ==
  ASSUME Always, InPlace, RecvHandler, ~starved', ~brimmed'
  PROVE  InPlace'
<1>1. Owned /\ Cover /\ Room /\ InOrder /\ hwCnt = Ring
  BY DEF InPlace, RingFull
<1>2. PICK m \in 0 .. Ring : Pending(m)
  BY DEF InPlace, RingFull
<1>3. m \in Int /\ m \in 0 .. Ring /\ Ring \in Nat /\ Ring # 0
  BY Sizes
<1>4. hwHead \in Bds /\ hwHead \in Int /\ hwHead' \in Bds /\ hwHead' \in Int
  <2>1. hwHead \in Bds /\ hwHead \in Int
    BY Typed
  <2>2. hwHead' = Ahead(hwHead, m)
    BY <1>2, HandlerMoves
  <2>3. hwHead' \in Bds
    BY <1>3, <2>1, <2>2, AheadIn
  <2> QED
    BY <2>1, <2>3 DEF Bds
<1>5. UNCHANGED <<content, arrived, dma, tail, task, stack, last>>
  BY HandlerIs
<1>6. /\ Len(backlog) \in Nat /\ Len(backlog) + Busy + Kept <= QueueSize /\ Kept \in Nat /\ Kept \in 0 .. m
      /\ Len(backlog') = Len(backlog) + Kept /\ InTask' = InTask /\ Busy' = Busy
  BY <1>2, Typed, HandlerMoves, HandlerQueued
(* The pbufs that the interrupt takes from and gives back.                 *)
<1>7. /\ \A k \in 0 .. Ring - 1 : Slot(k) \in Held
      /\ \A j, k \in 0 .. Ring - 1 : Slot(j) = Slot(k) => j = k
      /\ \A b \in Held : \E k \in 0 .. Ring - 1 : b = Slot(k)
  BY <1>1, RingPlaces
<1>8. /\ Fresh \in [1 .. m -> Spare]
      /\ \A j, k \in 1 .. m : Fresh[j] = Fresh[k] => j = k
      /\ pool' = Spare \ {Fresh[k] : k \in 1 .. m}
      /\ \A b : b \in Spare <=> b \in pool \/ \E k \in Kept .. m - 1 : b = Slot(k)
  BY <1>2, HandlerMoves
<1>9. \A k \in 0 .. Ring - 1 : k < Kept \/ m <= k => Slot(k) \notin Spare
  <2> SUFFICES ASSUME NEW k \in 0 .. Ring - 1, k < Kept \/ m <= k, Slot(k) \in Spare PROVE FALSE
    OBVIOUS
  <2>1. Slot(k) \notin pool
    BY <1>1, <1>7 DEF Owned
  <2>2. PICK j \in Kept .. m - 1 : Slot(k) = Slot(j)
    BY <1>8, <2>1
  <2>3. j \in 0 .. Ring - 1 /\ ~(j < Kept) /\ ~(m <= j)
    BY <1>3, <1>6
  <2> QED
    BY <1>7, <2>2, <2>3
<1>10. \A b \in Spare : b \in pool \/ b \in Held
  <2>1. \A k \in Kept .. m - 1 : k \in 0 .. Ring - 1
    BY <1>3, <1>6
  <2> QED
    BY <1>7, <1>8, <2>1
<1>11. /\ stack \cap Spare = {} /\ InTask \cap Spare = {}
       /\ \A k \in Places : Queued(k) \notin Spare
  BY <1>1, <1>10 DEF Owned
(* The ring after it.                                                      *)
<1>12. /\ \A k \in 0 .. m - 1 : slot'[Ahead(hwHead, k)] = Fresh[k + 1] /\ ~new'[Ahead(hwHead, k)]
       /\ \A k \in m .. Ring - 1 : slot'[Ahead(hwHead, k)] = Slot(k) /\ ~new'[Ahead(hwHead, k)]
  BY <1>2, HandlerMoves
<1>13. \A i \in Bds : \E k \in 0 .. Ring - 1 : i = Ahead(hwHead, k)
  BY <1>4, AheadReaches
<1>14. \A k \in 0 .. m - 1 : k + 1 \in 1 .. m /\ Fresh[k + 1] \in Spare
  BY <1>3, <1>8
<1>15. \A i, j \in Bds : slot'[i] = slot'[j] => i = j
  <2> SUFFICES ASSUME NEW i \in Bds, NEW j \in Bds, slot'[i] = slot'[j] PROVE i = j
    OBVIOUS
  <2>1. PICK k \in 0 .. Ring - 1 : i = Ahead(hwHead, k)
    BY <1>13
  <2>2. PICK h \in 0 .. Ring - 1 : j = Ahead(hwHead, h)
    BY <1>13
  <2>3. CASE k < m /\ h < m
    <3>1. k \in 0 .. m - 1 /\ h \in 0 .. m - 1
      BY <1>3, <2>3
    <3>2. Fresh[k + 1] = Fresh[h + 1]
      BY <1>12, <2>1, <2>2, <3>1
    <3>3. k + 1 = h + 1
      BY <1>8, <1>14, <3>1, <3>2
    <3>4. k = h
      BY <3>3
    <3> QED
      BY <2>1, <2>2, <3>4
  <2>4. CASE ~(k < m) /\ ~(h < m)
    <3>1. k \in m .. Ring - 1 /\ h \in m .. Ring - 1
      BY <1>3, <2>4
    <3>2. Slot(k) = Slot(h)
      BY <1>12, <2>1, <2>2, <3>1
    <3> QED
      BY <1>7, <2>1, <2>2, <3>2
  <2>5. CASE k < m /\ ~(h < m)
    <3>1. k \in 0 .. m - 1 /\ h \in m .. Ring - 1 /\ m <= h
      BY <1>3, <2>5
    <3>2. slot'[i] \in Spare /\ slot'[j] \notin Spare
      BY <1>9, <1>12, <1>14, <2>1, <2>2, <3>1
    <3> QED
      BY <3>2
  <2>6. CASE ~(k < m) /\ h < m
    <3>1. h \in 0 .. m - 1 /\ k \in m .. Ring - 1 /\ m <= k
      BY <1>3, <2>6
    <3>2. slot'[j] \in Spare /\ slot'[i] \notin Spare
      BY <1>9, <1>12, <1>14, <2>1, <2>2, <3>1
    <3> QED
      BY <3>2
  <2> QED
    BY <2>3, <2>4, <2>5, <2>6
<1>16. \A b \in Held' : (\E k \in 1 .. m : b = Fresh[k]) \/ \E k \in m .. Ring - 1 : b = Slot(k)
  <2> SUFFICES ASSUME NEW i \in Bds
               PROVE  (\E k \in 1 .. m : slot'[i] = Fresh[k]) \/ \E k \in m .. Ring - 1 : slot'[i] = Slot(k)
    BY DEF Held
  <2>1. PICK k \in 0 .. Ring - 1 : i = Ahead(hwHead, k)
    BY <1>13
  <2>2. k \in 0 .. m - 1 \/ k \in m .. Ring - 1
    BY <1>3
  <2> QED
    BY <1>12, <1>14, <2>1, <2>2
<1>17. /\ \A k \in 1 .. m : Fresh[k] \in Held'
       /\ \A k \in m .. Ring - 1 : Slot(k) \in Held'
  <2>1. \A k \in 0 .. Ring - 1 : slot'[Ahead(hwHead, k)] \in Held'
    <3>1. \A k \in 0 .. Ring - 1 : Ahead(hwHead, k) \in Bds
      BY <1>4, AheadIn
    <3> QED
      BY <3>1 DEF Held
  <2>2. ASSUME NEW k \in 1 .. m PROVE Fresh[k] \in Held'
    <3>1. k - 1 \in 0 .. m - 1 /\ k - 1 \in 0 .. Ring - 1 /\ (k - 1) + 1 = k
      BY <1>3
    <3>2. slot'[Ahead(hwHead, k - 1)] = Fresh[k]
      BY <1>12, <3>1
    <3> QED
      BY <2>1, <3>1, <3>2
  <2>3. ASSUME NEW k \in m .. Ring - 1 PROVE Slot(k) \in Held'
    <3>1. k \in 0 .. Ring - 1
      BY <1>3
    <3> QED
      BY <1>12, <2>1, <3>1
  <2> QED
    BY <2>2, <2>3
<1>18. \A b \in Held' : b \in Spare \/ (b \in Held /\ b \notin Spare)
  <2>1. \A k \in m .. Ring - 1 : k \in 0 .. Ring - 1 /\ m <= k
    BY <1>3
  <2>2. \A k \in 1 .. m : Fresh[k] \in Spare
    BY <1>8
  <2> QED
    BY <1>7, <1>9, <1>16, <2>1, <2>2
<1>19. pool' \cap Held' = {}
  <2>1. \A k \in m .. Ring - 1 : k \in 0 .. Ring - 1 /\ m <= k
    BY <1>3
  <2> QED
    BY <1>8, <1>9, <1>16, <2>1
(* The queue after it.                                                     *)
<1>20. Places' = 0 .. (Len(backlog) + Kept) - 1
  BY <1>6 DEF Places
<1>21. /\ \A k \in Places : data'[(tail' + k) % QueueSize] = Queued(k)
       /\ \A k \in 0 .. Kept - 1 : data'[(tail' + (Len(backlog) + k)) % QueueSize] = Slot(k)
  BY HandlerQueued
<1>22. ASSUME NEW k \in Places', k \notin Places
       PROVE  /\ k - Len(backlog) \in 0 .. Kept - 1 /\ k - Len(backlog) \in 0 .. Ring - 1
              /\ k - Len(backlog) < Kept /\ k \in Int
              /\ data'[(tail' + k) % QueueSize] = Slot(k - Len(backlog))
  <2>1. k - Len(backlog) \in 0 .. Kept - 1 /\ Len(backlog) + (k - Len(backlog)) = k /\ k \in Int
    BY <1>6, <1>20, <1>22 DEF Places
  <2>2. k - Len(backlog) \in 0 .. Ring - 1 /\ k - Len(backlog) < Kept
    BY <1>3, <1>6, <2>1
  <2>3. data'[(tail' + (Len(backlog) + (k - Len(backlog)))) % QueueSize] = Slot(k - Len(backlog))
    BY <1>21, <2>1
  <2> QED
    BY <2>1, <2>2, <2>3
<1>23. \A k \in Places' : /\ data'[(tail' + k) % QueueSize] \notin Spare
                          /\ data'[(tail' + k) % QueueSize] \notin stack
                          /\ data'[(tail' + k) % QueueSize] \notin InTask
                          /\ data'[(tail' + k) % QueueSize] \notin Held'
  <2> SUFFICES ASSUME NEW k \in Places'
               PROVE  /\ data'[(tail' + k) % QueueSize] \notin Spare
                      /\ data'[(tail' + k) % QueueSize] \notin stack
                      /\ data'[(tail' + k) % QueueSize] \notin InTask
                      /\ data'[(tail' + k) % QueueSize] \notin Held'
    OBVIOUS
  <2>1. CASE k \in Places
    <3>1. data'[(tail' + k) % QueueSize] = Queued(k)
      BY <1>21, <2>1
    <3>2. Queued(k) \notin Spare /\ Queued(k) \notin stack /\ Queued(k) \notin InTask /\ Queued(k) \notin Held
      BY <1>1, <1>11, <2>1 DEF Owned
    <3> QED
      BY <1>18, <3>1, <3>2
  <2>2. CASE k \notin Places
    <3> DEFINE j == k - Len(backlog)
    <3>1. j \in 0 .. Ring - 1 /\ j < Kept /\ data'[(tail' + k) % QueueSize] = Slot(j)
      BY <1>22, <2>2
    <3> HIDE DEF j
    <3>2. Slot(j) \in Held /\ Slot(j) \notin Spare
      BY <1>7, <1>9, <3>1
    <3>3. Slot(j) \notin stack /\ Slot(j) \notin InTask
      BY <1>1, <3>2 DEF Owned
    <3>4. \A h \in m .. Ring - 1 : Slot(h) # Slot(j)
      <4>1. \A h \in m .. Ring - 1 : h \in 0 .. Ring - 1 /\ h # j
        BY <1>3, <1>6, <3>1
      <4> QED
        BY <1>7, <3>1, <4>1
    <3>5. Slot(j) \notin Held'
      BY <1>8, <1>16, <3>2, <3>4
    <3> QED
      BY <3>1, <3>2, <3>3, <3>5
  <2> QED
    BY <2>1, <2>2
<1>24. \A j, k \in Places' : data'[(tail' + j) % QueueSize] = data'[(tail' + k) % QueueSize] => j = k
  <2>1. \A k \in Places, h \in 0 .. Ring - 1 : Queued(k) # Slot(h)
    BY <1>1, <1>7 DEF Owned
  <2> SUFFICES ASSUME NEW j \in Places', NEW k \in Places',
                      data'[(tail' + j) % QueueSize] = data'[(tail' + k) % QueueSize]
               PROVE  j = k
    OBVIOUS
  <2>2. CASE j \in Places /\ k \in Places
    BY <1>1, <1>21, <2>2 DEF Owned
  <2>3. CASE j \in Places /\ k \notin Places
    BY <1>21, <1>22, <2>1, <2>3
  <2>4. CASE j \notin Places /\ k \in Places
    BY <1>21, <1>22, <2>1, <2>4
  <2>5. CASE j \notin Places /\ k \notin Places
    <3>1. j - Len(backlog) = k - Len(backlog)
      BY <1>7, <1>22, <2>5
    <3>2. j \in Int /\ k \in Int
      BY <1>22, <2>5
    <3> QED
      BY <1>6, <3>1, <3>2
  <2> QED
    BY <2>2, <2>3, <2>4, <2>5
<1>25. Owned'
  <2>1. pool' \cap stack' = {} /\ stack' \cap Held' = {}
    BY <1>1, <1>5, <1>8, <1>11, <1>18 DEF Owned
  <2>2. InTask' \cap (pool' \cup stack' \cup Held') = {}
    BY <1>1, <1>5, <1>6, <1>8, <1>11, <1>18 DEF Owned
  <2>3. \A k \in Places' : /\ data'[(tail' + k) % QueueSize] \notin pool'
                           /\ data'[(tail' + k) % QueueSize] \notin stack'
                           /\ data'[(tail' + k) % QueueSize] \notin Held'
                           /\ data'[(tail' + k) % QueueSize] \notin InTask'
    BY <1>5, <1>6, <1>8, <1>23
  <2> QED
    BY <1>15, <1>19, <1>24, <2>1, <2>2, <2>3 DEF Owned, Queued
<1>26. Cover'
  <2>1. pool' \cup stack' \cup Held' \cup InQueue' \cup InTask' \subseteq Pbufs
    <3>1. Spare \subseteq Pbufs /\ Held \subseteq Pbufs /\ InTask \subseteq Pbufs /\ stack \subseteq Pbufs
      BY <1>1, PlacesHold, HandlerPbufs, Typed
    <3>2. \A b : b \in InQueue' => \E k \in Places' : b = data'[(tail' + k) % QueueSize]
      BY DEF InQueue, Places
    <3>3. \A k \in Places' : data'[(tail' + k) % QueueSize] \in Pbufs
      <4>1. \A k \in Places : Queued(k) \in Pbufs
        BY <1>1, PlacesHold
      <4> QED
        BY <1>7, <1>21, <1>22, <3>1, <4>1
    <3>4. InQueue' \subseteq Pbufs
      BY <3>2, <3>3
    <3>5. Held' \subseteq Pbufs
      BY <1>18, <3>1
    <3> QED
      BY <1>5, <1>6, <1>8, <3>1, <3>4, <3>5
  <2>2. \A k \in Places' : data'[(tail' + k) % QueueSize] \in InQueue'
    BY DEF InQueue, Places
  <2>3. \A b \in pool : b \in pool' \cup Held'
    BY <1>8, <1>17
  <2>4. \A k \in 0 .. Ring - 1 : Slot(k) \in pool' \cup Held' \cup InQueue'
    <3> SUFFICES ASSUME NEW k \in 0 .. Ring - 1 PROVE Slot(k) \in pool' \cup Held' \cup InQueue'
      OBVIOUS
    <3>1. CASE k < Kept
      <4>1. k \in 0 .. Kept - 1 /\ Len(backlog) + k \in Places'
        BY <1>6, <1>20, <3>1
      <4> QED
        BY <1>21, <2>2, <4>1
    <3>2. CASE Kept <= k /\ k < m
      <4>1. k \in Kept .. m - 1
        BY <1>3, <1>6, <3>2
      <4>2. Slot(k) \in Spare
        BY <1>8, <4>1
      <4> QED
        BY <1>8, <1>17, <4>2
    <3>3. CASE m <= k
      <4>1. k \in m .. Ring - 1
        BY <1>3, <3>3
      <4> QED
        BY <1>17, <4>1
    <3>4. k < Kept \/ (Kept <= k /\ k < m) \/ m <= k
      BY <1>3, <1>6
    <3> QED
      BY <3>1, <3>2, <3>3, <3>4
  <2>5. \A b \in InQueue : b \in InQueue'
    <3>1. \A k \in Places : k \in Places'
      BY <1>6, <1>20 DEF Places
    <3> QED
      BY <1>1, <1>21, <2>2, <3>1, PlacesHold
  <2>6. \A b \in Held : b \in pool' \cup Held' \cup InQueue'
    BY <1>7, <2>4
  <2> QED
    BY <1>1, <1>5, <1>6, <2>1, <2>3, <2>5, <2>6 DEF Cover
<1>27. Room'
  <2>1. tail \in Int /\ Len(backlog) \in Int /\ Kept \in Int /\ Busy \in {0, 1}
    BY <1>6, Typed DEF Busy
  <2>2. Len(backlog') + Busy' <= QueueSize
    BY <1>6, <2>1, Sizes
  <2>3. head' = (tail' + Len(backlog')) % QueueSize
    <3>1. tail + Len(backlog) \in Int /\ tail + Len(backlog) + Kept = tail + (Len(backlog) + Kept)
      BY <2>1
    <3>2. (((tail + Len(backlog)) % QueueSize) + Kept) % QueueSize = (tail + Len(backlog) + Kept) % QueueSize
      BY <2>1, <3>1, Sizes, ModMod, Zenon
    <3>3. head' = (head + Kept) % QueueSize
      BY HandlerIs
    <3>4. head = (tail + Len(backlog)) % QueueSize
      BY <1>1 DEF Room
    <3> QED
      BY <1>5, <1>6, <3>1, <3>2, <3>3, <3>4, Zenon
  <2>4. task'.pc = "take" => tail' = (task'.ptail + 1) % QueueSize
    BY <1>1, <1>5 DEF Room
  <2> QED
    BY <2>2, <2>3, <2>4 DEF Room
(* The frames' order.                                                      *)
<1>28. /\ backlog' \in Seq(Nat) /\ backlog \in Seq(Nat)
       /\ \A j \in 1 .. Len(backlog) : backlog'[j] = backlog[j] /\ backlog[j] \in Nat
       /\ \A k \in 1 .. Kept : backlog'[Len(backlog) + k] = content[Slot(k - 1)]
  <2>1. backlog \in Seq(Nat)
    BY Typed
  <2> QED
    BY <2>1, HandlerBacklog DEF Slot
<1>29. arrived \in Nat /\ arrived - m \in Nat /\ last \in Nat /\ last <= arrived - m
  <2>1. arrived \in Nat /\ last \in Nat
    BY DEF Always, TypeOK
  <2>2. m <= arrived /\ last <= arrived - m
    BY <1>2 DEF Pending
  <2> QED
    BY <1>3, <2>1, <2>2
<1>30. \A k \in 1 .. Kept : backlog'[Len(backlog) + k] = (arrived - m) + k
  <2> SUFFICES ASSUME NEW k \in 1 .. Kept PROVE content[Slot(k - 1)] = (arrived - m) + k
    BY <1>28
  <2>1. k - 1 \in 0 .. Ring - 1 /\ k - 1 < m /\ (k - 1) + 1 = k
    BY <1>3, <1>6
  <2>2. content[Slot(k - 1)] = (arrived - m) + (k - 1) + 1
    BY <1>2, <2>1 DEF Pending, Slot
  <2>3. (arrived - m) + (k - 1) + 1 = (arrived - m) + k
    BY <1>29, <2>1
  <2> QED
    BY <2>2, <2>3
<1>31. ASSUME NEW j \in 1 .. Len(backlog')
       PROVE  \/ j \in 1 .. Len(backlog) /\ backlog'[j] = backlog[j] /\ backlog[j] \in Nat
              \/ /\ j - Len(backlog) \in 1 .. Kept /\ j \notin 1 .. Len(backlog)
                 /\ backlog'[j] = (arrived - m) + (j - Len(backlog))
  <2>1. CASE j <= Len(backlog)
    <3>1. j \in 1 .. Len(backlog)
      BY <1>6, <2>1
    <3> QED
      BY <1>28, <3>1
  <2>2. CASE ~(j <= Len(backlog))
    <3>1. j - Len(backlog) \in 1 .. Kept /\ Len(backlog) + (j - Len(backlog)) = j /\ j \notin 1 .. Len(backlog)
      BY <1>6, <2>2
    <3>2. backlog'[Len(backlog) + (j - Len(backlog))] = (arrived - m) + (j - Len(backlog))
      BY <1>30, <3>1
    <3> QED
      BY <3>1, <3>2
  <2> QED
    BY <2>1, <2>2
<1>32. \A j \in 1 .. Len(backlog) : backlog[j] <= arrived - m
  BY <1>2 DEF Pending
<1>33. \A b \in InTask : content[b] \in Nat /\ content[b] <= arrived - m
  <2>1. InTask \subseteq Pbufs
    BY <1>1, PlacesHold
  <2>2. \A n \in 0 .. MaxFrames : n \in Nat
    OBVIOUS
  <2>3. \A b \in Pbufs : content[b] \in Nat
    BY <2>2, Typed
  <2> QED
    BY <1>2, <2>1, <2>3 DEF Pending
<1>34. InOrder'
  <2>1. ASSUME NEW k \in Places'
        PROVE  content'[data'[(tail' + k) % QueueSize]] = backlog'[k + 1]
    <3>1. CASE k \in Places
      <4>1. content[Queued(k)] = backlog[k + 1] /\ k + 1 \in 1 .. Len(backlog)
        BY <1>1, <1>6, <3>1 DEF InOrder, Places
      <4> QED
        BY <1>5, <1>21, <1>28, <3>1, <4>1
    <3>2. CASE k \notin Places
      <4> DEFINE j == k - Len(backlog)
      <4>1. j \in 0 .. Kept - 1 /\ k \in Int /\ data'[(tail' + k) % QueueSize] = Slot(j)
        BY <1>22, <3>2
      <4>2. j + 1 \in 1 .. Kept /\ Len(backlog) + (j + 1) = k + 1 /\ (j + 1) - 1 = j
        BY <1>6, <4>1
      <4> HIDE DEF j
      <4>3. backlog'[Len(backlog) + (j + 1)] = content[Slot((j + 1) - 1)]
        BY <1>28, <4>2
      <4>4. backlog'[k + 1] = content[Slot(j)]
        BY <4>2, <4>3
      <4> QED
        BY <1>5, <4>1, <4>4
    <3> QED
      BY <3>1, <3>2
  <2>2. ASSUME NEW j \in 1 .. Len(backlog'), NEW k \in 1 .. Len(backlog'), j < k
        PROVE  backlog'[j] < backlog'[k]
    <3>1. j \in Int /\ k \in Int
      OBVIOUS
    <3>2. CASE k \in 1 .. Len(backlog)
      <4>1. j \in 1 .. Len(backlog)
        BY <1>6, <2>2, <3>2
      <4> QED
        BY <1>1, <1>28, <2>2, <3>2, <4>1 DEF InOrder
    <3>3. CASE k \notin 1 .. Len(backlog)
      <4>1. k - Len(backlog) \in 1 .. Kept /\ backlog'[k] = (arrived - m) + (k - Len(backlog))
        BY <1>31, <3>3
      <4>2. CASE j \in 1 .. Len(backlog)
        <5>1. backlog'[j] \in Nat /\ backlog'[j] <= arrived - m
          BY <1>28, <1>32, <4>2
        <5>2. arrived - m < (arrived - m) + (k - Len(backlog))
          BY <1>29, <4>1
        <5> QED
          BY <1>29, <4>1, <5>1, <5>2
      <4>3. CASE j \notin 1 .. Len(backlog)
        <5>1. j - Len(backlog) \in 1 .. Kept /\ backlog'[j] = (arrived - m) + (j - Len(backlog))
          BY <1>31, <4>3
        <5>2. (arrived - m) + (j - Len(backlog)) < (arrived - m) + (k - Len(backlog))
          BY <1>6, <1>29, <2>2, <3>1
        <5> QED
          BY <4>1, <5>1, <5>2
      <4> QED
        BY <4>2, <4>3
    <3> QED
      BY <3>2, <3>3
  <2>3. ASSUME NEW n \in Nat, n <= arrived - m, \A j \in 1 .. Len(backlog) : n < backlog[j]
        PROVE  \A j \in 1 .. Len(backlog') : n < backlog'[j]
    <3> SUFFICES ASSUME NEW j \in 1 .. Len(backlog') PROVE n < backlog'[j]
      OBVIOUS
    <3>1. CASE j \in 1 .. Len(backlog)
      BY <1>28, <2>3, <3>1
    <3>2. CASE j \notin 1 .. Len(backlog)
      <4>1. j - Len(backlog) \in 1 .. Kept /\ backlog'[j] = (arrived - m) + (j - Len(backlog))
        BY <1>31, <3>2
      <4>2. n < (arrived - m) + (j - Len(backlog))
        BY <1>29, <2>3, <4>1
      <4> QED
        BY <4>1, <4>2
    <3> QED
      BY <3>1, <3>2
  <2>4. \A j \in 1 .. Len(backlog') : last' < backlog'[j]
    BY <1>1, <1>5, <1>29, <2>3 DEF InOrder
  <2>5. ASSUME NEW b \in InTask
        PROVE  last < content[b] /\ \A j \in 1 .. Len(backlog') : content[b] < backlog'[j]
    <3>1. last < content[b] /\ \A j \in 1 .. Len(backlog) : content[b] < backlog[j]
      BY <1>1, <2>5 DEF InOrder
    <3> QED
      BY <1>33, <2>3, <2>5, <3>1
  <2> QED
    BY <1>5, <1>6, <2>1, <2>2, <2>4, <2>5 DEF InOrder, Queued
(* No frame is left in the ring.                                           *)
<1>35. RingFull'
  <2>1. hwCnt' = Ring /\ hwHead' = Ahead(hwHead, m)
    BY <1>2, HandlerMoves
  <2>2. dma' = Ahead(hwHead', 0)
    <3>1. dma = Ahead(hwHead, m)
      BY <1>2 DEF Pending
    <3> QED
      BY <1>4, <1>5, <2>1, <3>1, AheadTurn
  <2>3. \A i \in Bds : ~new'[i]
    <3> SUFFICES ASSUME NEW i \in Bds PROVE ~new'[i]
      OBVIOUS
    <3>1. PICK k \in 0 .. Ring - 1 : i = Ahead(hwHead, k)
      BY <1>13
    <3>2. k \in 0 .. m - 1 \/ k \in m .. Ring - 1
      BY <1>3
    <3> QED
      BY <1>12, <3>1, <3>2
  <2>4. \A k \in 0 .. Ring - 1 : ~new'[Ahead(hwHead', k)] /\ ~(k < 0)
    <3>1. \A k \in 0 .. Ring - 1 : Ahead(hwHead', k) \in Bds
      BY <1>4, AheadIn
    <3> QED
      BY <2>3, <3>1
  <2>5. 0 <= arrived' /\ last' <= arrived' - 0 /\ arrived - m <= arrived /\ arrived - 0 = arrived
    BY <1>3, <1>5, <1>29
  <2>6. ASSUME NEW j \in 1 .. Len(backlog') PROVE backlog'[j] <= arrived
    <3>1. CASE j \in 1 .. Len(backlog)
      <4>1. backlog'[j] \in Nat /\ backlog'[j] <= arrived - m
        BY <1>28, <1>32, <3>1
      <4> QED
        BY <1>29, <2>5, <4>1
    <3>2. CASE j \notin 1 .. Len(backlog)
      <4>1. j - Len(backlog) \in 1 .. Kept /\ backlog'[j] = (arrived - m) + (j - Len(backlog))
        BY <1>31, <3>2
      <4>2. (arrived - m) + (j - Len(backlog)) <= arrived
        BY <1>3, <1>6, <1>29, <4>1
      <4> QED
        BY <4>1, <4>2
    <3> QED
      BY <3>1, <3>2
  <2>7. \A b \in InTask : content[b] <= arrived
    BY <1>29, <1>33, <2>5
  <2>8. Pending(0)'
    BY <1>5, <1>6, <2>2, <2>4, <2>5, <2>6, <2>7 DEF Pending
  <2> QED
    BY <1>3, <2>1, <2>8 DEF RingFull
<1> QED
  BY <1>25, <1>26, <1>27, <1>34, <1>35 DEF InPlace

-----------------------------------------------------------------------------
(* The pbufs' number: every one is in one place and none is in two.        *)

LEMMA DisjointSum ==
  ASSUME NEW S, NEW T, IsFiniteSet(S), IsFiniteSet(T), S \cap T = {}
  PROVE  IsFiniteSet(S \cup T) /\ Cardinality(S \cup T) = Cardinality(S) + Cardinality(T)
<1>1. Cardinality(S \cap T) = 0
  BY FS_EmptySet
<1>2. Cardinality(S) \in Nat /\ Cardinality(T) \in Nat
  BY FS_CardinalityType
<1>3. /\ IsFiniteSet(S \cup T)
      /\ Cardinality(S \cup T) = Cardinality(S) + Cardinality(T) - Cardinality(S \cap T)
  BY FS_Union
<1> QED
  BY <1>1, <1>2, <1>3

(* The values of a one-to-one function on 0 .. n - 1 are n.                *)
LEMMA OneToOneSize ==
  ASSUME NEW n \in Nat, NEW f, DOMAIN f = 0 .. n - 1, f = [i \in 0 .. n - 1 |-> f[i]],
         \A i, j \in 0 .. n - 1 : f[i] = f[j] => i = j
  PROVE  IsFiniteSet({f[i] : i \in 0 .. n - 1}) /\ Cardinality({f[i] : i \in 0 .. n - 1}) = n
<1> DEFINE S == 0 .. n - 1  T == {f[i] : i \in S}
<1>1. IsFiniteSet(S) /\ Cardinality(S) = n
  <2>1. 0 \in Int /\ n - 1 \in Int
    OBVIOUS
  <2>2. IsFiniteSet(S) /\ Cardinality(S) = IF 0 > n - 1 THEN 0 ELSE (n - 1) - 0 + 1
    BY <2>1, FS_Interval, Zenon
  <2>3. (IF 0 > n - 1 THEN 0 ELSE (n - 1) - 0 + 1) = n
    OBVIOUS
  <2> QED
    BY <2>2, <2>3
<1>2. f \in [S -> T]
  OBVIOUS
<1>3. \A t \in T : \E i \in S : f[i] = t
  OBVIOUS
<1>4. f \in Bijection(S, T)
  BY <1>2, <1>3 DEF Bijection, Injection, Surjection, IsInjective
<1>5. ExistsBijection(S, T)
  BY <1>4 DEF ExistsBijection
<1> QED
  BY <1>1, <1>5, FS_Bijection

LEMMA HeldSize ==
  ASSUME Always, Owned
  PROVE  IsFiniteSet(Held) /\ Cardinality(Held) = Ring
<1>1. slot \in [0 .. Ring - 1 -> Pbufs] /\ \A i, j \in 0 .. Ring - 1 : slot[i] = slot[j] => i = j
  BY Typed DEF Owned, Bds
<1>2. DOMAIN slot = 0 .. Ring - 1 /\ slot = [i \in 0 .. Ring - 1 |-> slot[i]] /\ Ring \in Nat
  BY <1>1, Sizes
<1>3. /\ IsFiniteSet({slot[i] : i \in 0 .. Ring - 1})
      /\ Cardinality({slot[i] : i \in 0 .. Ring - 1}) = Ring
  BY <1>1, <1>2, OneToOneSize
<1> QED
  BY <1>3, Zenon DEF Held, Bds

LEMMA InQueueSize ==
  ASSUME Always, Owned
  PROVE  IsFiniteSet(InQueue) /\ Cardinality(InQueue) = Len(backlog)
<1> DEFINE f == [k \in 0 .. Len(backlog) - 1 |-> data[(tail + k) % QueueSize]]
           n == Len(backlog)
<1>1. n \in Nat
  BY Typed
<1>2. \A j, k \in 0 .. n - 1 : f[j] = f[k] => j = k
  BY DEF Owned, Places, Queued
<1>3. InQueue = {f[k] : k \in 0 .. n - 1}
  BY DEF InQueue
<1>4. DOMAIN f = 0 .. n - 1 /\ f = [k \in 0 .. n - 1 |-> f[k]]
  OBVIOUS
<1> HIDE DEF f, n
<1>5. IsFiniteSet({f[k] : k \in 0 .. n - 1}) /\ Cardinality({f[k] : k \in 0 .. n - 1}) = n
  BY <1>1, <1>2, <1>4, OneToOneSize
<1> QED
  BY <1>3, <1>5 DEF n

LEMMA InRingIsHeld ==
  ASSUME Always, Owned, hwCnt = Ring
  PROVE  InRing = Held
<1>1. InRing = {Slot(k) : k \in 0 .. Ring - 1}
  BY DEF InRing, Slot
<1> QED
  BY <1>1, RingPlaces

LEMMA SoundInPlace ==
  ASSUME Always, InPlace
  PROVE  Sound /\ (task.pc = "input" => content[task.p] > last)
<1>1. Owned /\ Cover /\ InOrder /\ hwCnt = Ring
  BY DEF InPlace, RingFull
<1>2. InRing = Held
  BY <1>1, InRingIsHeld
<1>3. /\ IsFiniteSet(Held) /\ Cardinality(Held) = Ring
      /\ IsFiniteSet(InQueue) /\ Cardinality(InQueue) = Len(backlog)
  BY <1>1, HeldSize, InQueueSize
<1>4. /\ pool \subseteq Pbufs /\ stack \subseteq Pbufs /\ InTask \subseteq Pbufs
      /\ Len(backlog) \in Nat /\ Ring \in Nat
  BY <1>1, Typed, PlacesHold, Sizes
<1>5. /\ IsFiniteSet(pool) /\ IsFiniteSet(stack) /\ IsFiniteSet(InTask)
      /\ Cardinality(pool) \in Nat /\ Cardinality(stack) \in Nat /\ Cardinality(InTask) \in Nat
  BY <1>4, FinitePbufs
<1> DEFINE A == pool \cup stack  B == A \cup Held  C == B \cup InQueue  D == C \cup InTask
<1>6. IsFiniteSet(A) /\ Cardinality(A) = Cardinality(pool) + Cardinality(stack)
  BY <1>1, <1>5, DisjointSum DEF Owned
<1>7. IsFiniteSet(B) /\ Cardinality(B) = Cardinality(A) + Cardinality(Held)
  <2>1. A \cap Held = {}
    BY <1>1 DEF Owned
  <2> HIDE DEF A
  <2> QED
    BY <1>3, <1>6, <2>1, DisjointSum
<1>8. IsFiniteSet(C) /\ Cardinality(C) = Cardinality(B) + Cardinality(InQueue)
  <2>1. B \cap InQueue = {}
    BY <1>1, PlacesHold DEF Owned
  <2> HIDE DEF B
  <2> QED
    BY <1>3, <1>7, <2>1, DisjointSum
<1>9. IsFiniteSet(D) /\ Cardinality(D) = Cardinality(C) + Cardinality(InTask)
  <2>1. C \cap InTask = {}
    BY <1>1, PlacesHold DEF Owned
  <2> HIDE DEF C
  <2> QED
    BY <1>5, <1>8, <2>1, DisjointSum
<1>10. D = Pbufs /\ Cardinality(D) = PoolSize
  <2>1. D = Pbufs
    BY <1>1 DEF Cover
  <2> QED
    BY <2>1, FinitePbufs
<1>11. pool \cup InRing \cup InQueue \cup InTask \cup stack = Pbufs
  BY <1>1, <1>2 DEF Cover
<1> HIDE DEF A, B, C, D
<1>12. Cardinality(pool) + hwCnt + Len(backlog) + Cardinality(InTask) + Cardinality(stack) = PoolSize
  BY <1>1, <1>3, <1>4, <1>5, <1>6, <1>7, <1>8, <1>9, <1>10
<1>13. hwCnt \in 0 .. Ring
  BY <1>1, <1>4
<1>14. task.pc = "input" => content[task.p] > last
  <2> SUFFICES ASSUME task.pc = "input" PROVE content[task.p] > last
    OBVIOUS
  <2>1. InTask = {task.p}
    BY InTaskIs
  <2>2. last < content[task.p]
    BY <1>1, <2>1 DEF InOrder
  <2>3. last \in Int /\ content[task.p] \in Int
    <3>1. \A n \in 0 .. MaxFrames : n \in Int
      OBVIOUS
    <3> QED
      BY <1>4, <2>1, <3>1, Typed
  <2> QED
    BY <2>2, <2>3
<1> QED
  BY <1>11, <1>12, <1>13, <1>14 DEF Sound

-----------------------------------------------------------------------------
(* The theorems.                                                           *)

LEMMA TaskInPlace == Always /\ InPlace /\ Task => InPlace'
BY WaitInPlace, LengthInPlace, LowLevelInputInPlace, StoreInPlace, TakeInPlace, InputInPlace DEF Task

LEMMA StutterInPlace == InPlace /\ UNCHANGED vars => InPlace'
<1> SUFFICES ASSUME InPlace, UNCHANGED vars PROVE InPlace'
  OBVIOUS
<1>1. UNCHANGED <<pool, content, new, arrived, dma, slot, hwHead, hwCnt, data, head, tail, task, stack, backlog, last>>
  BY DEF vars, hardware, ring, queue, history
<1>2. Held' = Held /\ Places' = Places /\ InQueue' = InQueue /\ InTask' = InTask /\ Busy' = Busy
  BY <1>1 DEF Held, Places, InQueue, InTask, Busy
<1>3. Owned' /\ Cover' /\ Room' /\ InOrder'
  <2>1. Owned'
    BY <1>1, <1>2 DEF InPlace, Owned, Queued
  <2>2. Cover' /\ Room'
    BY <1>1, <1>2 DEF InPlace, Cover, Room
  <2>3. InOrder'
    BY <1>1, <1>2 DEF InPlace, InOrder, Queued
  <2> QED
    BY <2>1, <2>2, <2>3
<1>4. RingFull'
  <2>1. PICK m \in 0 .. Ring : Pending(m)
    BY DEF InPlace, RingFull
  <2>2. Pending(m)'
    BY <1>1, <1>2, <2>1 DEF Pending
  <2> QED
    BY <1>1, <2>2 DEF InPlace, RingFull
<1> QED
  BY <1>3, <1>4 DEF InPlace

LEMMA StepIInv == IInv /\ [Next]_vars => IInv'
<1> SUFFICES ASSUME IInv, [Next]_vars, ~starved', ~brimmed' PROVE InPlace'
  BY StepAlways DEF IInv
<1>1. Always
  BY DEF IInv
<1>2. ~starved /\ ~brimmed
  <2>1. CASE RecvHandler
    BY <2>1, HandlerIs
  <2>2. CASE UNCHANGED <<starved, brimmed>>
    BY <2>2
  <2>3. RecvHandler \/ UNCHANGED <<starved, brimmed>>
    BY DEF Next, Receive, Task, Wait, Length, LowLevelInput, Store, Take, Input, Free, vars, history
  <2> QED
    BY <2>1, <2>2, <2>3
<1>3. InPlace
  BY <1>2 DEF IInv
<1> QED
  BY <1>1, <1>3, ReceiveInPlace, HandlerInPlace, TaskInPlace, FreeInPlace, StutterInPlace DEF Next

(* The invariant of the receiving half holds from the start on.            *)
THEOREM Invariance == Spec => []IInv
<1>1. Init => IInv
  BY InitAlways, InitInPlace DEF IInv
<1> QED
  BY <1>1, StepIInv, PTL DEF Spec

(* Until an allocation of the interrupt fails or a slot of the queue is    *)
(* used too early, every pbuf is in one place, and the frames reach lwIP   *)
(* in the order of their arrival, none twice: gmacps_recv_handler,         *)
(* setup_rx_bds and fmsh_gmacpsif_input lose nothing between them.         *)
THEOREM NoPbufLost == Spec => []OwnedOnce
<1>1. IInv => OwnedOnce
  BY SoundInPlace DEF IInv, OwnedOnce
<1> QED
  BY <1>1, Invariance, PTL

(* The queue's length never runs ahead of what is queued, whatever the     *)
(* interrupt adds between pq_dequeue's load and its store.                 *)
THEOREM LengthNeverAhead == Spec => []CountTrails
<1>1. IInv => CountTrails
  BY DEF IInv, Always, Counts, CountTrails
<1> QED
  BY <1>1, Invariance, PTL

(* A ring that has run out of pbufs stays so: setup_rx_bds fills BDs only  *)
(* in a pass that took some out.                                           *)
THEOREM DryRingStaysDry == Spec => DryForGood
<1> DEFINE Prop == hwCnt = 0 => hwCnt' = 0
<1>1. IInv /\ [Next]_vars => [Prop]_vars
  <2> SUFFICES ASSUME IInv, [Next]_vars, hwCnt = 0 PROVE hwCnt' = 0
    OBVIOUS
  <2>1. CASE RecvHandler
    <3>1. Processed = 0 /\ Filled = 0
      BY ProcessedRange DEF Filled
    <3>2. hwCnt' = hwCnt - Processed + Filled
      BY <2>1, HandlerIs
    <3> QED
      BY <3>1, <3>2
  <2>2. CASE UNCHANGED hwCnt
    BY <2>2
  <2>3. RecvHandler \/ UNCHANGED hwCnt
    BY DEF Next, Receive, Task, Wait, Length, LowLevelInput, Store, Take, Input, Free, vars, ring
  <2> QED
    BY <2>1, <2>2, <2>3
<1> HIDE DEF Prop
<1>2. Spec => [][Prop]_vars
  BY <1>1, Invariance, PTL DEF Spec
<1> QED
  BY <1>2 DEF DryForGood, Prop
=============================================================================
