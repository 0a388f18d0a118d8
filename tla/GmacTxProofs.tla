---------------------------- MODULE GmacTxProofs ----------------------------
(***************************************************************************)
(* What holds of the sending half of the Ethernet for any size of the ring *)
(* and any number of frames.                                               *)
(*                                                                         *)
(* Types and Calls hold whatever happens.  As long as the interrupt has    *)
(* not fallen into the task's process_sent_bds (raced), the ring is three  *)
(* regions that follow one another: the BDs that the GMAC has, the free    *)
(* ones, which are blank, and those of the one set that has been taken     *)
(* (Regions).  As long as moreover no set was taken that the GMAC had not  *)
(* sent (crowded, torn), the first region is whole frames in the order in  *)
(* which lwIP sent them, and those before dma are the ones that are sent   *)
(* (Framed).  The scan then takes no more than these, for it gets to the   *)
(* end of its count within the free BDs (Looks).                           *)
(***************************************************************************)
EXTENDS GmacTx, FiniteSetTheorems, FunctionTheorems, WellFoundedInduction, TLAPS

Rest == {"take", "post", "head", "give", "unpost", "tail"}
Pcs  == {"idle", "start", "scan", "wipe", "free", "send"} \cup Rest
Call == [pc : Pcs, cur : Bds, limit : 0 .. Ring, count : 0 .. Ring, partial : 0 .. Ring,
         sop : BOOLEAN, set : Bds, n : 0 .. Ring]

CallOK(r) ==
  /\ r.pc \in {"idle", "start", "send", "scan"} => r.n = 0
  /\ r.pc \in {"wipe", "free"} \cup Rest => r.n >= 1
  /\ r.pc = "scan" => r.partial <= r.count /\ r.count <= r.limit

Calls ==
  /\ \A p \in Procs : CallOK(run[p])
  /\ run["isr"].pc # "send"
  /\ run["task"].pc # "idle" => chain \in 1 .. 2 /\ frame >= 1
  /\ \A f \in queued : f <= frame /\ (run["task"].pc # "idle" => f < frame)
  /\ {raced, crowded, torn} \subseteq BOOLEAN

Always == TypeOK /\ Calls

(* Only where the interrupt cut in is a set half taken or half given back. *)
Whole == \A p \in Procs : run[p].pc \notin Rest

(* The ring, counted from the first BD that the GMAC has.                  *)
At(i) == Ahead(hwHead, i)

Blank(bd) == used[bd] /\ ~lastBd[bd] /\ store[bd] = 0

Regions ==
  /\ run["isr"].pc = "idle" \/ run["task"].pc \in {"idle", "send"}
  /\ preCnt = 0 /\ freeCnt + hwCnt + postCnt = Ring
  /\ postCnt = run["task"].n + run["isr"].n
  /\ postHead = At(hwCnt + freeCnt) /\ freeHead = At(hwCnt) /\ preHead = freeHead
  /\ \A p \in Procs : run[p].pc \in {"wipe", "free"} => run[p].set = postHead
  /\ \A p \in Procs : run[p].pc = "scan" => run[p].limit = hwCnt
  /\ \A i \in 0 .. Ring - 1 : hwCnt <= i /\ i < hwCnt + freeCnt => Blank(At(i))
  /\ (\E p \in Procs : run[p].pc = "free") =>
        \A i \in 0 .. Ring - 1 : hwCnt + freeCnt <= i => Blank(At(i))

(* The i-th BD is the first one of a frame.                                *)
Starts(i) == i = 0 \/ lastBd[At(i - 1)]

(* Of the BDs that the GMAC has, it has sent the first d.                  *)
Framed(d) ==
  /\ d <= hwCnt /\ dma = At(d) /\ Starts(d)
  /\ \A i \in 0 .. Ring - 1 : i < hwCnt => store[At(i)] \in queued
  /\ \A i \in 0 .. Ring - 1 : i < hwCnt =>
        lastBd[At(i)] \/ (i + 1 < hwCnt /\ lastBd[At(i + 1)] /\ store[At(i + 1)] = store[At(i)])
  /\ \A i, k \in 0 .. Ring - 1 : i < k /\ k < hwCnt =>
        store[At(i)] <= store[At(k)] /\ (lastBd[At(i)] => store[At(i)] < store[At(k)])
  /\ \A i \in 0 .. Ring - 1 : i < d => store[At(i)] \in sent /\ (Starts(i) => used[At(i)])
  /\ \A i \in 0 .. Ring - 1 : d <= i /\ i < hwCnt => store[At(i)] \notin sent /\ ~used[At(i)]
  /\ sent \subseteq queued
  /\ \A f \in queued \ sent : \E i \in 0 .. Ring - 1 : i < hwCnt /\ store[At(i)] = f
  /\ \A p \in Procs : run[p].pc = "wipe" => used[postHead]

(* The scan has looked at the first j BDs; when it began, the GMAC had     *)
(* sent e, and had not sent more than there were free BDs.                 *)
Looks(r, d, j, e) ==
  /\ r.cur = At(j) /\ e <= d /\ hwCnt - e <= freeCnt
  /\ j <= hwCnt => /\ r.count <= j /\ r.count <= d /\ Least(j, e) <= r.count
                   /\ r.sop => j < d /\ ~Starts(j) /\ r.partial = 1
                   /\ ~r.sop => r.partial = 0 /\ (j < e => Starts(j))
  /\ j > hwCnt => r.sop /\ r.partial = j - hwCnt /\ Taken(r) \in e .. d

Scanning(d) ==
  \A p \in Procs : run[p].pc = "scan" => \E j, e \in 0 .. Ring : Looks(run[p], d, j, e)

Framing == \E d \in 0 .. Ring : Framed(d) /\ Scanning(d)

IInv == /\ Always
        /\ ~raced => Whole /\ Regions
        /\ ~raced /\ ~crowded /\ ~torn => Framing

-----------------------------------------------------------------------------
(* Division.                                                               *)

LEMMA DivMod ==
  ASSUME NEW S \in Nat \ {0}, NEW x \in Int
  PROVE  x % S \in 0 .. S - 1 /\ x \div S \in Int /\ x = S * (x \div S) + (x % S)
<1>1. x % S \in 0 .. S - 1
  OBVIOUS
<1>2. x \div S \in Int
  OBVIOUS
<1>3. x = S * (x \div S) + (x % S)
  OBVIOUS
<1> QED
  BY <1>1, <1>2, <1>3

(* A multiple of S between -S and S is 0.                                  *)
LEMMA SmallMultiple ==
  ASSUME NEW S \in Nat \ {0}, NEW q \in Int, S * q < S, 0 - S < S * q
  PROVE  q = 0
<1>1. CASE q > 0
  <2> DEFINE z == q - 1
  <2>1. z \in Nat
    BY <1>1
  <2>2. S * q = S * z + S
    OBVIOUS
  <2> HIDE DEF z
  <2>3. S * z \in Nat
    BY <2>1
  <2> QED
    BY <2>2, <2>3
<1>2. CASE q < 0
  <2> DEFINE z == 0 - q - 1
  <2>1. z \in Nat
    BY <1>2
  <2>2. S * q = 0 - S * z - S
    OBVIOUS
  <2> HIDE DEF z
  <2>3. S * z \in Nat
    BY <2>1
  <2> QED
    BY <2>2, <2>3
<1> QED
  BY <1>1, <1>2

(* A place of a ring that is reached in two hops.                          *)
LEMMA ModMod ==
  ASSUME NEW S \in Nat \ {0}, NEW x \in Int, NEW n \in Int
  PROVE  ((x % S) + n) % S = (x + n) % S
<1> DEFINE a == x \div S  b == ((x % S) + n) \div S  c == (x + n) \div S
           r == x % S  s == ((x % S) + n) % S  t == (x + n) % S
<1>1. a \in Int /\ r \in Int /\ x = S * a + r
  BY DivMod
<1>2. b \in Int /\ s \in 0 .. S - 1 /\ r + n = S * b + s
  <2>1. (x % S) + n \in Int
    BY <1>1
  <2>2. \A y \in Int : y % S \in 0 .. S - 1 /\ y \div S \in Int /\ y = S * (y \div S) + (y % S)
    BY DivMod
  <2> QED
    BY <2>1, <2>2, Zenon
<1>3. c \in Int /\ t \in 0 .. S - 1 /\ x + n = S * c + t
  <2>1. x + n \in Int
    OBVIOUS
  <2> QED
    BY <2>1, DivMod, Zenon
<1> HIDE DEF a, b, c, r, s, t
<1>4. S * (a + b - c) = S * a + S * b - S * c
  BY <1>1, <1>2, <1>3
<1>5. S * a \in Int /\ S * b \in Int /\ S * c \in Int
  BY <1>1, <1>2, <1>3
<1>6. S * (a + b - c) = t - s
  BY <1>1, <1>2, <1>3, <1>4, <1>5
<1>7. a + b - c = 0
  BY <1>1, <1>2, <1>3, <1>6, SmallMultiple
<1>8. s = t
  BY <1>2, <1>3, <1>6, <1>7
<1> QED
  BY <1>8 DEF s, t

(* The places from x on, up to a whole turn, are different.                *)
LEMMA ModApart ==
  ASSUME NEW S \in Nat \ {0}, NEW x \in Int, NEW y \in Int, x < y, y < x + S
  PROVE  x % S # y % S
<1> SUFFICES ASSUME x % S = y % S PROVE FALSE
  OBVIOUS
<1> DEFINE a == x \div S  b == y \div S  r == x % S
<1>1. a \in Int /\ b \in Int /\ r \in Int /\ x = S * a + r /\ y = S * b + r
  BY DivMod
<1> HIDE DEF a, b, r
<1>2. S * (b - a) = S * b - S * a
  BY <1>1
<1>3. S * a \in Int /\ S * b \in Int
  BY <1>1
<1>4. S * (b - a) = y - x
  BY <1>1, <1>2, <1>3
<1>5. b - a = 0
  BY <1>1, <1>4, SmallMultiple
<1> QED
  BY <1>1, <1>4, <1>5

LEMMA ModSame ==
  ASSUME NEW S \in Nat \ {0}, NEW x \in Int, NEW j \in 0 .. S - 1, NEW k \in 0 .. S - 1,
         (x + j) % S = (x + k) % S
  PROVE  j = k
<1>1. x + j \in Int /\ x + k \in Int /\ j \in Int /\ k \in Int
  OBVIOUS
<1>2. ~(j < k)
  <2> SUFFICES ASSUME j < k PROVE FALSE
    OBVIOUS
  <2>1. x + j < x + k /\ x + k < x + j + S
    OBVIOUS
  <2> QED
    BY <1>1, <2>1, ModApart
<1>3. ~(k < j)
  <2> SUFFICES ASSUME k < j PROVE FALSE
    OBVIOUS
  <2>1. x + k < x + j /\ x + j < x + k + S
    OBVIOUS
  <2> QED
    BY <1>1, <2>1, ModApart
<1> QED
  BY <1>1, <1>2, <1>3

(* ... and they are all the places.                                        *)
LEMMA ModReaches ==
  ASSUME NEW S \in Nat \ {0}, NEW h \in 0 .. S - 1, NEW i \in 0 .. S - 1
  PROVE  \E k \in 0 .. S - 1 : (h + k) % S = i
<1>1. i % S = i
  OBVIOUS
<1>2. CASE h <= i
  <2>1. i - h \in 0 .. S - 1 /\ h + (i - h) = i
    BY <1>2
  <2> QED
    BY <1>1, <2>1
<1>3. CASE i < h
  <2>1. i - h + S \in 0 .. S - 1 /\ h + (i - h + S) = S + i
    BY <1>3
  <2>2. S % S = 0
    OBVIOUS
  <2>3. ((S % S) + i) % S = (S + i) % S
    <3>1. S \in Int /\ i \in Int
      OBVIOUS
    <3> QED
      BY <3>1, ModMod, Zenon
  <2>4. (S + i) % S = i
    <3>1. (0 + i) % S = (S + i) % S
      BY <2>2, <2>3, Zenon
    <3>2. 0 + i = i
      OBVIOUS
    <3> QED
      BY <1>1, <3>1, <3>2, Zenon
  <2> QED
    BY <2>1, <2>4
<1> QED
  BY <1>2, <1>3

-----------------------------------------------------------------------------
(* The ring.                                                               *)

LEMMA Sizes ==
  /\ Ring \in Nat \ {0} /\ Word \in Nat \ {0} /\ MaxFrames \in Nat \ {0}
  /\ Low \in Nat /\ Low < Ring /\ 2 * Ring < Word
BY SizesAssumption

LEMMA AheadIn ==
  ASSUME NEW h \in Int, NEW k \in Int
  PROVE  Ahead(h, k) \in Bds
BY Sizes, DivMod DEF Ahead, Bds

LEMMA AheadAhead ==
  ASSUME NEW h \in Int, NEW j \in Int, NEW k \in Int
  PROVE  Ahead(Ahead(h, j), k) = Ahead(h, j + k)
<1>1. (((h + j) % Ring) + k) % Ring = (h + j + k) % Ring
  <2>1. h + j \in Int
    OBVIOUS
  <2> QED
    BY <2>1, Sizes, ModMod, Zenon
<1>2. h + j + k = h + (j + k)
  OBVIOUS
<1> QED
  BY <1>1, <1>2 DEF Ahead

LEMMA AheadSame ==
  ASSUME NEW h \in Int, NEW j \in 0 .. Ring - 1, NEW k \in 0 .. Ring - 1, Ahead(h, j) = Ahead(h, k)
  PROVE  j = k
BY Sizes, ModSame DEF Ahead

LEMMA AheadReaches ==
  ASSUME NEW h \in Bds, NEW i \in Bds
  PROVE  \E k \in 0 .. Ring - 1 : i = Ahead(h, k)
<1>1. h \in 0 .. Ring - 1 /\ i \in 0 .. Ring - 1
  BY DEF Bds
<1>2. \E k \in 0 .. Ring - 1 : (h + k) % Ring = i
  BY <1>1, Sizes, ModReaches, Zenon
<1> QED
  BY <1>2, Zenon DEF Ahead

LEMMA AheadTurn ==
  ASSUME NEW h \in Bds
  PROVE  Ahead(h, 0) = h /\ Ahead(h, Ring) = h
<1>1. h % Ring = h /\ Ring % Ring = 0 /\ h + 0 = h /\ h + Ring = Ring + h /\ 0 + h = h /\ h \in Int
  BY Sizes DEF Bds
<1>2. ((Ring % Ring) + h) % Ring = (Ring + h) % Ring
  <2>1. Ring \in Int
    BY Sizes
  <2> QED
    BY <1>1, <2>1, Sizes, ModMod, Zenon
<1>3. (h + 0) % Ring = h /\ (h + Ring) % Ring = h
  BY <1>1, <1>2, Zenon
<1> QED
  BY <1>3 DEF Ahead

-----------------------------------------------------------------------------
(* What is found and what is given.                                        *)

LEMMA LeastNatural ==
  ASSUME NEW T \in SUBSET Nat, T # {}
  PROVE  \E n \in T : \A m \in T : n <= m
<1> DEFINE R == {ss \in Nat \X Nat : ss[1] < ss[2]}
<1>1. IsWellFoundedOn(R, Nat)
  BY NatLessThanWellFounded DEF OpToRel
<1>2. \A m, n \in Nat : m < n => <<m, n>> \in R
  OBVIOUS
<1> HIDE DEF R
<1>3. PICK n \in T : \A m \in T : <<m, n>> \notin R
  BY <1>1, WFMin
<1>4. \A m \in T : ~(m < n)
  BY <1>2, <1>3
<1> QED
  BY <1>4

LEMMA AtIn ==
  ASSUME TypeOK, NEW i \in Int
  PROVE  At(i) \in Bds
<1>1. hwHead \in Int
  BY Sizes DEF TypeOK, Bds
<1> QED
  BY <1>1, AheadIn DEF At

(* Which BDs a set of n from the a-th on is.                               *)
LEMMA InSpan ==
  ASSUME NEW h \in Bds, NEW a \in Nat, NEW n \in Nat, a + n <= Ring, NEW i \in 0 .. Ring - 1
  PROVE  Ahead(h, i) \in Span(Ahead(h, a), n) <=> a <= i /\ i < a + n
<1>1. h \in Int /\ a \in Int /\ i \in Int /\ n \in Int /\ Ring \in Int
  BY Sizes DEF Bds
<1>2. ASSUME a <= i, i < a + n PROVE Ahead(h, i) \in Span(Ahead(h, a), n)
  <2>1. i - a \in 0 .. n - 1 /\ a + (i - a) = i
    BY <1>1, <1>2
  <2>2. Ahead(Ahead(h, a), i - a) = Ahead(h, i)
    BY <1>1, <2>1, AheadAhead
  <2> QED
    BY <2>1, <2>2 DEF Span
<1>3. ASSUME NEW k \in 0 .. n - 1, Ahead(h, i) = Ahead(Ahead(h, a), k)
      PROVE  a <= i /\ i < a + n
  <2>1. k \in Int /\ a + k \in 0 .. Ring - 1
    BY <1>1
  <2>2. Ahead(Ahead(h, a), k) = Ahead(h, a + k)
    BY <1>1, <2>1, AheadAhead
  <2>3. i = a + k
    BY <1>1, <1>3, <2>1, <2>2, AheadSame
  <2> QED
    BY <1>1, <2>3
<1> QED
  BY <1>2, <1>3 DEF Span

(* The BDs of the frame at dma.                                            *)
Length == CHOOSE n \in 1 .. Ring : /\ lastBd[Ahead(dma, n - 1)]
                                   /\ \A k \in 1 .. n - 1 : ~lastBd[Ahead(dma, k - 1)]

LEMMA LengthIs ==
  ASSUME TypeOK, NEW bd \in Bds, lastBd[bd]
  PROVE  /\ Length \in 1 .. Ring /\ lastBd[Ahead(dma, Length - 1)]
         /\ \A k \in 1 .. Length - 1 : ~lastBd[Ahead(dma, k - 1)]
<1> DEFINE Ends(n) == lastBd[Ahead(dma, n - 1)]
           T == {n \in 1 .. Ring : Ends(n)}
<1>1. dma \in Bds /\ Ring \in Int
  BY Sizes DEF TypeOK
<1>2. PICK k \in 0 .. Ring - 1 : bd = Ahead(dma, k)
  BY <1>1, AheadReaches
<1>3. k + 1 \in 1 .. Ring /\ (k + 1) - 1 = k
  BY <1>1
<1>4. Ends(k + 1)
  BY <1>2, <1>3
<1>5. T \in SUBSET Nat /\ T # {}
  <2>1. k + 1 \in T
    BY <1>3, <1>4
  <2>2. T \subseteq 1 .. Ring
    OBVIOUS
  <2>3. 1 .. Ring \subseteq Nat
    BY <1>1
  <2>4. T \subseteq Nat
    BY <2>2, <2>3, Zenon
  <2> QED
    BY <2>1, <2>4, Zenon
<1>6. PICK n \in T : \A m \in T : n <= m
  BY <1>5, LeastNatural
<1>7. n \in 1 .. Ring /\ Ends(n)
  OBVIOUS
<1>8. \A m \in 1 .. n - 1 : ~Ends(m)
  <2> SUFFICES ASSUME NEW m \in 1 .. n - 1, Ends(m) PROVE FALSE
    OBVIOUS
  <2>1. m \in T
    BY <1>1, <1>7
  <2> QED
    BY <1>1, <1>6, <1>7, <2>1
<1>9. \E x \in 1 .. Ring : Ends(x) /\ \A m \in 1 .. x - 1 : ~Ends(m)
  BY <1>7, <1>8
<1> HIDE DEF T
<1> QED
  BY <1>9 DEF Length

-----------------------------------------------------------------------------
(* The calls.                                                              *)

LEMMA CallFields ==
  ASSUME NEW r \in Call
  PROVE  /\ r.pc \in Pcs /\ r.cur \in Bds /\ r.limit \in 0 .. Ring /\ r.count \in 0 .. Ring
         /\ r.partial \in 0 .. Ring /\ r.sop \in BOOLEAN /\ r.set \in Bds /\ r.n \in 0 .. Ring
BY DEF Call

LEMMA IdleIs ==
  ASSUME NEW pc \in Pcs
  PROVE  /\ [Idle EXCEPT !.pc = pc] \in Call
         /\ [Idle EXCEPT !.pc = pc].pc = pc /\ [Idle EXCEPT !.pc = pc].n = 0
<1>1. 0 \in Bds /\ 0 \in 0 .. Ring /\ FALSE \in BOOLEAN
  BY Sizes DEF Bds
<1> QED
  BY <1>1 DEF Idle, Call

LEMMA RunChanges ==
  ASSUME run \in [Procs -> Call], NEW p \in Procs, NEW r \in Call, run' = [run EXCEPT ![p] = r]
  PROVE  /\ run' \in [Procs -> Call] /\ run'[p] = r
         /\ \A q \in Procs : q # p => run'[q] = run[q]
OBVIOUS

LEMMA PcChanges ==
  ASSUME run \in [Procs -> Call], NEW p \in Procs, NEW pc \in Pcs, run' = [run EXCEPT ![p].pc = pc]
  PROVE  /\ run' \in [Procs -> Call] /\ run'[p] = [run[p] EXCEPT !.pc = pc]
         /\ run'[p].pc = pc /\ run'[p].n = run[p].n /\ run'[p].set = run[p].set
         /\ \A q \in Procs : q # p => run'[q] = run[q]
<1>1. [run[p] EXCEPT !.pc = pc] \in Call
  BY DEF Call
<1>2. run' = [run EXCEPT ![p] = [run[p] EXCEPT !.pc = pc]]
  OBVIOUS
<1>3. [run[p] EXCEPT !.pc = pc].pc = pc
  BY DEF Call
<1>4. [run[p] EXCEPT !.pc = pc].n = run[p].n /\ [run[p] EXCEPT !.pc = pc].set = run[p].set
  BY DEF Call
<1> QED
  BY <1>1, <1>2, <1>3, <1>4, RunChanges

LEMMA RunTyped == TypeOK => run \in [Procs -> Call]
BY DEF TypeOK, Call, Pcs, Rest

LEMMA ProcsAre == "task" \in Procs /\ "isr" \in Procs /\ \A p \in Procs : p = "task" \/ p = "isr"
BY DEF Procs

-----------------------------------------------------------------------------
(* Types and calls.                                                        *)

BdTypes   == used \in [Bds -> BOOLEAN] /\ lastBd \in [Bds -> BOOLEAN] /\ store \in [Bds -> 0 .. MaxFrames]
HeadTypes == hwHead \in Bds /\ preHead \in Bds /\ postHead \in Bds /\ freeHead \in Bds /\ dma \in Bds
CntTypes  == /\ hwCnt \in 0 .. Word - 1 /\ preCnt \in 0 .. Word - 1
             /\ postCnt \in 0 .. Word - 1 /\ freeCnt \in 0 .. Word - 1
Sent      == /\ frame \in 0 .. MaxFrames /\ chain \in 0 .. 2
             /\ queued \subseteq 1 .. MaxFrames /\ sent \subseteq 0 .. MaxFrames
Flags     == raced \in BOOLEAN /\ crowded \in BOOLEAN /\ torn \in BOOLEAN
AllOK     == \A p \in Procs : CallOK(run[p])
Sending   == /\ run["isr"].pc # "send"
             /\ run["task"].pc # "idle" => chain \in 1 .. 2 /\ frame >= 1
             /\ \A f \in queued : f <= frame /\ (run["task"].pc # "idle" => f < frame)

LEMMA AlwaysIs ==
  ASSUME Always
  PROVE  BdTypes /\ HeadTypes /\ CntTypes /\ Sent /\ Flags /\ AllOK /\ Sending /\ run \in [Procs -> Call]
BY RunTyped DEF Always, TypeOK, Calls, BdTypes, HeadTypes, CntTypes, Sent, Flags, AllOK, Sending

LEMMA AlwaysThen ==
  ASSUME BdTypes', HeadTypes', CntTypes', Sent', Flags', AllOK', Sending', run' \in [Procs -> Call]
  PROVE  Always'
<1>1. TypeOK'
  BY DEF TypeOK, BdTypes, HeadTypes, CntTypes, Sent, Call, Pcs, Rest
<1>2. Calls'
  BY DEF Calls, Flags, AllOK, Sending
<1> QED
  BY <1>1, <1>2 DEF Always

LEMMA InitAlways == Init => Always
<1> SUFFICES ASSUME Init PROVE Always
  OBVIOUS
<1>1. 0 \in Bds /\ 0 \in 0 .. Ring /\ 0 \in 0 .. Word - 1 /\ Ring \in 0 .. Word - 1 /\ 0 \in 0 .. MaxFrames
  BY Sizes DEF Bds
<1>2. Idle \in Call /\ Idle.pc = "idle" /\ Idle.n = 0
  BY <1>1 DEF Idle, Call, Pcs
<1>3. \A p \in Procs : run[p] = Idle
  BY DEF Init
<1>4. run \in [Procs -> Call]
  BY <1>2 DEF Init
<1>5. TypeOK
  BY <1>1, <1>4 DEF Init, TypeOK, Call, Pcs, Rest
<1>6. \A p \in Procs : CallOK(run[p])
  BY <1>2, <1>3 DEF CallOK, Rest
<1>7. Calls
  BY <1>2, <1>3, <1>6, ProcsAre DEF Init, Calls
<1> QED
  BY <1>5, <1>7 DEF Always

LEMMA TransmitIs ==
  ASSUME Always, Transmit
  PROVE  /\ Length \in 1 .. Ring /\ lastBd[Ahead(dma, Length - 1)]
         /\ \A k \in 1 .. Length - 1 : ~lastBd[Ahead(dma, k - 1)]
         /\ ~used[dma] /\ used' = [used EXCEPT ![dma] = TRUE] /\ sent' = sent \cup {store[dma]}
         /\ dma' = Ahead(dma, Length) /\ irq' = TRUE
         /\ UNCHANGED <<lastBd, store, ring, run, frame, chain, queued, raced, crowded, torn>>
<1>1. TypeOK
  BY DEF Always
<1>2. PICK bd \in Bds : lastBd[bd]
  BY DEF Transmit
<1>3. /\ Length \in 1 .. Ring /\ lastBd[Ahead(dma, Length - 1)]
      /\ \A k \in 1 .. Length - 1 : ~lastBd[Ahead(dma, k - 1)]
  BY <1>1, <1>2, LengthIs
<1>4. /\ ~used[dma] /\ used' = [used EXCEPT ![dma] = TRUE] /\ sent' = sent \cup {store[dma]}
      /\ dma' = Ahead(dma, Length) /\ irq' = TRUE
      /\ UNCHANGED <<lastBd, store, ring, run, frame, chain, queued, raced, crowded, torn>>
  BY DEF Transmit, Length
<1> QED
  BY <1>3, <1>4, Zenon

LEMMA TransmitAlways == Always /\ Transmit => Always'
<1> SUFFICES ASSUME Always, Transmit PROVE Always'
  OBVIOUS
<1> USE AlwaysIs
<1>1. /\ used' = [used EXCEPT ![dma] = TRUE] /\ sent' = sent \cup {store[dma]}
      /\ dma' = Ahead(dma, Length) /\ Length \in 1 .. Ring
      /\ UNCHANGED <<lastBd, store, ring, run, frame, chain, queued, raced, crowded, torn>>
  BY TransmitIs
<1>2. BdTypes'
  BY <1>1 DEF BdTypes
<1>3. HeadTypes' /\ CntTypes'
  <2>1. dma \in Int /\ Length \in Int
    BY <1>1, Sizes DEF HeadTypes, Bds
  <2>2. dma' \in Bds
    BY <1>1, <2>1, AheadIn
  <2> QED
    BY <1>1, <2>2 DEF HeadTypes, CntTypes, ring
<1>4. Sent' /\ Flags'
  BY <1>1 DEF Sent, Flags, BdTypes, HeadTypes
<1>5. AllOK' /\ Sending' /\ run' \in [Procs -> Call]
  BY <1>1 DEF AllOK, Sending
<1> QED
  BY <1>2, <1>3, <1>4, <1>5, AlwaysThen

LEMMA InterruptAlways == Always /\ Interrupt => Always'
<1> SUFFICES ASSUME Always, Interrupt PROVE Always'
  OBVIOUS
<1> USE AlwaysIs
<1>1. /\ run["isr"].pc = "idle" /\ run' = [run EXCEPT !["isr"].pc = "start"]
      /\ raced' = (raced \/ run["task"].pc \notin {"idle", "send"})
      /\ UNCHANGED <<bds, ring, dma, frame, chain, queued, sent, crowded, torn>>
  BY DEF Interrupt
<1>2. /\ run' \in [Procs -> Call] /\ run'["isr"].pc = "start" /\ run'["isr"].n = run["isr"].n
      /\ \A q \in Procs : q # "isr" => run'[q] = run[q]
  BY <1>1, PcChanges, ProcsAre DEF Pcs
<1>3. AllOK'
  <2>1. CallOK(run'["isr"])
    BY <1>1, <1>2, ProcsAre DEF AllOK, CallOK, Rest
  <2> QED
    BY <1>2, <2>1, ProcsAre DEF AllOK
<1>4. BdTypes' /\ HeadTypes' /\ CntTypes' /\ Sent'
  BY <1>1 DEF BdTypes, HeadTypes, CntTypes, Sent, bds, ring
<1>5. Flags' /\ Sending'
  BY <1>1, <1>2, ProcsAre DEF Flags, Sending
<1> QED
  BY <1>2, <1>3, <1>4, <1>5, AlwaysThen

LEMMA CallMoves ==
  ASSUME Always, NEW p \in Procs, NEW r \in Call, CallOK(r), run' = [run EXCEPT ![p] = r],
         run[p].pc # "idle", p = "isr" => r.pc # "send", UNCHANGED <<frame, chain, queued, sent>>
  PROVE  AllOK' /\ Sending' /\ Sent' /\ run' \in [Procs -> Call]
<1> USE AlwaysIs
<1>1. run' \in [Procs -> Call] /\ run'[p] = r /\ \A q \in Procs : q # p => run'[q] = run[q]
  BY RunChanges
<1>2. AllOK'
  BY <1>1 DEF AllOK
<1>3. Sent'
  BY DEF Sent
<1>4. run'["isr"].pc # "send"
  BY <1>1, ProcsAre DEF Sending
<1>5. run'["task"].pc # "idle" => run["task"].pc # "idle"
  BY <1>1, ProcsAre
<1>6. Sending'
  BY <1>4, <1>5 DEF Sending
<1> QED
  BY <1>1, <1>2, <1>3, <1>6

LEMMA ReturnIs ==
  ASSUME NEW p \in Procs
  PROVE  /\ Return(p) \in Call /\ CallOK(Return(p)) /\ Return(p).n = 0
         /\ Return(p).pc = (IF p = "task" THEN "send" ELSE "idle")
         /\ (p = "isr" => Return(p).pc # "send")
<1> DEFINE pc == IF p = "task" THEN "send" ELSE "idle"
<1>1. pc \in Pcs /\ pc \in {"idle", "send"} /\ (p = "isr" => pc # "send")
  BY DEF Pcs
<1> HIDE DEF pc
<1>2. [Idle EXCEPT !.pc = pc] \in Call /\ [Idle EXCEPT !.pc = pc].pc = pc /\ [Idle EXCEPT !.pc = pc].n = 0
  BY <1>1, IdleIs
<1>3. Return(p) = [Idle EXCEPT !.pc = pc]
  BY DEF Return, pc
<1>4. CallOK(Return(p))
  BY <1>1, <1>2, <1>3 DEF CallOK, Rest
<1> QED
  BY <1>1, <1>2, <1>3, <1>4 DEF pc

Scans == [Idle EXCEPT !.pc = "scan", !.cur = hwHead, !.limit = Limit]

LEMMA ScansIs ==
  ASSUME Always
  PROVE  /\ Scans \in Call /\ CallOK(Scans) /\ Scans.pc = "scan" /\ Scans.cur = hwHead
         /\ Scans.limit = Limit /\ Scans.count = 0 /\ Scans.partial = 0 /\ Scans.sop = FALSE /\ Scans.n = 0
<1>1. hwHead \in Bds /\ Limit \in 0 .. Ring
  BY AlwaysIs, Sizes DEF HeadTypes, CntTypes, Limit, Least
<1>2. 0 \in Bds /\ 0 \in 0 .. Ring
  BY Sizes DEF Bds
<1>3. /\ Idle \in Call /\ Idle.count = 0 /\ Idle.partial = 0 /\ Idle.sop = FALSE /\ Idle.n = 0
      /\ Idle.set \in Bds
  BY <1>2 DEF Idle, Call, Pcs
<1> DEFINE limit == Limit
<1>7. Scans = [Idle EXCEPT !.pc = "scan", !.cur = hwHead, !.limit = limit]
  BY DEF Scans
<1>8. limit \in 0 .. Ring
  BY <1>1
<1> HIDE DEF limit
<1>4. Scans \in Call
  BY <1>1, <1>2, <1>3, <1>7, <1>8 DEF Call, Pcs
<1>5. /\ Scans.pc = "scan" /\ Scans.cur = hwHead
      /\ Scans.limit = limit /\ Scans.count = 0 /\ Scans.partial = 0 /\ Scans.sop = FALSE /\ Scans.n = 0
  BY <1>3, <1>7 DEF Call
<1>6. CallOK(Scans)
  BY <1>8, <1>5 DEF CallOK, Rest
<1> QED
  BY <1>4, <1>5, <1>6 DEF limit

LEMMA StartIs ==
  ASSUME NEW p \in Procs, Start(p)
  PROVE  /\ MayRun(p) /\ run[p].pc = "start"
         /\ run' = [run EXCEPT ![p] = IF hwCnt = 0 THEN Return(p) ELSE Scans]
         /\ crowded' = (crowded \/ Cardinality(Unsent) > freeCnt)
         /\ UNCHANGED <<bds, ring, dma, irq, frame, chain, queued, sent, raced, torn>>
BY DEF Start, Scans

LEMMA StartAlways == ASSUME NEW p \in Procs PROVE Always /\ Start(p) => Always'
<1> SUFFICES ASSUME Always, Start(p) PROVE Always'
  OBVIOUS
<1> DEFINE r == IF hwCnt = 0 THEN Return(p) ELSE Scans
<1> USE AlwaysIs
<1>1. /\ run[p].pc = "start" /\ run' = [run EXCEPT ![p] = r]
      /\ crowded' = (crowded \/ Cardinality(Unsent) > freeCnt)
      /\ UNCHANGED <<bds, ring, dma, irq, frame, chain, queued, sent, raced, torn>>
  BY StartIs
<1>2. r \in Call /\ CallOK(r) /\ (p = "isr" => r.pc # "send")
  BY ReturnIs, ScansIs
<1> HIDE DEF r
<1>3. AllOK' /\ Sending' /\ Sent' /\ run' \in [Procs -> Call]
  BY <1>1, <1>2, CallMoves
<1>4. BdTypes' /\ HeadTypes' /\ CntTypes' /\ Flags'
  BY <1>1 DEF BdTypes, HeadTypes, CntTypes, Flags, bds, ring
<1> QED
  BY <1>3, <1>4, AlwaysThen

(* What one turn of the loop does.                                         *)
Sop(r) == r.sop \/ used[r.cur]
Turned(r) ==
  IF ~Sop(r) THEN [r EXCEPT !.cur = Ahead(@, 1)]
  ELSE [[r EXCEPT !.cur = Ahead(@, 1)] EXCEPT !.count = @ + 1, !.sop = ~lastBd[r.cur],
                                               !.partial = IF lastBd[r.cur] THEN 0 ELSE @ + 1]

LEMMA ScanIs ==
  ASSUME NEW p \in Procs, Scan(p)
  PROVE  /\ MayRun(p) /\ run[p].pc = "scan" /\ run[p].count < run[p].limit
         /\ run' = [run EXCEPT ![p] = Turned(run[p])]
         /\ UNCHANGED <<bds, ring, dma, irq, frame, chain, history>>
BY DEF Scan, Turned, Sop

LEMMA TurnedIs ==
  ASSUME Always, NEW r \in Call, r.pc = "scan", CallOK(r), r.count < r.limit
  PROVE  /\ Turned(r) \in Call /\ CallOK(Turned(r)) /\ Turned(r).pc = "scan" /\ Turned(r).n = 0
         /\ Turned(r).cur = Ahead(r.cur, 1) /\ Turned(r).limit = r.limit
         /\ ~Sop(r) => /\ Turned(r).count = r.count /\ Turned(r).partial = r.partial
                       /\ Turned(r).sop = r.sop
         /\ Sop(r) => /\ Turned(r).count = r.count + 1
                      /\ Turned(r).sop = ~lastBd[r.cur]
                      /\ Turned(r).partial = (IF lastBd[r.cur] THEN 0 ELSE r.partial + 1)
<1>1. /\ r.pc \in Pcs /\ r.cur \in Bds /\ r.limit \in 0 .. Ring /\ r.count \in 0 .. Ring
      /\ r.partial \in 0 .. Ring /\ r.sop \in BOOLEAN /\ r.set \in Bds /\ r.n \in 0 .. Ring
  BY CallFields
<1>2. Ahead(r.cur, 1) \in Bds
  <2>1. r.cur \in Int
    BY <1>1, Sizes DEF Bds
  <2> QED
    BY <2>1, AheadIn
<1>3. r.partial <= r.count /\ r.count <= r.limit /\ r.n = 0
  BY DEF CallOK, Rest
<1>4. /\ r.count + 1 \in 0 .. Ring /\ r.partial + 1 \in 0 .. Ring /\ 0 \in 0 .. Ring
      /\ r.count + 1 <= r.limit /\ r.partial + 1 <= r.count + 1 /\ 0 <= r.count + 1
  BY <1>1, <1>3, Sizes
<1>5. lastBd[r.cur] \in BOOLEAN
  BY <1>1, AlwaysIs DEF BdTypes
<1>6. CASE ~Sop(r)
  <2>1. Turned(r) = [r EXCEPT !.cur = Ahead(r.cur, 1)]
    BY <1>6 DEF Turned
  <2>2. Turned(r) \in Call
    BY <1>1, <1>2, <2>1 DEF Call
  <2>3. /\ Turned(r).pc = "scan" /\ Turned(r).n = 0 /\ Turned(r).cur = Ahead(r.cur, 1)
        /\ Turned(r).limit = r.limit /\ Turned(r).count = r.count /\ Turned(r).partial = r.partial
        /\ Turned(r).sop = r.sop
    BY <1>3, <2>1 DEF Call
  <2>4. CallOK(Turned(r))
    BY <1>3, <2>3 DEF CallOK, Rest
  <2> QED
    BY <1>6, <2>2, <2>3, <2>4
<1>7. CASE Sop(r)
  <2> DEFINE part == IF lastBd[r.cur] THEN 0 ELSE r.partial + 1
             sop  == ~lastBd[r.cur]
  <2>0. part \in 0 .. Ring /\ part <= r.count + 1 /\ sop \in BOOLEAN
    BY <1>4, <1>5
  <2>1. Turned(r) = [r EXCEPT !.cur = Ahead(r.cur, 1), !.count = r.count + 1, !.sop = sop, !.partial = part]
    BY <1>7 DEF Turned, Call
  <2> HIDE DEF part, sop
  <2>2. Turned(r) \in Call
    BY <1>1, <1>2, <1>4, <2>0, <2>1 DEF Call
  <2>3. /\ Turned(r).pc = "scan" /\ Turned(r).n = 0 /\ Turned(r).cur = Ahead(r.cur, 1)
        /\ Turned(r).limit = r.limit /\ Turned(r).count = r.count + 1 /\ Turned(r).partial = part
        /\ Turned(r).sop = sop
    BY <1>3, <2>1 DEF Call
  <2>4. CallOK(Turned(r))
    BY <1>4, <2>0, <2>3 DEF CallOK, Rest
  <2> QED
    BY <1>7, <2>2, <2>3, <2>4 DEF part, sop
<1> QED
  BY <1>6, <1>7

LEMMA ScanAlways == ASSUME NEW p \in Procs PROVE Always /\ Scan(p) => Always'
<1> SUFFICES ASSUME Always, Scan(p) PROVE Always'
  OBVIOUS
<1> USE AlwaysIs
<1>1. /\ run[p].pc = "scan" /\ run[p].count < run[p].limit /\ run' = [run EXCEPT ![p] = Turned(run[p])]
      /\ UNCHANGED <<bds, ring, dma, irq, frame, chain, history>>
  BY ScanIs
<1>2. run[p] \in Call /\ CallOK(run[p])
  BY DEF AllOK
<1>3. Turned(run[p]) \in Call /\ CallOK(Turned(run[p])) /\ Turned(run[p]).pc = "scan"
  BY <1>1, <1>2, TurnedIs
<1>4. UNCHANGED <<frame, chain, queued, sent>> /\ run[p].pc # "idle" /\ (p = "isr" => Turned(run[p]).pc # "send")
  BY <1>1, <1>3 DEF history
<1>5. AllOK' /\ Sending' /\ Sent' /\ run' \in [Procs -> Call]
  BY <1>1, <1>3, <1>4, CallMoves
<1>6. BdTypes' /\ HeadTypes' /\ CntTypes' /\ Flags'
  BY <1>1 DEF BdTypes, HeadTypes, CntTypes, Flags, bds, ring, history
<1> QED
  BY <1>5, <1>6, AlwaysThen

Holds(n) == [Idle EXCEPT !.pc = "wipe", !.set = hwHead, !.n = n]

LEMMA HoldsIs ==
  ASSUME Always, NEW n \in 1 .. Ring
  PROVE  /\ Holds(n) \in Call /\ CallOK(Holds(n)) /\ Holds(n).pc = "wipe"
         /\ Holds(n).set = hwHead /\ Holds(n).n = n
<1>1. hwHead \in Bds
  BY AlwaysIs DEF HeadTypes
<1>2. 0 \in Bds /\ 0 \in 0 .. Ring /\ n \in 0 .. Ring /\ n >= 1
  BY Sizes DEF Bds
<1>3. Idle \in Call
  BY <1>2 DEF Idle, Call, Pcs
<1>4. Holds(n) \in Call
  BY <1>1, <1>2, <1>3 DEF Holds, Call, Pcs
<1>5. Holds(n).pc = "wipe" /\ Holds(n).set = hwHead /\ Holds(n).n = n
  BY <1>3 DEF Holds, Call
<1>6. CallOK(Holds(n))
  BY <1>2, <1>5 DEF CallOK, Rest
<1> QED
  BY <1>4, <1>5, <1>6

LEMMA UpdateIs ==
  ASSUME NEW p \in Procs, Update(p)
  PROVE  /\ MayRun(p) /\ run[p].pc = "scan" /\ run[p].count = run[p].limit
         /\ Taken(run[p]) = 0 => run' = [run EXCEPT ![p] = Return(p)] /\ UNCHANGED <<ring, torn>>
         /\ Taken(run[p]) # 0 =>
              /\ run' = [run EXCEPT ![p] = Holds(Taken(run[p]))]
              /\ hwCnt' = (hwCnt - Taken(run[p])) % Word
              /\ postCnt' = (postCnt + Taken(run[p])) % Word
              /\ hwHead' = Ahead(hwHead, Taken(run[p]))
              /\ torn' = (torn \/ ~lastBd[Ahead(hwHead, Taken(run[p]) - 1)])
              /\ UNCHANGED <<preHead, preCnt, postHead, freeHead, freeCnt>>
         /\ UNCHANGED <<bds, dma, irq, frame, chain, queued, sent, raced, crowded>>
BY DEF Update, Holds, Less

LEMMA TakenRange ==
  ASSUME Always, NEW p \in Procs, run[p].pc = "scan"
  PROVE  /\ Taken(run[p]) \in 0 .. Ring /\ Taken(run[p]) <= run[p].limit
         /\ Taken(run[p]) = run[p].count - run[p].partial
<1>1. run[p] \in Call /\ CallOK(run[p])
  BY AlwaysIs DEF AllOK
<1>2. run[p].count \in 0 .. Ring /\ run[p].partial \in 0 .. Ring /\ run[p].limit \in 0 .. Ring
  BY <1>1, CallFields
<1>3. run[p].partial <= run[p].count /\ run[p].count <= run[p].limit
  BY <1>1 DEF CallOK, Rest
<1> QED
  BY <1>2, <1>3, Sizes DEF Taken

LEMMA UpdateAlways == ASSUME NEW p \in Procs PROVE Always /\ Update(p) => Always'
<1> SUFFICES ASSUME Always, Update(p) PROVE Always'
  OBVIOUS
<1> DEFINE n == Taken(run[p])
<1> USE AlwaysIs
<1>1. /\ run[p].pc = "scan"
      /\ n = 0 => run' = [run EXCEPT ![p] = Return(p)] /\ UNCHANGED <<ring, torn>>
      /\ n # 0 => /\ run' = [run EXCEPT ![p] = Holds(n)]
                  /\ hwCnt' = (hwCnt - n) % Word /\ postCnt' = (postCnt + n) % Word
                  /\ hwHead' = Ahead(hwHead, n)
                  /\ torn' = (torn \/ ~lastBd[Ahead(hwHead, n - 1)])
                  /\ UNCHANGED <<preHead, preCnt, postHead, freeHead, freeCnt>>
      /\ UNCHANGED <<bds, dma, irq, frame, chain, queued, sent, raced, crowded>>
  BY UpdateIs
<1>2. n \in 0 .. Ring
  BY <1>1, TakenRange
<1> HIDE DEF n
<1>3. UNCHANGED <<frame, chain, queued, sent>> /\ run[p].pc # "idle"
  BY <1>1
<1>4. BdTypes' /\ Sent'
  BY <1>1 DEF BdTypes, Sent, bds
<1>5. CASE n = 0
  <2>1. AllOK' /\ Sending' /\ Sent' /\ run' \in [Procs -> Call]
    BY <1>1, <1>3, <1>5, ReturnIs, CallMoves
  <2>2. HeadTypes' /\ CntTypes' /\ Flags'
    BY <1>1, <1>5 DEF HeadTypes, CntTypes, Flags, ring
  <2> QED
    BY <1>4, <2>1, <2>2, AlwaysThen
<1>6. CASE n # 0
  <2>0. n \in 1 .. Ring
    BY <1>2, <1>6
  <2>1. Holds(n) \in Call /\ CallOK(Holds(n)) /\ Holds(n).pc = "wipe"
    BY <2>0, HoldsIs
  <2>2. AllOK' /\ Sending' /\ Sent' /\ run' \in [Procs -> Call]
    BY <1>1, <1>3, <1>6, <2>1, CallMoves
  <2>3. hwCnt \in Int /\ postCnt \in Int /\ n \in Int /\ hwHead \in Int
    BY <1>2, Sizes DEF CntTypes, HeadTypes, Bds
  <2>4. hwHead' \in Bds
    BY <1>1, <1>6, <2>3, AheadIn
  <2>5. hwCnt' \in 0 .. Word - 1 /\ postCnt' \in 0 .. Word - 1
    <3>1. \A x \in Int : x % Word \in 0 .. Word - 1
      BY Sizes, DivMod
    <3>2. hwCnt - n \in Int /\ postCnt + n \in Int
      BY <2>3
    <3> QED
      BY <1>1, <1>6, <3>1, <3>2, Zenon
  <2>6. HeadTypes' /\ CntTypes'
    BY <1>1, <1>6, <2>4, <2>5 DEF HeadTypes, CntTypes
  <2>7. Flags'
    BY <1>1, <1>6 DEF Flags
  <2> QED
    BY <1>4, <2>2, <2>6, <2>7, AlwaysThen
<1> QED
  BY <1>5, <1>6

LEMMA WipeIs ==
  ASSUME NEW p \in Procs, Wipe(p)
  PROVE  /\ MayRun(p) /\ run[p].pc = "wipe"
         /\ used' = [bd \in Bds |-> used[bd] \/ bd \in Span(run[p].set, run[p].n)]
         /\ lastBd' = [bd \in Bds |-> lastBd[bd] /\ bd \notin Span(run[p].set, run[p].n)]
         /\ store' = [bd \in Bds |-> IF bd \in Span(run[p].set, run[p].n) THEN 0 ELSE store[bd]]
         /\ run' = [run EXCEPT ![p].pc = "free"]
         /\ UNCHANGED <<ring, dma, irq, frame, chain, history>>
BY DEF Wipe

LEMMA WipeAlways == ASSUME NEW p \in Procs PROVE Always /\ Wipe(p) => Always'
<1> SUFFICES ASSUME Always, Wipe(p) PROVE Always'
  OBVIOUS
<1> DEFINE r == [run[p] EXCEPT !.pc = "free"]
<1> USE AlwaysIs
<1>1. /\ run[p].pc = "wipe" /\ run' = [run EXCEPT ![p].pc = "free"]
      /\ UNCHANGED <<ring, dma, irq, frame, chain, history>>
  BY WipeIs
<1>2. run[p] \in Call /\ CallOK(run[p])
  BY DEF AllOK
<1>3. r \in Call /\ r.pc = "free" /\ r.n = run[p].n
  BY <1>2 DEF Call, Pcs
<1>4. CallOK(r)
  BY <1>1, <1>2, <1>3 DEF CallOK, Rest
<1>5. run' = [run EXCEPT ![p] = r]
  BY <1>1
<1> HIDE DEF r
<1>6. UNCHANGED <<frame, chain, queued, sent>> /\ run[p].pc # "idle" /\ (p = "isr" => r.pc # "send")
  BY <1>1, <1>3 DEF history
<1>7. AllOK' /\ Sending' /\ Sent' /\ run' \in [Procs -> Call]
  BY <1>3, <1>4, <1>5, <1>6, CallMoves
<1>8. BdTypes'
  <2>1. 0 \in 0 .. MaxFrames
    BY Sizes
  <2> QED
    BY <2>1, WipeIs DEF BdTypes
<1>9. HeadTypes' /\ CntTypes' /\ Flags'
  BY <1>1 DEF HeadTypes, CntTypes, Flags, ring, history
<1> QED
  BY <1>7, <1>8, <1>9, AlwaysThen

LEMMA FreeIs ==
  ASSUME NEW p \in Procs, BdRingFree(p)
  PROVE  /\ MayRun(p) /\ run[p].pc = "free"
         /\ InStep(run[p]) => /\ freeCnt' = (freeCnt + run[p].n) % Word
                              /\ postCnt' = postCnt - run[p].n
                              /\ postHead' = Ahead(postHead, run[p].n)
         /\ ~InStep(run[p]) => UNCHANGED <<freeCnt, postCnt, postHead>>
         /\ run' = [run EXCEPT ![p] = [Idle EXCEPT !.pc = "start"]]
         /\ UNCHANGED <<bds, hwHead, hwCnt, preHead, preCnt, freeHead, dma, irq, frame, chain, history>>
BY DEF BdRingFree

LEMMA StartsCall ==
  LET r == [Idle EXCEPT !.pc = "start"]
  IN r \in Call /\ CallOK(r) /\ r.pc = "start" /\ r.n = 0
<1> DEFINE r == [Idle EXCEPT !.pc = "start"]
<1>1. r \in Call /\ r.pc = "start" /\ r.n = 0
  BY IdleIs DEF Pcs
<1>2. CallOK(r)
  BY <1>1 DEF CallOK, Rest
<1> QED
  BY <1>1, <1>2

LEMMA FreeAlways == ASSUME NEW p \in Procs PROVE Always /\ BdRingFree(p) => Always'
<1> SUFFICES ASSUME Always, BdRingFree(p) PROVE Always'
  OBVIOUS
<1> DEFINE r == [Idle EXCEPT !.pc = "start"]
<1> USE AlwaysIs
<1>1. /\ run[p].pc = "free" /\ run' = [run EXCEPT ![p] = r]
      /\ UNCHANGED <<bds, hwHead, hwCnt, preHead, preCnt, freeHead, dma, irq, frame, chain, history>>
  BY FreeIs
<1>2. r \in Call /\ CallOK(r) /\ r.pc = "start"
  BY StartsCall
<1> HIDE DEF r
<1>3. UNCHANGED <<frame, chain, queued, sent>> /\ run[p].pc # "idle" /\ (p = "isr" => r.pc # "send")
  BY <1>1, <1>2 DEF history
<1>4. AllOK' /\ Sending' /\ Sent' /\ run' \in [Procs -> Call]
  BY <1>1, <1>2, <1>3, CallMoves
<1>5. BdTypes' /\ Flags'
  BY <1>1 DEF BdTypes, Flags, bds, history
<1>6. run[p].n \in 0 .. Ring
  BY CallFields
<1>7. postHead' \in Bds /\ postCnt' \in 0 .. Word - 1 /\ freeCnt' \in 0 .. Word - 1
  <2>1. CASE InStep(run[p])
    <3>1. postHead \in Int /\ run[p].n \in Int /\ freeCnt + run[p].n \in Int
      BY <1>6, Sizes DEF HeadTypes, CntTypes, Bds
    <3>2. Ahead(postHead, run[p].n) \in Bds
      BY <3>1, AheadIn
    <3>3. (freeCnt + run[p].n) % Word \in 0 .. Word - 1
      BY <3>1, Sizes, DivMod, Zenon
    <3>4. postCnt - run[p].n \in 0 .. Word - 1
      BY <1>6, <2>1, Sizes DEF InStep, CntTypes
    <3> QED
      BY <2>1, <3>2, <3>3, <3>4, FreeIs
  <2>2. CASE ~InStep(run[p])
    BY <2>2, FreeIs DEF HeadTypes, CntTypes
  <2> QED
    BY <2>1, <2>2
<1>8. HeadTypes' /\ CntTypes'
  BY <1>1, <1>7 DEF HeadTypes, CntTypes
<1> QED
  BY <1>4, <1>5, <1>8, AlwaysThen

LEMMA OutputIs ==
  ASSUME NEW pbufs \in 1 .. 2, LowLevelOutput(pbufs)
  PROVE  /\ MayRun("task") /\ run["task"].pc = "idle" /\ frame < MaxFrames
         /\ frame' = frame + 1 /\ chain' = pbufs
         /\ run' = [run EXCEPT !["task"].pc = IF freeCnt <= Low THEN "start" ELSE "send"]
         /\ UNCHANGED <<bds, ring, dma, irq, history>>
BY DEF LowLevelOutput

LEMMA OutputAlways == ASSUME NEW pbufs \in 1 .. 2 PROVE Always /\ LowLevelOutput(pbufs) => Always'
<1> SUFFICES ASSUME Always, LowLevelOutput(pbufs) PROVE Always'
  OBVIOUS
<1> DEFINE pc == IF freeCnt <= Low THEN "start" ELSE "send"
<1> USE AlwaysIs
<1>1. /\ run["task"].pc = "idle" /\ frame < MaxFrames /\ frame' = frame + 1 /\ chain' = pbufs
      /\ run' = [run EXCEPT !["task"].pc = pc]
      /\ UNCHANGED <<bds, ring, dma, irq, history>>
  BY OutputIs
<1>2. pc \in {"start", "send"} /\ pc \in Pcs
  BY DEF Pcs
<1> HIDE DEF pc
<1>3. /\ run' \in [Procs -> Call] /\ run'["task"].pc = pc /\ run'["task"].n = run["task"].n
      /\ \A q \in Procs : q # "task" => run'[q] = run[q]
  BY <1>1, <1>2, PcChanges, ProcsAre
<1>4. AllOK'
  <2>1. CallOK(run["task"])
    BY ProcsAre DEF AllOK
  <2>2. CallOK(run'["task"])
    BY <1>1, <1>2, <1>3, <2>1 DEF CallOK, Rest
  <2> QED
    BY <1>3, <2>2 DEF AllOK
<1>5. BdTypes' /\ HeadTypes' /\ CntTypes' /\ Flags'
  BY <1>1 DEF BdTypes, HeadTypes, CntTypes, Flags, bds, ring, history
<1>6. Sent'
  BY <1>1, Sizes DEF Sent, history
<1>7. Sending'
  <2>1. run'["isr"].pc # "send"
    BY <1>3, ProcsAre DEF Sending
  <2>2. chain' \in 1 .. 2 /\ frame' >= 1
    BY <1>1 DEF Sent
  <2>3. \A f \in queued : f \in Int /\ f <= frame
    BY DEF Sending, Sent
  <2>4. \A f \in queued' : f <= frame' /\ f < frame'
    <3>1. queued' = queued /\ frame \in Int /\ frame' = frame + 1
      BY <1>1 DEF history, Sent
    <3> QED
      BY <2>3, <3>1
  <2> QED
    BY <2>1, <2>2, <2>4 DEF Sending
<1> QED
  BY <1>3, <1>4, <1>5, <1>6, <1>7, AlwaysThen

(* The BDs that the frame gets, and which of them its pbufs go into.       *)
Busy == {k \in 0 .. chain - 1 : store[Ahead(freeHead, k)] # 0}
Mine == IF Busy = {} THEN Span(freeHead, chain)
        ELSE Span(freeHead, CHOOSE k \in Busy : \A j \in Busy : k <= j)
ToHw == Busy = {} /\ preHead = freeHead

LEMMA SgsendIs ==
  ASSUME Sgsend
  PROVE  /\ MayRun("task") /\ run["task"].pc = "send" /\ run' = [run EXCEPT !["task"] = Idle]
         /\ freeCnt < chain => UNCHANGED <<bds, ring, queued>>
         /\ ~(freeCnt < chain) =>
              /\ store' = [bd \in Bds |-> IF bd \in Mine THEN frame ELSE store[bd]]
              /\ used' = [bd \in Bds |-> used[bd] /\ (Busy # {} \/ bd \notin Span(freeHead, chain))]
              /\ lastBd' = [bd \in Bds |-> IF bd \in Mine THEN Busy = {} /\ bd = Ahead(freeHead, chain - 1)
                                           ELSE lastBd[bd]]
              /\ freeHead' = Ahead(freeHead, chain) /\ freeCnt' = freeCnt - chain
              /\ ToHw => /\ preHead' = Ahead(preHead, chain) /\ hwCnt' = (hwCnt + chain) % Word
                         /\ queued' = queued \cup {frame} /\ UNCHANGED preCnt
              /\ ~ToHw => preCnt' = (preCnt + chain) % Word /\ UNCHANGED <<preHead, hwCnt, queued>>
              /\ UNCHANGED <<hwHead, postHead, postCnt>>
         /\ UNCHANGED <<dma, irq, frame, chain, sent, raced, crowded, torn>>
<1>1. /\ MayRun("task") /\ run["task"].pc = "send" /\ run' = [run EXCEPT !["task"] = Idle]
      /\ UNCHANGED <<dma, irq, frame, chain, sent, raced, crowded, torn>>
  BY DEF Sgsend
<1>2. freeCnt < chain => UNCHANGED <<bds, ring, queued>>
  BY DEF Sgsend
<1>3. ASSUME ~(freeCnt < chain)
      PROVE  /\ store' = [bd \in Bds |-> IF bd \in Mine THEN frame ELSE store[bd]]
             /\ used' = [bd \in Bds |-> used[bd] /\ (Busy # {} \/ bd \notin Span(freeHead, chain))]
             /\ lastBd' = [bd \in Bds |-> IF bd \in Mine THEN Busy = {} /\ bd = Ahead(freeHead, chain - 1)
                                          ELSE lastBd[bd]]
             /\ freeHead' = Ahead(freeHead, chain) /\ freeCnt' = freeCnt - chain
             /\ ToHw => /\ preHead' = Ahead(preHead, chain) /\ hwCnt' = (hwCnt + chain) % Word
                        /\ queued' = queued \cup {frame} /\ UNCHANGED preCnt
             /\ ~ToHw => preCnt' = (preCnt + chain) % Word /\ UNCHANGED <<preHead, hwCnt, queued>>
             /\ UNCHANGED <<hwHead, postHead, postCnt>>
  BY <1>3, Zenon DEF Sgsend, Busy, Mine, ToHw
<1> QED
  BY <1>1, <1>2, <1>3

LEMMA SgsendAlways == Always /\ Sgsend => Always'
<1> SUFFICES ASSUME Always, Sgsend PROVE Always'
  OBVIOUS
<1> USE AlwaysIs
<1>1. /\ run["task"].pc = "send" /\ run' = [run EXCEPT !["task"] = Idle]
      /\ UNCHANGED <<dma, irq, frame, chain, sent, raced, crowded, torn>>
  BY SgsendIs
<1>2. Idle \in Call /\ Idle.pc = "idle" /\ Idle.n = 0
  <2>1. 0 \in Bds /\ 0 \in 0 .. Ring
    BY Sizes DEF Bds
  <2> QED
    BY <2>1 DEF Idle, Call, Pcs
<1>3. /\ run' \in [Procs -> Call] /\ run'["task"] = Idle
      /\ \A q \in Procs : q # "task" => run'[q] = run[q]
  BY <1>1, <1>2, RunChanges, ProcsAre
<1>4. AllOK'
  <2>1. CallOK(Idle)
    BY <1>2 DEF CallOK, Rest
  <2> QED
    BY <1>3, <2>1, ProcsAre DEF AllOK
<1>5. Flags'
  BY <1>1 DEF Flags
<1>6. chain \in 1 .. 2 /\ frame \in 1 .. MaxFrames /\ \A f \in queued : f < frame
  BY <1>1, Sizes DEF Sending, Sent
<1>7. CASE freeCnt < chain
  <2>1. UNCHANGED <<bds, ring, queued>>
    BY <1>7, SgsendIs
  <2>2. BdTypes' /\ HeadTypes' /\ CntTypes' /\ Sent'
    BY <1>1, <2>1 DEF BdTypes, HeadTypes, CntTypes, Sent, bds, ring
  <2>3. Sending'
    BY <1>1, <1>2, <1>3, <2>1, ProcsAre DEF Sending
  <2> QED
    BY <1>3, <1>4, <1>5, <2>2, <2>3, AlwaysThen
<1>8. CASE ~(freeCnt < chain)
  <2>1. /\ freeHead' = Ahead(freeHead, chain) /\ freeCnt' = freeCnt - chain
        /\ ToHw => /\ preHead' = Ahead(preHead, chain) /\ hwCnt' = (hwCnt + chain) % Word
                   /\ queued' = queued \cup {frame} /\ UNCHANGED preCnt
        /\ ~ToHw => preCnt' = (preCnt + chain) % Word /\ UNCHANGED <<preHead, hwCnt, queued>>
        /\ UNCHANGED <<hwHead, postHead, postCnt>>
    BY <1>8, SgsendIs
  <2>2. BdTypes'
    <3>1. store' \in [Bds -> 0 .. MaxFrames]
      <4>1. store' = [bd \in Bds |-> IF bd \in Mine THEN frame ELSE store[bd]]
        BY <1>8, SgsendIs
      <4> QED
        BY <1>6, <4>1 DEF BdTypes
    <3>2. used' \in [Bds -> BOOLEAN]
      <4>1. used' = [bd \in Bds |-> used[bd] /\ (Busy # {} \/ bd \notin Span(freeHead, chain))]
        BY <1>8, SgsendIs
      <4> QED
        BY <4>1 DEF BdTypes
    <3>3. lastBd' \in [Bds -> BOOLEAN]
      <4>1. lastBd' = [bd \in Bds |-> IF bd \in Mine THEN Busy = {} /\ bd = Ahead(freeHead, chain - 1)
                                      ELSE lastBd[bd]]
        BY <1>8, SgsendIs
      <4>2. \A bd \in Bds : lastBd[bd] \in BOOLEAN
        BY DEF BdTypes
      <4> QED
        BY <4>1, <4>2
    <3> QED
      BY <3>1, <3>2, <3>3 DEF BdTypes
  <2>3. /\ freeHead \in Int /\ preHead \in Int /\ chain \in Int
        /\ hwCnt + chain \in Int /\ preCnt + chain \in Int
    BY <1>6, Sizes DEF HeadTypes, CntTypes, Bds
  <2>4. Ahead(freeHead, chain) \in Bds /\ Ahead(preHead, chain) \in Bds
    BY <2>3, AheadIn
  <2>5. HeadTypes'
    BY <1>1, <2>1, <2>4 DEF HeadTypes
  <2>6. (hwCnt + chain) % Word \in 0 .. Word - 1 /\ (preCnt + chain) % Word \in 0 .. Word - 1
    BY <2>3, Sizes, DivMod, Zenon
  <2>7. freeCnt - chain \in 0 .. Word - 1
    BY <1>6, <1>8, Sizes DEF CntTypes
  <2>8. CntTypes'
    BY <2>1, <2>6, <2>7 DEF CntTypes
  <2>9. queued' = queued \/ queued' = queued \cup {frame}
    BY <2>1
  <2>10. Sent'
    BY <1>1, <1>6, <2>9 DEF Sent
  <2>11. \A f \in queued' : f <= frame'
    BY <1>1, <1>6, <2>9 DEF Sent
  <2>12. Sending'
    BY <1>2, <1>3, <2>11, ProcsAre DEF Sending
  <2> QED
    BY <1>3, <1>4, <1>5, <2>2, <2>5, <2>8, <2>10, <2>12, AlwaysThen
<1> QED
  BY <1>7, <1>8

LEMMA StutterAlways == Always /\ UNCHANGED vars => Always'
<1> SUFFICES ASSUME Always, UNCHANGED vars PROVE Always'
  OBVIOUS
<1>1. UNCHANGED <<used, lastBd, store, hwHead, hwCnt, preHead, preCnt, postHead, postCnt, freeHead,
                  freeCnt, dma, irq, run, frame, chain, queued, sent, raced, crowded, torn>>
  BY DEF vars, bds, ring, history
<1> QED
  BY <1>1, AlwaysIs, AlwaysThen DEF BdTypes, HeadTypes, CntTypes, Sent, Flags, AllOK, Sending, CallOK, Rest

(* The interrupt cuts into the task's stores.                              *)
Cut(pc, set, n) == [Idle EXCEPT !.pc = pc, !.set = set, !.n = n]

LEMMA CutIs ==
  ASSUME NEW pc \in Rest, NEW set \in Bds, NEW n \in 1 .. Ring
  PROVE  /\ Cut(pc, set, n) \in Call /\ CallOK(Cut(pc, set, n)) /\ Cut(pc, set, n).pc = pc
<1>1. 0 \in Bds /\ 0 \in 0 .. Ring /\ n \in 0 .. Ring /\ n >= 1 /\ pc \in Pcs
  BY Sizes DEF Bds, Pcs
<1>2. Idle \in Call
  BY <1>1 DEF Idle, Call, Pcs
<1>3. Cut(pc, set, n) \in Call
  BY <1>1, <1>2 DEF Cut, Call
<1>4. Cut(pc, set, n).pc = pc /\ Cut(pc, set, n).n = n
  BY <1>2 DEF Cut, Call
<1>5. CallOK(Cut(pc, set, n))
  BY <1>1, <1>4 DEF CallOK, Rest
<1> QED
  BY <1>3, <1>4, <1>5

LEMMA CutsInAlways ==
  ASSUME Always, NEW pc \in Rest, NEW set \in Bds, NEW n \in 1 .. Ring, CutsIn(pc, set, n),
         run["task"].pc # "idle", hwCnt' \in 0 .. Word - 1, postCnt' \in 0 .. Word - 1,
         freeCnt' \in 0 .. Word - 1, torn' \in BOOLEAN
  PROVE  Always'
<1> USE AlwaysIs
<1> DEFINE s == [Idle EXCEPT !.pc = "start"]  r == Cut(pc, set, n)
<1>1. /\ raced' = TRUE /\ run' = [task |-> r, isr |-> s]
      /\ UNCHANGED <<bds, hwHead, preHead, preCnt, postHead, freeHead, dma, frame, chain,
                     queued, sent, crowded>>
  BY DEF CutsIn, Cut
<1>2. r \in Call /\ CallOK(r) /\ r.pc = pc
  BY CutIs
<1>3. s \in Call /\ CallOK(s) /\ s.pc = "start"
  BY StartsCall
<1> HIDE DEF r, s
<1>4. run'["task"] = r /\ run'["isr"] = s /\ run' \in [Procs -> Call]
  BY <1>1, <1>2, <1>3 DEF Procs
<1>5. AllOK'
  BY <1>2, <1>3, <1>4, ProcsAre DEF AllOK
<1>6. Sending'
  BY <1>1, <1>3, <1>4 DEF Sending
<1>7. BdTypes' /\ HeadTypes' /\ Sent'
  BY <1>1 DEF BdTypes, HeadTypes, Sent, bds
<1>8. CntTypes' /\ Flags'
  BY <1>1 DEF CntTypes, Flags
<1> QED
  BY <1>4, <1>5, <1>6, <1>7, <1>8, AlwaysThen

LEMMA Counts ==
  ASSUME Always, NEW n \in 0 .. Ring
  PROVE  /\ Less(hwCnt, n) \in 0 .. Word - 1 /\ Less(postCnt, n) \in 0 .. Word - 1
         /\ (postCnt + n) % Word \in 0 .. Word - 1 /\ (freeCnt + n) % Word \in 0 .. Word - 1
<1>1. hwCnt - n \in Int /\ postCnt - n \in Int /\ postCnt + n \in Int /\ freeCnt + n \in Int
  BY AlwaysIs, Sizes DEF CntTypes
<1>2. \A x \in Int : x % Word \in 0 .. Word - 1
  BY Sizes, DivMod
<1> QED
  BY <1>1, <1>2, Zenon DEF Less

LEMMA CutsInUpdateAlways == Always /\ CutsInUpdate => Always'
<1> SUFFICES ASSUME Always, CutsInUpdate PROVE Always'
  OBVIOUS
<1> DEFINE n == Taken(run["task"])
<1>1. /\ run["task"].pc = "scan" /\ n # 0 /\ freeCnt' = freeCnt
      /\ torn' = (torn \/ ~lastBd[Ahead(hwHead, n - 1)])
  BY DEF CutsInUpdate
<1>2. PICK k \in 1 .. 3 : /\ CutsIn(<<"take", "post", "head">>[k], hwHead, n)
                          /\ hwCnt' = IF k > 1 THEN Less(hwCnt, n) ELSE hwCnt
                          /\ postCnt' = IF k > 2 THEN (postCnt + n) % Word ELSE postCnt
  BY DEF CutsInUpdate
<1>3. n \in 0 .. Ring
  BY <1>1, TakenRange, ProcsAre
<1> HIDE DEF n
<1>4. n \in 1 .. Ring
  BY <1>1, <1>3
<1>5. <<"take", "post", "head">>[k] \in Rest
  BY DEF Rest
<1>6. hwHead \in Bds
  BY AlwaysIs DEF HeadTypes
<1>7. hwCnt' \in 0 .. Word - 1 /\ postCnt' \in 0 .. Word - 1 /\ freeCnt' \in 0 .. Word - 1
  BY <1>1, <1>2, <1>3, Counts, AlwaysIs DEF CntTypes
<1>8. torn' \in BOOLEAN
  BY <1>1, AlwaysIs DEF Flags
<1> QED
  BY <1>1, <1>2, <1>4, <1>5, <1>6, <1>7, <1>8, CutsInAlways

LEMMA CutsInFreeAlways == Always /\ CutsInFree => Always'
<1> SUFFICES ASSUME Always, CutsInFree PROVE Always'
  OBVIOUS
<1> DEFINE r == run["task"]
<1>1. r.pc = "free" /\ InStep(r) /\ hwCnt' = hwCnt /\ torn' = torn
  BY DEF CutsInFree
<1>2. PICK k \in 1 .. 3 : /\ CutsIn(<<"give", "unpost", "tail">>[k], r.set, r.n)
                          /\ freeCnt' = IF k > 1 THEN (freeCnt + r.n) % Word ELSE freeCnt
                          /\ postCnt' = IF k > 2 THEN postCnt - r.n ELSE postCnt
  BY DEF CutsInFree
<1>3. r \in Call /\ CallOK(r)
  BY AlwaysIs, ProcsAre DEF AllOK
<1> HIDE DEF r
<1>4. r.set \in Bds /\ r.n \in 0 .. Ring
  BY <1>3, CallFields
<1>5. r.n \in 1 .. Ring
  <2>1. r.n >= 1
    BY <1>1, <1>3 DEF CallOK, Rest
  <2> QED
    BY <1>4, <2>1
<1>6. <<"give", "unpost", "tail">>[k] \in Rest
  BY DEF Rest
<1>7. postCnt - r.n \in 0 .. Word - 1
  BY <1>1, <1>4, AlwaysIs, Sizes DEF InStep, CntTypes
<1>8. hwCnt' \in 0 .. Word - 1 /\ postCnt' \in 0 .. Word - 1 /\ freeCnt' \in 0 .. Word - 1
  BY <1>1, <1>2, <1>4, <1>7, Counts, AlwaysIs DEF CntTypes
<1>9. torn' \in BOOLEAN /\ run["task"].pc # "idle"
  BY <1>1, AlwaysIs DEF Flags, r
<1> QED
  BY <1>2, <1>4, <1>5, <1>6, <1>8, <1>9, CutsInAlways

(* ... and it does the others.                                             *)
LEMMA GoOnIs ==
  ASSUME NEW p \in Procs, GoOn(p)
  PROVE  /\ run[p].pc \in Rest
         /\ \/ \E pc \in {"post", "head", "wipe", "unpost", "tail"} : run' = [run EXCEPT ![p].pc = pc]
            \/ run' = [run EXCEPT ![p] = [Idle EXCEPT !.pc = "start"]]
         /\ hwCnt' \in {hwCnt, Less(hwCnt, run[p].n)}
         /\ postCnt' \in {postCnt, (postCnt + run[p].n) % Word, Less(postCnt, run[p].n)}
         /\ freeCnt' \in {freeCnt, (freeCnt + run[p].n) % Word}
         /\ hwHead' \in {hwHead, Ahead(hwHead, run[p].n)}
         /\ postHead' \in {postHead, Ahead(postHead, run[p].n)}
         /\ UNCHANGED <<bds, preHead, preCnt, freeHead, dma, irq, frame, chain, history>>
<1>1. run[p].pc \in Rest
  BY DEF GoOn, Rest
<1>2. \/ \E pc \in {"post", "head", "wipe", "unpost", "tail"} : run' = [run EXCEPT ![p].pc = pc]
      \/ run' = [run EXCEPT ![p] = [Idle EXCEPT !.pc = "start"]]
  BY DEF GoOn
<1>3. /\ hwCnt' \in {hwCnt, Less(hwCnt, run[p].n)}
      /\ postCnt' \in {postCnt, (postCnt + run[p].n) % Word, Less(postCnt, run[p].n)}
      /\ freeCnt' \in {freeCnt, (freeCnt + run[p].n) % Word}
  BY DEF GoOn
<1>4. /\ hwHead' \in {hwHead, Ahead(hwHead, run[p].n)}
      /\ postHead' \in {postHead, Ahead(postHead, run[p].n)}
      /\ UNCHANGED <<bds, preHead, preCnt, freeHead, dma, irq, frame, chain, history>>
  BY DEF GoOn
<1> QED
  BY <1>1, <1>2, <1>3, <1>4

LEMMA GoOnAlways == ASSUME NEW p \in Procs PROVE Always /\ GoOn(p) => Always'
<1> SUFFICES ASSUME Always, GoOn(p) PROVE Always'
  OBVIOUS
<1> USE AlwaysIs
<1>1. run[p] \in Call /\ CallOK(run[p]) /\ run[p].pc \in Rest
  BY GoOnIs DEF AllOK
<1>2. UNCHANGED <<bds, preHead, preCnt, freeHead, dma, irq, frame, chain, history>>
  BY GoOnIs
<1>3. PICK r \in Call : CallOK(r) /\ r.pc # "send" /\ run' = [run EXCEPT ![p] = r]
  <2>1. CASE run' = [run EXCEPT ![p] = [Idle EXCEPT !.pc = "start"]]
    <3> DEFINE s == [Idle EXCEPT !.pc = "start"]
    <3>1. s \in Call /\ CallOK(s) /\ s.pc = "start" /\ run' = [run EXCEPT ![p] = s]
      BY <2>1, StartsCall
    <3> HIDE DEF s
    <3> QED
      BY <3>1
  <2>2. ASSUME NEW pc \in {"post", "head", "wipe", "unpost", "tail"}, run' = [run EXCEPT ![p].pc = pc]
        PROVE  \E r \in Call : CallOK(r) /\ r.pc # "send" /\ run' = [run EXCEPT ![p] = r]
    <3> DEFINE s == [run[p] EXCEPT !.pc = pc]
    <3>1. s \in Call /\ s.pc = pc /\ s.n = run[p].n
      BY <1>1 DEF Call, Pcs, Rest
    <3>2. run' = [run EXCEPT ![p] = s]
      BY <2>2
    <3> HIDE DEF s
    <3>3. run[p].n >= 1
      BY <1>1 DEF CallOK, Rest
    <3>4. CallOK(s)
      BY <3>1, <3>3 DEF CallOK, Rest
    <3> QED
      BY <3>1, <3>2, <3>4
  <2> QED
    BY <2>1, <2>2, GoOnIs
<1>4. AllOK' /\ Sending' /\ Sent' /\ run' \in [Procs -> Call]
  <2>1. run[p].pc # "idle" /\ UNCHANGED <<frame, chain, queued, sent>>
    BY <1>1, <1>2 DEF Rest, history
  <2> QED
    BY <1>3, <2>1, CallMoves
<1>5. BdTypes' /\ Flags'
  BY <1>2 DEF BdTypes, Flags, bds, history
<1>6. run[p].n \in 0 .. Ring
  BY <1>1, CallFields
<1>7. hwHead' \in Bds /\ postHead' \in Bds
  <2>1. hwHead \in Int /\ postHead \in Int /\ run[p].n \in Int
    BY <1>6, Sizes DEF HeadTypes, Bds
  <2>2. Ahead(hwHead, run[p].n) \in Bds /\ Ahead(postHead, run[p].n) \in Bds
    BY <2>1, AheadIn
  <2> QED
    BY <2>2, GoOnIs DEF HeadTypes
<1>8. HeadTypes'
  BY <1>2, <1>7 DEF HeadTypes
<1>9. CntTypes'
  BY <1>2, <1>6, Counts, GoOnIs DEF CntTypes
<1> QED
  BY <1>4, <1>5, <1>8, <1>9, AlwaysThen

LEMMA StepAlways == Always /\ [Next]_vars => Always'
<1>1. ASSUME NEW p \in Procs PROVE Always /\ ProcessSentBds(p) => Always'
  BY <1>1, StartAlways, ScanAlways, UpdateAlways, WipeAlways, FreeAlways, GoOnAlways DEF ProcessSentBds
<1> QED
  BY <1>1, TransmitAlways, InterruptAlways, CutsInUpdateAlways, CutsInFreeAlways, SgsendAlways,
     OutputAlways, StutterAlways DEF Next

-----------------------------------------------------------------------------
(* The regions of the ring.                                                *)

LEMMA CountsAre ==
  ASSUME Always, Regions
  PROVE  /\ hwCnt \in 0 .. Ring /\ freeCnt \in 0 .. Ring /\ postCnt \in 0 .. Ring
         /\ freeCnt + hwCnt + postCnt = Ring /\ hwHead \in Int /\ Ring \in Int
         /\ \A p \in Procs : run[p].n \in 0 .. Ring
<1>1. /\ hwCnt \in 0 .. Word - 1 /\ freeCnt \in 0 .. Word - 1 /\ postCnt \in 0 .. Word - 1
      /\ hwHead \in Bds
  BY AlwaysIs DEF CntTypes, HeadTypes
<1>2. freeCnt + hwCnt + postCnt = Ring
  BY DEF Regions
<1>3. \A p \in Procs : run[p].n \in 0 .. Ring
  BY AlwaysIs, CallFields
<1> QED
  BY <1>1, <1>2, <1>3, Sizes DEF Bds

(* While one context works the other does not.                             *)
LEMMA OtherIdle ==
  ASSUME Always, Regions, NEW p \in Procs, MayRun(p), p = "isr" => run[p].pc # "idle",
         NEW q \in Procs, q # p
  PROVE  run[q].pc \in {"idle", "send"} /\ run[q].n = 0 /\ postCnt = run[p].n
<1>1. run[q].pc \in {"idle", "send"}
  BY ProcsAre DEF MayRun, Regions
<1>2. run[q].n = 0
  BY <1>1, AlwaysIs DEF AllOK, CallOK, Rest
<1>3. run[p].n \in Int /\ postCnt = run["task"].n + run["isr"].n
  BY CountsAre DEF Regions
<1> QED
  BY <1>1, <1>2, <1>3, ProcsAre

LEMMA RegionsFor ==
  ASSUME Always, NEW p \in Procs,
         \A q \in Procs : q # p => run[q].pc \in {"idle", "send"} /\ run'[q] = run[q],
         preCnt' = 0, freeCnt' + hwCnt' + postCnt' = Ring, run'[p].n \in Int, postCnt' = run'[p].n,
         postHead' = Ahead(hwHead', hwCnt' + freeCnt'), freeHead' = Ahead(hwHead', hwCnt'),
         preHead' = freeHead',
         run'[p].pc \in {"wipe", "free"} => run'[p].set = postHead',
         run'[p].pc = "scan" => run'[p].limit = hwCnt',
         \A i \in 0 .. Ring - 1 : hwCnt' <= i /\ i < hwCnt' + freeCnt' => Blank(At(i))',
         run'[p].pc = "free" => \A i \in 0 .. Ring - 1 : hwCnt' + freeCnt' <= i => Blank(At(i))'
  PROVE  Regions'
<1>1. \A q \in Procs : q # p => run'[q].pc \in {"idle", "send"} /\ run'[q].n = 0
  BY AlwaysIs DEF AllOK, CallOK, Rest
<1>2. run'["isr"].pc = "idle" \/ run'["task"].pc \in {"idle", "send"}
  BY <1>1, AlwaysIs, ProcsAre DEF Sending
<1>3. postCnt' = run'["task"].n + run'["isr"].n
  <2>1. CASE p = "task"
    <3>1. run'["isr"].n = 0
      BY <1>1, <2>1, ProcsAre
    <3> QED
      BY <2>1, <3>1
  <2>2. CASE p = "isr"
    <3>1. run'["task"].n = 0
      BY <1>1, <2>2, ProcsAre
    <3> QED
      BY <2>2, <3>1
  <2> QED
    BY <2>1, <2>2, ProcsAre
<1>4. /\ \A q \in Procs : run'[q].pc \in {"wipe", "free"} => run'[q].set = postHead'
      /\ \A q \in Procs : run'[q].pc = "scan" => run'[q].limit = hwCnt'
      /\ \A q \in Procs : run'[q].pc = "free" => q = p
  BY <1>1
<1>5. postHead' = At(hwCnt + freeCnt)' /\ freeHead' = At(hwCnt)'
  BY DEF At
<1>6. (\E q \in Procs : run[q].pc = "free")' =>
        (\A i \in 0 .. Ring - 1 : hwCnt + freeCnt <= i => Blank(At(i)))'
  BY <1>4
<1> QED
  BY <1>2, <1>3, <1>4, <1>5, <1>6 DEF Regions

LEMMA InitRegions == Init => Regions
<1> SUFFICES ASSUME Init PROVE Regions
  OBVIOUS
<1>1. \A p \in Procs : run[p] = Idle
  BY DEF Init
<1>2. Idle.pc = "idle" /\ Idle.n = 0
  BY DEF Idle
<1>3. 0 \in Bds /\ Ahead(0, 0) = 0 /\ Ahead(0, Ring) = 0
  <2>1. 0 \in Bds
    BY Sizes DEF Bds
  <2> QED
    BY <2>1, AheadTurn
<1>4. /\ hwHead = 0 /\ hwCnt = 0 /\ preHead = 0 /\ preCnt = 0
      /\ postHead = 0 /\ postCnt = 0 /\ freeHead = 0 /\ freeCnt = Ring
  BY DEF Init
<1>5. \A i \in 0 .. Ring - 1 : Blank(At(i))
  <2> TAKE i \in 0 .. Ring - 1
  <2>1. At(i) \in Bds
    BY <1>4, AheadIn DEF At
  <2> QED
    BY <2>1 DEF Blank, Init
<1>6. run["task"].n = 0 /\ run["isr"].n = 0
  BY <1>1, <1>2, ProcsAre
<1>7. hwCnt + freeCnt = Ring /\ freeCnt + hwCnt + postCnt = Ring /\ 0 + 0 = 0
  BY <1>4, Sizes
<1>8. postHead = At(hwCnt + freeCnt) /\ freeHead = At(hwCnt) /\ preHead = freeHead
  BY <1>3, <1>4, <1>7 DEF At
<1>9. postCnt = run["task"].n + run["isr"].n
  BY <1>4, <1>6
<1> QED
  BY <1>1, <1>2, <1>4, <1>5, <1>7, <1>8, <1>9, ProcsAre DEF Regions

(* Nothing but the calls and the marks of the GMAC has changed.            *)
LEMMA SameRegions ==
  ASSUME Always, Regions, NEW p \in Procs,
         \A q \in Procs : q # p => run[q].pc \in {"idle", "send"} /\ run'[q] = run[q],
         UNCHANGED ring, postCnt = run[p].n, run'[p].n = run[p].n,
         run'[p].pc \notin {"wipe", "free"},
         run'[p].pc = "scan" => run'[p].limit = hwCnt,
         UNCHANGED bds
  PROVE  Regions'
<1>1. UNCHANGED <<hwHead, hwCnt, preHead, preCnt, postHead, postCnt, freeHead, freeCnt>>
  BY DEF ring
<1>2. UNCHANGED <<used, lastBd, store>>
  BY DEF bds
<1>3. \A i \in 0 .. Ring - 1 : hwCnt' <= i /\ i < hwCnt' + freeCnt' => Blank(At(i))'
  BY <1>1, <1>2 DEF Regions, Blank, At
<1>4. /\ preCnt' = 0 /\ freeCnt' + hwCnt' + postCnt' = Ring
      /\ postHead' = Ahead(hwHead', hwCnt' + freeCnt') /\ freeHead' = Ahead(hwHead', hwCnt')
      /\ preHead' = freeHead'
  BY <1>1 DEF Regions, At
<1>5. run'[p].n \in Int /\ postCnt' = run'[p].n
  BY <1>1, CountsAre
<1> QED
  BY <1>1, <1>3, <1>4, <1>5, RegionsFor

LEMMA TransmitRegions == Always /\ Regions /\ Transmit => Regions'
<1> SUFFICES ASSUME Always, Regions, Transmit PROVE Regions'
  OBVIOUS
<1>1. used' = [used EXCEPT ![dma] = TRUE] /\ UNCHANGED <<lastBd, store, run>> /\ UNCHANGED ring
  BY TransmitIs
<1>2. UNCHANGED <<hwHead, hwCnt, preHead, preCnt, postHead, postCnt, freeHead, freeCnt>>
  BY <1>1 DEF ring
<1>3. \A i \in Int : At(i)' = At(i) /\ At(i) \in Bds
  BY <1>2, AtIn DEF At, Always
<1>4. \A bd \in Bds : Blank(bd) => Blank(bd)'
  BY <1>1, AlwaysIs DEF Blank, BdTypes
<1>5. \A i \in 0 .. Ring - 1 : Blank(At(i)) => Blank(At(i))'
  <2> SUFFICES ASSUME NEW i \in 0 .. Ring - 1, Blank(At(i)) PROVE Blank(At(i))'
    OBVIOUS
  <2>1. At(i)' = At(i) /\ At(i) \in Bds
    BY <1>3
  <2> QED
    BY <1>4, <2>1 DEF Blank
<1>6. \A i \in 0 .. Ring - 1 : hwCnt' <= i /\ i < hwCnt' + freeCnt' => Blank(At(i))'
  BY <1>2, <1>5 DEF Regions
<1>7. (\E p \in Procs : run[p].pc = "free")' =>
        \A i \in 0 .. Ring - 1 : hwCnt' + freeCnt' <= i => Blank(At(i))'
  BY <1>1, <1>2, <1>5 DEF Regions
<1>8. /\ run["isr"].pc = "idle" \/ run["task"].pc \in {"idle", "send"}
      /\ preCnt = 0 /\ freeCnt + hwCnt + postCnt = Ring
      /\ postCnt = run["task"].n + run["isr"].n
      /\ postHead = At(hwCnt + freeCnt) /\ freeHead = At(hwCnt) /\ preHead = freeHead
      /\ \A p \in Procs : run[p].pc \in {"wipe", "free"} => run[p].set = postHead
      /\ \A p \in Procs : run[p].pc = "scan" => run[p].limit = hwCnt
  BY DEF Regions
<1> QED
  BY <1>1, <1>2, <1>6, <1>7, <1>8 DEF Regions, At

LEMMA InterruptRegions == Always /\ Regions /\ Interrupt /\ ~raced' => Regions'
<1> SUFFICES ASSUME Always, Regions, Interrupt, ~raced' PROVE Regions'
  OBVIOUS
<1>1. /\ run["isr"].pc = "idle" /\ run' = [run EXCEPT !["isr"].pc = "start"]
      /\ run["task"].pc \in {"idle", "send"}
      /\ UNCHANGED bds /\ UNCHANGED ring
  BY DEF Interrupt
<1>2. /\ run'["isr"].pc = "start" /\ run'["isr"].n = run["isr"].n
      /\ \A q \in Procs : q # "isr" => run'[q] = run[q]
  BY <1>1, PcChanges, AlwaysIs, ProcsAre DEF Pcs
<1>3. run["task"].pc \in {"idle", "send"}
  BY <1>1
<1>4. run["task"].n = 0 /\ postCnt = run["isr"].n
  <2>1. run["task"].n = 0
    BY <1>3, AlwaysIs, ProcsAre DEF AllOK, CallOK, Rest
  <2>2. postCnt = run["task"].n + run["isr"].n /\ run["isr"].n \in Int
    BY CountsAre, ProcsAre DEF Regions
  <2> QED
    BY <2>1, <2>2
<1>5. \A q \in Procs : q # "isr" => run[q].pc \in {"idle", "send"} /\ run'[q] = run[q]
  BY <1>2, <1>3, ProcsAre
<1> QED
  BY <1>1, <1>2, <1>4, <1>5, SameRegions, ProcsAre

LEMMA StartRegions == ASSUME NEW p \in Procs PROVE Always /\ Regions /\ Start(p) => Regions'
<1> SUFFICES ASSUME Always, Regions, Start(p) PROVE Regions'
  OBVIOUS
<1> DEFINE r == IF hwCnt = 0 THEN Return(p) ELSE Scans
<1>1. /\ MayRun(p) /\ run[p].pc = "start" /\ run' = [run EXCEPT ![p] = r]
      /\ UNCHANGED bds /\ UNCHANGED ring
  BY StartIs
<1>2. Limit = hwCnt
  BY CountsAre DEF Limit, Least
<1>3. /\ r \in Call /\ r.n = 0 /\ r.pc \notin {"wipe", "free"}
      /\ r.pc = "scan" => r.limit = hwCnt
  BY <1>2, ReturnIs, ScansIs
<1> HIDE DEF r
<1>4. run'[p] = r /\ \A q \in Procs : q # p => run'[q] = run[q]
  BY <1>1, <1>3, RunChanges, AlwaysIs
<1>5. run[p].n = 0
  BY <1>1, AlwaysIs DEF AllOK, CallOK, Rest
<1>6. \A q \in Procs : q # p => run[q].pc \in {"idle", "send"} /\ postCnt = run[p].n
  BY <1>1, OtherIdle
<1>7. postCnt = run[p].n
  BY <1>6, ProcsAre
<1> QED
  BY <1>1, <1>3, <1>4, <1>5, <1>6, <1>7, SameRegions

LEMMA ScanRegions == ASSUME NEW p \in Procs PROVE Always /\ Regions /\ Scan(p) => Regions'
<1> SUFFICES ASSUME Always, Regions, Scan(p) PROVE Regions'
  OBVIOUS
<1> DEFINE r == Turned(run[p])
<1>1. /\ MayRun(p) /\ run[p].pc = "scan" /\ run[p].count < run[p].limit
      /\ run' = [run EXCEPT ![p] = r] /\ UNCHANGED bds /\ UNCHANGED ring
  BY ScanIs
<1>2. run[p] \in Call /\ CallOK(run[p])
  BY AlwaysIs DEF AllOK
<1>3. r \in Call /\ r.pc = "scan" /\ r.n = 0 /\ r.limit = run[p].limit
  BY <1>1, <1>2, TurnedIs
<1> HIDE DEF r
<1>4. run'[p] = r /\ \A q \in Procs : q # p => run'[q] = run[q]
  BY <1>1, <1>3, RunChanges, AlwaysIs
<1>5. run[p].n = 0 /\ run[p].limit = hwCnt
  BY <1>1, <1>2 DEF CallOK, Rest, Regions
<1>6. \A q \in Procs : q # p => run[q].pc \in {"idle", "send"} /\ postCnt = run[p].n
  BY <1>1, OtherIdle
<1>7. postCnt = run[p].n
  BY <1>6, ProcsAre
<1> QED
  BY <1>1, <1>3, <1>4, <1>5, <1>6, <1>7, SameRegions

LEMMA SmallMod ==
  ASSUME NEW x \in 0 .. Ring
  PROVE  x % Word = x
<1>1. x \in Int /\ 0 <= x /\ x < Word
  BY Sizes
<1> QED
  BY <1>1, Sizes

LEMMA AtAhead ==
  ASSUME TypeOK, NEW i \in Int, NEW k \in Int
  PROVE  Ahead(At(i), k) = At(i + k)
<1>1. hwHead \in Int
  BY Sizes DEF TypeOK, Bds
<1> QED
  BY <1>1, AheadAhead DEF At

LEMMA AtTurn ==
  ASSUME TypeOK
  PROVE  At(0) = hwHead /\ At(Ring) = hwHead
BY AheadTurn DEF At, TypeOK

(* What the step is when BDs are taken.                                    *)
LEMMA TakesSet ==
  ASSUME Always, Regions, NEW p \in Procs, Update(p), Taken(run[p]) # 0
  PROVE  LET n == Taken(run[p])
         IN /\ n \in 1 .. Ring /\ n <= hwCnt /\ postCnt = 0 /\ hwCnt + freeCnt = Ring
            /\ hwHead = postHead /\ hwHead' = At(n) /\ hwCnt' = hwCnt - n /\ postCnt' = n
            /\ run'[p] = Holds(n) /\ run'[p].pc = "wipe" /\ run'[p].set = hwHead /\ run'[p].n = n
            /\ run'[p] \in Call
            /\ \A q \in Procs : q # p => run[q].pc \in {"idle", "send"} /\ run'[q] = run[q]
            /\ UNCHANGED <<preHead, preCnt, postHead, freeHead, freeCnt>>
            /\ UNCHANGED <<used, lastBd, store, dma, queued, sent, raced, crowded>>
<1> DEFINE n == Taken(run[p])
<1>1. /\ MayRun(p) /\ run[p].pc = "scan"
      /\ run' = [run EXCEPT ![p] = Holds(n)]
      /\ hwCnt' = (hwCnt - n) % Word /\ postCnt' = (postCnt + n) % Word
      /\ hwHead' = Ahead(hwHead, n)
      /\ UNCHANGED <<preHead, preCnt, postHead, freeHead, freeCnt>>
      /\ UNCHANGED <<bds, dma, irq, frame, chain, queued, sent, raced, crowded>>
  BY UpdateIs
<1>2. n \in 0 .. Ring /\ n <= run[p].limit
  BY <1>1, TakenRange
<1>3. n # 0
  OBVIOUS
<1> HIDE DEF n
<1>4. run[p].limit = hwCnt /\ run[p].n = 0
  BY <1>1, AlwaysIs DEF Regions, AllOK, CallOK, Rest
<1>5. \A q \in Procs : q # p => run[q].pc \in {"idle", "send"} /\ postCnt = run[p].n
  BY <1>1, OtherIdle
<1>6. postCnt = 0
  BY <1>4, <1>5, ProcsAre
<1>7. n \in 1 .. Ring /\ n <= hwCnt /\ hwCnt + freeCnt = Ring /\ hwCnt - n \in 0 .. Ring /\ postCnt + n = n
  BY <1>2, <1>3, <1>4, <1>6, CountsAre
<1>8. hwCnt' = hwCnt - n /\ postCnt' = n
  <2>1. (hwCnt - n) % Word = hwCnt - n
    BY <1>7, SmallMod
  <2>2. (postCnt + n) % Word = n
    BY <1>2, <1>7, SmallMod
  <2> QED
    BY <1>1, <2>1, <2>2
<1>9. hwHead = postHead
  BY <1>7, AtTurn DEF Regions, Always
<1>10. Holds(n) \in Call /\ Holds(n).pc = "wipe" /\ Holds(n).set = hwHead /\ Holds(n).n = n
  BY <1>7, HoldsIs
<1>11. run'[p] = Holds(n) /\ \A q \in Procs : q # p => run'[q] = run[q]
  BY <1>1, <1>10, RunChanges, AlwaysIs
<1>12. hwHead' = At(n)
  BY <1>1 DEF At
<1>13. UNCHANGED <<used, lastBd, store, dma, queued, sent, raced, crowded>>
  BY <1>1 DEF bds
<1> QED
  BY <1>1, <1>5, <1>6, <1>7, <1>8, <1>9, <1>10, <1>11, <1>12, <1>13 DEF n

LEMMA UpdateRegions == ASSUME NEW p \in Procs PROVE Always /\ Regions /\ Update(p) => Regions'
<1> SUFFICES ASSUME Always, Regions, Update(p) PROVE Regions'
  OBVIOUS
<1> DEFINE n == Taken(run[p])
<1>1. CASE n = 0
  <2>1. /\ MayRun(p) /\ run[p].pc = "scan" /\ run' = [run EXCEPT ![p] = Return(p)]
        /\ UNCHANGED bds /\ UNCHANGED ring
    BY <1>1, UpdateIs
  <2>2. /\ Return(p) \in Call /\ Return(p).n = 0 /\ Return(p).pc \notin {"scan", "wipe", "free"}
    BY ReturnIs
  <2>3. run'[p] = Return(p) /\ \A q \in Procs : q # p => run'[q] = run[q]
    BY <2>1, <2>2, RunChanges, AlwaysIs
  <2>4. run[p].n = 0
    BY <2>1, AlwaysIs DEF AllOK, CallOK, Rest
  <2>5. \A q \in Procs : q # p => run[q].pc \in {"idle", "send"} /\ postCnt = run[p].n
    BY <2>1, OtherIdle
  <2>6. postCnt = run[p].n
    BY <2>5, ProcsAre
  <2> QED
    BY <2>1, <2>2, <2>3, <2>4, <2>5, <2>6, SameRegions
<1>2. CASE n # 0
  <2>1. /\ n \in 1 .. Ring /\ n <= hwCnt /\ postCnt = 0 /\ hwCnt + freeCnt = Ring
        /\ hwHead = postHead /\ hwHead' = At(n) /\ hwCnt' = hwCnt - n /\ postCnt' = n
        /\ run'[p].pc = "wipe" /\ run'[p].set = hwHead /\ run'[p].n = n
        /\ \A q \in Procs : q # p => run[q].pc \in {"idle", "send"} /\ run'[q] = run[q]
        /\ UNCHANGED <<preHead, preCnt, postHead, freeHead, freeCnt>>
        /\ UNCHANGED <<used, lastBd, store>>
    BY <1>2, TakesSet
  <2>2. /\ hwCnt \in 0 .. Ring /\ freeCnt \in 0 .. Ring /\ Ring \in Int /\ TypeOK
    BY CountsAre DEF Always
  <2> HIDE DEF n
  <2>3. n \in Int /\ hwCnt \in Int /\ freeCnt \in Int
    BY <2>1, <2>2
  <2>4. \A i \in Int : Ahead(hwHead', i) = At(n + i)
    BY <2>1, <2>2, <2>3, AtAhead
  <2>5. postHead' = Ahead(hwHead', hwCnt' + freeCnt')
    <3>1. hwCnt' + freeCnt' \in Int /\ n + (hwCnt' + freeCnt') = hwCnt + freeCnt
      BY <2>1, <2>3
    <3>2. postHead = At(hwCnt + freeCnt)
      BY DEF Regions
    <3>3. Ahead(hwHead', hwCnt' + freeCnt') = At(n + (hwCnt' + freeCnt'))
      BY <2>4, <3>1
    <3> QED
      BY <2>1, <3>1, <3>2, <3>3
  <2>6. freeHead' = Ahead(hwHead', hwCnt') /\ preHead' = freeHead'
    <3>1. hwCnt' \in Int /\ n + hwCnt' = hwCnt
      BY <2>1, <2>3
    <3>2. freeHead = At(hwCnt) /\ preHead = freeHead
      BY DEF Regions
    <3>3. Ahead(hwHead', hwCnt') = At(n + hwCnt')
      BY <2>4, <3>1
    <3> QED
      BY <2>1, <3>1, <3>2, <3>3
  <2>7. ASSUME NEW i \in 0 .. Ring - 1, hwCnt' <= i, i < hwCnt' + freeCnt' PROVE Blank(At(i))'
    <3>1. n + i \in 0 .. Ring - 1 /\ hwCnt <= n + i /\ n + i < hwCnt + freeCnt /\ i \in Int
      BY <2>1, <2>2, <2>3, <2>7
    <3>2. Blank(At(n + i))
      BY <3>1 DEF Regions
    <3>3. At(i)' = At(n + i)
      BY <2>4, <3>1 DEF At
    <3> QED
      BY <2>1, <3>2, <3>3 DEF Blank
  <2>8. preCnt' = 0 /\ freeCnt' + hwCnt' + postCnt' = Ring
    BY <2>1, <2>2, <2>3 DEF Regions
  <2> QED
    BY <2>1, <2>3, <2>5, <2>6, <2>7, <2>8, RegionsFor
<1> QED
  BY <1>1, <1>2

(* The set in hand is the last region.                                     *)
LEMMA SetIs ==
  ASSUME Always, Regions, NEW p \in Procs, MayRun(p), run[p].pc \in {"wipe", "free"}
  PROVE  /\ run[p].set = postHead /\ run[p].n = postCnt
         /\ \A q \in Procs : q # p => run[q].pc \in {"idle", "send"}
         /\ \A i \in 0 .. Ring - 1 : At(i) \in Span(run[p].set, run[p].n) <=> hwCnt + freeCnt <= i
<1>1. \A q \in Procs : q # p => run[q].pc \in {"idle", "send"} /\ postCnt = run[p].n
  BY OtherIdle
<1>2. run[p].set = postHead /\ run[p].n = postCnt
  BY <1>1, ProcsAre DEF Regions
<1>3. ASSUME NEW i \in 0 .. Ring - 1
      PROVE  At(i) \in Span(run[p].set, run[p].n) <=> hwCnt + freeCnt <= i
  <2>1. /\ hwCnt \in 0 .. Ring /\ freeCnt \in 0 .. Ring /\ postCnt \in 0 .. Ring
        /\ freeCnt + hwCnt + postCnt = Ring /\ hwHead \in Bds /\ Ring \in Int
    BY CountsAre, AlwaysIs DEF HeadTypes
  <2>2. hwCnt + freeCnt \in Nat /\ postCnt \in Nat /\ (hwCnt + freeCnt) + postCnt = Ring
    BY <2>1
  <2>3. Ahead(hwHead, i) \in Span(Ahead(hwHead, hwCnt + freeCnt), postCnt)
          <=> hwCnt + freeCnt <= i /\ i < (hwCnt + freeCnt) + postCnt
    BY <2>1, <2>2, InSpan
  <2>4. postHead = Ahead(hwHead, hwCnt + freeCnt)
    BY DEF Regions, At
  <2> QED
    BY <1>2, <2>1, <2>2, <2>3, <2>4 DEF At
<1> QED
  BY <1>1, <1>2, <1>3

LEMMA WipeRegions == ASSUME NEW p \in Procs PROVE Always /\ Regions /\ Wipe(p) => Regions'
<1> SUFFICES ASSUME Always, Regions, Wipe(p) PROVE Regions'
  OBVIOUS
<1> DEFINE set == Span(run[p].set, run[p].n)
<1>1. /\ MayRun(p) /\ run[p].pc = "wipe" /\ run' = [run EXCEPT ![p].pc = "free"] /\ UNCHANGED ring
      /\ used' = [bd \in Bds |-> used[bd] \/ bd \in set]
      /\ lastBd' = [bd \in Bds |-> lastBd[bd] /\ bd \notin set]
      /\ store' = [bd \in Bds |-> IF bd \in set THEN 0 ELSE store[bd]]
  BY WipeIs
<1>2. UNCHANGED <<hwHead, hwCnt, preHead, preCnt, postHead, postCnt, freeHead, freeCnt>>
  BY <1>1 DEF ring
<1>3. /\ run[p].set = postHead /\ run[p].n = postCnt
      /\ \A q \in Procs : q # p => run[q].pc \in {"idle", "send"}
      /\ \A i \in 0 .. Ring - 1 : At(i) \in set <=> hwCnt + freeCnt <= i
  BY <1>1, SetIs
<1> HIDE DEF set
<1>4. /\ run'[p].pc = "free" /\ run'[p].n = run[p].n /\ run'[p].set = run[p].set
      /\ \A q \in Procs : q # p => run'[q] = run[q]
  BY <1>1, PcChanges, AlwaysIs DEF Pcs
<1>5. \A i \in Int : At(i)' = At(i) /\ At(i) \in Bds
  BY <1>2, AtIn DEF At, Always
<1>6. \A bd \in Bds : Blank(bd) \/ bd \in set => Blank(bd)'
  BY <1>1 DEF Blank
<1>7. ASSUME NEW i \in 0 .. Ring - 1, Blank(At(i)) \/ hwCnt + freeCnt <= i PROVE Blank(At(i))'
  <2>1. At(i)' = At(i) /\ At(i) \in Bds
    BY <1>5
  <2>2. Blank(At(i)) \/ At(i) \in set
    BY <1>3, <1>7
  <2> QED
    BY <1>6, <2>1, <2>2 DEF Blank
<1>8. \A i \in 0 .. Ring - 1 : hwCnt' <= i /\ i < hwCnt' + freeCnt' => Blank(At(i))'
  BY <1>2, <1>7 DEF Regions
<1>9. \A i \in 0 .. Ring - 1 : hwCnt' + freeCnt' <= i => Blank(At(i))'
  BY <1>2, <1>7
<1>10. /\ preCnt' = 0 /\ freeCnt' + hwCnt' + postCnt' = Ring
       /\ postHead' = Ahead(hwHead', hwCnt' + freeCnt') /\ freeHead' = Ahead(hwHead', hwCnt')
       /\ preHead' = freeHead'
  BY <1>2 DEF Regions, At
<1>11. run'[p].n \in Int /\ postCnt' = run'[p].n /\ run'[p].set = postHead'
  BY <1>2, <1>3, <1>4, CountsAre
<1> QED
  BY <1>3, <1>4, <1>8, <1>9, <1>10, <1>11, RegionsFor

LEMMA FreesSet ==
  ASSUME Always, Regions, NEW p \in Procs, BdRingFree(p)
  PROVE  /\ freeCnt' = freeCnt + postCnt /\ postCnt' = 0 /\ postHead' = At(Ring)
         /\ run'[p].pc = "start" /\ run'[p].n = 0
         /\ \A q \in Procs : q # p => run[q].pc \in {"idle", "send"} /\ run'[q] = run[q]
         /\ \A i \in 0 .. Ring - 1 : hwCnt <= i => Blank(At(i))
         /\ UNCHANGED <<bds, hwHead, hwCnt, preHead, preCnt, freeHead, dma, irq, frame, chain, history>>
<1>1. /\ MayRun(p) /\ run[p].pc = "free" /\ run' = [run EXCEPT ![p] = [Idle EXCEPT !.pc = "start"]]
      /\ UNCHANGED <<bds, hwHead, hwCnt, preHead, preCnt, freeHead, dma, irq, frame, chain, history>>
  BY FreeIs
<1>2. /\ run[p].set = postHead /\ run[p].n = postCnt
      /\ \A q \in Procs : q # p => run[q].pc \in {"idle", "send"}
  BY <1>1, SetIs
<1>3. /\ run'[p] = [Idle EXCEPT !.pc = "start"]
      /\ \A q \in Procs : q # p => run'[q] = run[q]
  BY <1>1, StartsCall, RunChanges, AlwaysIs
<1>4. /\ hwCnt \in 0 .. Ring /\ freeCnt \in 0 .. Ring /\ postCnt \in 0 .. Ring
      /\ freeCnt + hwCnt + postCnt = Ring /\ Ring \in Int
  BY CountsAre
<1>5. InStep(run[p])
  BY <1>2, <1>4 DEF InStep
<1>6. freeCnt' = (freeCnt + postCnt) % Word /\ postCnt' = postCnt - postCnt /\ postHead' = Ahead(postHead, postCnt)
  BY <1>2, <1>5, FreeIs
<1>7. freeCnt' = freeCnt + postCnt /\ postCnt' = 0
  <2>1. freeCnt + postCnt \in 0 .. Ring /\ postCnt - postCnt = 0
    BY <1>4
  <2> QED
    BY <1>6, <2>1, SmallMod
<1>8. postHead' = At(Ring)
  <2>1. hwCnt + freeCnt \in Int /\ postCnt \in Int /\ (hwCnt + freeCnt) + postCnt = Ring
    BY <1>4
  <2>2. Ahead(At(hwCnt + freeCnt), postCnt) = At((hwCnt + freeCnt) + postCnt)
    BY <2>1, AtAhead DEF Always
  <2>3. postHead = At(hwCnt + freeCnt)
    BY DEF Regions
  <2> QED
    BY <1>6, <2>1, <2>2, <2>3
<1>9. \A i \in 0 .. Ring - 1 : hwCnt <= i => Blank(At(i))
  <2> SUFFICES ASSUME NEW i \in 0 .. Ring - 1, hwCnt <= i PROVE Blank(At(i))
    OBVIOUS
  <2>1. i < hwCnt + freeCnt \/ hwCnt + freeCnt <= i
    BY <1>4
  <2> QED
    BY <1>1, <2>1 DEF Regions
<1> QED
  BY <1>1, <1>2, <1>3, <1>7, <1>8, <1>9, StartsCall

LEMMA FreeRegions == ASSUME NEW p \in Procs PROVE Always /\ Regions /\ BdRingFree(p) => Regions'
<1> SUFFICES ASSUME Always, Regions, BdRingFree(p) PROVE Regions'
  OBVIOUS
<1>1. /\ freeCnt' = freeCnt + postCnt /\ postCnt' = 0 /\ postHead' = At(Ring)
      /\ run'[p].pc = "start" /\ run'[p].n = 0
      /\ \A q \in Procs : q # p => run[q].pc \in {"idle", "send"} /\ run'[q] = run[q]
      /\ \A i \in 0 .. Ring - 1 : hwCnt <= i => Blank(At(i))
      /\ UNCHANGED <<bds, hwHead, hwCnt, preHead, preCnt, freeHead, dma, irq, frame, chain, history>>
  BY FreesSet
<1>2. /\ hwCnt \in 0 .. Ring /\ freeCnt \in 0 .. Ring /\ postCnt \in 0 .. Ring
      /\ freeCnt + hwCnt + postCnt = Ring /\ Ring \in Int
  BY CountsAre
<1>3. hwCnt' + freeCnt' = Ring /\ freeCnt' + hwCnt' + postCnt' = Ring
  BY <1>1, <1>2
<1>4. /\ preCnt' = 0 /\ freeHead' = Ahead(hwHead', hwCnt') /\ preHead' = freeHead'
      /\ postHead' = Ahead(hwHead', hwCnt' + freeCnt')
  BY <1>1, <1>3 DEF Regions, At
<1>5. \A i \in 0 .. Ring - 1 : hwCnt' <= i /\ i < hwCnt' + freeCnt' => Blank(At(i))'
  BY <1>1 DEF Blank, At, bds
<1>6. run'[p].n \in Int
  BY <1>1
<1> QED
  BY <1>1, <1>3, <1>4, <1>5, <1>6, RegionsFor

LEMMA OutputRegions ==
  ASSUME NEW pbufs \in 1 .. 2 PROVE Always /\ Regions /\ LowLevelOutput(pbufs) => Regions'
<1> SUFFICES ASSUME Always, Regions, LowLevelOutput(pbufs) PROVE Regions'
  OBVIOUS
<1> DEFINE pc == IF freeCnt <= Low THEN "start" ELSE "send"
<1>1. /\ MayRun("task") /\ run["task"].pc = "idle" /\ run' = [run EXCEPT !["task"].pc = pc]
      /\ UNCHANGED bds /\ UNCHANGED ring
  BY OutputIs
<1>2. pc \in {"start", "send"} /\ pc \in Pcs
  BY DEF Pcs
<1> HIDE DEF pc
<1>3. /\ run'["task"].pc = pc /\ run'["task"].n = run["task"].n
      /\ \A q \in Procs : q # "task" => run'[q] = run[q]
  BY <1>1, <1>2, PcChanges, AlwaysIs, ProcsAre
<1>4. \A q \in Procs : q # "task" => run[q].pc \in {"idle", "send"} /\ postCnt = run["task"].n
  BY <1>1, OtherIdle, ProcsAre
<1>5. postCnt = run["task"].n
  BY <1>4, ProcsAre
<1> QED
  BY <1>1, <1>2, <1>3, <1>4, <1>5, SameRegions, ProcsAre

(* A frame that gets its BDs.                                              *)
LEMMA Sends ==
  ASSUME Always, Regions, Sgsend, ~(freeCnt < chain)
  PROVE  /\ chain \in 1 .. 2 /\ hwCnt + chain <= Ring
         /\ freeHead' = At(hwCnt + chain) /\ preHead' = freeHead' /\ freeCnt' = freeCnt - chain
         /\ hwCnt' = hwCnt + chain /\ queued' = queued \cup {frame}
         /\ UNCHANGED <<preCnt, hwHead, postHead, postCnt>>
         /\ \A i \in 0 .. Ring - 1 : At(i)' = At(i) /\ At(i) \in Bds
         /\ \A i \in 0 .. Ring - 1 : hwCnt <= i /\ i < hwCnt + chain =>
              /\ store'[At(i)] = frame /\ ~used'[At(i)]
              /\ lastBd'[At(i)] <=> i = (hwCnt + chain) - 1
         /\ \A i \in 0 .. Ring - 1 : ~(hwCnt <= i /\ i < hwCnt + chain) =>
              /\ store'[At(i)] = store[At(i)] /\ used'[At(i)] = used[At(i)]
              /\ lastBd'[At(i)] = lastBd[At(i)]
<1> DEFINE set == Span(freeHead, chain)
<1>1. /\ run["task"].pc = "send" /\ freeCnt' = freeCnt - chain /\ freeHead' = Ahead(freeHead, chain)
      /\ UNCHANGED <<hwHead, postHead, postCnt>>
      /\ store' = [bd \in Bds |-> IF bd \in Mine THEN frame ELSE store[bd]]
      /\ used' = [bd \in Bds |-> used[bd] /\ (Busy # {} \/ bd \notin set)]
      /\ lastBd' = [bd \in Bds |-> IF bd \in Mine THEN Busy = {} /\ bd = Ahead(freeHead, chain - 1)
                                   ELSE lastBd[bd]]
  BY SgsendIs
<1>2. chain \in 1 .. 2
  BY <1>1, AlwaysIs DEF Sending
<1>3. /\ hwCnt \in 0 .. Ring /\ freeCnt \in 0 .. Ring /\ postCnt \in 0 .. Ring
      /\ freeCnt + hwCnt + postCnt = Ring /\ Ring \in Int /\ TypeOK /\ hwHead \in Bds
  BY CountsAre, AlwaysIs DEF Always, HeadTypes
<1>4. chain <= freeCnt /\ hwCnt + chain <= Ring
  BY <1>2, <1>3
<1>5. freeHead = At(hwCnt) /\ preHead = freeHead
  BY DEF Regions
<1>6. \A k \in Int : Ahead(freeHead, k) = At(hwCnt + k)
  BY <1>3, <1>5, AtAhead
<1>7. Busy = {}
  <2> SUFFICES ASSUME NEW k \in 0 .. chain - 1 PROVE store[Ahead(freeHead, k)] = 0
    BY DEF Busy
  <2>1. hwCnt + k \in 0 .. Ring - 1 /\ hwCnt <= hwCnt + k /\ hwCnt + k < hwCnt + freeCnt /\ k \in Int
    BY <1>2, <1>3, <1>4
  <2>2. Blank(At(hwCnt + k))
    BY <2>1 DEF Regions
  <2> QED
    BY <1>6, <2>1, <2>2 DEF Blank
<1>8. Mine = set /\ ToHw
  BY <1>5, <1>7 DEF Mine, ToHw
<1>9. /\ preHead' = Ahead(preHead, chain) /\ hwCnt' = (hwCnt + chain) % Word
      /\ queued' = queued \cup {frame} /\ UNCHANGED preCnt
  BY <1>8, SgsendIs
<1>10. hwCnt' = hwCnt + chain
  <2>1. hwCnt + chain \in 0 .. Ring
    BY <1>2, <1>3, <1>4
  <2> QED
    BY <1>9, <2>1, SmallMod
<1>11. freeHead' = At(hwCnt + chain) /\ preHead' = freeHead'
  BY <1>1, <1>2, <1>5, <1>6, <1>9
<1>12. \A i \in 0 .. Ring - 1 : At(i) \in set <=> hwCnt <= i /\ i < hwCnt + chain
  <2> TAKE i \in 0 .. Ring - 1
  <2>1. hwCnt \in Nat /\ chain \in Nat
    BY <1>2, <1>3
  <2>2. Ahead(hwHead, i) \in Span(Ahead(hwHead, hwCnt), chain) <=> hwCnt <= i /\ i < hwCnt + chain
    BY <1>3, <1>4, <2>1, InSpan
  <2> QED
    BY <1>5, <2>2 DEF At
<1>13. \A i \in 0 .. Ring - 1 : At(i)' = At(i) /\ At(i) \in Bds
  <2> TAKE i \in 0 .. Ring - 1
  <2>1. i \in Int
    OBVIOUS
  <2> QED
    BY <1>1, <1>3, <2>1, AtIn DEF At
<1> HIDE DEF set
<1>14. \A i \in 0 .. Ring - 1 : At(i) \in set => store'[At(i)] = frame /\ ~used'[At(i)]
  BY <1>1, <1>7, <1>8, <1>13
<1>15. \A i \in 0 .. Ring - 1 : At(i) \in set => (lastBd'[At(i)] <=> i = (hwCnt + chain) - 1)
  <2> SUFFICES ASSUME NEW i \in 0 .. Ring - 1, At(i) \in set
               PROVE  lastBd'[At(i)] <=> i = (hwCnt + chain) - 1
    OBVIOUS
  <2>1. (lastBd'[At(i)]) <=> (At(i) = Ahead(freeHead, chain - 1))
    BY <1>1, <1>7, <1>8, <1>13
  <2>2. chain - 1 \in Int /\ hwCnt + (chain - 1) = (hwCnt + chain) - 1
        /\ (hwCnt + chain) - 1 \in 0 .. Ring - 1
    BY <1>2, <1>3, <1>4
  <2>3. Ahead(freeHead, chain - 1) = At((hwCnt + chain) - 1)
    BY <1>6, <2>2
  <2>4. hwHead \in Int
    BY <1>3, CountsAre
  <2>5. At(i) = At((hwCnt + chain) - 1) <=> i = (hwCnt + chain) - 1
    BY <2>2, <2>4, AheadSame DEF At
  <2> QED
    BY <2>1, <2>3, <2>5
<1>16. \A i \in 0 .. Ring - 1 : At(i) \notin set =>
         /\ store'[At(i)] = store[At(i)] /\ used'[At(i)] = used[At(i)] /\ lastBd'[At(i)] = lastBd[At(i)]
  <2>1. \A bd \in Bds : used[bd] \in BOOLEAN
    BY AlwaysIs DEF BdTypes
  <2> QED
    BY <1>1, <1>8, <1>13, <2>1
<1> QED
  BY <1>1, <1>2, <1>4, <1>9, <1>10, <1>11, <1>12, <1>13, <1>14, <1>15, <1>16

LEMMA SgsendRegions == Always /\ Regions /\ Sgsend => Regions'
<1> SUFFICES ASSUME Always, Regions, Sgsend PROVE Regions'
  OBVIOUS
<1>1. /\ MayRun("task") /\ run["task"].pc = "send" /\ run' = [run EXCEPT !["task"] = Idle]
      /\ freeCnt < chain => UNCHANGED <<bds, ring, queued>>
  BY SgsendIs
<1>2. Idle \in Call /\ Idle.pc = "idle" /\ Idle.n = 0
  <2>1. 0 \in Bds /\ 0 \in 0 .. Ring
    BY Sizes DEF Bds
  <2> QED
    BY <2>1 DEF Idle, Call, Pcs
<1>3. run'["task"] = Idle /\ \A q \in Procs : q # "task" => run'[q] = run[q]
  BY <1>1, <1>2, RunChanges, AlwaysIs, ProcsAre
<1>4. run["task"].n = 0
  BY <1>1, AlwaysIs, ProcsAre DEF AllOK, CallOK, Rest
<1>5. \A q \in Procs : q # "task" => run[q].pc \in {"idle", "send"} /\ postCnt = run["task"].n
  BY <1>1, OtherIdle, ProcsAre
<1>6. postCnt = 0
  BY <1>4, <1>5, ProcsAre
<1>7. CASE freeCnt < chain
  BY <1>1, <1>2, <1>3, <1>4, <1>5, <1>6, <1>7, SameRegions, ProcsAre
<1>8. CASE ~(freeCnt < chain)
  <2>1. /\ chain \in 1 .. 2 /\ hwCnt + chain <= Ring
        /\ freeHead' = At(hwCnt + chain) /\ preHead' = freeHead' /\ freeCnt' = freeCnt - chain
        /\ hwCnt' = hwCnt + chain
        /\ UNCHANGED <<preCnt, hwHead, postHead, postCnt>>
        /\ \A i \in 0 .. Ring - 1 : At(i)' = At(i)
        /\ \A i \in 0 .. Ring - 1 : ~(hwCnt <= i /\ i < hwCnt + chain) =>
              /\ store'[At(i)] = store[At(i)] /\ used'[At(i)] = used[At(i)]
              /\ lastBd'[At(i)] = lastBd[At(i)]
    BY <1>8, Sends
  <2>2. /\ hwCnt \in 0 .. Ring /\ freeCnt \in 0 .. Ring /\ freeCnt + hwCnt + postCnt = Ring /\ Ring \in Int
    BY CountsAre
  <2>3. hwCnt' + freeCnt' = hwCnt + freeCnt /\ freeCnt' + hwCnt' + postCnt' = Ring
    BY <1>6, <2>1, <2>2
  <2>4. /\ preCnt' = 0 /\ postHead' = Ahead(hwHead', hwCnt' + freeCnt')
        /\ freeHead' = Ahead(hwHead', hwCnt') /\ preHead' = freeHead'
    BY <2>1, <2>3 DEF Regions, At
  <2>5. ASSUME NEW i \in 0 .. Ring - 1, hwCnt' <= i, i < hwCnt' + freeCnt' PROVE Blank(At(i))'
    <3>1. hwCnt <= i /\ i < hwCnt + freeCnt /\ ~(hwCnt <= i /\ i < hwCnt + chain)
      BY <2>1, <2>2, <2>3, <2>5
    <3>2. Blank(At(i))
      BY <3>1 DEF Regions
    <3> QED
      BY <2>1, <3>1, <3>2 DEF Blank
  <2> QED
    BY <1>2, <1>3, <1>5, <1>6, <2>1, <2>3, <2>4, <2>5, RegionsFor, ProcsAre
<1> QED
  BY <1>7, <1>8

LEMMA StutterRegions == Regions /\ UNCHANGED vars => Regions'
<1> SUFFICES ASSUME Regions, UNCHANGED vars PROVE Regions'
  OBVIOUS
<1>1. UNCHANGED <<used, lastBd, store, hwHead, hwCnt, preHead, preCnt, postHead, postCnt, freeHead,
                  freeCnt, run>>
  BY DEF vars, bds, ring
<1> QED
  BY <1>1 DEF Regions, Blank, At

LEMMA NotCut ==
  ~raced' => ~CutsInUpdate /\ ~CutsInFree /\ (Whole => \A p \in Procs : ~GoOn(p))
<1>1. CutsInUpdate \/ CutsInFree => raced'
  BY DEF CutsInUpdate, CutsInFree, CutsIn
<1>2. ASSUME NEW p \in Procs PROVE GoOn(p) => ~Whole
  BY GoOnIs DEF Whole
<1> QED
  BY <1>1, <1>2

LEMMA StepRegions == Always /\ Whole /\ Regions /\ [Next]_vars /\ ~raced' => Regions'
<1>1. ASSUME NEW p \in Procs, ~GoOn(p) PROVE Always /\ Regions /\ ProcessSentBds(p) => Regions'
  BY <1>1, StartRegions, ScanRegions, UpdateRegions, WipeRegions, FreeRegions DEF ProcessSentBds
<1> QED
  BY <1>1, NotCut, TransmitRegions, InterruptRegions, SgsendRegions, OutputRegions, StutterRegions DEF Next

-----------------------------------------------------------------------------
(* The frames.                                                             *)

LEMMA AtIs ==
  ASSUME Always
  PROVE  /\ \A i \in Int : At(i) \in Bds
         /\ \A i, k \in 0 .. Ring - 1 : At(i) = At(k) => i = k
<1>1. \A i \in Int : At(i) \in Bds
  BY AtIn DEF Always
<1>2. hwHead \in Int
  BY AlwaysIs, Sizes DEF HeadTypes, Bds
<1>3. \A i, k \in 0 .. Ring - 1 : At(i) = At(k) => i = k
  BY <1>2, AheadSame DEF At
<1> QED
  BY <1>1, <1>3

(* Nothing that Framed is about changes.                                   *)
LEMMA FramedKept ==
  ASSUME Always, Regions, NEW d \in 0 .. Ring, Framed(d),
         UNCHANGED <<hwHead, hwCnt, dma, queued, sent>>,
         \A i \in 0 .. Ring - 1 : i < hwCnt => /\ used'[At(i)] = used[At(i)]
                                               /\ lastBd'[At(i)] = lastBd[At(i)]
                                               /\ store'[At(i)] = store[At(i)],
         \A p \in Procs : run'[p].pc = "wipe" => used'[postHead']
  PROVE  Framed(d)'
<1>1. hwCnt \in 0 .. Ring /\ d \in Int /\ Ring \in Int
  BY CountsAre
<1>2. \A i : At(i)' = At(i)
  BY DEF At
<1>3. d <= hwCnt /\ dma = At(d) /\ Starts(d)
  BY DEF Framed
<1>4. \A i \in 0 .. Ring : i <= hwCnt => (Starts(i)' <=> Starts(i))
  <2> SUFFICES ASSUME NEW i \in 0 .. Ring, i <= hwCnt PROVE Starts(i)' <=> Starts(i)
    OBVIOUS
  <2>1. CASE i = 0
    BY <2>1 DEF Starts
  <2>2. CASE i # 0
    <3>1. i - 1 \in 0 .. Ring - 1 /\ i - 1 < hwCnt
      BY <1>1, <2>2
    <3> QED
      BY <1>2, <2>2, <3>1 DEF Starts
  <2> QED
    BY <2>1, <2>2
<1>5. d <= hwCnt' /\ dma' = At(d)' /\ Starts(d)'
  BY <1>2, <1>3, <1>4
<1>6. \A i \in 0 .. Ring - 1 : i < hwCnt' => store'[At(i)'] \in queued'
  BY <1>2 DEF Framed
<1>7. ASSUME NEW i \in 0 .. Ring - 1, i < hwCnt'
      PROVE  \/ lastBd'[At(i)']
             \/ i + 1 < hwCnt' /\ lastBd'[At(i + 1)'] /\ store'[At(i + 1)'] = store'[At(i)']
  <2>1. lastBd[At(i)] \/ (i + 1 < hwCnt /\ lastBd[At(i + 1)] /\ store[At(i + 1)] = store[At(i)])
    BY <1>7 DEF Framed
  <2>2. i + 1 < hwCnt => i + 1 \in 0 .. Ring - 1
    BY <1>1
  <2> QED
    BY <1>2, <1>7, <2>1, <2>2
<1>8. \A i, k \in 0 .. Ring - 1 : i < k /\ k < hwCnt' =>
        store'[At(i)'] <= store'[At(k)'] /\ (lastBd'[At(i)'] => store'[At(i)'] < store'[At(k)'])
  <2> SUFFICES ASSUME NEW i \in 0 .. Ring - 1, NEW k \in 0 .. Ring - 1, i < k, k < hwCnt'
               PROVE  store'[At(i)'] <= store'[At(k)'] /\ (lastBd'[At(i)'] => store'[At(i)'] < store'[At(k)'])
    OBVIOUS
  <2>1. i < hwCnt /\ k < hwCnt
    BY <1>1
  <2>2. store[At(i)] <= store[At(k)] /\ (lastBd[At(i)] => store[At(i)] < store[At(k)])
    BY <2>1 DEF Framed
  <2> QED
    BY <1>2, <2>1, <2>2
<1>9. \A i \in 0 .. Ring - 1 : i < d => store'[At(i)'] \in sent' /\ (Starts(i)' => used'[At(i)'])
  <2> SUFFICES ASSUME NEW i \in 0 .. Ring - 1, i < d
               PROVE  store'[At(i)'] \in sent' /\ (Starts(i)' => used'[At(i)'])
    OBVIOUS
  <2>1. i < hwCnt /\ i \in 0 .. Ring /\ i <= hwCnt
    BY <1>1, <1>3
  <2>2. store[At(i)] \in sent /\ (Starts(i) => used[At(i)])
    BY DEF Framed
  <2> QED
    BY <1>2, <1>4, <2>1, <2>2
<1>10. \A i \in 0 .. Ring - 1 : d <= i /\ i < hwCnt' => store'[At(i)'] \notin sent' /\ ~used'[At(i)']
  BY <1>2 DEF Framed
<1>11. sent' \subseteq queued' /\ \A f \in queued' \ sent' : \E i \in 0 .. Ring - 1 : i < hwCnt' /\ store'[At(i)'] = f
  <2>1. \A f \in queued \ sent : \E i \in 0 .. Ring - 1 : i < hwCnt /\ store[At(i)] = f
    BY DEF Framed
  <2> QED
    BY <1>2, <2>1 DEF Framed
<1> QED
  BY <1>5, <1>6, <1>7, <1>8, <1>9, <1>10, <1>11 DEF Framed

(* A scan sees no difference.                                              *)
LEMMA LooksKept ==
  ASSUME Always, Regions, NEW r, NEW d \in 0 .. Ring, NEW j \in 0 .. Ring, NEW e \in 0 .. Ring,
         Looks(r, d, j, e), UNCHANGED <<hwHead, hwCnt, freeCnt>>,
         \A i \in 0 .. Ring - 1 : i < hwCnt => lastBd'[At(i)] = lastBd[At(i)]
  PROVE  Looks(r, d, j, e)'
<1>1. hwCnt \in 0 .. Ring /\ Ring \in Int
  BY CountsAre
<1>2. \A i : At(i)' = At(i)
  BY DEF At
<1>3. j <= hwCnt => (Starts(j)' <=> Starts(j))
  <2>1. CASE j = 0
    BY <2>1 DEF Starts
  <2>2. CASE j # 0 /\ j <= hwCnt
    <3>1. j - 1 \in 0 .. Ring - 1 /\ j - 1 < hwCnt
      BY <1>1, <2>2
    <3> QED
      BY <1>2, <2>2, <3>1 DEF Starts
  <2> QED
    BY <2>1, <2>2
<1> QED
  BY <1>2, <1>3 DEF Looks, Taken, Least

LEMMA ScanningKept ==
  ASSUME Always, Regions, NEW d \in 0 .. Ring, Scanning(d), UNCHANGED <<hwHead, hwCnt, freeCnt>>,
         \A i \in 0 .. Ring - 1 : i < hwCnt => lastBd'[At(i)] = lastBd[At(i)],
         \A p \in Procs : run'[p].pc = "scan" => run'[p] = run[p]
  PROVE  Scanning(d)'
<1> SUFFICES ASSUME NEW p \in Procs, run'[p].pc = "scan"
             PROVE  \E j, e \in 0 .. Ring : Looks(run[p], d, j, e)'
  BY DEF Scanning
<1>1. run'[p] = run[p]
  OBVIOUS
<1>2. PICK j \in 0 .. Ring, e \in 0 .. Ring : Looks(run[p], d, j, e)
  BY <1>1 DEF Scanning
<1> DEFINE r == run[p]
<1> HIDE DEF r
<1>3. Looks(r, d, j, e)
  BY <1>2 DEF r
<1>4. r' = r
  BY <1>1 DEF r
<1>5. Looks(r, d, j, e)'
  BY <1>3, <1>4, LooksKept
<1> QED
  BY <1>5 DEF r

(* Another turn: the scan of whole frames, then of blank BDs.              *)
LEMMA LooksNext ==
  ASSUME Always, Regions, NEW d \in 0 .. Ring, Framed(d),
         NEW r \in Call, r.pc = "scan", CallOK(r), r.limit = hwCnt, r.count < r.limit,
         hwCnt + freeCnt = Ring,
         NEW j \in 0 .. Ring, NEW e \in 0 .. Ring, Looks(r, d, j, e)
  PROVE  j + 1 \in 0 .. Ring /\ Looks(Turned(r), d, j + 1, e)
<1> DEFINE t == Turned(r)
<1> SUFFICES j + 1 \in 0 .. Ring /\ Looks(t, d, j + 1, e)
  OBVIOUS
<1>1. /\ t.cur = Ahead(r.cur, 1)
      /\ ~Sop(r) => t.count = r.count /\ t.partial = r.partial /\ t.sop = r.sop
      /\ Sop(r) => /\ t.count = r.count + 1 /\ t.sop = ~lastBd[r.cur]
                   /\ t.partial = (IF lastBd[r.cur] THEN 0 ELSE r.partial + 1)
  BY TurnedIs
<1> HIDE DEF t
<1>2. /\ hwCnt \in 0 .. Ring /\ freeCnt \in 0 .. Ring /\ Ring \in Int /\ d \in Int /\ j \in Int /\ e \in Int
      /\ r.count \in Int /\ r.partial \in Int /\ r.sop \in BOOLEAN /\ 0 <= r.count
  BY CountsAre, CallFields
<1>3. /\ r.cur = At(j) /\ e <= d /\ hwCnt - e <= freeCnt
      /\ j <= hwCnt => /\ r.count <= j /\ r.count <= d /\ Least(j, e) <= r.count
                       /\ r.sop => j < d /\ ~Starts(j) /\ r.partial = 1
                       /\ ~r.sop => r.partial = 0 /\ (j < e => Starts(j))
      /\ j > hwCnt => r.sop /\ r.partial = j - hwCnt /\ e <= r.count - r.partial /\ r.count - r.partial <= d
  BY <1>2 DEF Looks, Taken
<1>4. d <= hwCnt
  BY DEF Framed
<1>5. t.cur = At(j + 1)
  BY <1>1, <1>2, <1>3, AtAhead DEF Always
<1>6. CASE j < hwCnt
  <2>1. /\ r.count <= j /\ r.count <= d /\ Least(j, e) <= r.count
        /\ r.sop => j < d /\ ~Starts(j) /\ r.partial = 1
        /\ ~r.sop => r.partial = 0 /\ (j < e => Starts(j))
    BY <1>2, <1>3, <1>6
  <2>2. j \in 0 .. Ring - 1 /\ j + 1 \in 0 .. Ring /\ j + 1 <= hwCnt /\ ~(j + 1 > hwCnt)
    BY <1>2, <1>6
  <2>3. used[At(j)] => j < d
    BY <1>2, <1>6, <2>2 DEF Framed
  <2>4. j < d /\ Starts(j) => used[At(j)]
    BY <2>2 DEF Framed
  <2>5. Starts(j + 1) <=> lastBd[At(j)]
    <3>1. j + 1 # 0 /\ (j + 1) - 1 = j
      BY <1>2, <2>2
    <3> QED
      BY <3>1 DEF Starts
  <2>6. ~Starts(j) => lastBd[At(j)]
    <3> SUFFICES ASSUME ~Starts(j) PROVE lastBd[At(j)]
      OBVIOUS
    <3>1. j # 0 /\ ~lastBd[At(j - 1)]
      BY DEF Starts
    <3>2. j - 1 \in 0 .. Ring - 1 /\ j - 1 < hwCnt /\ (j - 1) + 1 = j
      BY <1>2, <1>6, <2>2, <3>1
    <3>3. lastBd[At((j - 1) + 1)]
      BY <3>1, <3>2 DEF Framed
    <3> QED
      BY <3>2, <3>3
  <2>7. CASE Sop(r)
    <3>1. r.sop \/ used[At(j)]
      BY <1>3, <2>7 DEF Sop
    <3>2. j < d
      BY <2>1, <2>3, <3>1
    <3>3. t.count = r.count + 1 /\ t.count <= j + 1 /\ t.count <= d
      BY <1>1, <1>2, <2>1, <2>7, <3>2
    <3>4. Least(j + 1, e) <= t.count
      BY <1>2, <2>1, <3>3 DEF Least
    <3>5. CASE lastBd[At(j)]
      <4>1. t.sop = FALSE /\ t.partial = 0
        BY <1>1, <1>3, <2>7, <3>5
      <4> QED
        BY <1>3, <1>5, <2>2, <2>5, <3>3, <3>4, <3>5, <4>1 DEF Looks
    <3>6. CASE ~lastBd[At(j)]
      <4>1. t.sop = TRUE /\ t.partial = r.partial + 1
        BY <1>1, <1>3, <2>7, <3>6
      <4>2. ~r.sop
        BY <2>1, <2>6, <3>6
      <4>3. t.partial = 1
        BY <2>1, <4>1, <4>2
      <4>4. ~Starts(j + 1)
        BY <2>5, <3>6
      <4>5. d # j + 1
        BY <4>4 DEF Framed
      <4>6. j + 1 < d
        BY <1>2, <3>2, <4>5
      <4> QED
        BY <1>3, <1>5, <2>2, <3>3, <3>4, <4>1, <4>3, <4>4, <4>6 DEF Looks
    <3> QED
      BY <3>5, <3>6
  <2>8. CASE ~Sop(r)
    <3>1. ~r.sop /\ ~used[At(j)]
      BY <1>3, <2>8 DEF Sop
    <3>2. ~(j < e)
      BY <1>2, <1>3, <2>1, <2>4, <3>1
    <3>3. t.count = r.count /\ t.partial = 0 /\ ~t.sop
      BY <1>1, <2>1, <2>8, <3>1
    <3>4. Least(j + 1, e) <= t.count /\ t.count <= j + 1 /\ t.count <= d /\ ~(j + 1 < e)
      BY <1>2, <2>1, <3>2, <3>3 DEF Least
    <3> QED
      BY <1>3, <1>5, <2>2, <3>3, <3>4 DEF Looks
  <2> QED
    BY <2>7, <2>8
<1>7. CASE j >= hwCnt
  <2>1. j < Ring
    BY <1>2, <1>3, <1>4, <1>7 DEF Least
  <2>2. j \in 0 .. Ring - 1 /\ j + 1 \in 0 .. Ring /\ ~(j + 1 <= hwCnt) /\ j + 1 > hwCnt
    BY <1>2, <1>7, <2>1
  <2>3. Blank(At(j))
    BY <1>7, <2>1, <2>2 DEF Regions
  <2>4. Sop(r) /\ ~lastBd[r.cur]
    BY <1>3, <2>3 DEF Sop, Blank
  <2>5. t.count = r.count + 1 /\ t.sop = TRUE /\ t.partial = r.partial + 1
    BY <1>1, <2>4
  <2>6. CASE j = hwCnt
    <3>1. ~r.sop
      BY <1>2, <1>3, <1>4, <2>6
    <3>2. r.partial = 0 /\ r.count <= d /\ e <= r.count
      BY <1>2, <1>3, <1>4, <2>6, <3>1 DEF Least
    <3>3. t.partial = (j + 1) - hwCnt /\ t.count - t.partial \in e .. d
      BY <1>2, <2>5, <2>6, <3>2
    <3> QED
      BY <1>3, <1>5, <2>2, <2>5, <3>3 DEF Looks, Taken
  <2>7. CASE j > hwCnt
    <3>1. t.partial = (j + 1) - hwCnt /\ t.count - t.partial \in e .. d
      BY <1>2, <1>3, <2>5, <2>7
    <3> QED
      BY <1>3, <1>5, <2>2, <2>5, <3>1 DEF Looks, Taken
  <2> QED
    BY <1>2, <1>7, <2>6, <2>7
<1> QED
  BY <1>2, <1>6, <1>7

(* The scan takes no more than was sent.                                   *)
LEMMA TakesSent ==
  ASSUME Always, Regions, NEW d \in 0 .. Ring, Framed(d), Scanning(d),
         NEW p \in Procs, run[p].pc = "scan", run[p].count = run[p].limit
  PROVE  Taken(run[p]) <= d
<1> DEFINE r == run[p]
<1>1. PICK j \in 0 .. Ring, e \in 0 .. Ring : Looks(r, d, j, e)
  BY DEF Scanning
<1>2. r.limit = hwCnt /\ r.count = hwCnt
  BY DEF Regions
<1>3. hwCnt \in 0 .. Ring /\ d \in Int /\ j \in Int /\ r.sop \in BOOLEAN /\ r.partial \in Int
  BY CountsAre, CallFields, AlwaysIs
<1> HIDE DEF r
<1>4. CASE j > hwCnt
  BY <1>1, <1>4 DEF Looks, r
<1>5. CASE j <= hwCnt
  <2>1. r.count <= j /\ r.count <= d /\ (r.sop => j < d) /\ (~r.sop => r.partial = 0)
    BY <1>1, <1>5 DEF Looks
  <2>2. d <= hwCnt
    BY DEF Framed
  <2>3. ~r.sop /\ r.partial = 0
    BY <1>2, <1>3, <1>5, <2>1, <2>2
  <2>4. Taken(r) = r.count
    BY <1>2, <1>3, <2>3 DEF Taken
  <2> QED
    BY <2>1, <2>4 DEF r
<1> QED
  BY <1>3, <1>4, <1>5

(* What the GMAC has not sent is not less than Unsent says.                *)
LEMMA UnsentIs ==
  ASSUME Always, Regions, NEW d \in 0 .. Ring, Framed(d)
  PROVE  Cardinality(Unsent) \in Nat /\ hwCnt - d <= Cardinality(Unsent)
<1> DEFINE S == d .. hwCnt - 1
           f == [i \in S |-> At(i)]
<1>1. /\ hwCnt \in 0 .. Ring /\ d \in Int /\ Ring \in Int /\ Least(hwCnt, Ring) = hwCnt
      /\ 0 \in Int /\ Ring - 1 \in Int /\ hwCnt - 1 \in Int
  BY CountsAre DEF Least
<1>2. Unsent \subseteq Bds
  <2>1. hwHead \in Int
    BY CountsAre
  <2>2. Span(hwHead, Least(hwCnt, Ring)) \subseteq Bds
    BY <1>1, <2>1, AheadIn DEF Span
  <2> QED
    BY <2>2 DEF Unsent
<1>3. IsFiniteSet(Bds)
  BY <1>1, FS_Interval DEF Bds
<1>4. IsFiniteSet(Unsent)
  BY <1>2, <1>3, FS_Subset
<1>5. \A i \in S : i \in 0 .. Ring - 1 /\ d <= i /\ i < hwCnt
  BY <1>1
<1>6. \A i \in S : At(i) \in Unsent
  <2> SUFFICES ASSUME NEW i \in S PROVE At(i) \in Unsent
    OBVIOUS
  <2>1. i \in 0 .. Ring - 1 /\ d <= i /\ i < hwCnt /\ i \in 0 .. hwCnt - 1
    BY <1>1, <1>5
  <2>2. At(i) \in Span(hwHead, Least(hwCnt, Ring))
    BY <1>1, <2>1 DEF At, Span
  <2>3. store[At(i)] \in queued \ sent
    BY <2>1 DEF Framed
  <2> QED
    BY <2>2, <2>3 DEF Unsent
<1>7. f \in [S -> Unsent]
  BY <1>6
<1>8. \A i, k \in S : f[i] = f[k] => i = k
  BY <1>5, AtIs
<1> HIDE DEF f
<1>9. f \in Injection(S, Unsent)
  BY <1>7, <1>8 DEF Injection, IsInjective
<1>10. Cardinality(S) <= Cardinality(Unsent)
  BY <1>4, <1>9, FS_Injection
<1>11. Cardinality(S) = IF d > hwCnt - 1 THEN 0 ELSE ((hwCnt - 1) - d) + 1
  BY <1>1, FS_Interval
<1>12. Cardinality(Unsent) \in Nat
  BY <1>4, FS_CardinalityType
<1> QED
  BY <1>1, <1>10, <1>11, <1>12

LEMMA FramedRanges ==
  ASSUME Always, Regions, NEW d \in 0 .. Ring, Framed(d)
  PROVE  d <= hwCnt /\ hwCnt \in 0 .. Ring /\ freeCnt \in 0 .. Ring
BY CountsAre DEF Framed

LEMMA StartFraming ==
  ASSUME NEW p \in Procs, Always, Regions, Framing, Start(p), ~crowded'
  PROVE  Framing'
<1> DEFINE r == IF hwCnt = 0 THEN Return(p) ELSE Scans
<1>1. /\ MayRun(p) /\ run[p].pc = "start" /\ run' = [run EXCEPT ![p] = r]
      /\ crowded' = (crowded \/ Cardinality(Unsent) > freeCnt)
      /\ UNCHANGED <<bds, ring, dma, irq, frame, chain, queued, sent, raced, torn>>
  BY StartIs
<1>2. PICK d \in 0 .. Ring : Framed(d) /\ Scanning(d)
  BY DEF Framing
<1>3. r \in Call /\ r.pc # "wipe" /\ (r.pc = "scan" => r = Scans)
  BY ReturnIs, ScansIs
<1> HIDE DEF r
<1>4. run'[p] = r /\ \A q \in Procs : q # p => run'[q] = run[q]
  BY <1>1, <1>3, RunChanges, AlwaysIs
<1>5. UNCHANGED <<used, lastBd, store, hwHead, hwCnt, postHead, freeCnt, dma, queued, sent>>
  BY <1>1 DEF bds, ring
<1>6. \A q \in Procs : run'[q].pc = "wipe" => used'[postHead']
  <2>1. \A q \in Procs : run[q].pc = "wipe" => used[postHead]
    BY <1>2 DEF Framed
  <2> QED
    BY <1>3, <1>4, <1>5, <2>1
<1>7. Framed(d)'
  BY <1>2, <1>5, <1>6, FramedKept
<1>8. Looks(Scans, d, 0, d)
  <2>1. hwCnt \in 0 .. Ring /\ d \in Int /\ freeCnt \in Int /\ 0 <= d /\ d <= hwCnt
    BY <1>2, FramedRanges
  <2>2. Cardinality(Unsent) \in Nat /\ hwCnt - d <= Cardinality(Unsent)
    BY <1>2, UnsentIs
  <2>3. hwCnt - d <= freeCnt
    <3>1. ~(Cardinality(Unsent) > freeCnt)
      BY <1>1, Zenon
    <3> QED
      BY <2>1, <2>2, <3>1
  <2>4. /\ Scans.cur = At(0) /\ Scans.count = 0 /\ Scans.partial = 0 /\ Scans.sop = FALSE
    BY ScansIs, AtTurn DEF Always
  <2>5. Least(0, d) = 0 /\ Starts(0) /\ ~(0 > hwCnt)
    BY <2>1 DEF Least, Starts
  <2> QED
    BY <2>1, <2>3, <2>4, <2>5 DEF Looks
<1>9. Scanning(d)'
  <2> SUFFICES ASSUME NEW q \in Procs, run'[q].pc = "scan"
               PROVE  \E j, e \in 0 .. Ring : Looks(run[q], d, j, e)'
    BY DEF Scanning
  <2>1. q = p
    BY <1>1, <1>4, OtherIdle
  <2>2. run'[q] = Scans
    BY <1>3, <1>4, <2>1
  <2>3. Looks(run'[q], d, 0, d)
    BY <1>8, <2>2
  <2>4. Looks(run[q], d, 0, d)'
    BY <1>5, <2>3 DEF Looks, At, Starts, Taken, Least
  <2>5. 0 \in 0 .. Ring
    BY Sizes
  <2> QED
    BY <2>4, <2>5
<1> QED
  BY <1>7, <1>9 DEF Framing

LEMMA ScanFraming ==
  ASSUME NEW p \in Procs, Always, Regions, Framing, Scan(p)
  PROVE  Framing'
<1> DEFINE r == Turned(run[p])
<1>1. /\ MayRun(p) /\ run[p].pc = "scan" /\ run[p].count < run[p].limit
      /\ run' = [run EXCEPT ![p] = r]
      /\ UNCHANGED <<bds, ring, dma, irq, frame, chain, history>>
  BY ScanIs
<1>2. PICK d \in 0 .. Ring : Framed(d) /\ Scanning(d)
  BY DEF Framing
<1>3. run[p] \in Call /\ CallOK(run[p]) /\ run[p].limit = hwCnt /\ run[p].n = 0
  BY <1>1, AlwaysIs DEF AllOK, Regions, CallOK, Rest
<1>4. r \in Call /\ r.pc = "scan"
  BY <1>1, <1>3, TurnedIs
<1>5. run'[p] = r /\ \A q \in Procs : q # p => run'[q] = run[q]
  BY <1>1, <1>4, RunChanges, AlwaysIs
<1>6. UNCHANGED <<used, lastBd, store, hwHead, hwCnt, postHead, freeCnt, dma, queued, sent>>
  BY <1>1 DEF bds, ring, history
<1>7. \A q \in Procs : run'[q].pc = "wipe" => used'[postHead']
  <2>1. \A q \in Procs : run[q].pc = "wipe" => used[postHead]
    BY <1>2 DEF Framed
  <2> QED
    BY <1>4, <1>5, <1>6, <2>1
<1>8. Framed(d)'
  BY <1>2, <1>6, <1>7, FramedKept
<1>9. hwCnt + freeCnt = Ring
  <2>1. \A q \in Procs : q # p => postCnt = run[p].n
    BY <1>1, OtherIdle
  <2>2. postCnt = 0
    BY <1>3, <2>1, ProcsAre
  <2> QED
    BY <2>2, CountsAre
<1>10. PICK j \in 0 .. Ring, e \in 0 .. Ring : Looks(run[p], d, j, e)
  BY <1>1, <1>2 DEF Scanning
<1>11. j + 1 \in 0 .. Ring /\ Looks(r, d, j + 1, e)
  BY <1>1, <1>2, <1>3, <1>9, <1>10, LooksNext
<1> HIDE DEF r
<1>12. Scanning(d)'
  <2> SUFFICES ASSUME NEW q \in Procs, run'[q].pc = "scan"
               PROVE  \E k, l \in 0 .. Ring : Looks(run[q], d, k, l)'
    BY DEF Scanning
  <2>1. q = p
    BY <1>1, <1>5, OtherIdle
  <2>2. Looks(run'[q], d, j + 1, e)
    BY <1>5, <1>11, <2>1
  <2>3. Looks(run[q], d, j + 1, e)'
    BY <1>6, <2>2 DEF Looks, At, Starts, Taken, Least
  <2> QED
    BY <1>11, <2>3
<1> QED
  BY <1>8, <1>12 DEF Framing

(* Whole frames that were sent are taken: the others are as many BDs       *)
(* nearer to the head.                                                     *)
LEMMA FramesMoveUp ==
  ASSUME NEW p \in Procs, Always, Regions, Update(p), ~torn', NEW d \in 0 .. Ring, Framed(d),
         NEW n \in 1 .. Ring, n = Taken(run[p]), n <= d, NEW m \in 0 .. Ring, m = d - n
  PROVE  Framed(m)'
<1>1. /\ n \in 1 .. Ring /\ n <= hwCnt
      /\ hwHead = postHead /\ hwHead' = At(n) /\ hwCnt' = hwCnt - n
      /\ \A q \in Procs : q # p => run[q].pc \in {"idle", "send"} /\ run'[q] = run[q]
      /\ UNCHANGED <<used, lastBd, store, dma, queued, sent, postHead>>
  <2>1. Taken(run[p]) # 0
    OBVIOUS
  <2> QED
    BY <2>1, TakesSet
<1>2. n <= d /\ lastBd[Ahead(hwHead, n - 1)]
  <2>1. Taken(run[p]) # 0
    OBVIOUS
  <2>2. torn' = (torn \/ ~lastBd[Ahead(hwHead, Taken(run[p]) - 1)])
    BY <2>1, UpdateIs
  <2>3. torn' = (torn \/ ~lastBd[Ahead(hwHead, n - 1)])
    BY <2>2
  <2> QED
    BY <2>3
<1>3. /\ hwCnt \in 0 .. Ring /\ Ring \in Int /\ d \in Int /\ n \in Int /\ hwCnt' \in 0 .. Ring
      /\ hwCnt' = hwCnt - n /\ 1 <= n /\ d - n \in 0 .. Ring /\ d <= hwCnt
  <2>1. d <= hwCnt /\ hwCnt \in 0 .. Ring
    BY FramedRanges
  <2>2. Ring \in Int /\ d \in Int /\ n \in Int /\ 1 <= n /\ n <= d /\ 0 <= d /\ d <= Ring
    BY Sizes
  <2> QED
    BY <1>1, <2>1, <2>2
<1>4. m \in 0 .. Ring /\ m <= hwCnt' /\ n + m = d /\ m \in Int
  BY <1>3
<1>5. \A i \in Int : At(i)' = At(n + i)
  <2> TAKE i \in Int
  <2>1. Ahead(At(n), i) = At(n + i)
    BY <1>3, AtAhead DEF Always
  <2> QED
    BY <1>1, <2>1 DEF At
<1>6. \A i \in 0 .. Ring : Starts(i)' <=> Starts(n + i)
  <2> TAKE i \in 0 .. Ring
  <2>1. n + i # 0 /\ n + i - 1 = n + (i - 1) /\ (n + i) - 1 = n + (i - 1) /\ i - 1 \in Int
    BY <1>3
  <2>2. Starts(n + i) <=> lastBd[At(n + (i - 1))]
    BY <2>1 DEF Starts
  <2>3. CASE i = 0
    <3>1. n + (i - 1) = n - 1
      BY <1>3, <2>3
    <3>2. Starts(n + i)
      BY <1>2, <2>2, <3>1 DEF At
    <3> QED
      BY <2>3, <3>2 DEF Starts
  <2>4. CASE i # 0
    <3>1. Starts(i)' <=> lastBd'[At(i - 1)']
      BY <2>4 DEF Starts
    <3>2. At(i - 1)' = At(n + (i - 1))
      BY <1>5, <2>1
    <3> QED
      BY <1>1, <2>2, <3>1, <3>2
  <2> QED
    BY <2>3, <2>4
<1>7. \A i \in 0 .. Ring - 1 : i < hwCnt' =>
        /\ n + i \in 0 .. Ring - 1 /\ n + i < hwCnt /\ At(i)' = At(n + i)
        /\ (i < m <=> n + i < d) /\ (Starts(i)' <=> Starts(n + i))
  <2> SUFFICES ASSUME NEW i \in 0 .. Ring - 1, i < hwCnt'
               PROVE  /\ n + i \in 0 .. Ring - 1 /\ n + i < hwCnt /\ At(i)' = At(n + i)
                      /\ (i < m <=> n + i < d) /\ (Starts(i)' <=> Starts(n + i))
    OBVIOUS
  <2>1. n + i \in 0 .. Ring - 1 /\ n + i < hwCnt /\ (i < m <=> n + i < d) /\ i \in Int /\ i \in 0 .. Ring
    BY <1>3, <1>4
  <2> QED
    BY <1>5, <1>6, <2>1
<1>8. m <= hwCnt' /\ dma' = At(m)' /\ Starts(m)'
  BY <1>1, <1>4, <1>5, <1>6 DEF Framed
<1>9. \A i \in 0 .. Ring - 1 : i < hwCnt' => store'[At(i)'] \in queued'
  BY <1>1, <1>7 DEF Framed
<1>10. ASSUME NEW i \in 0 .. Ring - 1, i < hwCnt'
       PROVE  \/ lastBd'[At(i)']
              \/ i + 1 < hwCnt' /\ lastBd'[At(i + 1)'] /\ store'[At(i + 1)'] = store'[At(i)']
  <2>1. n + i \in 0 .. Ring - 1 /\ n + i < hwCnt /\ At(i)' = At(n + i)
    BY <1>7, <1>10
  <2>2. \/ lastBd[At(n + i)]
        \/ (n + i) + 1 < hwCnt /\ lastBd[At((n + i) + 1)] /\ store[At((n + i) + 1)] = store[At(n + i)]
    BY <2>1 DEF Framed
  <2>3. CASE lastBd[At(n + i)]
    BY <1>1, <2>1, <2>3
  <2>4. CASE /\ (n + i) + 1 < hwCnt /\ lastBd[At((n + i) + 1)]
             /\ store[At((n + i) + 1)] = store[At(n + i)]
    <3>1. (n + i) + 1 = n + (i + 1) /\ i + 1 < hwCnt' /\ i + 1 \in Int
      BY <1>3, <2>4
    <3>2. At(i + 1)' = At((n + i) + 1)
      BY <1>5, <3>1
    <3> QED
      BY <1>1, <2>1, <2>4, <3>1, <3>2
  <2> QED
    BY <2>2, <2>3, <2>4
<1>11. ASSUME NEW i \in 0 .. Ring - 1, NEW k \in 0 .. Ring - 1, i < k, k < hwCnt'
       PROVE  store'[At(i)'] <= store'[At(k)'] /\ (lastBd'[At(i)'] => store'[At(i)'] < store'[At(k)'])
  <2>1. i < hwCnt' /\ n + i < n + k
    BY <1>3, <1>11
  <2>2. /\ n + i \in 0 .. Ring - 1 /\ At(i)' = At(n + i)
        /\ n + k \in 0 .. Ring - 1 /\ n + k < hwCnt /\ At(k)' = At(n + k)
    BY <1>7, <1>11, <2>1
  <2>3. store[At(n + i)] <= store[At(n + k)] /\ (lastBd[At(n + i)] => store[At(n + i)] < store[At(n + k)])
    BY <2>1, <2>2 DEF Framed
  <2> QED
    BY <1>1, <2>2, <2>3
<1>12. ASSUME NEW i \in 0 .. Ring - 1, i < m
       PROVE  store'[At(i)'] \in sent' /\ (Starts(i)' => used'[At(i)'])
  <2>1. i < hwCnt'
    BY <1>3, <1>4, <1>12
  <2>2. n + i \in 0 .. Ring - 1 /\ At(i)' = At(n + i) /\ n + i < d /\ (Starts(i)' <=> Starts(n + i))
    BY <1>7, <1>12, <2>1
  <2> QED
    BY <1>1, <2>2 DEF Framed
<1>13. ASSUME NEW i \in 0 .. Ring - 1, m <= i, i < hwCnt'
       PROVE  store'[At(i)'] \notin sent' /\ ~used'[At(i)']
  <2>1. n + i \in 0 .. Ring - 1 /\ At(i)' = At(n + i) /\ n + i < hwCnt /\ d <= n + i
    BY <1>3, <1>4, <1>7, <1>13
  <2> QED
    BY <1>1, <2>1 DEF Framed
<1>14. sent' \subseteq queued'
  BY <1>1 DEF Framed
<1>15. ASSUME NEW f \in queued' \ sent'
       PROVE  \E i \in 0 .. Ring - 1 : i < hwCnt' /\ store'[At(i)'] = f
  <2>1. PICK k \in 0 .. Ring - 1 : k < hwCnt /\ store[At(k)] = f
    BY <1>1 DEF Framed
  <2>2. ~(k < d)
    BY <1>1, <2>1 DEF Framed
  <2>3. k - n \in 0 .. Ring - 1 /\ k - n < hwCnt' /\ n + (k - n) = k
    BY <1>2, <1>3, <2>1, <2>2
  <2>4. At(k - n)' = At(k)
    BY <1>5, <2>3
  <2> QED
    BY <1>1, <2>1, <2>3, <2>4
<1>16. \A q \in Procs : run'[q].pc = "wipe" => used'[postHead']
  <2>1. 0 \in 0 .. Ring - 1 /\ 0 < d /\ Starts(0)
    BY <1>2, <1>3, Sizes DEF Starts
  <2>2. used[At(0)]
    BY <2>1 DEF Framed
  <2> QED
    BY <1>1, <2>2, AtTurn DEF Always
<1> QED
  BY <1>8, <1>9, <1>10, <1>11, <1>12, <1>13, <1>14, <1>15, <1>16 DEF Framed

LEMMA UpdateFraming ==
  ASSUME NEW p \in Procs, Always, Regions, Framing, Update(p), ~torn'
  PROVE  Framing'
<1>1. PICK d \in 0 .. Ring : Framed(d) /\ Scanning(d)
  BY DEF Framing
<1>2. MayRun(p) /\ run[p].pc = "scan" /\ run[p].count = run[p].limit
  BY UpdateIs
<1>3. CASE Taken(run[p]) = 0
  <2>1. /\ run' = [run EXCEPT ![p] = Return(p)]
        /\ UNCHANGED <<used, lastBd, store, hwHead, hwCnt, postHead, freeCnt, dma, queued, sent>>
    BY <1>3, UpdateIs DEF bds, ring
  <2>2. Return(p) \in Call /\ Return(p).pc \notin {"wipe", "scan"}
    BY ReturnIs
  <2>3. run'[p] = Return(p) /\ \A q \in Procs : q # p => run'[q] = run[q]
    BY <2>1, <2>2, RunChanges, AlwaysIs
  <2>4. \A q \in Procs : run'[q].pc = "wipe" => used'[postHead']
    <3>1. \A q \in Procs : run[q].pc = "wipe" => used[postHead]
      BY <1>1 DEF Framed
    <3> QED
      BY <2>1, <2>2, <2>3, <3>1
  <2>5. Framed(d)'
    BY <1>1, <2>1, <2>4, FramedKept
  <2>6. Scanning(d)'
    <3>1. \A q \in Procs : run'[q].pc = "scan" => run'[q] = run[q]
      BY <2>2, <2>3
    <3> QED
      BY <1>1, <2>1, <3>1, ScanningKept
  <2> QED
    BY <2>5, <2>6 DEF Framing
<1>4. CASE Taken(run[p]) # 0
  <2>1. Taken(run[p]) <= d
    BY <1>1, <1>2, TakesSent
  <2>2. Taken(run[p]) \in 1 .. Ring
    BY <1>4, TakesSet
  <2>3. PICK n \in 1 .. Ring, x \in 0 .. Ring : n = Taken(run[p]) /\ x = d - n /\ n <= d
    <3> DEFINE n == Taken(run[p])
    <3>1. n \in 1 .. Ring /\ n <= d /\ Ring \in Int /\ d \in Int
      BY <2>1, <2>2, Sizes
    <3> HIDE DEF n
    <3>2. d - n \in 0 .. Ring
      BY <3>1
    <3> QED
      BY <3>1, <3>2 DEF n
  <2>6. Framed(x)'
    BY <1>1, <2>3, FramesMoveUp
  <2>4. /\ run'[p].pc = "wipe"
        /\ \A q \in Procs : q # p => run[q].pc \in {"idle", "send"} /\ run'[q] = run[q]
    BY <1>4, TakesSet
  <2>5. Scanning(x)'
    BY <2>4 DEF Scanning
  <2> QED
    BY <2>5, <2>6 DEF Framing
<1> QED
  BY <1>3, <1>4

LEMMA WipeFraming ==
  ASSUME NEW p \in Procs, Always, Regions, Framing, Wipe(p)
  PROVE  Framing'
<1> DEFINE set == Span(run[p].set, run[p].n)
<1>1. /\ MayRun(p) /\ run[p].pc = "wipe" /\ run' = [run EXCEPT ![p].pc = "free"]
      /\ UNCHANGED <<ring, dma, irq, frame, chain, history>>
      /\ used' = [bd \in Bds |-> used[bd] \/ bd \in set]
      /\ lastBd' = [bd \in Bds |-> lastBd[bd] /\ bd \notin set]
      /\ store' = [bd \in Bds |-> IF bd \in set THEN 0 ELSE store[bd]]
  BY WipeIs
<1>2. PICK d \in 0 .. Ring : Framed(d) /\ Scanning(d)
  BY DEF Framing
<1>3. \A i \in 0 .. Ring - 1 : At(i) \in set <=> hwCnt + freeCnt <= i
  BY <1>1, SetIs
<1> HIDE DEF set
<1>4. UNCHANGED <<hwHead, hwCnt, postHead, freeCnt, dma, queued, sent>>
  BY <1>1 DEF ring, history
<1>5. run'[p].pc = "free" /\ \A q \in Procs : q # p => run'[q] = run[q]
  BY <1>1, PcChanges, AlwaysIs DEF Pcs
<1>6. \A q \in Procs : run'[q].pc \notin {"wipe", "scan"}
  BY <1>1, <1>5, OtherIdle
<1>7. ASSUME NEW i \in 0 .. Ring - 1, i < hwCnt
      PROVE  used'[At(i)] = used[At(i)] /\ lastBd'[At(i)] = lastBd[At(i)] /\ store'[At(i)] = store[At(i)]
  <2>1. hwCnt \in Int /\ freeCnt \in 0 .. Ring /\ i \in Int
    BY CountsAre
  <2>2. At(i) \notin set
    BY <1>3, <1>7, <2>1
  <2>3. At(i) \in Bds
    BY <2>1, AtIs
  <2>4. used[At(i)] \in BOOLEAN /\ lastBd[At(i)] \in BOOLEAN
    BY <2>3, AlwaysIs DEF BdTypes
  <2> QED
    BY <1>1, <2>2, <2>3, <2>4
<1>8. Framed(d)'
  BY <1>2, <1>4, <1>6, <1>7, FramedKept
<1>9. Scanning(d)'
  BY <1>6 DEF Scanning
<1> QED
  BY <1>8, <1>9 DEF Framing

LEMMA FreeFraming ==
  ASSUME NEW p \in Procs, Always, Regions, Framing, BdRingFree(p)
  PROVE  Framing'
<1>1. PICK d \in 0 .. Ring : Framed(d) /\ Scanning(d)
  BY DEF Framing
<1>2. /\ run'[p].pc = "start"
      /\ \A q \in Procs : q # p => run[q].pc \in {"idle", "send"} /\ run'[q] = run[q]
      /\ UNCHANGED <<bds, hwHead, hwCnt, preHead, preCnt, freeHead, dma, irq, frame, chain, history>>
  BY FreesSet
<1>3. UNCHANGED <<used, lastBd, store, hwHead, hwCnt, dma, queued, sent>>
  BY <1>2 DEF bds, history
<1>4. \A q \in Procs : run'[q].pc \notin {"wipe", "scan"}
  BY <1>2
<1>5. Framed(d)'
  BY <1>1, <1>3, <1>4, FramedKept
<1>6. Scanning(d)'
  BY <1>4 DEF Scanning
<1> QED
  BY <1>5, <1>6 DEF Framing

(* A context that begins: all is as before.                                *)
LEMMA BeginFraming ==
  ASSUME Always, Regions, Framing, NEW p \in Procs, run'[p].pc \notin {"wipe", "scan"},
         \A q \in Procs : q # p => run'[q] = run[q],
         UNCHANGED bds, UNCHANGED ring, UNCHANGED <<dma, queued, sent>>
  PROVE  Framing'
<1>1. PICK d \in 0 .. Ring : Framed(d) /\ Scanning(d)
  BY DEF Framing
<1>2. UNCHANGED <<used, lastBd, store, hwHead, hwCnt, postHead, freeCnt, dma, queued, sent>>
  BY DEF bds, ring
<1>3. \A q \in Procs : run'[q].pc = "wipe" => used'[postHead']
  <2>1. \A q \in Procs : run[q].pc = "wipe" => used[postHead]
    BY <1>1 DEF Framed
  <2> QED
    BY <1>2, <2>1
<1>4. Framed(d)'
  BY <1>1, <1>2, <1>3, FramedKept
<1>5. \A q \in Procs : run'[q].pc = "scan" => run'[q] = run[q]
  OBVIOUS
<1>6. Scanning(d)'
  BY <1>1, <1>2, <1>5, ScanningKept
<1> QED
  BY <1>4, <1>6 DEF Framing

LEMMA InterruptFraming == Always /\ Regions /\ Framing /\ Interrupt => Framing'
<1> SUFFICES ASSUME Always, Regions, Framing, Interrupt PROVE Framing'
  OBVIOUS
<1>1. /\ run' = [run EXCEPT !["isr"].pc = "start"]
      /\ UNCHANGED bds /\ UNCHANGED ring /\ UNCHANGED <<dma, queued, sent>>
  BY DEF Interrupt
<1>2. run'["isr"].pc = "start" /\ \A q \in Procs : q # "isr" => run'[q] = run[q]
  BY <1>1, PcChanges, AlwaysIs, ProcsAre DEF Pcs
<1> QED
  BY <1>1, <1>2, BeginFraming, ProcsAre

LEMMA OutputFraming ==
  ASSUME NEW pbufs \in 1 .. 2, Always, Regions, Framing, LowLevelOutput(pbufs)
  PROVE  Framing'
<1> DEFINE pc == IF freeCnt <= Low THEN "start" ELSE "send"
<1>1. /\ run' = [run EXCEPT !["task"].pc = pc]
      /\ UNCHANGED bds /\ UNCHANGED ring /\ UNCHANGED <<dma, queued, sent>>
  BY OutputIs DEF history
<1>2. pc \in {"start", "send"} /\ pc \in Pcs
  BY DEF Pcs
<1> HIDE DEF pc
<1>3. run'["task"].pc = pc /\ \A q \in Procs : q # "task" => run'[q] = run[q]
  BY <1>1, <1>2, PcChanges, AlwaysIs, ProcsAre
<1> QED
  BY <1>1, <1>2, <1>3, BeginFraming, ProcsAre

(* A frame that gets its BDs becomes the last one.                         *)
LEMMA SendsFramed ==
  ASSUME Always, Regions, NEW d \in 0 .. Ring, Framed(d), Sgsend, ~(freeCnt < chain)
  PROVE  Framed(d)'
<1> DEFINE c == hwCnt + chain
<1>1. /\ chain \in 1 .. 2 /\ c <= Ring
      /\ hwCnt' = c /\ queued' = queued \cup {frame}
      /\ \A i \in 0 .. Ring - 1 : At(i)' = At(i) /\ At(i) \in Bds
      /\ \A i \in 0 .. Ring - 1 : hwCnt <= i /\ i < c =>
           /\ store'[At(i)] = frame /\ ~used'[At(i)]
           /\ lastBd'[At(i)] <=> i = c - 1
      /\ \A i \in 0 .. Ring - 1 : ~(hwCnt <= i /\ i < c) =>
           /\ store'[At(i)] = store[At(i)] /\ used'[At(i)] = used[At(i)]
           /\ lastBd'[At(i)] = lastBd[At(i)]
      /\ UNCHANGED hwHead
  BY Sends
<1>2. run["task"].pc = "send" /\ run' = [run EXCEPT !["task"] = Idle] /\ MayRun("task")
      /\ dma' = dma /\ sent' = sent
  BY SgsendIs
<1>3. frame \in Int /\ \A f \in queued : f \in Int /\ f < frame
  BY <1>2, AlwaysIs DEF Sending, Sent
<1>4. /\ hwCnt \in 0 .. Ring /\ Ring \in Int /\ d \in Int /\ d <= hwCnt /\ chain \in Int
      /\ hwCnt < c /\ c \in Int /\ c = hwCnt + chain
  BY <1>1, FramedRanges, Sizes
<1> HIDE DEF c
<1>5. ASSUME NEW i \in 0 .. Ring - 1, i < hwCnt
      PROVE  /\ At(i)' = At(i) /\ store'[At(i)] = store[At(i)] /\ used'[At(i)] = used[At(i)]
             /\ lastBd'[At(i)] = lastBd[At(i)]
  <2>1. ~(hwCnt <= i /\ i < c)
    BY <1>4, <1>5
  <2> QED
    BY <1>1, <2>1
<1>6. ASSUME NEW i \in 0 .. Ring - 1, ~(i < hwCnt), i < c
      PROVE  /\ At(i)' = At(i) /\ store'[At(i)] = frame /\ ~used'[At(i)]
             /\ lastBd'[At(i)] <=> i = c - 1
  <2>1. hwCnt <= i /\ i < c
    BY <1>4, <1>6
  <2> QED
    BY <1>1, <2>1
<1>7. \A i \in 0 .. Ring : i <= hwCnt => (Starts(i)' <=> Starts(i))
  <2> SUFFICES ASSUME NEW i \in 0 .. Ring, i <= hwCnt PROVE Starts(i)' <=> Starts(i)
    OBVIOUS
  <2>1. CASE i = 0
    BY <2>1 DEF Starts
  <2>2. CASE i # 0
    <3>1. i - 1 \in 0 .. Ring - 1 /\ i - 1 < hwCnt
      BY <1>4, <2>2
    <3> QED
      BY <1>5, <2>2, <3>1 DEF Starts
  <2> QED
    BY <2>1, <2>2
<1>8. d <= hwCnt' /\ dma' = At(d)' /\ Starts(d)'
  <2>1. d <= hwCnt /\ dma = At(d) /\ Starts(d)
    BY DEF Framed
  <2>2. At(d)' = At(d)
    BY <1>1 DEF At
  <2> QED
    BY <1>1, <1>2, <1>4, <1>7, <2>1, <2>2
<1>9. ASSUME NEW i \in 0 .. Ring - 1, i < hwCnt' PROVE store'[At(i)'] \in queued'
  <2>1. CASE i < hwCnt
    BY <1>1, <1>5, <2>1 DEF Framed
  <2>2. CASE ~(i < hwCnt)
    BY <1>1, <1>6, <1>9, <2>2
  <2> QED
    BY <2>1, <2>2
<1>10. ASSUME NEW i \in 0 .. Ring - 1, i < hwCnt'
       PROVE  \/ lastBd'[At(i)']
              \/ i + 1 < hwCnt' /\ lastBd'[At(i + 1)'] /\ store'[At(i + 1)'] = store'[At(i)']
  <2>1. CASE i < hwCnt
    <3>1. lastBd[At(i)] \/ (i + 1 < hwCnt /\ lastBd[At(i + 1)] /\ store[At(i + 1)] = store[At(i)])
      BY <2>1 DEF Framed
    <3>2. i + 1 < hwCnt => i + 1 \in 0 .. Ring - 1 /\ i + 1 < hwCnt'
      BY <1>1, <1>4
    <3>3. CASE lastBd[At(i)]
      BY <1>5, <2>1, <3>3
    <3>4. CASE i + 1 < hwCnt /\ lastBd[At(i + 1)] /\ store[At(i + 1)] = store[At(i)]
      BY <1>5, <2>1, <3>2, <3>4
    <3> QED
      BY <3>1, <3>3, <3>4
  <2>2. CASE ~(i < hwCnt)
    <3>1. i < c
      BY <1>1, <1>10
    <3>2. CASE i = c - 1
      BY <1>6, <2>2, <3>1, <3>2
    <3>3. CASE i # c - 1
      <4>1. i + 1 = c - 1 /\ i + 1 < c /\ i + 1 \in 0 .. Ring - 1 /\ ~(i + 1 < hwCnt)
        BY <1>1, <1>4, <2>2, <3>1, <3>3
      <4> QED
        BY <1>1, <1>6, <2>2, <3>1, <4>1
    <3> QED
      BY <3>2, <3>3
  <2> QED
    BY <2>1, <2>2
<1>11. ASSUME NEW i \in 0 .. Ring - 1, NEW k \in 0 .. Ring - 1, i < k, k < hwCnt'
       PROVE  store'[At(i)'] <= store'[At(k)'] /\ (lastBd'[At(i)'] => store'[At(i)'] < store'[At(k)'])
  <2>1. k < c /\ i < c
    BY <1>1, <1>4, <1>11
  <2>2. CASE k < hwCnt
    <3>1. i < hwCnt
      BY <1>4, <1>11, <2>2
    <3>2. store[At(i)] <= store[At(k)] /\ (lastBd[At(i)] => store[At(i)] < store[At(k)])
      BY <1>11, <2>2 DEF Framed
    <3> QED
      BY <1>5, <2>2, <3>1, <3>2
  <2>3. CASE ~(k < hwCnt) /\ i < hwCnt
    <3>1. store[At(i)] \in queued
      BY <2>3 DEF Framed
    <3>2. store[At(i)] < frame /\ store[At(i)] \in Int
      BY <1>3, <3>1
    <3>3. At(i)' = At(i) /\ store'[At(i)] = store[At(i)] /\ At(k)' = At(k) /\ store'[At(k)] = frame
      BY <1>5, <1>6, <2>1, <2>3
    <3> QED
      BY <1>3, <3>2, <3>3
  <2>4. CASE ~(k < hwCnt) /\ ~(i < hwCnt)
    <3>1. i # c - 1
      BY <1>4, <1>11, <2>1
    <3>2. At(i)' = At(i) /\ store'[At(i)] = frame /\ At(k)' = At(k) /\ store'[At(k)] = frame /\ ~lastBd'[At(i)]
      BY <1>6, <2>1, <2>4, <3>1
    <3> QED
      BY <1>3, <3>2
  <2> QED
    BY <2>2, <2>3, <2>4
<1>12. ASSUME NEW i \in 0 .. Ring - 1, i < d
       PROVE  store'[At(i)'] \in sent' /\ (Starts(i)' => used'[At(i)'])
  <2>1. i < hwCnt /\ i \in 0 .. Ring /\ i <= hwCnt
    BY <1>4, <1>12
  <2>2. store[At(i)] \in sent /\ (Starts(i) => used[At(i)])
    BY <1>12 DEF Framed
  <2> QED
    BY <1>2, <1>5, <1>7, <2>1, <2>2
<1>13. ASSUME NEW i \in 0 .. Ring - 1, d <= i, i < hwCnt'
       PROVE  store'[At(i)'] \notin sent' /\ ~used'[At(i)']
  <2>1. CASE i < hwCnt
    BY <1>2, <1>5, <1>13, <2>1 DEF Framed
  <2>2. CASE ~(i < hwCnt)
    <3>1. frame \notin sent
      BY <1>3 DEF Framed
    <3> QED
      BY <1>1, <1>2, <1>6, <1>13, <2>2, <3>1
  <2> QED
    BY <2>1, <2>2
<1>14. sent' \subseteq queued'
  BY <1>1, <1>2 DEF Framed
<1>15. ASSUME NEW f \in queued' \ sent'
       PROVE  \E i \in 0 .. Ring - 1 : i < hwCnt' /\ store'[At(i)'] = f
  <2>1. CASE f \in queued
    <3>1. PICK i \in 0 .. Ring - 1 : i < hwCnt /\ store[At(i)] = f
      BY <1>2, <1>15, <2>1 DEF Framed
    <3>2. i < hwCnt'
      BY <1>1, <1>4, <3>1
    <3> QED
      BY <1>5, <3>1, <3>2
  <2>2. CASE f = frame
    <3>1. hwCnt \in 0 .. Ring - 1 /\ ~(hwCnt < hwCnt) /\ hwCnt < c
      BY <1>1, <1>4
    <3>2. PICK i \in 0 .. Ring - 1 : i = hwCnt
      BY <3>1
    <3>3. ~(i < hwCnt) /\ i < c
      BY <3>1, <3>2
    <3> QED
      BY <1>1, <1>6, <2>2, <3>3
  <2> QED
    BY <1>1, <1>15, <2>1, <2>2
<1>16. \A q \in Procs : run'[q].pc # "wipe"
  <2>1. Idle.pc = "idle"
    BY DEF Idle
  <2>2. run'["task"] = Idle /\ run'["isr"] = run["isr"]
    BY <1>2, AlwaysIs, ProcsAre
  <2>3. run["isr"].pc = "idle"
    BY <1>2, ProcsAre DEF MayRun
  <2> QED
    BY <2>1, <2>2, <2>3, ProcsAre
<1> QED
  BY <1>8, <1>9, <1>10, <1>11, <1>12, <1>13, <1>14, <1>15, <1>16 DEF Framed

LEMMA SgsendFraming == Always /\ Regions /\ Framing /\ Sgsend => Framing'
<1> SUFFICES ASSUME Always, Regions, Framing, Sgsend PROVE Framing'
  OBVIOUS
<1>1. PICK d \in 0 .. Ring : Framed(d) /\ Scanning(d)
  BY DEF Framing
<1>2. /\ run' = [run EXCEPT !["task"] = Idle] /\ MayRun("task")
      /\ freeCnt < chain => UNCHANGED <<bds, ring, queued>>
      /\ UNCHANGED <<dma, sent>>
  BY SgsendIs
<1>3. run'["task"] = Idle /\ \A q \in Procs : q # "task" => run'[q] = run[q]
  BY <1>2, AlwaysIs, ProcsAre
<1>4. Idle.pc = "idle"
  BY DEF Idle
<1>5. CASE freeCnt < chain
  BY <1>2, <1>3, <1>4, <1>5, BeginFraming, ProcsAre
<1>6. CASE ~(freeCnt < chain)
  <2>1. Framed(d)'
    BY <1>1, <1>6, SendsFramed
  <2>2. \A q \in Procs : run'[q].pc # "scan"
    BY <1>2, <1>3, <1>4, ProcsAre DEF MayRun
  <2>3. Scanning(d)'
    BY <2>2 DEF Scanning
  <2> QED
    BY <2>1, <2>3 DEF Framing
<1> QED
  BY <1>5, <1>6

(* The GMAC sends only what it has.                                        *)
LEMMA HasMore ==
  ASSUME Always, Whole, Regions, NEW d \in 0 .. Ring, Framed(d), ~used[dma]
  PROVE  d < hwCnt
<1> SUFFICES ASSUME ~(d < hwCnt) PROVE FALSE
  OBVIOUS
<1>1. /\ hwCnt \in 0 .. Ring /\ freeCnt \in 0 .. Ring /\ postCnt \in 0 .. Ring
      /\ freeCnt + hwCnt + postCnt = Ring /\ Ring \in Int /\ d \in Int /\ Ring > 0
  BY CountsAre, Sizes
<1>2. d = hwCnt /\ dma = At(d)
  BY <1>1 DEF Framed
<1>3. CASE d = Ring
  <2>1. 0 \in 0 .. Ring - 1 /\ 0 < d /\ Starts(0)
    BY <1>1, <1>3 DEF Starts
  <2>2. used[At(0)]
    BY <2>1 DEF Framed
  <2> QED
    BY <1>2, <1>3, <2>2, AtTurn DEF Always
<1>4. CASE d # Ring /\ freeCnt > 0
  <2>1. d \in 0 .. Ring - 1 /\ hwCnt <= d /\ d < hwCnt + freeCnt
    BY <1>1, <1>2, <1>4
  <2>2. Blank(At(d))
    BY <2>1 DEF Regions
  <2> QED
    BY <1>2, <2>2 DEF Blank
<1>5. CASE d # Ring /\ freeCnt = 0
  <2>1. d \in 0 .. Ring - 1 /\ hwCnt + freeCnt = d /\ hwCnt + freeCnt <= d /\ postCnt # 0
    BY <1>1, <1>2, <1>5
  <2>2. postHead = dma
    BY <1>2, <2>1 DEF Regions
  <2>3. \E p \in Procs : run[p].n # 0
    <3>1. postCnt = run["task"].n + run["isr"].n
      BY DEF Regions
    <3> QED
      BY <2>1, <3>1, ProcsAre
  <2>4. PICK p \in Procs : run[p].n # 0
    BY <2>3
  <2>5. run[p].pc \in {"wipe", "free"}
    <3>1. CallOK(run[p]) /\ run[p].pc \in Pcs
      BY AlwaysIs, CallFields DEF AllOK
    <3> QED
      BY <2>4, <3>1 DEF CallOK, Pcs, Whole
  <2>6. CASE run[p].pc = "wipe"
    BY <2>2, <2>6 DEF Framed
  <2>7. CASE run[p].pc = "free"
    <3>1. Blank(At(d))
      BY <2>1, <2>7 DEF Regions
    <3> QED
      BY <1>2, <3>1 DEF Blank
  <2> QED
    BY <2>5, <2>6, <2>7
<1> QED
  BY <1>1, <1>3, <1>4, <1>5

(* The frame at dma is one BD or two.                                      *)
LEMMA LengthOf ==
  ASSUME Always, Whole, Regions, NEW d \in 0 .. Ring, Framed(d), Transmit
  PROVE  /\ Length \in 1 .. 2 /\ d < hwCnt /\ d + Length <= hwCnt
         /\ dma' = At(d + Length) /\ lastBd[At((d + Length) - 1)]
         /\ Length = 2 => ~lastBd[At(d)] /\ store[At(d + 1)] = store[At(d)]
<1>1. /\ Length \in 1 .. Ring /\ lastBd[Ahead(dma, Length - 1)]
      /\ \A k \in 1 .. Length - 1 : ~lastBd[Ahead(dma, k - 1)]
      /\ ~used[dma] /\ dma' = Ahead(dma, Length)
  BY TransmitIs
<1>2. d < hwCnt /\ dma = At(d) /\ hwCnt \in 0 .. Ring /\ Ring \in Int
  BY <1>1, HasMore, CountsAre DEF Framed
<1>3. d \in 0 .. Ring - 1 /\ d \in Int /\ Length \in Int /\ 1 <= Length
  BY <1>1, <1>2
<1>4. lastBd[At(d)] \/ (d + 1 < hwCnt /\ lastBd[At(d + 1)] /\ store[At(d + 1)] = store[At(d)])
  BY <1>2, <1>3 DEF Framed
<1>5. \A k \in Int : Ahead(dma, k) = At(d + k)
  BY <1>2, <1>3, AtAhead DEF Always
<1>6. dma' = At(d + Length) /\ lastBd[At((d + Length) - 1)]
  <2>1. Length - 1 \in Int /\ d + (Length - 1) = (d + Length) - 1
    BY <1>3
  <2> QED
    BY <1>1, <1>3, <1>5, <2>1
<1>7. CASE lastBd[At(d)]
  <2>1. ~(Length > 1)
    <3> SUFFICES ASSUME Length > 1 PROVE FALSE
      OBVIOUS
    <3>1. 1 \in 1 .. Length - 1 /\ 1 - 1 = 0 /\ 0 \in Int /\ d + 0 = d
      BY <1>3
    <3>2. ~lastBd[Ahead(dma, 1 - 1)]
      BY <1>1, <3>1
    <3> QED
      BY <1>5, <1>7, <3>1, <3>2
  <2>2. Length = 1
    BY <1>3, <2>1
  <2> QED
    BY <1>2, <1>3, <1>6, <2>2
<1>8. CASE ~lastBd[At(d)]
  <2>1. d + 1 < hwCnt /\ lastBd[At(d + 1)] /\ store[At(d + 1)] = store[At(d)]
    BY <1>4, <1>8
  <2>2. ~(Length > 2)
    <3> SUFFICES ASSUME Length > 2 PROVE FALSE
      OBVIOUS
    <3>1. 2 \in 1 .. Length - 1 /\ 2 - 1 = 1 /\ 1 \in Int
      BY <1>3
    <3>2. ~lastBd[Ahead(dma, 2 - 1)]
      BY <1>1, <3>1
    <3> QED
      BY <1>5, <2>1, <3>1, <3>2
  <2>3. Length # 1
    <3> SUFFICES ASSUME Length = 1 PROVE FALSE
      OBVIOUS
    <3>1. (d + Length) - 1 = d
      BY <1>3
    <3> QED
      BY <1>6, <1>8, <3>1
  <2>4. Length = 2
    BY <1>3, <2>2, <2>3
  <2>5. d + 2 <= hwCnt
    BY <1>2, <1>3, <2>1
  <2> QED
    BY <1>2, <1>6, <1>8, <2>1, <2>4, <2>5
<1> QED
  BY <1>7, <1>8

LEMMA TransmitFramed ==
  ASSUME Always, Whole, Regions, NEW d \in 0 .. Ring, Framed(d), Transmit,
         NEW m \in 0 .. Ring, m = d + Length
  PROVE  Framed(m)'
<1>1. /\ used' = [used EXCEPT ![dma] = TRUE] /\ sent' = sent \cup {store[dma]}
      /\ UNCHANGED <<lastBd, store, run, queued>> /\ UNCHANGED ring
  BY TransmitIs
<1>2. UNCHANGED <<hwHead, hwCnt, postHead>>
  BY <1>1 DEF ring
<1>3. /\ Length \in 1 .. 2 /\ d < hwCnt /\ m <= hwCnt
      /\ dma' = At(m) /\ lastBd[At(m - 1)]
      /\ Length = 2 => ~lastBd[At(d)] /\ store[At(d + 1)] = store[At(d)]
  BY LengthOf
<1>4. hwCnt \in 0 .. Ring /\ Ring \in Int /\ d \in Int /\ m \in Int /\ d < m /\ m <= d + 2
  BY <1>3, CountsAre
<1>5. d \in 0 .. Ring - 1 /\ dma = At(d) /\ dma \in Bds
  BY <1>3, <1>4, AtIs DEF Framed
<1>6. \A i : At(i)' = At(i)
  BY <1>2 DEF At
<1>7. \A i \in 0 .. Ring - 1 : used[At(i)] => used'[At(i)]
  BY <1>1, AtIs, AlwaysIs DEF BdTypes
<1>8. \A i \in 0 .. Ring - 1 : i # d => (used'[At(i)] <=> used[At(i)])
  <2> SUFFICES ASSUME NEW i \in 0 .. Ring - 1, i # d PROVE used'[At(i)] <=> used[At(i)]
    OBVIOUS
  <2>1. At(i) # dma /\ At(i) \in Bds
    BY <1>5, AtIs
  <2> QED
    BY <1>1, <2>1, AlwaysIs DEF BdTypes
<1>9. used'[At(d)]
  BY <1>1, <1>5, AlwaysIs DEF BdTypes
<1>10. \A i : Starts(i)' <=> Starts(i)
  BY <1>1, <1>6 DEF Starts
<1>11. m <= hwCnt' /\ dma' = At(m)' /\ Starts(m)'
  BY <1>2, <1>3, <1>6, <1>10 DEF Starts
<1>12. \A i \in 0 .. Ring - 1 : i < hwCnt' => store'[At(i)'] \in queued'
  BY <1>1, <1>2, <1>6 DEF Framed
<1>13. \A i \in 0 .. Ring - 1 : i < hwCnt' =>
         \/ lastBd'[At(i)']
         \/ i + 1 < hwCnt' /\ lastBd'[At(i + 1)'] /\ store'[At(i + 1)'] = store'[At(i)']
  BY <1>1, <1>2, <1>6 DEF Framed
<1>14. \A i, k \in 0 .. Ring - 1 : i < k /\ k < hwCnt' =>
         store'[At(i)'] <= store'[At(k)'] /\ (lastBd'[At(i)'] => store'[At(i)'] < store'[At(k)'])
  BY <1>1, <1>2, <1>6 DEF Framed
<1>15. ASSUME NEW i \in 0 .. Ring - 1, i < m
       PROVE  store'[At(i)'] \in sent' /\ (Starts(i)' => used'[At(i)'])
  <2>1. CASE i < d
    <3>1. store[At(i)] \in sent /\ (Starts(i) => used[At(i)])
      BY <2>1 DEF Framed
    <3> QED
      BY <1>1, <1>6, <1>7, <1>10, <3>1
  <2>2. CASE i = d
    BY <1>1, <1>5, <1>6, <1>9, <2>2
  <2>3. CASE ~(i < d) /\ i # d
    <3>1. i = d + 1 /\ Length = 2
      BY <1>3, <1>4, <1>15, <2>3
    <3>2. store[At(i)] = store[At(d)] /\ ~lastBd[At(d)]
      BY <1>3, <3>1
    <3>3. ~Starts(i)
      <4>1. i # 0 /\ i - 1 = d
        BY <1>4, <1>5, <3>1
      <4> QED
        BY <3>2, <4>1 DEF Starts
    <3> QED
      BY <1>1, <1>5, <1>6, <1>10, <3>2, <3>3
  <2> QED
    BY <1>4, <2>1, <2>2, <2>3
<1>16. ASSUME NEW i \in 0 .. Ring - 1, m <= i, i < hwCnt'
       PROVE  store'[At(i)'] \notin sent' /\ ~used'[At(i)']
  <2>1. i # d /\ d <= i /\ i < hwCnt /\ m - 1 \in 0 .. Ring - 1 /\ m - 1 < i /\ d <= m - 1
    BY <1>2, <1>4, <1>5, <1>16
  <2>2. store[At(i)] \notin sent /\ ~used[At(i)]
    BY <2>1 DEF Framed
  <2>3. store[At(m - 1)] < store[At(i)]
    BY <1>3, <2>1 DEF Framed
  <2>4. store[At(d)] <= store[At(m - 1)]
    <3>1. CASE m - 1 = d
      <4>1. store[At(d)] \in Int
        BY <1>5, AlwaysIs DEF BdTypes
      <4> QED
        BY <3>1, <4>1
    <3>2. CASE m - 1 # d
      <4>1. d < m - 1 /\ m - 1 < hwCnt
        BY <1>4, <2>1, <3>2
      <4> QED
        BY <1>5, <2>1, <4>1 DEF Framed
    <3> QED
      BY <3>1, <3>2
  <2>5. store[At(i)] # store[At(d)]
    <3>1. store[At(i)] \in Int /\ store[At(m - 1)] \in Int /\ store[At(d)] \in Int
      <4>1. At(i) \in Bds /\ At(m - 1) \in Bds /\ At(d) \in Bds
        BY <1>4, <2>1, AtIs
      <4> QED
        BY <4>1, AlwaysIs DEF BdTypes
    <3> QED
      BY <2>3, <2>4, <3>1
  <2> QED
    BY <1>1, <1>5, <1>6, <1>8, <2>1, <2>2, <2>5
<1>17. sent' \subseteq queued'
  <2>1. store[At(d)] \in queued
    BY <1>3, <1>5 DEF Framed
  <2> QED
    BY <1>1, <1>5, <2>1 DEF Framed
<1>18. \A f \in queued' \ sent' : \E i \in 0 .. Ring - 1 : i < hwCnt' /\ store'[At(i)'] = f
  BY <1>1, <1>2, <1>6 DEF Framed
<1>19. \A p \in Procs : run'[p].pc = "wipe" => used'[postHead']
  <2>1. \A p \in Procs : run[p].pc = "wipe" => used[postHead]
    BY DEF Framed
  <2>2. \A bd \in Bds : used[bd] => used'[bd]
    BY <1>1, AlwaysIs DEF BdTypes
  <2> QED
    BY <1>1, <1>2, <2>1, <2>2, AlwaysIs DEF HeadTypes
<1> QED
  BY <1>11, <1>12, <1>13, <1>14, <1>15, <1>16, <1>17, <1>18, <1>19 DEF Framed

LEMMA TransmitFraming == Always /\ Whole /\ Regions /\ Framing /\ Transmit => Framing'
<1> SUFFICES ASSUME Always, Whole, Regions, Framing, Transmit PROVE Framing'
  OBVIOUS
<1>1. PICK d \in 0 .. Ring : Framed(d) /\ Scanning(d)
  BY DEF Framing
<1>2. Length \in 1 .. 2 /\ d + Length <= hwCnt /\ hwCnt \in 0 .. Ring
  BY <1>1, LengthOf, CountsAre
<1>3. PICK m \in 0 .. Ring : m = d + Length
  <2> DEFINE n == Length
  <2>1. n \in 1 .. 2 /\ d + n <= hwCnt /\ Ring \in Int
    BY <1>2, Sizes
  <2> HIDE DEF n
  <2>2. d + n \in 0 .. Ring
    BY <1>2, <2>1
  <2> QED
    BY <2>2 DEF n
<1>4. Framed(m)'
  BY <1>1, <1>3, TransmitFramed
<1>5. d <= m
  BY <1>2, <1>3
<1>6. UNCHANGED <<lastBd, run>> /\ UNCHANGED <<hwHead, hwCnt, freeCnt>>
  BY TransmitIs DEF ring
<1>7. \A p \in Procs : run[p].pc = "scan" => \E j, e \in 0 .. Ring : Looks(run[p], m, j, e)
  <2> SUFFICES ASSUME NEW p \in Procs, run[p].pc = "scan"
               PROVE  \E j, e \in 0 .. Ring : Looks(run[p], m, j, e)
    OBVIOUS
  <2>1. PICK j \in 0 .. Ring, e \in 0 .. Ring : Looks(run[p], d, j, e)
    BY <1>1 DEF Scanning
  <2>2. run[p].count \in Int /\ run[p].partial \in Int
    BY AlwaysIs, CallFields
  <2>3. Looks(run[p], m, j, e)
    BY <1>5, <2>1, <2>2 DEF Looks, Taken
  <2> QED
    BY <2>3
<1>8. Scanning(m)'
  BY <1>6, <1>7 DEF Scanning, Looks, At, Starts, Taken, Least
<1> QED
  BY <1>4, <1>8 DEF Framing


LEMMA InitFraming == Init => Framing
<1> SUFFICES ASSUME Init PROVE Framing
  OBVIOUS
<1>1. /\ hwHead = 0 /\ hwCnt = 0 /\ dma = 0 /\ queued = {} /\ sent = {}
      /\ \A p \in Procs : run[p] = Idle
  BY DEF Init
<1>2. Idle.pc = "idle"
  BY DEF Idle
<1>3. 0 \in 0 .. Ring /\ At(0) = 0
  BY <1>1, InitAlways, AtTurn, Sizes DEF Always
<1>4. Framed(0)
  <2>1. Starts(0) /\ \A i \in 0 .. Ring - 1 : ~(i < 0) /\ ~(i < hwCnt)
    BY <1>1 DEF Starts
  <2>2. \A i, k \in 0 .. Ring - 1 : ~(i < k /\ k < hwCnt)
    BY <2>1
  <2> QED
    BY <1>1, <1>2, <1>3, <2>1, <2>2 DEF Framed
<1>5. Scanning(0)
  BY <1>1, <1>2 DEF Scanning
<1> QED
  BY <1>3, <1>4, <1>5 DEF Framing

LEMMA StutterFraming == Always /\ Regions /\ Framing /\ UNCHANGED vars => Framing'
<1> SUFFICES ASSUME Always, Regions, Framing, UNCHANGED vars PROVE Framing'
  OBVIOUS
<1>1. PICK d \in 0 .. Ring : Framed(d) /\ Scanning(d)
  BY DEF Framing
<1>2. UNCHANGED <<used, lastBd, store, hwHead, hwCnt, postHead, freeCnt, dma, queued, sent, run>>
  BY DEF vars, bds, ring, history
<1>3. \A q \in Procs : run'[q].pc = "wipe" => used'[postHead']
  <2>1. \A q \in Procs : run[q].pc = "wipe" => used[postHead]
    BY <1>1 DEF Framed
  <2> QED
    BY <1>2, <2>1
<1>4. Framed(d)'
  BY <1>1, <1>2, <1>3, FramedKept
<1>5. Scanning(d)'
  BY <1>1, <1>2, ScanningKept
<1> QED
  BY <1>4, <1>5 DEF Framing

LEMMA StepFraming ==
  Always /\ Whole /\ Regions /\ Framing /\ [Next]_vars /\ ~raced' /\ ~crowded' /\ ~torn' => Framing'
<1>1. ASSUME NEW p \in Procs, ~GoOn(p)
      PROVE  Always /\ Regions /\ Framing /\ ProcessSentBds(p) /\ ~crowded' /\ ~torn' => Framing'
  BY <1>1, StartFraming, ScanFraming, UpdateFraming, WipeFraming, FreeFraming DEF ProcessSentBds
<1> QED
  BY <1>1, NotCut, TransmitFraming, InterruptFraming, SgsendFraming, OutputFraming, StutterFraming DEF Next

(* What has once happened has happened.                                    *)
LEMMA FlagsStay ==
  Always /\ [Next]_vars => (raced => raced') /\ (crowded => crowded') /\ (torn => torn')
<1> SUFFICES ASSUME Always, [Next]_vars
             PROVE  (raced => raced') /\ (crowded => crowded') /\ (torn => torn')
  OBVIOUS
<1> DEFINE Stay == (raced => raced') /\ (crowded => crowded') /\ (torn => torn')
<1>1. Transmit \/ Sgsend => Stay
  BY DEF Transmit, Sgsend
<1>2. Interrupt => Stay
  BY AlwaysIs DEF Interrupt, Flags
<1>6. CutsInUpdate \/ CutsInFree => Stay
  BY AlwaysIs DEF CutsInUpdate, CutsInFree, CutsIn, Flags
<1>3. ASSUME NEW p \in Procs PROVE ProcessSentBds(p) => Stay
  <2>1. Start(p) => Stay
    BY AlwaysIs DEF Start, Flags
  <2>2. Scan(p) \/ Wipe(p) \/ BdRingFree(p) => Stay
    BY DEF Scan, Wipe, BdRingFree, history
  <2>3. Update(p) => Stay
    BY UpdateIs, AlwaysIs DEF Flags
  <2>4. GoOn(p) => Stay
    BY GoOnIs DEF history
  <2> QED
    BY <2>1, <2>2, <2>3, <2>4 DEF ProcessSentBds
<1>4. ASSUME NEW pbufs \in 1 .. 2 PROVE LowLevelOutput(pbufs) => Stay
  BY DEF LowLevelOutput, history
<1>5. UNCHANGED vars => Stay
  BY DEF vars, history
<1> QED
  BY <1>1, <1>2, <1>3, <1>4, <1>5, <1>6 DEF Next

LEMMA InitWhole == Init => Whole
<1>1. Init => \A p \in Procs : run[p].pc = "idle"
  BY DEF Init, Idle
<1> QED
  BY <1>1 DEF Whole, Rest

(* A call whose pc is not among the rest takes the place of another.       *)
LEMMA StaysWhole ==
  ASSUME Always, Whole, NEW p \in Procs, NEW r \in Call, run' = [run EXCEPT ![p] = r], r.pc \notin Rest
  PROVE  Whole'
<1>1. run'[p] = r /\ \A q \in Procs : q # p => run'[q] = run[q]
  BY AlwaysIs, RunChanges
<1> QED
  BY <1>1 DEF Whole

LEMMA PcWhole ==
  ASSUME Always, Whole, NEW p \in Procs, NEW pc \in Pcs, run' = [run EXCEPT ![p].pc = pc], pc \notin Rest
  PROVE  Whole'
<1>1. run'[p].pc = pc /\ \A q \in Procs : q # p => run'[q] = run[q]
  BY AlwaysIs, PcChanges
<1> QED
  BY <1>1 DEF Whole

LEMMA StepWhole == Always /\ Whole /\ [Next]_vars /\ ~raced' => Whole'
<1> SUFFICES ASSUME Always, Whole, [Next]_vars, ~raced' PROVE Whole'
  OBVIOUS
<1>1. CASE UNCHANGED run
  BY <1>1 DEF Whole
<1>2. CASE Interrupt
  BY <1>2, PcWhole, ProcsAre DEF Interrupt, Pcs, Rest
<1>3. CASE Sgsend
  <2>1. Idle \in Call /\ Idle.pc = "idle" /\ run' = [run EXCEPT !["task"] = Idle]
    <3>1. 0 \in Bds /\ 0 \in 0 .. Ring
      BY Sizes DEF Bds
    <3> QED
      BY <1>3, <3>1 DEF Sgsend, Idle, Call, Pcs
  <2>2. Idle.pc \notin Rest
    BY <2>1 DEF Rest
  <2> QED
    BY <2>1, <2>2, StaysWhole, ProcsAre
<1>4. ASSUME NEW p \in Procs, ProcessSentBds(p) PROVE Whole'
  <2>1. CASE Start(p)
    <3> DEFINE r == IF hwCnt = 0 THEN Return(p) ELSE Scans
    <3>1. r \in Call /\ r.pc \in {"send", "idle", "scan"}
      BY ReturnIs, ScansIs
    <3>2. run' = [run EXCEPT ![p] = r]
      BY <2>1, StartIs
    <3> HIDE DEF r
    <3>3. r.pc \notin Rest
      BY <3>1 DEF Rest
    <3> QED
      BY <3>1, <3>2, <3>3, StaysWhole
  <2>2. CASE Scan(p)
    <3> DEFINE r == Turned(run[p])
    <3>1. run[p] \in Call /\ CallOK(run[p])
      BY AlwaysIs DEF AllOK
    <3>2. r \in Call /\ r.pc = "scan" /\ run' = [run EXCEPT ![p] = r]
      BY <2>2, <3>1, ScanIs, TurnedIs
    <3> HIDE DEF r
    <3>3. r.pc \notin Rest
      BY <3>2 DEF Rest
    <3> QED
      BY <3>2, <3>3, StaysWhole
  <2>3. CASE Update(p)
    <3> DEFINE n == Taken(run[p])  r == IF n = 0 THEN Return(p) ELSE Holds(n)
    <3>1. run' = [run EXCEPT ![p] = r]
      BY <2>3, UpdateIs
    <3>2. n \in 0 .. Ring
      BY <2>3, UpdateIs, TakenRange
    <3> HIDE DEF n
    <3>3. n # 0 => n \in 1 .. Ring
      BY <3>2
    <3>4. r \in Call /\ r.pc \in {"send", "idle", "wipe"}
      BY <3>3, ReturnIs, HoldsIs
    <3> HIDE DEF r
    <3>5. r.pc \notin Rest
      BY <3>4 DEF Rest
    <3> QED
      BY <3>1, <3>4, <3>5, StaysWhole
  <2>4. CASE Wipe(p)
    BY <2>4, WipeIs, PcWhole DEF Pcs, Rest
  <2>5. CASE BdRingFree(p)
    <3> DEFINE r == [Idle EXCEPT !.pc = "start"]
    <3>1. r \in Call /\ r.pc = "start" /\ run' = [run EXCEPT ![p] = r]
      BY <2>5, FreeIs, StartsCall
    <3> HIDE DEF r
    <3>2. r.pc \notin Rest
      BY <3>1 DEF Rest
    <3> QED
      BY <3>1, <3>2, StaysWhole
  <2> QED
    BY <1>4, <2>1, <2>2, <2>3, <2>4, <2>5, NotCut DEF ProcessSentBds
<1>5. ASSUME NEW pbufs \in 1 .. 2, LowLevelOutput(pbufs) PROVE Whole'
  <2> DEFINE pc == IF freeCnt <= Low THEN "start" ELSE "send"
  <2>1. run' = [run EXCEPT !["task"].pc = pc]
    BY <1>5 DEF LowLevelOutput
  <2>2. pc \in Pcs /\ pc \notin Rest
    BY DEF Pcs, Rest
  <2> HIDE DEF pc
  <2> QED
    BY <2>1, <2>2, PcWhole, ProcsAre
<1> QED
  BY <1>1, <1>2, <1>3, <1>4, <1>5, NotCut DEF Next, Transmit, vars

LEMMA InitIInv == Init => IInv
BY InitAlways, InitWhole, InitRegions, InitFraming DEF IInv

LEMMA StepIInv == IInv /\ [Next]_vars => IInv'
<1> SUFFICES ASSUME IInv, [Next]_vars PROVE IInv'
  OBVIOUS
<1>1. Always /\ Always'
  BY StepAlways DEF IInv
<1>2. ~raced' => ~raced /\ Whole /\ Regions /\ Whole' /\ Regions'
  BY <1>1, FlagsStay, StepWhole, StepRegions DEF IInv
<1>3. ~raced' /\ ~crowded' /\ ~torn' => Framing'
  <2> SUFFICES ASSUME ~raced', ~crowded', ~torn' PROVE Framing'
    OBVIOUS
  <2>1. Whole /\ Regions /\ Framing
    BY <1>2, FlagsStay DEF IInv
  <2> QED
    BY <1>1, <2>1, StepFraming
<1> QED
  BY <1>1, <1>2, <1>3 DEF IInv

-----------------------------------------------------------------------------
(* The inductive invariant: what the counters, the pointers and the marks  *)
(* of the ring say of each other, and of the calls of process_sent_bds.    *)
THEOREM Invariance == Spec => []IInv
BY InitIInv, StepIInv, PTL DEF Spec

(* As long as the interrupt has not fallen into the task's                 *)
(* process_sent_bds, every BD is free, the GMAC's or in a set that one of  *)
(* the two contexts holds: low_level_output does not run out of BDs that   *)
(* nobody will ever give back.                                             *)
THEOREM NothingLost == Spec => []NoLeak
<1>1. IInv => NoLeak
  <2> SUFFICES ASSUME IInv, ~raced PROVE Leaked = 0 /\ freeCnt + hwCnt + postCnt = Ring
    BY DEF NoLeak
  <2>1. Always /\ Regions
    BY DEF IInv
  <2>2. run["task"].n \in 0 .. Ring /\ run["isr"].n \in 0 .. Ring
    BY <2>1, CountsAre, ProcsAre
  <2>3. postCnt = run["task"].n + run["isr"].n /\ freeCnt + hwCnt + postCnt = Ring
    BY <2>1 DEF Regions
  <2>4. Leaked = 0
    BY <2>2, <2>3 DEF Leaked
  <2> QED
    BY <2>3, <2>4
<1> QED
  BY <1>1, Invariance, PTL

(* process_sent_bds does not free the pbufs of a frame that the GMAC has   *)
(* yet to send: unless the interrupt fell into the task's call, or a call  *)
(* began with more left to send than was free, or a call took one of the   *)
(* two BDs of a frame, every frame that was queued and is not sent still   *)
(* has its pbuf in one of the BDs that the GMAC has.                       *)
THEOREM SentBeforeFreed == Spec => []FreedWasSent
<1>1. IInv => FreedWasSent
  <2> SUFFICES ASSUME IInv PROVE FreedWasSent
    OBVIOUS
  <2>1. TypeOK
    BY DEF IInv, Always
  <2>2. ASSUME ~raced, ~crowded, ~torn, NEW f \in queued \ sent
        PROVE  \E bd \in Unsent : store[bd] = f
    <3>1. Always /\ Regions /\ Framing
      BY <2>2 DEF IInv
    <3>2. PICK d \in 0 .. Ring : Framed(d)
      BY <3>1 DEF Framing
    <3>3. PICK i \in 0 .. Ring - 1 : i < hwCnt /\ store[At(i)] = f
      BY <2>2, <3>2 DEF Framed
    <3>4. hwCnt \in 0 .. Ring /\ Least(hwCnt, Ring) = hwCnt /\ i \in 0 .. hwCnt - 1
      BY <3>1, <3>3, CountsAre DEF Least
    <3>5. At(i) \in Span(hwHead, Least(hwCnt, Ring))
      BY <3>4 DEF At, Span
    <3> QED
      BY <2>2, <3>3, <3>5 DEF Unsent
  <2> QED
    BY <2>1, <2>2 DEF FreedWasSent
<1> QED
  BY <1>1, Invariance, PTL

=============================================================================
