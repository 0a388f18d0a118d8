--------------------------- MODULE TrxGainProofs ---------------------------
(***************************************************************************)
(* Proofs about TrxGain and the pages it reads (EepromPages): a valid copy *)
(* of a page in RAM was saved as such, the binary search finds the gain    *)
(* in tables of up to 128 entries, and the receiver's levels never leave   *)
(* their ends between two writes.                                          *)
(***************************************************************************)
EXTENDS TrxGain, WellFoundedInduction, TLAPS

-----------------------------------------------------------------------------
(* The search: a recursive function, which exists because the part of the  *)
(* table that is left gets shorter.                                        *)

(* The place that is looked at.                                            *)
Mid(s) == s.left + ((s.right - s.left) \div 2)
After(s) == [s EXCEPT !.left = Mid(s) + 1]
Before(s) == [left |-> s.left, right |-> Mid(s) - 1, result |-> Mid(s)]

(* The search's answer at s, from the answers f at what is left of s.      *)
Answer(f, s, at, gain) ==
  IF s.left > s.right THEN s.result
  ELSE IF at[Mid(s)] = gain THEN Mid(s)
  ELSE IF at[Mid(s)] > gain THEN f[After(s)] ELSE f[Before(s)]

(* The number of entries that are left.                                    *)
Remaining(s) == IF s.left > s.right THEN 0 ELSE s.right - s.left + 1

(* A set of numbers that is not empty has a least one: induction over a    *)
(* number is the search for its least counterexample.                      *)
LEMMA LeastNatural ==
  ASSUME NEW T \in SUBSET Nat, T # {}
  PROVE  \E n \in T : \A m \in T : n <= m
<1> DEFINE R == {ss \in Nat \X Nat : ss[1] < ss[2]}
<1>1. IsWellFoundedOn(R, Nat)
  BY NatLessThanWellFounded DEF OpToRel
<1>2. \A m, n \in Nat : m < n => <<m, n>> \in R
  OBVIOUS
<1> HIDE DEF R
<1>3. PICK n \in T : \A m \in T : <<m, n>> \notin R
  BY <1>1, WFMin
<1>4. \A m \in T : ~(m < n)
  BY <1>2, <1>3
<1> QED
  BY <1>4

LEMMA Places == First = 4 /\ First \in Int /\ Last \in Int /\ First <= Last
BY DsaAssumption DEF First, Last, Item

(* Where the search goes from a place that is not its end.                 *)
LEMMA Halving ==
  ASSUME NEW s \in Spot
  PROVE  /\ s.left \in Int /\ s.right \in Int /\ Remaining(s) \in 0 .. Last - First + 1
         /\ s.left <= s.right =>
              /\ Mid(s) \in s.left .. s.right /\ Mid(s) \in First .. Last
              /\ After(s) \in Spot /\ Remaining(After(s)) < Remaining(s)
              /\ Before(s) \in Spot /\ Remaining(Before(s)) < Remaining(s)
<1> USE Places
<1>1. /\ s.left \in First .. Last + 1 /\ s.right \in First - 1 .. Last
      /\ s.result \in {0} \cup First .. Last
      /\ s = [left |-> s.left, right |-> s.right, result |-> s.result]
  BY DEF Spot
<1>2. Remaining(s) \in 0 .. Last - First + 1
  BY <1>1 DEF Remaining
<1>3. ASSUME s.left <= s.right
      PROVE  /\ Mid(s) \in s.left .. s.right /\ Mid(s) \in First .. Last
             /\ After(s) \in Spot /\ Remaining(After(s)) < Remaining(s)
             /\ Before(s) \in Spot /\ Remaining(Before(s)) < Remaining(s)
  <2>1. Mid(s) \in s.left .. s.right
    BY <1>1, <1>3 DEF Mid
  <2>2. Mid(s) \in First .. Last
    BY <2>1, <1>1
  <2>3. After(s) = [left |-> Mid(s) + 1, right |-> s.right, result |-> s.result]
    BY <1>1 DEF After
  <2>4. Before(s) = [left |-> s.left, right |-> Mid(s) - 1, result |-> Mid(s)]
    BY <1>1 DEF Before
  <2> HIDE DEF Mid
  <2>5. After(s) \in Spot /\ Before(s) \in Spot
    BY <2>1, <2>2, <2>3, <2>4, <1>1 DEF Spot
  <2>6. Remaining(After(s)) < Remaining(s) /\ Remaining(Before(s)) < Remaining(s)
    BY <2>1, <2>3, <2>4, <1>1, <1>3 DEF Remaining
  <2> QED
    BY <2>1, <2>2, <2>5, <2>6
<1> QED
  BY <1>1, <1>2, <1>3

(* The search exists.                                                      *)
LEMMA SearchExists ==
  ASSUME NEW at, NEW gain
  PROVE  \E f : f = [s \in Spot |-> Answer(f, s, at, gain)]
<1> DEFINE Right(f, n) == /\ f = [s \in Spot |-> f[s]]
                          /\ \A s \in Spot : Remaining(s) <= n => f[s] = Answer(f, s, at, gain)
           Wrong == {n \in Nat : ~\E f : Right(f, n)}
           Longest == Last - First + 1
<1>1. Longest \in Nat
  BY Places
<1>2. \A s \in Spot : Remaining(s) \in Nat /\ Remaining(s) <= Longest
  BY Halving, Places
<1>3. Right([s \in Spot |-> s.result], 0)
  <2> DEFINE f == [s \in Spot |-> s.result]
  <2>1. ASSUME NEW s \in Spot, Remaining(s) <= 0 PROVE f[s] = Answer(f, s, at, gain)
    <3>1. s.left > s.right
      BY <2>1, Halving DEF Remaining
    <3> QED
      BY <3>1 DEF Answer
  <2> QED
    BY <2>1
<1>4. ASSUME NEW n \in Nat, NEW f, Right(f, n)
      PROVE  Right([s \in Spot |-> Answer(f, s, at, gain)], n + 1)
  <2> DEFINE g == [s \in Spot |-> Answer(f, s, at, gain)]
  <2>1. \A s \in Spot : Remaining(s) <= n => g[s] = f[s]
    BY <1>4
  <2>2. ASSUME NEW s \in Spot, Remaining(s) <= n + 1 PROVE g[s] = Answer(g, s, at, gain)
    <3>1. g[s] = Answer(f, s, at, gain)
      OBVIOUS
    <3>2. CASE s.left > s.right
      BY <3>1, <3>2 DEF Answer
    <3>3. CASE s.left <= s.right
      <4>1. /\ After(s) \in Spot /\ Remaining(After(s)) < Remaining(s)
            /\ Before(s) \in Spot /\ Remaining(Before(s)) < Remaining(s)
        BY <3>3, Halving
      <4>2. Remaining(After(s)) <= n /\ Remaining(Before(s)) <= n
        BY <4>1, <2>2, <1>2
      <4>3. g[After(s)] = f[After(s)] /\ g[Before(s)] = f[Before(s)]
        BY <4>1, <4>2, <2>1
      <4> HIDE DEF g
      <4> QED
        BY <3>1, <4>3 DEF Answer
    <3> QED
      BY <3>2, <3>3, Halving
  <2>3. g = [s \in Spot |-> g[s]]
    OBVIOUS
  <2> HIDE DEF g
  <2>4. Right(g, n + 1)
    BY <2>2, <2>3
  <2> QED
    BY <2>4 DEF g
<1> HIDE DEF Right
<1>5. Wrong = {}
  <2>1. SUFFICES ASSUME Wrong # {} PROVE FALSE
    OBVIOUS
  <2>2. PICK n \in Wrong : \A m \in Wrong : n <= m
    BY <2>1, LeastNatural
  <2>3. n \in Nat /\ n # 0
    BY <1>3
  <2>4. n - 1 \in Nat /\ ~(n <= n - 1) /\ (n - 1) + 1 = n
    BY <2>3
  <2>5. PICK f : Right(f, n - 1)
    BY <2>2, <2>4
  <2>6. Right([s \in Spot |-> Answer(f, s, at, gain)], (n - 1) + 1)
    BY <2>4, <2>5, <1>4
  <2>7. Right([s \in Spot |-> Answer(f, s, at, gain)], n)
    BY <2>4, <2>6
  <2> QED
    BY <2>2, <2>7
<1>6. PICK f : Right(f, Longest)
  BY <1>1, <1>5
<1>7. /\ f = [s \in Spot |-> f[s]]
      /\ \A s \in Spot : f[s] = Answer(f, s, at, gain)
  BY <1>6, <1>2 DEF Right
<1>8. f = [s \in Spot |-> Answer(f, s, at, gain)]
  BY <1>7
<1> QED
  BY <1>8

(* Induction over what is left, with the set of the places done.           *)
LEMMA SpotInduction ==
  ASSUME NEW Q \in SUBSET Spot,
         ASSUME NEW s \in Spot, \A t \in Spot : Remaining(t) < Remaining(s) => t \in Q
         PROVE  s \in Q
  PROVE  Q = Spot
<1> DEFINE Sizes == {n \in Nat : \E s \in Spot \ Q : n = Remaining(s)}
<1>1. SUFFICES ASSUME Q # Spot PROVE FALSE
  OBVIOUS
<1>2. \A s \in Spot : Remaining(s) \in Nat
  BY Halving, Places
<1>3. Sizes \in SUBSET Nat /\ Sizes # {}
  BY <1>1, <1>2
<1>4. PICK n \in Sizes : \A k \in Sizes : n <= k
  BY <1>3, LeastNatural
<1>5. PICK s \in Spot \ Q : n = Remaining(s)
  BY <1>4
<1>6. ASSUME NEW t \in Spot, Remaining(t) < Remaining(s) PROVE t \in Q
  <2>1. SUFFICES ASSUME t \notin Q PROVE FALSE
    OBVIOUS
  <2>2. Remaining(t) \in Sizes
    BY <2>1, <1>2
  <2> QED
    BY <2>2, <1>2, <1>4, <1>5, <1>6
<1>7. s \in Q
  BY <1>5, <1>6
<1> QED
  BY <1>5, <1>7

(* Search ends at a place of the table, or without a result.               *)
LEMMA SearchIsPlace ==
  ASSUME NEW at, NEW gain
  PROVE  Search(at, gain) \in {0} \cup First .. Last
<1> DEFINE Start0 == [left |-> First, right |-> Last, result |-> 0]
           f == CHOOSE f : f = [s \in Spot |-> Answer(f, s, at, gain)]
           Q == {s \in Spot : f[s] \in {0} \cup First .. Last}
<1>1. f = [s \in Spot |-> Answer(f, s, at, gain)]
  BY SearchExists
<1>2. Search(at, gain) = f[Start0]
  BY DEF Search, Answer, Mid, After, Before
<1> HIDE DEF f
<1>3. \A s \in Spot : f[s] = Answer(f, s, at, gain)
  BY <1>1
<1>4. ASSUME NEW s \in Spot, \A t \in Spot : Remaining(t) < Remaining(s) => t \in Q
      PROVE  s \in Q
  <2>1. s.result \in {0} \cup First .. Last
    BY DEF Spot
  <2>2. CASE s.left > s.right
    BY <2>1, <2>2, <1>3 DEF Answer
  <2>3. CASE s.left <= s.right
    <3>1. Mid(s) \in First .. Last /\ After(s) \in Q /\ Before(s) \in Q /\ ~(s.left > s.right)
      BY <2>3, <1>4, Halving
    <3> QED
      BY <3>1, <1>3 DEF Answer
  <2> QED
    BY <2>2, <2>3, Halving
<1> HIDE DEF Q
<1>5. Q = Spot
  BY <1>4, SpotInduction DEF Q
<1>6. Start0 \in Spot
  BY Places DEF Spot
<1> QED
  BY <1>2, <1>5, <1>6 DEF Q

(* What the search stands for while it runs: the entries before the part   *)
(* that is left are above the gain, the one behind it is below, and is the *)
(* result so far; nothing is behind it when there is no result.            *)
Straddles(s, at, gain) ==
  /\ s.left <= s.right + 1
  /\ s.left > First => at[s.left - 1] > gain
  /\ \/ s.right = Last
     \/ s.result = s.right + 1 /\ s.result \in First .. Last /\ at[s.result] < gain

(* The entry that was looked for, whatever the table holds: not above the  *)
(* gain, and equal to it, the first, or the next after one that is above.  *)
Nearest(i, at, gain) ==
  /\ i \in First .. Last /\ at[i] <= gain
  /\ at[i] = gain \/ i = First \/ at[i - 1] > gain

(* Search finds such an entry when the last one is not above the gain.     *)
LEMMA SearchIsNearest ==
  ASSUME NEW at \in [First .. Last -> Int], NEW gain \in Int, at[Last] <= gain
  PROVE  Nearest(Search(at, gain), at, gain)
<1> DEFINE Start0 == [left |-> First, right |-> Last, result |-> 0]
           f == CHOOSE f : f = [s \in Spot |-> Answer(f, s, at, gain)]
           Q == {s \in Spot : Straddles(s, at, gain) => Nearest(f[s], at, gain)}
<1>1. f = [s \in Spot |-> Answer(f, s, at, gain)]
  BY SearchExists
<1>2. Search(at, gain) = f[Start0]
  BY DEF Search, Answer, Mid, After, Before
<1> HIDE DEF f
<1>3. \A s \in Spot : f[s] = Answer(f, s, at, gain)
  BY <1>1
<1>4. Start0 \in Spot /\ Straddles(Start0, at, gain)
  BY Places DEF Spot, Straddles
<1>5. ASSUME NEW s \in Spot, Straddles(s, at, gain),
             \A t \in Spot : Remaining(t) < Remaining(s) => t \in Q
      PROVE  Nearest(f[s], at, gain)
  <2> DEFINE m == Mid(s)
  <2>1. /\ s.left \in First .. Last + 1 /\ s.right \in First - 1 .. Last
        /\ s.left \in Int /\ s.right \in Int /\ s.left <= s.right + 1
    BY <1>5, Places DEF Spot, Straddles
  <2>2. CASE s.left > s.right
    <3>1. f[s] = s.result /\ s.left = s.right + 1
      BY <2>1, <2>2, <1>3, <1>5 DEF Answer
    <3>2. s.right # Last
      BY <3>1, <1>5, Places DEF Straddles
    <3>3. s.result = s.left /\ s.result \in First .. Last /\ at[s.result] < gain
      BY <3>1, <3>2, <1>5 DEF Straddles
    <3>4. s.result = First \/ at[s.result - 1] > gain
      BY <3>3, <1>5, <2>1, Places DEF Straddles
    <3>5. at[s.result] \in Int
      BY <3>3
    <3> QED
      BY <3>1, <3>3, <3>4, <3>5 DEF Nearest
  <2>3. CASE s.left <= s.right
    <3>1. /\ m \in s.left .. s.right /\ m \in First .. Last /\ m \in Int
          /\ After(s) \in Spot /\ Remaining(After(s)) < Remaining(s)
          /\ Before(s) \in Spot /\ Remaining(Before(s)) < Remaining(s)
      BY <2>3, Halving, Places
    <3>2. at[m] \in Int
      BY <3>1
    <3>3. After(s).left = m + 1 /\ After(s).right = s.right /\ After(s).result = s.result
      BY <1>5 DEF After, Spot
    <3>4. Before(s).left = s.left /\ Before(s).right = m - 1 /\ Before(s).result = m
      BY DEF Before
    <3>5. f[s] = IF at[m] = gain THEN m ELSE IF at[m] > gain THEN f[After(s)] ELSE f[Before(s)]
      BY <1>3, <2>1, <2>3 DEF Answer
    <3> HIDE DEF m, f
    <3>6. CASE at[m] = gain
      <4>1. f[s] = m
        BY <3>5, <3>6
      <4> QED
        BY <4>1, <3>6, <3>1 DEF Nearest
    <3>7. CASE at[m] > gain
      <4>1. f[s] = f[After(s)]
        BY <3>5, <3>7, <3>2
      <4>2. (m + 1) - 1 = m /\ m + 1 <= s.right + 1
        BY <3>1, <2>1
      <4>3. Straddles(After(s), at, gain)
        BY <4>2, <3>3, <3>7, <1>5 DEF Straddles
      <4> QED
        BY <4>1, <4>3, <3>1, <1>5
    <3>8. CASE at[m] < gain
      <4>1. f[s] = f[Before(s)]
        BY <3>5, <3>8, <3>2
      <4>2. (m - 1) + 1 = m /\ s.left <= (m - 1) + 1
        BY <3>1, <2>1
      <4>3. Straddles(Before(s), at, gain)
        BY <4>2, <3>4, <3>8, <3>1, <1>5 DEF Straddles
      <4> QED
        BY <4>1, <4>3, <3>1, <1>5
    <3> QED
      BY <3>6, <3>7, <3>8, <3>2
  <2> QED
    BY <2>1, <2>2, <2>3
<1>6. Q = Spot
  <2>1. ASSUME NEW s \in Spot, \A t \in Spot : Remaining(t) < Remaining(s) => t \in Q
        PROVE  s \in Q
    BY <2>1, <1>5
  <2> HIDE DEF Q
  <2> QED
    BY <2>1, SpotInduction DEF Q
<1> QED
  BY <1>2, <1>4, <1>6

(* What GainIsFloor promises of an index.                                  *)
Floor(index, p, gain) ==
  /\ index \in {2 * k : k \in 0 .. DsaMax}
  /\ Falls(p) =>
       /\ word[p][Item(index \div 2)] <= gain
       /\ \A k \in 0 .. DsaMax :
            word[p][Item(k)] <= gain => word[p][Item(k)] <= word[p][Item(index \div 2)]

(* The offsets of the tables.                                              *)
LEMMA Offsets ==
  /\ First .. Last \subseteq WordOffs /\ Blank \notin First .. Last
  /\ \A k \in 0 .. DsaMax : Item(k) \in First .. Last
<1>1. DsaMax \in Nat /\ MaxCount \in Nat /\ DsaMax < MaxCount
  BY DsaAssumption, WordsAssumption
<1>2. ASSUME NEW i \in First .. Last PROVE i \in WordOffs /\ i # Blank
  <2>1. i - 4 \in 0 .. MaxCount - 1 /\ i = Item(i - 4) /\ i # Blank
    BY <1>1, Places DEF Last, Item, Blank
  <2> QED
    BY <2>1 DEF WordOffs, Items
<1>3. \A k \in 0 .. DsaMax : Item(k) \in First .. Last
  BY <1>1 DEF First, Last, Item
<1> QED
  BY <1>2, <1>3

(* get_closest_tx_dsa_index and get_closest_rx_dsa_index give a byte ...   *)
LEMMA ClosestIsByte ==
  ASSUME NEW p, NEW gain, NEW bad
  PROVE  Closest(p, gain, bad) \in 0 .. 255
<1> DEFINE at == [o \in First .. Last |-> GetFromEeprom(p, o, bad)]
<1>1. Search(at, gain) \in Int
  BY SearchIsPlace, Places
<1> HIDE DEF at
<1>2. ((Search(at, gain) - 4) * 2) % 256 \in 0 .. 255
  BY <1>1
<1> QED
  BY <1>2 DEF Closest, at

(* ... and the index that was asked for when the reads succeed.            *)
LEMMA ClosestIsFloor ==
  ASSUME NEW p, word[p] \in [WordOffs -> Int], NEW gain \in Int, word[p][Last] <= gain
  PROVE  Floor(Closest(p, gain, Blank), p, gain)
<1> DEFINE at == [o \in First .. Last |-> GetFromEeprom(p, o, Blank)]
           i == Search(at, gain)
           k == i - 4
<1>1. \A o \in First .. Last : at[o] = word[p][o] /\ word[p][o] \in Int
  BY Offsets DEF GetFromEeprom
<1>2. at \in [First .. Last -> Int]
  BY <1>1
<1>3. Last \in First .. Last
  BY Places
<1>4. Nearest(i, at, gain)
  BY <1>1, <1>2, <1>3, SearchIsNearest
<1>5. Closest(p, gain, Blank) = (k * 2) % 256
  BY DEF Closest
<1> HIDE DEF at, i
<1>6. i \in First .. Last /\ k \in 0 .. DsaMax /\ i = Item(k) /\ DsaMax \in 0 .. 127
  BY <1>4, Places, DsaAssumption DEF Nearest, Last, Item
<1>7. /\ Closest(p, gain, Blank) = 2 * k
      /\ Closest(p, gain, Blank) \div 2 = k
  BY <1>5, <1>6
<1>8. ASSUME Falls(p), NEW j \in 0 .. DsaMax, word[p][Item(j)] <= gain
      PROVE  word[p][Item(j)] <= word[p][i]
  <2>1. /\ Item(j) \in First .. Last /\ Item(j) \in Int /\ i \in Int
        /\ word[p][Item(j)] \in Int /\ word[p][i] \in Int
    BY <1>1, <1>6, Offsets, Places
  <2>2. CASE word[p][i] = gain
    BY <2>2, <1>8
  <2>3. CASE i = First
    <3>1. i = Item(j) \/ i < Item(j)
      BY <2>1, <2>3, Places
    <3> QED
      BY <3>1, <2>1, <1>6, <1>8 DEF Falls
  <2>4. CASE i # First /\ at[i - 1] > gain
    <3>1. i - 1 \in First .. Last
      BY <2>4, <1>6, Places
    <3>2. word[p][i - 1] > gain /\ word[p][i - 1] \in Int
      BY <3>1, <2>4, <1>1
    <3>3. ~(Item(j) < i - 1) /\ Item(j) # i - 1
      BY <3>1, <3>2, <2>1, <1>8 DEF Falls
    <3>4. Item(j) = i \/ i < Item(j)
      BY <3>3, <2>1
    <3> QED
      BY <3>4, <2>1, <1>6, <1>8 DEF Falls
  <2> QED
    BY <1>4, <1>1, <2>2, <2>3, <2>4 DEF Nearest
<1>9. word[p][i] <= gain
  BY <1>4, <1>1 DEF Nearest
<1> QED
  BY <1>6, <1>7, <1>8, <1>9 DEF Floor

-----------------------------------------------------------------------------
(* The invariant of the pages.                                             *)

(* What a command may be about to write to a page with the checksums sums. *)
Writes(sums) == [off : WordOffs, val : Int] \cup [off : {CrcOff}, val : sums \cup {NoSum}]

Shapes ==
  /\ word \in [PageSet -> [WordOffs -> Int]] /\ faults \in 0 .. MaxFault
  /\ crc = [p \in PageSet |-> [high |-> crc[p].high, low |-> crc[p].low]]
  /\ saved = [p \in PageSet |-> saved[p]] /\ cache = [p \in PageSet |-> cache[p]]
  /\ job = [cmd |-> job.cmd, page |-> job.page, todo |-> job.todo, low |-> job.low, next |-> job.next]
  /\ job.cmd \in {"none", "set", "save", "init"}
  /\ job.page \in PageSet /\ job.next \in DOMAIN Pages

(* A checksum on its way to the EEPROM, there, or read from there was      *)
(* computed in a save, or is blank.                                        *)
Summed ==
  /\ job.todo \in Seq(Writes(saved[job.page]))
  /\ \A p \in PageSet : crc[p].high \in saved[p] \cup {NoSum}
  /\ frame.crc.high = NoSum \/ \E p \in PageSet : frame.crc.high \in saved[p]

PageInv == Shapes /\ Summed /\ LoadedWasSaved

(* The invariant of the gains: what is left to write of a command, and     *)
(* what is already in the registers.                                       *)
Underway ==
  call.sets # <<>> => \E index \in 0 .. 255 :
    /\ (~call.misread /\ Meets(call.table)) => Floor(index, call.table, call.gain)
    /\ \/ call.table = TxPage /\ call.sets = <<Put("tx", index)>>
       \/ call.table \in {Rx1Page, Rx2Page} /\ call.sets \in {HighSets(index), LowSets(index)}
       \/ call.table \in {Rx1Page, Rx2Page} /\ call.sets = <<Put("rx2", index)>> /\ reg["rx1"] = 0
       \/ /\ call.table \in {Rx1Page, Rx2Page}
          /\ call.sets = <<Put("rx1", index)>> /\ reg["rx2"] = DsaMax * 2

GainInv ==
  /\ reg \in [Outs -> 0 .. 255]
  /\ call = [gain |-> call.gain, sets |-> call.sets, saves |-> call.saves, table |-> call.table,
             misread |-> call.misread]
  /\ call # NoCall => job = NoJob
  /\ Underway

IInv == PageInv /\ GainInv

-----------------------------------------------------------------------------
LEMMA HalvesAreWords ==
  ASSUME NEW v \in Int, NEW old \in Int
  PROVE  High(v, old) \in Int /\ Low(v, old) \in Int
<1>1. Half \in Int /\ Half > 0
  BY WordsAssumption
<1>2. \A x \in Int : x \div Half \in Int /\ x % Half \in Int
  BY <1>1
<1>3. \A x, y \in Int : x * Half + y \in Int
  BY <1>1
<1> QED
  BY <1>2, <1>3 DEF High, Low

LEMMA FilledIsPage ==
  ASSUME NEW table \in Seq(Int)
  PROVE  Filled(table) \in [WordOffs -> Int]
<1>1. Signature \in Int
  BY WordsAssumption
<1>2. Len(table) \in Int /\ \A i \in DOMAIN table : table[i] \in Int
  OBVIOUS
<1>3. ASSUME NEW o \in WordOffs
      PROVE  (CASE o = SignatureOff       -> Signature
                [] o = CountOff           -> Len(table)
                [] o - 3 \in DOMAIN table -> table[o - 3]
                [] OTHER                  -> Blank) \in Int
  BY <1>1, <1>2 DEF Blank
<1> QED
  BY <1>3 DEF Filled

(* A checksum covers at least the reserved word.                           *)
LEMMA SumIsNotBlank ==
  ASSUME NEW n \in Nat, NEW g
  PROVE  [i \in 1 .. n + 1 |-> g[i - 1]] # NoSum
<1>1. 1 \in 1 .. n + 1
  OBVIOUS
<1>2. DOMAIN NoSum = {}
  BY DEF NoSum
<1> QED
  BY <1>1, <1>2

LEMMA PageSetIsPages == \A i \in DOMAIN Pages : Pages[i] \in PageSet
BY DEF PageSet

LEMMA FirstPage == 1 \in DOMAIN Pages /\ Pages[1] \in PageSet
<1>1. 1 \in DOMAIN Pages
  BY PagesAssumption
<1> QED
  BY <1>1, PageSetIsPages

LEMMA SavedSomewhere ==
  ASSUME NEW c
  PROVE  c \in UNION {saved[p] : p \in PageSet} <=> \E p \in PageSet : c \in saved[p]
OBVIOUS

(* What is saved stays saved.                                              *)
LEMMA CopiesStay ==
  ASSUME LoadedWasSaved, UNCHANGED cache, \A p \in PageSet : saved[p] \subseteq saved'[p]
  PROVE  LoadedWasSaved'
BY DEF LoadedWasSaved

LEMMA PagesStart == PagesInit => PageInv
<1> SUFFICES ASSUME PagesInit PROVE PageInv
  OBVIOUS
<1>1. \A p \in PageSet : word[p] \in [WordOffs -> Int]
  <2>1. \A p \in PageSet : Start[p] \in Seq(Int)
    BY WordsAssumption
  <2> QED
    BY <2>1, FilledIsPage DEF PagesInit
<1>2. word \in [PageSet -> [WordOffs -> Int]] /\ faults \in 0 .. MaxFault
  <2>1. MaxFault \in Nat
    BY WordsAssumption
  <2>2. word = [p \in PageSet |-> word[p]]
    BY DEF PagesInit
  <2> QED
    BY <1>1, <2>1, <2>2 DEF PagesInit
<1>3. Shapes
  BY <1>2, FirstPage DEF Shapes, PagesInit, Sum, NoJob
<1>4. Summed
  <2>1. job.todo \in Seq(Writes(saved[job.page]))
    BY DEF PagesInit, NoJob
  <2>2. \A p \in PageSet : crc[p].high \in saved[p]
    BY DEF PagesInit, Sum
  <2>3. frame.crc.high = NoSum
    BY DEF PagesInit, Sum, NoFrame
  <2> QED
    BY <2>1, <2>2, <2>3 DEF Summed
<1>5. LoadedWasSaved
  BY DEF LoadedWasSaved, PagesInit, NoCopy
<1> QED
  BY <1>3, <1>4, <1>5 DEF PageInv

(* A command only plans its writes.                                        *)
LEMMA CommandStep ==
  ASSUME PageInv, NEW cmd \in {"set", "save", "init"}, NEW p \in PageSet,
         NEW todo \in Seq(Writes(saved[p])), Command(cmd, p, todo)
  PROVE  PageInv'
<1>1. job' = [cmd |-> cmd, page |-> p, todo |-> todo, low |-> FALSE, next |-> 1]
  BY DEF Command, NoJob
<1>2. Shapes'
  BY <1>1, FirstPage DEF PageInv, Shapes, Command
<1>3. Summed'
  BY <1>1 DEF PageInv, Summed, Command, Writes
<1>4. LoadedWasSaved'
  BY CopiesStay DEF PageInv, Command
<1> QED
  BY <1>2, <1>3, <1>4 DEF PageInv

LEMMA WriteStep ==
  ASSUME PageInv, NEW ok \in BOOLEAN, WriteU16(ok)
  PROVE  PageInv'
<1> DEFINE w == Head(job.todo)
           p == job.page
<1>1. w \in Writes(saved[p]) /\ Tail(job.todo) \in Seq(Writes(saved[p])) /\ p \in PageSet
  BY DEF WriteU16, PageInv, Summed, Shapes
<1>2. CrcOff \notin WordOffs
  BY DEF WordOffs, Items, Item, CrcOff, SignatureOff, CountOff, ReservedOff
<1> HIDE DEF w
<1>3. /\ w.off # CrcOff => w.off \in WordOffs /\ w.val \in Int
      /\ w.off = CrcOff => w.val \in saved[p] \cup {NoSum}
  BY <1>1, <1>2 DEF Writes
<1>4. word' \in [PageSet -> [WordOffs -> Int]]
  <2>1. CASE ok /\ w.off # CrcOff
    <3>1. word[p][w.off] \in Int
      BY <1>1, <1>3, <2>1 DEF PageInv, Shapes
    <3>2. High(w.val, word[p][w.off]) \in Int /\ Low(w.val, word[p][w.off]) \in Int
      BY <1>3, <2>1, <3>1, HalvesAreWords
    <3>3. word' = [word EXCEPT ![p][w.off] = IF job.low THEN Low(w.val, word[p][w.off])
                                              ELSE High(w.val, word[p][w.off])]
      BY <2>1 DEF WriteU16, w
    <3> QED
      BY <3>2, <3>3 DEF PageInv, Shapes
  <2>2. CASE ~(ok /\ w.off # CrcOff)
    BY <2>2 DEF WriteU16, w, PageInv, Shapes
  <2> QED
    BY <2>1, <2>2
<1>5. /\ crc' = [q \in PageSet |-> [high |-> crc'[q].high, low |-> crc'[q].low]]
      /\ \A q \in PageSet : crc'[q].high \in saved[q] \cup {NoSum}
  <2>1. CASE ok /\ w.off = CrcOff /\ job.low
    <3>1. crc' = [crc EXCEPT ![p].low = w.val]
      BY <2>1 DEF WriteU16, w
    <3>2. crc' = [q \in PageSet |-> IF q = p THEN [high |-> crc[q].high, low |-> w.val] ELSE crc[q]]
      BY <3>1 DEF PageInv, Shapes
    <3> QED
      BY <3>2, <1>1 DEF PageInv, Shapes, Summed
  <2>2. CASE ok /\ w.off = CrcOff /\ ~job.low
    <3>1. crc' = [crc EXCEPT ![p].high = w.val]
      BY <2>2 DEF WriteU16, w
    <3>2. crc' = [q \in PageSet |-> IF q = p THEN [high |-> w.val, low |-> crc[q].low] ELSE crc[q]]
      BY <3>1 DEF PageInv, Shapes
    <3> QED
      BY <3>2, <1>1, <1>3, <2>2 DEF PageInv, Shapes, Summed
  <2>3. CASE ~(ok /\ w.off = CrcOff)
    BY <2>3 DEF WriteU16, w, PageInv, Shapes, Summed
  <2> QED
    BY <2>1, <2>2, <2>3
<1>6. faults' \in 0 .. MaxFault
  <2>1. MaxFault \in Nat /\ faults \in 0 .. MaxFault
    BY WordsAssumption DEF PageInv, Shapes
  <2> QED
    BY <2>1 DEF WriteU16
<1>7. UNCHANGED <<cache, frame, saved>>
  BY DEF WriteU16
<1>8. /\ job' = [cmd |-> job'.cmd, page |-> job'.page, todo |-> job'.todo, low |-> job'.low,
                 next |-> job'.next]
      /\ job'.cmd \in {"none", "set", "save", "init"}
      /\ job'.page \in PageSet /\ job'.next \in DOMAIN Pages /\ job'.todo \in Seq(Writes(saved'[job'.page]))
  <2>1. CASE job' = NoJob
    BY <2>1, FirstPage DEF NoJob
  <2>2. CASE job' = [job EXCEPT !.low = ~@, !.todo = IF job.low THEN Tail(@) ELSE @]
    <3>1. job' = [cmd |-> job.cmd, page |-> p, todo |-> IF job.low THEN Tail(job.todo) ELSE job.todo,
                  low |-> ~job.low, next |-> job.next]
      BY <2>2 DEF PageInv, Shapes
    <3> QED
      BY <3>1, <1>1, <1>7 DEF PageInv, Shapes, Summed
  <2> QED
    BY <2>1, <2>2, <1>7 DEF WriteU16
<1>9. Shapes'
  BY <1>4, <1>5, <1>6, <1>8, <1>7 DEF PageInv, Shapes
<1>10. Summed'
  BY <1>5, <1>8, <1>7 DEF PageInv, Summed, Writes
<1>11. LoadedWasSaved'
  BY <1>7, CopiesStay DEF PageInv
<1> QED
  BY <1>9, <1>10, <1>11 DEF PageInv

LEMMA ComputeStep ==
  ASSUME PageInv, NEW bad, NEW residue, ComputeCrc(bad, residue)
  PROVE  PageInv'
<1> DEFINE p == job.page
<1>1. PICK c : /\ UNCHANGED <<word, crc, cache, frame>>
               /\ faults' = IF bad = {} THEN faults ELSE faults + 1
               /\ bad # {} => faults < MaxFault
               /\ \/ job' = NoJob /\ UNCHANGED saved
                  \/ /\ job' = [NoJob EXCEPT !.cmd = "set", !.page = p, !.todo = <<To(CrcOff, c)>>]
                     /\ saved' = [saved EXCEPT ![p] = @ \cup {c}]
  BY DEF ComputeCrc
<1>2. p \in PageSet
  BY DEF PageInv, Shapes
<1>3. faults' \in 0 .. MaxFault
  <2>1. MaxFault \in Nat /\ faults \in 0 .. MaxFault
    BY WordsAssumption DEF PageInv, Shapes
  <2> QED
    BY <1>1, <2>1
<1>4. /\ saved' = [q \in PageSet |-> saved'[q]]
      /\ \A q \in PageSet : saved[q] \subseteq saved'[q]
  <2>1. saved = [q \in PageSet |-> saved[q]]
    BY DEF PageInv, Shapes
  <2>2. saved' = saved \/ saved' = [saved EXCEPT ![p] = @ \cup {c}]
    BY <1>1
  <2> HIDE DEF p
  <2> QED
    BY <2>1, <2>2
<1>5. /\ job' = [cmd |-> job'.cmd, page |-> job'.page, todo |-> job'.todo, low |-> job'.low,
                 next |-> job'.next]
      /\ job'.cmd \in {"none", "set", "save", "init"}
      /\ job'.page \in PageSet /\ job'.next \in DOMAIN Pages /\ job'.todo \in Seq(Writes(saved'[job'.page]))
  <2>1. CASE job' = NoJob
    BY <2>1, FirstPage DEF NoJob
  <2>2. CASE job' # NoJob
    <3>1. /\ job' = [cmd |-> "set", page |-> p, todo |-> <<To(CrcOff, c)>>, low |-> FALSE, next |-> 1]
          /\ saved' = [saved EXCEPT ![p] = @ \cup {c}]
      BY <1>1, <2>2 DEF NoJob
    <3>2. c \in saved'[p]
      BY <3>1, <1>2 DEF PageInv, Shapes
    <3>3. To(CrcOff, c) \in Writes(saved'[p])
      BY <3>2 DEF Writes, To
    <3> QED
      BY <3>1, <3>3, <1>2, FirstPage
  <2> QED
    BY <2>1, <2>2
<1>6. Shapes'
  BY <1>1, <1>3, <1>4, <1>5 DEF PageInv, Shapes
<1>7. Summed'
  BY <1>1, <1>4, <1>5 DEF PageInv, Summed
<1>8. LoadedWasSaved'
  BY <1>1, <1>4, CopiesStay DEF PageInv
<1> QED
  BY <1>6, <1>7, <1>8 DEF PageInv

(* A page that is taken for valid has the checksum that was computed when  *)
(* it, or when not all reads succeeded another page, was saved.            *)
LEMMA InitStep ==
  ASSUME PageInv, NEW bad, SinglePageInit(bad)
  PROVE  PageInv'
<1> DEFINE p == Pages[job.next]
           f == Loaded(p, bad)
           data == [i \in 1 .. f.count + 1 |-> f.temp[i - 1]]
           some == bad # {}
<1>1. job.next \in DOMAIN Pages /\ p \in PageSet
  BY PageSetIsPages DEF PageInv, Shapes
<1>2. f.crc = IF CrcOff \in bad THEN frame.crc ELSE crc[p]
  BY DEF Loaded
<1>3. /\ f.crc.high = NoSum \/ \E q \in PageSet : f.crc.high \in saved[q]
      /\ bad = {} => f.crc.high \in saved[p] \cup {NoSum}
  BY <1>1, <1>2 DEF PageInv, Summed
<1>4. Acceptable(f) => data = f.crc.high /\ data # NoSum
  <2> HIDE DEF f
  <2> SUFFICES ASSUME Acceptable(f) PROVE data = f.crc.high /\ data # NoSum
    OBVIOUS
  <2>1. f.crc = Sum(data) /\ f.count \in Nat
    BY WordsAssumption DEF Acceptable
  <2>2. data = f.crc.high
    BY <2>1 DEF Sum
  <2>3. data # NoSum
    BY <2>1, SumIsNotBlank
  <2> QED
    BY <2>2, <2>3
<1> HIDE DEF f, data
<1>5. /\ Acceptable(f) => cache' = [cache EXCEPT ![p] = [valid |-> TRUE, misread |-> some, data |-> data]]
      /\ ~Acceptable(f) => UNCHANGED cache
      /\ UNCHANGED <<word, crc, saved>>
      /\ \/ job' = NoJob /\ frame' = NoFrame
         \/ job' = [job EXCEPT !.next = @ + 1] /\ frame' = f /\ job.next < Len(Pages)
  BY DEF SinglePageInit, f, data
<1> HIDE DEF some
<1>6. faults' \in 0 .. MaxFault
  <2>1. MaxFault \in Nat /\ faults \in 0 .. MaxFault
    BY WordsAssumption DEF PageInv, Shapes
  <2> QED
    BY <2>1 DEF SinglePageInit
<1>7. /\ job' = [cmd |-> job'.cmd, page |-> job'.page, todo |-> job'.todo, low |-> job'.low,
                 next |-> job'.next]
      /\ job'.cmd \in {"none", "set", "save", "init"}
      /\ job'.page \in PageSet /\ job'.next \in DOMAIN Pages /\ job'.todo \in Seq(Writes(saved'[job'.page]))
  <2>1. CASE job' = NoJob
    BY <2>1, FirstPage DEF NoJob
  <2>2. CASE job' = [job EXCEPT !.next = @ + 1] /\ job.next < Len(Pages)
    <3>1. job.next + 1 \in DOMAIN Pages
      BY <1>1, <2>2, PagesAssumption
    <3>2. job' = [cmd |-> job.cmd, page |-> job.page, todo |-> job.todo, low |-> job.low,
                  next |-> job.next + 1]
      BY <2>2 DEF PageInv, Shapes
    <3> QED
      BY <3>1, <3>2, <1>5 DEF PageInv, Shapes, Summed
  <2> QED
    BY <1>5, <2>1, <2>2
<1>8. cache' = [q \in PageSet |-> cache'[q]]
  BY <1>1, <1>5 DEF PageInv, Shapes
<1>9. Shapes'
  BY <1>5, <1>6, <1>7, <1>8 DEF PageInv, Shapes
<1>10. Summed'
  <2>1. frame'.crc.high = NoSum \/ \E q \in PageSet : frame'.crc.high \in saved[q]
    <3>1. NoFrame.crc.high = NoSum
      BY DEF NoFrame, Sum
    <3> QED
      BY <3>1, <1>3, <1>5
  <2> QED
    BY <2>1, <1>5, <1>7 DEF PageInv, Summed, Writes
<1>11. LoadedWasSaved'
  <2>1. CASE Acceptable(f)
    <3>1. data \in UNION {saved[q] : q \in PageSet} /\ (~some => data \in saved[p])
      BY <2>1, <1>3, <1>4, SavedSomewhere DEF some
    <3>2. \A q \in PageSet : cache'[q] = IF q = p THEN [valid |-> TRUE, misread |-> some, data |-> data]
                                         ELSE cache[q]
      BY <2>1, <1>5 DEF PageInv, Shapes
    <3>3. cache'[p] = [valid |-> TRUE, misread |-> some, data |-> data]
      BY <3>2, <1>1
    <3>4. cache'[p].data = data /\ cache'[p].misread = some
      BY <3>3
    <3>5. ASSUME NEW q \in PageSet, cache'[q].valid
          PROVE  cache'[q].data \in IF cache'[q].misread THEN UNION {saved[r] : r \in PageSet} ELSE saved[q]
      <4>1. CASE q = p
        BY <4>1, <3>1, <3>4
      <4>2. CASE q # p
        BY <4>2, <3>2, <3>5 DEF PageInv, LoadedWasSaved
      <4> QED
        BY <4>1, <4>2
    <3> QED
      BY <3>5, <1>5 DEF LoadedWasSaved
  <2>2. CASE ~Acceptable(f)
    BY <2>2, <1>5, CopiesStay DEF PageInv
  <2> QED
    BY <2>1, <2>2
<1> QED
  BY <1>9, <1>10, <1>11 DEF PageInv

(* Every command and step of the pages keeps their invariant.              *)
LEMMA PagesStep ==
  ASSUME PageInv, PagesNext
  PROVE  PageInv'
<1> USE DEF To
<1>1. \A o \in WordOffs, v \in Int, p \in PageSet :
         [off |-> o, val |-> v] \in Writes(saved[p])
  BY DEF Writes
<1>2. /\ {SignatureOff, CountOff, ReservedOff} \subseteq WordOffs
      /\ \A k \in 0 .. MaxCount - 1 : Item(k) \in WordOffs
  BY DEF WordOffs, Items
<1>3. /\ Values \subseteq Int /\ Counts \subseteq Int /\ Signature \in Int /\ MaxCount \in Nat
      /\ Blank \in Int
  BY WordsAssumption DEF Blank
<1>4. CASE \E p \in PageSet, k \in 0 .. MaxCount - 1, v \in Values : SetItem(p, k, v)
  <2>1. PICK p \in PageSet, k \in 0 .. MaxCount - 1, v \in Values :
               Command("set", p, <<[off |-> Item(k), val |-> v]>>)
    BY <1>4 DEF SetItem
  <2>2. <<[off |-> Item(k), val |-> v]>> \in Seq(Writes(saved[p]))
    BY <1>1, <1>2, <1>3
  <2> QED
    BY <2>1, <2>2, CommandStep
<1>5. CASE \E p \in PageSet, n \in Counts : SetCnt(p, n)
  <2>1. PICK p \in PageSet, n \in Counts : Command("set", p, <<[off |-> CountOff, val |-> n]>>)
    BY <1>5 DEF SetCnt
  <2>2. <<[off |-> CountOff, val |-> n]>> \in Seq(Writes(saved[p]))
    BY <1>1, <1>2, <1>3
  <2> QED
    BY <2>1, <2>2, CommandStep
<1>6. CASE \E p \in PageSet, v \in Values : SetReserved(p, v)
  <2>1. PICK p \in PageSet, v \in Values : Command("set", p, <<[off |-> ReservedOff, val |-> v]>>)
    BY <1>6 DEF SetReserved
  <2>2. <<[off |-> ReservedOff, val |-> v]>> \in Seq(Writes(saved[p]))
    BY <1>1, <1>2, <1>3
  <2> QED
    BY <2>1, <2>2, CommandStep
<1>7. CASE \E p \in PageSet : ResetPage(p)
  <2> DEFINE todo == [i \in 1 .. MaxCount + 4 |->
                        [off |-> i - 1, val |-> IF i - 1 = CrcOff THEN NoSum ELSE Blank]]
  <2>1. PICK p \in PageSet : Command("set", p, todo)
    BY <1>7 DEF ResetPage
  <2>2. ASSUME NEW i \in 1 .. MaxCount + 4
        PROVE  [off |-> i - 1, val |-> IF i - 1 = CrcOff THEN NoSum ELSE Blank] \in Writes(saved[p])
    <3>1. CASE i - 1 = CrcOff
      BY <3>1 DEF Writes
    <3>2. CASE i - 1 # CrcOff
      <4>1. i - 1 \in WordOffs
        <5>1. CASE i <= 4
          BY <5>1, <3>2 DEF WordOffs, SignatureOff, CountOff, ReservedOff, CrcOff
        <5>2. CASE i > 4
          <6>1. i - 5 \in 0 .. MaxCount - 1 /\ Item(i - 5) = i - 1
            BY <1>3, <5>2 DEF Item
          <6> QED
            BY <6>1, <1>2
        <5> QED
          BY <5>1, <5>2
      <4> QED
        BY <4>1, <3>2, <1>1, <1>3
    <3> QED
      BY <3>1, <3>2
  <2>3. MaxCount + 4 \in Nat
    BY <1>3
  <2>4. todo \in Seq(Writes(saved[p]))
    BY <2>2, <2>3
  <2> HIDE DEF todo
  <2> QED
    BY <2>1, <2>4, CommandStep
<1>8. CASE \E p \in PageSet : SavePageCfg(p)
  <2>1. PICK p \in PageSet : Command("save", p, <<[off |-> SignatureOff, val |-> Signature]>>)
    BY <1>8 DEF SavePageCfg
  <2>2. <<[off |-> SignatureOff, val |-> Signature]>> \in Seq(Writes(saved[p]))
    BY <1>1, <1>2, <1>3
  <2> QED
    BY <2>1, <2>2, CommandStep
<1>9. CASE PagesInitCmd
  <2>1. <<>> \in Seq(Writes(saved[Pages[1]]))
    OBVIOUS
  <2> QED
    BY <1>9, <2>1, FirstPage, CommandStep DEF PagesInitCmd
<1>10. CASE \E ok \in BOOLEAN : WriteU16(ok)
  BY <1>10, WriteStep
<1>11. CASE \E bad \in {{}, WordOffs} \cup {{o} : o \in WordOffs}, residue \in Residue :
              ComputeCrc(bad, residue)
  BY <1>11, ComputeStep
<1>12. CASE \E bad \in {{}, WordOffs \cup {CrcOff}} \cup {{o} : o \in WordOffs \cup {CrcOff}} :
              SinglePageInit(bad)
  BY <1>12, InitStep
<1> QED
  BY <1>4, <1>5, <1>6, <1>7, <1>8, <1>9, <1>10, <1>11, <1>12 DEF PagesNext

LEMMA PowerCutStep ==
  ASSUME PageInv, PowerCut
  PROVE  PageInv'
<1>1. faults' \in 0 .. MaxFault
  <2>1. MaxFault \in Nat /\ faults \in 0 .. MaxFault
    BY WordsAssumption DEF PageInv, Shapes
  <2> QED
    BY <2>1 DEF PowerCut
<1>2. Shapes'
  BY <1>1, FirstPage DEF PowerCut, PageInv, Shapes, NoJob
<1>3. Summed'
  <2>1. frame'.crc.high = NoSum /\ job'.todo = <<>> /\ UNCHANGED <<crc, saved>>
    BY DEF PowerCut, NoFrame, NoJob, Sum
  <2> QED
    BY <2>1 DEF PageInv, Summed
<1>4. LoadedWasSaved'
  BY DEF PowerCut, LoadedWasSaved, NoCopy
<1> QED
  BY <1>2, <1>3, <1>4 DEF PageInv

-----------------------------------------------------------------------------
(* The gain commands.                                                      *)

(* A step that leaves the pages alone but for the two bounds.              *)
LEMMA PagesAlone ==
  ASSUME PageInv, UNCHANGED <<word, crc, cache, frame, job, saved>>, faults' \in 0 .. MaxFault
  PROVE  PageInv'
<1>1. Shapes'
  BY DEF PageInv, Shapes
<1>2. Summed'
  BY DEF PageInv, Summed
<1>3. LoadedWasSaved'
  BY CopiesStay DEF PageInv
<1> QED
  BY <1>1, <1>2, <1>3 DEF PageInv

LEMMA BeginStep ==
  ASSUME IInv, NEW gain, NEW p, NEW bad, NEW sets, NEW saves, Begin(gain, p, bad, sets, saves)
  PROVE  /\ PageInv' /\ reg' \in [Outs -> 0 .. 255]
         /\ call' = [gain |-> gain, sets |-> sets, saves |-> saves, table |-> p, misread |-> bad # Blank]
         /\ UNCHANGED <<word, reg>> /\ job' = NoJob
<1>1. faults' \in 0 .. MaxFault
  <2>1. MaxFault \in Nat /\ faults \in 0 .. MaxFault
    BY WordsAssumption DEF IInv, PageInv, Shapes
  <2> QED
    BY <2>1 DEF Begin
<1>2. UNCHANGED <<word, crc, cache, frame, job, saved>>
  BY DEF Begin
<1>3. PageInv'
  BY <1>1, <1>2, PagesAlone DEF IInv
<1> QED
  BY <1>3 DEF Begin, IInv, GainInv

LEMMA TxStep ==
  ASSUME IInv, NEW gain \in Gains, NEW bad, SetTxGain(gain, bad)
  PROVE  IInv'
<1>1. PICK index \in 0 .. 255 : index = Closest(TxPage, gain, bad)
  BY ClosestIsByte
<1>2. Begin(gain, TxPage, bad, <<Put("tx", index)>>, Save("tx"))
  BY <1>1 DEF SetTxGain
<1>3. /\ PageInv' /\ reg' \in [Outs -> 0 .. 255] /\ job' = NoJob
      /\ call' = [gain |-> gain, sets |-> <<Put("tx", index)>>, saves |-> Save("tx"), table |-> TxPage,
                  misread |-> bad # Blank]
      /\ UNCHANGED <<word, reg>>
  BY <1>2, BeginStep
<1>4. ASSUME bad = Blank PROVE Floor(index, TxPage, gain)
  <2>1. gain \in word[TxPage][Last] .. GetFromEeprom(TxPage, First, bad)
    BY <1>4, Offsets, Places DEF SetTxGain, GetFromEeprom
  <2>2. TxPage \in PageSet
    BY DsaAssumption
  <2>3. word[TxPage] \in [WordOffs -> Int] /\ Last \in WordOffs
    BY <2>2, Offsets, Places DEF IInv, PageInv, Shapes
  <2>4. word[TxPage][Last] \in Int
    BY <2>3
  <2>5. word[TxPage][First] \in Int
    BY <2>3, Offsets, Places
  <2>6. gain \in Int /\ word[TxPage][Last] <= gain
    BY <2>1, <2>4, <2>5, <1>4 DEF GetFromEeprom
  <2> QED
    BY <2>3, <2>6, <1>1, <1>4, ClosestIsFloor
<1>5. word' = word
  BY <1>3
<1>6. Floor(index, TxPage, gain) => Floor(index, TxPage, gain)'
  BY <1>5 DEF Floor, Falls
<1>7. call'.sets = <<Put("tx", index)>> /\ call'.table = TxPage /\ call'.gain = gain
  BY <1>3
<1>8. ~call'.misread => bad = Blank
  BY <1>3
<1>9. ~call'.misread => Floor(index, call.table, call.gain)'
  BY <1>4, <1>6, <1>7, <1>8
<1>10. Underway'
  BY <1>1, <1>7, <1>9 DEF Underway, Put
<1>11. GainInv'
  BY <1>3, <1>10 DEF GainInv
<1> QED
  BY <1>3, <1>11 DEF IInv

LEMMA RxStep ==
  ASSUME IInv, NEW gain \in Gains, NEW bad, SetRxGain(gain, bad)
  PROVE  IInv'
<1> DEFINE high == gain > GetFromEeprom(Rx1Page, First, bad)
           saves == Save("rx1") \o Save("rx2")
<1>1. PICK p \in {Rx1Page, Rx2Page} : p = IF high THEN Rx2Page ELSE Rx1Page
  OBVIOUS
<1>2. PICK index \in 0 .. 255 : index = Closest(p, gain, bad)
  BY ClosestIsByte
<1>3. PICK sets \in {HighSets(index), LowSets(index)} :
             Begin(gain, p, bad, sets, saves)
  BY <1>1, <1>2 DEF SetRxGain
<1> HIDE DEF saves
<1>4. /\ PageInv' /\ reg' \in [Outs -> 0 .. 255] /\ job' = NoJob
      /\ call' = [gain |-> gain, sets |-> sets, saves |-> saves, table |-> p,
                  misread |-> bad # Blank]
      /\ UNCHANGED <<word, reg>>
  BY <1>3, BeginStep
<1>5. ASSUME bad = Blank, Meets(p) PROVE Floor(index, p, gain)
  <2>1. /\ gain \in word[Rx1Page][Last] .. word[Rx2Page][First]
        /\ high <=> gain > word[Rx1Page][First]
    BY <1>5, Offsets, Places DEF SetRxGain, GetFromEeprom
  <2>2. p \in PageSet /\ Rx1Page \in PageSet /\ Rx2Page \in PageSet
    BY <1>1, DsaAssumption
  <2>3. /\ word[p] \in [WordOffs -> Int] /\ word[Rx1Page] \in [WordOffs -> Int]
        /\ word[Rx2Page] \in [WordOffs -> Int] /\ First \in WordOffs /\ Last \in WordOffs
    BY <2>2, Offsets, Places DEF IInv, PageInv, Shapes
  <2>4. /\ word[Rx1Page][Last] \in Int /\ word[Rx2Page][First] \in Int
        /\ word[Rx1Page][First] \in Int /\ word[Rx2Page][Last] \in Int
    BY <2>3
  <2>5. gain \in Int /\ word[Rx1Page][Last] <= gain
    BY <2>1, <2>4
  <2>6. word[p][Last] <= gain
    <3>1. CASE high
      <4>1. p = Rx2Page /\ gain > word[Rx1Page][First]
        BY <3>1, <1>1, <2>1
      <4>2. word[Rx2Page][Last] <= word[Rx1Page][First]
        BY <4>1, <1>5 DEF Meets
      <4> QED
        BY <4>1, <4>2, <2>4, <2>5
    <3>2. CASE ~high
      BY <3>2, <1>1, <2>5
    <3> QED
      BY <3>1, <3>2
  <2> QED
    BY <2>3, <2>5, <2>6, <1>2, <1>5, ClosestIsFloor
<1>6. word' = word
  BY <1>4
<1>7. /\ Floor(index, p, gain) => Floor(index, p, gain)'
      /\ Meets(p)' => Meets(p)
  BY <1>6 DEF Floor, Falls, Meets
<1>8. call'.sets = sets /\ call'.table = p /\ call'.gain = gain
  BY <1>4
<1>9. ~call'.misread => bad = Blank
  BY <1>4
<1>10. (~call'.misread /\ Meets(call.table)') => Floor(index, call.table, call.gain)'
  BY <1>5, <1>7, <1>8, <1>9
<1>11. Underway'
  BY <1>1, <1>2, <1>3, <1>8, <1>10 DEF Underway, HighSets, LowSets, Put
<1>12. GainInv'
  BY <1>4, <1>11 DEF GainInv
<1> QED
  BY <1>4, <1>12 DEF IInv

(* The gain under way is not touched by what leaves the words alone.       *)
LEMMA FloorStays ==
  ASSUME UNCHANGED word, NEW index, NEW p, NEW gain
  PROVE  (Floor(index, p, gain)' <=> Floor(index, p, gain)) /\ (Meets(p)' <=> Meets(p))
BY DEF Floor, Falls, Meets

(* What a write of one of the settings leaves to write.                    *)
LEMMA LeftToWrite ==
  ASSUME NEW index
  PROVE  /\ Tail(<<Put("tx", index)>>) = <<>> /\ Head(<<Put("tx", index)>>) = Put("tx", index)
         /\ Tail(<<Put("rx1", index)>>) = <<>> /\ Head(<<Put("rx1", index)>>) = Put("rx1", index)
         /\ Tail(<<Put("rx2", index)>>) = <<>> /\ Head(<<Put("rx2", index)>>) = Put("rx2", index)
         /\ Tail(HighSets(index)) = <<Put("rx2", index)>> /\ Head(HighSets(index)) = Put("rx1", 0)
         /\ Tail(LowSets(index)) = <<Put("rx1", index)>>
         /\ Head(LowSets(index)) = Put("rx2", DsaMax * 2)
<1>1. \A a : Tail(<<a>>) = <<>> /\ Head(<<a>>) = a
  OBVIOUS
<1>2. \A a, b : Tail(<<a, b>>) = <<b>> /\ Head(<<a, b>>) = a
  OBVIOUS
<1> QED
  BY <1>1, <1>2 DEF HighSets, LowSets

(* A register is written: from a setting of the receiver with one level at *)
(* its end the first write goes to the other end's setting.                *)
LEMMA WriteRegStep ==
  ASSUME IInv, WriteReg
  PROVE  IInv'
<1>1. PICK index \in 0 .. 255 :
        /\ (~call.misread /\ Meets(call.table)) => Floor(index, call.table, call.gain)
        /\ \/ call.table = TxPage /\ call.sets = <<Put("tx", index)>>
           \/ call.table \in {Rx1Page, Rx2Page} /\ call.sets \in {HighSets(index), LowSets(index)}
           \/ call.table \in {Rx1Page, Rx2Page} /\ call.sets = <<Put("rx2", index)>> /\ reg["rx1"] = 0
           \/ /\ call.table \in {Rx1Page, Rx2Page}
              /\ call.sets = <<Put("rx1", index)>> /\ reg["rx2"] = DsaMax * 2
  BY DEF WriteReg, IInv, GainInv, Underway
<1>2. /\ UNCHANGED <<word, crc, cache, frame, job, saved, faults>>
      /\ reg' = [reg EXCEPT ![Head(call.sets).out] = Head(call.sets).idx]
      /\ call.sets # <<>>
  BY DEF WriteReg, pageVars
<1>3. PageInv'
  BY <1>2, PagesAlone DEF IInv, PageInv, Shapes
<1>4. call' = [gain |-> call.gain, sets |-> Tail(call.sets), saves |-> call.saves, table |-> call.table,
               misread |-> call.misread]
  BY DEF WriteReg, IInv, GainInv
<1>5. DsaMax * 2 \in 0 .. 255 /\ 0 \in 0 .. 255
  BY DsaAssumption
<1>6. \E o \in Outs, i \in 0 .. 255 : Head(call.sets) = Put(o, i)
  <2>1. {"tx", "rx1", "rx2"} \subseteq Outs
    BY DEF Outs
  <2>2. Head(call.sets) \in {Put("tx", index), Put("rx1", index), Put("rx2", index),
                             Put("rx1", 0), Put("rx2", DsaMax * 2)}
    BY <1>1, LeftToWrite
  <2> QED
    BY <1>5, <2>1, <2>2
<1>7. reg' \in [Outs -> 0 .. 255]
  <2>1. PICK o \in Outs, i \in 0 .. 255 : Head(call.sets) = Put(o, i)
    BY <1>6
  <2>2. Head(call.sets).out = o /\ Head(call.sets).idx = i
    BY <2>1 DEF Put
  <2>3. reg \in [Outs -> 0 .. 255] /\ reg' = [reg EXCEPT ![o] = i]
    BY <1>2, <2>2 DEF IInv, GainInv
  <2> QED
    BY <2>3
<1>8. UNCHANGED <<call.table, call.gain, call.misread>> /\ call'.sets = Tail(call.sets)
  BY <1>4
<1>9. (~call'.misread /\ Meets(call.table)') => Floor(index, call.table, call.gain)'
  BY <1>1, <1>2, <1>8, FloorStays
<1>10. ASSUME call.sets \in {<<Put("tx", index)>>, <<Put("rx1", index)>>, <<Put("rx2", index)>>}
       PROVE  Underway'
  <2>1. call'.sets = <<>>
    BY <1>8, <1>10, LeftToWrite
  <2> QED
    BY <2>1 DEF Underway
<1>11. ASSUME call.table \in {Rx1Page, Rx2Page} /\ call.sets = HighSets(index)
       PROVE  Underway'
  <2>1. call'.sets = <<Put("rx2", index)>> /\ reg'["rx1"] = 0
    BY <1>2, <1>8, <1>11, LeftToWrite DEF Put, IInv, GainInv, Outs
  <2> QED
    BY <2>1, <1>8, <1>9, <1>11 DEF Underway
<1>12. ASSUME call.table \in {Rx1Page, Rx2Page} /\ call.sets = LowSets(index)
       PROVE  Underway'
  <2>1. call'.sets = <<Put("rx1", index)>> /\ reg'["rx2"] = DsaMax * 2
    BY <1>2, <1>8, <1>12, LeftToWrite DEF Put, IInv, GainInv, Outs
  <2> QED
    BY <2>1, <1>8, <1>9, <1>12 DEF Underway
<1>13. Underway'
  BY <1>1, <1>10, <1>11, <1>12
<1>14. call # NoCall
  BY <1>2 DEF NoCall
<1>15. GainInv'
  BY <1>2, <1>4, <1>7, <1>13, <1>14 DEF GainInv, IInv
<1> QED
  BY <1>3, <1>15 DEF IInv

LEMMA SaveDsaStep ==
  ASSUME IInv, NEW ok \in BOOLEAN, SaveDsa(ok)
  PROVE  IInv'
<1>1. faults' \in 0 .. MaxFault
  <2>1. MaxFault \in Nat /\ faults \in 0 .. MaxFault
    BY WordsAssumption DEF IInv, PageInv, Shapes
  <2> QED
    BY <2>1 DEF SaveDsa
<1>2. UNCHANGED <<word, crc, cache, frame, job, saved, reg>>
  BY DEF SaveDsa
<1>3. PageInv'
  BY <1>1, <1>2, PagesAlone DEF IInv
<1>4. PICK left : call' = IF left = <<>> THEN NoCall ELSE [call EXCEPT !.saves = left]
  BY DEF SaveDsa
<1>5. call.sets = <<>> /\ job = NoJob
  BY DEF SaveDsa, IInv, GainInv, NoCall
<1>6. CASE call' = NoCall
  BY <1>2, <1>3, <1>6 DEF IInv, GainInv, Underway, NoCall
<1>7. CASE call' = [call EXCEPT !.saves = left]
  <2>1. call' = [gain |-> call.gain, sets |-> <<>>, saves |-> left, table |-> call.table,
                 misread |-> call.misread]
    BY <1>5, <1>7 DEF IInv, GainInv
  <2>2. Underway'
    BY <2>1 DEF Underway
  <2> QED
    BY <2>1, <2>2, <1>2, <1>3, <1>5 DEF IInv, GainInv
<1> QED
  BY <1>4, <1>6, <1>7

LEMMA RestartStep ==
  ASSUME IInv, Restart
  PROVE  IInv'
<1>1. PageInv'
  BY PowerCutStep DEF IInv, Restart
<1>2. call' = NoCall
  BY DEF Restart
<1>3. reg' \in [Outs -> 0 .. 255]
  BY DsaAssumption DEF Restart
<1>4. Underway'
  BY <1>2 DEF Underway, NoCall
<1>5. GainInv'
  BY <1>2, <1>3, <1>4 DEF GainInv, NoCall
<1> QED
  BY <1>1, <1>5 DEF IInv

LEMMA InvStart == Init => IInv
<1> SUFFICES ASSUME Init PROVE IInv
  OBVIOUS
<1>1. PageInv
  BY PagesStart DEF Init
<1>2. call = NoCall /\ reg \in [Outs -> 0 .. 255]
  BY DsaAssumption DEF Init
<1>3. Underway
  BY <1>2 DEF Underway, NoCall
<1>4. GainInv
  BY <1>2, <1>3 DEF GainInv, NoCall
<1> QED
  BY <1>1, <1>4 DEF IInv

LEMMA InvStep == IInv /\ [Next]_vars => IInv'
<1> SUFFICES ASSUME IInv, [Next]_vars PROVE IInv'
  OBVIOUS
<1>1. CASE call = NoCall /\ PagesNext /\ UNCHANGED gainVars
  <2>1. PageInv'
    BY <1>1, PagesStep DEF IInv
  <2>2. call' = NoCall /\ UNCHANGED reg
    BY <1>1 DEF gainVars
  <2>3. Underway'
    BY <2>2 DEF Underway, NoCall
  <2>4. GainInv'
    BY <2>2, <2>3 DEF GainInv, NoCall, IInv
  <2> QED
    BY <2>1, <2>4 DEF IInv
<1>2. CASE \E gain \in Gains, bad \in {Blank} \cup First .. Last : SetTxGain(gain, bad)
  BY <1>2, TxStep
<1>3. CASE \E gain \in Gains, bad \in {Blank} \cup First .. Last : SetRxGain(gain, bad)
  BY <1>3, RxStep
<1>4. CASE WriteReg
  BY <1>4, WriteRegStep
<1>5. CASE \E ok \in BOOLEAN : SaveDsa(ok)
  BY <1>5, SaveDsaStep
<1>6. CASE Restart
  BY <1>6, RestartStep
<1>7. CASE UNCHANGED vars
  <2>1. UNCHANGED <<word, crc, cache, frame, job, saved, faults, reg, call>>
    BY <1>7 DEF vars, pageVars, gainVars
  <2>2. PageInv'
    BY <2>1, PagesAlone DEF IInv, PageInv, Shapes
  <2>3. Underway'
    BY <2>1, FloorStays DEF IInv, GainInv, Underway
  <2>4. GainInv'
    BY <2>1, <2>3 DEF IInv, GainInv
  <2> QED
    BY <2>2, <2>4 DEF IInv
<1> QED
  BY <1>1, <1>2, <1>3, <1>4, <1>5, <1>6, <1>7 DEF Next

-----------------------------------------------------------------------------
(* The inductive invariant holds in every reachable state, for pages,      *)
(* tables and gains of any number and content.                             *)
THEOREM Invariance == Spec => []IInv
BY InvStart, InvStep, PTL DEF Spec

(* A copy of a page in RAM that is valid was saved as such, whatever       *)
(* writes failed and wherever the power was cut: freq_off_pages_init takes *)
(* nothing else.                                                           *)
THEOREM ValidWasSaved == Spec => []LoadedWasSaved
<1>1. IInv => LoadedWasSaved
  BY DEF IInv, PageInv
<1> QED
  BY <1>1, Invariance, PTL

(* The index on its way to the FPGA is that of the highest gain not above  *)
(* the one asked for, in tables of any such length: the binary searches of *)
(* set_trx_gain.c are correct.                                             *)
THEOREM GainFound == Spec => []GainIsFloor
<1>1. IInv => TypeOK
  BY DEF IInv, PageInv, GainInv, Shapes, TypeOK
<1>2. ASSUME IInv, call.sets # <<>>, ~call.misread, Meets(call.table)
      PROVE  Floor(call.sets[Len(call.sets)].idx, call.table, call.gain)
  <2>1. PICK index \in 0 .. 255 :
          /\ Floor(index, call.table, call.gain)
          /\ call.sets \in {<<Put("tx", index)>>, <<Put("rx1", index)>>, <<Put("rx2", index)>>,
                            HighSets(index), LowSets(index)}
    BY <1>2 DEF IInv, GainInv, Underway
  <2>2. call.sets[Len(call.sets)].idx = index
    <3>1. \A a : <<a>>[Len(<<a>>)] = a
      OBVIOUS
    <3>2. \A a, b : <<a, b>>[Len(<<a, b>>)] = b
      OBVIOUS
    <3>3. CASE \E o \in Outs : call.sets = <<Put(o, index)>>
      BY <3>1, <3>3 DEF Put
    <3>4. CASE \E a : \E o \in Outs : call.sets = <<a, Put(o, index)>>
      BY <3>2, <3>4 DEF Put
    <3> QED
      BY <2>1, <3>3, <3>4 DEF HighSets, LowSets, Outs
  <2> QED
    BY <2>1, <2>2
<1>3. IInv => GainIsFloor
  BY <1>1, <1>2 DEF GainIsFloor, Floor
<1> QED
  BY <1>3, Invariance, PTL

(* A command for the receiver never leaves the settings with one level at  *)
(* its end, not between its two writes either, and ends in one.            *)
THEOREM LevelsKeepAnEnd == Spec => OneLevelAtEnd
<1> DEFINE Kept == (call.sets # <<>> /\ call' # NoCall) =>
                     /\ AtEnd => AtEnd'
                     /\ (call.table # TxPage /\ Len(call.sets) = 1) => AtEnd'
<1>1. ASSUME IInv, Next, call.sets # <<>>, call' # NoCall PROVE WriteReg
  <2>1. call # NoCall
    BY <1>1 DEF NoCall
  <2> QED
    BY <1>1, <2>1 DEF Next, SetTxGain, SetRxGain, Begin, SaveDsa, Restart
<1>2. ASSUME IInv, WriteReg PROVE Kept
  <2>1. PICK index \in 0 .. 255 :
          \/ call.table = TxPage /\ call.sets = <<Put("tx", index)>>
          \/ call.sets \in {HighSets(index), LowSets(index)}
          \/ call.sets = <<Put("rx2", index)>> /\ reg["rx1"] = 0
          \/ call.sets = <<Put("rx1", index)>> /\ reg["rx2"] = DsaMax * 2
    BY <1>2 DEF WriteReg, IInv, GainInv, Underway
  <2>2. reg' = [reg EXCEPT ![Head(call.sets).out] = Head(call.sets).idx] /\ reg \in [Outs -> 0 .. 255]
    BY <1>2 DEF WriteReg, IInv, GainInv
  <2>3. CASE call.table = TxPage /\ call.sets = <<Put("tx", index)>>
    <3>1. reg'["rx1"] = reg["rx1"] /\ reg'["rx2"] = reg["rx2"]
      BY <2>2, <2>3, LeftToWrite DEF Put, Outs
    <3> QED
      BY <3>1, <2>3 DEF AtEnd
  <2>4. CASE call.sets = HighSets(index)
    <3>1. reg'["rx1"] = 0
      BY <2>2, <2>4, LeftToWrite DEF Put, Outs
    <3> QED
      BY <3>1 DEF AtEnd
  <2>5. CASE call.sets = LowSets(index)
    <3>1. reg'["rx2"] = DsaMax * 2
      BY <2>2, <2>5, LeftToWrite DEF Put, Outs
    <3> QED
      BY <3>1 DEF AtEnd
  <2>6. CASE call.sets = <<Put("rx2", index)>> /\ reg["rx1"] = 0
    <3>1. reg'["rx1"] = 0
      BY <2>2, <2>6, LeftToWrite DEF Put, Outs
    <3> QED
      BY <3>1 DEF AtEnd
  <2>7. CASE call.sets = <<Put("rx1", index)>> /\ reg["rx2"] = DsaMax * 2
    <3>1. reg'["rx2"] = DsaMax * 2
      BY <2>2, <2>7, LeftToWrite DEF Put, Outs
    <3> QED
      BY <3>1 DEF AtEnd
  <2> QED
    BY <2>1, <2>3, <2>4, <2>5, <2>6, <2>7
<1> HIDE DEF Kept
<1>3. IInv /\ [Next]_vars => [Kept]_vars
  <2>1. ASSUME IInv, Next PROVE Kept
    <3>1. CASE call.sets # <<>> /\ call' # NoCall
      BY <2>1, <3>1, <1>1, <1>2
    <3>2. CASE ~(call.sets # <<>> /\ call' # NoCall)
      BY <3>2 DEF Kept
    <3> QED
      BY <3>1, <3>2
  <2> QED
    BY <2>1
<1> USE DEF Kept
<1> QED
  BY <1>3, Invariance, PTL DEF Spec, OneLevelAtEnd

=============================================================================
